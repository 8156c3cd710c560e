-------------------------- MODULE AsrProcessProofs --------------------------
(* What AsrProcess says of the socket path, of how often a model is loaded   *)
(* and of /ready, proved for any instances, threads, adapters and bounds.    *)
EXTENDS AsrProcess, TLAPS, FiniteSetTheorems

\* The calls of an instance that are making a model, and how many models may
\* have been made or be in the making.
Loading(s) == {t \in Threads : call[s][t].at = "loading"}
LoadsAllowed(s) == IF setting[s].backend.oneWorker THEN 1 ELSE Cardinality(Threads)

\* Only a raw UDS instance has a socket, and none before its first start.
SocketInv ==
    /\ \A s \in Servers : ~setting[s].rawUds => socket[s] = Nothing
    /\ \A s \in Servers : phase[s] \in {"preloading", "binding"} => starts > 0

\* Nothing calls the backend before the instance serves.
BeforeServing(s) ==
    /\ phase[s] \in {"preloading", "binding"} => \A t \in Threads : call[s][t].at = "idle"
    /\ phase[s] = "preloading" => ~error[s] /\ loads[s] = 0

\* A model is used when there is one; a one-thread executor has one call inside,
\* which makes a model only if there is none.
UseInv(s) ==
    /\ \A t \in Threads : call[s][t].at = "using" => loads[s] > 0
    /\ last[s] \in {"decoded", "opened"} => loads[s] > 0
    /\ setting[s].backend.oneWorker =>
           \A t \in Threads :
               /\ call[s][t].at \in {"loading", "using"} => executor[s] = t
               /\ call[s][t].at = "loading" => loads[s] = 0

CountInv(s) == loads[s] + Cardinality(Loading(s)) <= LoadsAllowed(s)

\* An error that outlives the making of a model was found by the last call, or
\* is one no call clears, or came late, or the first call is still at work.
ErrorInv(s) ==
    error[s] /\ loads[s] > 0 =>
        \/ last[s] \in {"failed", "opened"}
        \/ late[s]
        \/ last[s] = "none" /\ \E t \in Threads : call[s][t].at = "using"

ModelInv(s) == BeforeServing(s) /\ UseInv(s) /\ CountInv(s) /\ ErrorInv(s)

IInv == TypeOK /\ SocketInv /\ PathReachable /\ \A s \in Servers : ModelInv(s)
-----------------------------------------------------------------------------
(* Facts about sets and records *)

LEMMA ThreadsFinite == IsFiniteSet(Threads) /\ Cardinality(Threads) \in Nat /\ Cardinality(Threads) >= 1
<1>1. IsFiniteSet(Threads)
  BY ProcessAssumption, FS_Singleton, FS_Union DEF Threads
<1>2. IsFiniteSet({Loop}) /\ Cardinality({Loop}) = 1
  BY FS_Singleton
<1>3. Cardinality({Loop}) <= Cardinality(Threads)
  BY <1>1, FS_Subset DEF Threads
<1>4. Cardinality(Threads) \in Nat
  BY <1>1, FS_CardinalityType
<1> QED
  BY <1>1, <1>2, <1>3, <1>4

\* A set of calls that make a model is finite and counts no more than threads.
LEMMA LoadingFinite ==
  ASSUME NEW L, L \subseteq Threads
  PROVE  IsFiniteSet(L) /\ Cardinality(L) \in Nat /\ Cardinality(L) <= Cardinality(Threads)
BY ThreadsFinite, FS_Subset, FS_CardinalityType

Places == {"idle", "entered", "loading", "using", "unavailable", "exception"}

LEMMA CallMoves ==
  ASSUME NEW c \in Call, NEW a \in Places
  PROVE  [c EXCEPT !.at = a] \in Call /\ [c EXCEPT !.at = a].at = a
         /\ [c EXCEPT !.at = a].kind = c.kind
BY DEF Call, Places

LEMMA IdleIsCall == Idle \in Call /\ Idle.at = "idle"
BY DEF Idle, Call

\* The step of one thread, for one server, of a function of functions.
LEMMA CallUpdated ==
  ASSUME NEW s \in Servers, NEW t \in Threads, NEW c \in Call,
         call \in [Servers -> [Threads -> Call]],
         call' = [call EXCEPT ![s][t] = c]
  PROVE  /\ call' \in [Servers -> [Threads -> Call]]
         /\ call'[s][t] = c
         /\ \A u \in Threads : u # t => call'[s][u] = call[s][u]
         /\ \A o \in Servers : o # s => call'[o] = call[o]
BY Zenon

LEMMA GoesUpdates ==
  ASSUME NEW s \in Servers, NEW t \in Threads, NEW a \in Places,
         call \in [Servers -> [Threads -> Call]], Goes(s, t, a)
  PROVE  /\ call' = [call EXCEPT ![s][t] = [call[s][t] EXCEPT !.at = a]]
         /\ call' \in [Servers -> [Threads -> Call]]
         /\ call'[s][t].at = a
         /\ \A u \in Threads : u # t => call'[s][u] = call[s][u]
         /\ \A o \in Servers : o # s => call'[o] = call[o]
<1> DEFINE c == [call[s][t] EXCEPT !.at = a]
<1>1. call[s][t] \in Call
  OBVIOUS
<1>2. c \in Call /\ c.at = a
  BY <1>1, CallMoves
<1>3. call' = [call EXCEPT ![s][t] = c]
  BY DEF Goes
<1> HIDE DEF c
<1>4. /\ call' \in [Servers -> [Threads -> Call]]
      /\ call'[s][t] = c
      /\ \A u \in Threads : u # t => call'[s][u] = call[s][u]
      /\ \A o \in Servers : o # s => call'[o] = call[o]
  BY <1>2, <1>3, CallUpdated
<1> QED
  BY <1>2, <1>3, <1>4 DEF c
-----------------------------------------------------------------------------
(* Types *)

LEMMA TypeInit == Init => TypeOK
<1> SUFFICES ASSUME Init PROVE TypeOK
  OBVIOUS
<1> USE DEF Init
<1>1. call \in [Servers -> [Threads -> Call]]
  BY IdleIsCall
<1>2. setting \in [Servers -> Settings] /\ starts \in 0..MaxStarts /\ path \in Socket \cup {Nothing, File}
  BY ProcessAssumption
<1>3. /\ phase \in [Servers -> {"down", "preloading", "binding", "serving"}]
      /\ socket \in [Servers -> Socket \cup {Nothing}]
      /\ error \in [Servers -> BOOLEAN] /\ loads \in [Servers -> Nat]
      /\ executor \in [Servers -> Threads \cup {Nothing}] /\ calls \in [Servers -> Nat]
  OBVIOUS
<1>4. /\ disturbed \in [Servers -> BOOLEAN] /\ crashed \subseteq Socket
      /\ last \in [Servers -> {"none", "failed", "decoded", "opened"}]
      /\ late \in [Servers -> BOOLEAN]
  OBVIOUS
<1> QED
  BY <1>1, <1>2, <1>3, <1>4 DEF TypeOK

LEMMA TypeLifespan ==
  ASSUME TypeOK, SocketInv, NEW s \in Servers, Lifespan(s)
  PROVE  TypeOK'
<1> USE DEF TypeOK
<1>1. CASE Starts(s)
  <2> USE <1>1 DEF Starts, Reset, pathVars
  <2>1. call' \in [Servers -> [Threads -> Call]]
    BY IdleIsCall
  <2>2. starts' \in 0..MaxStarts
    BY ProcessAssumption
  <2>3. /\ phase' \in [Servers -> {"down", "preloading", "binding", "serving"}]
        /\ error' \in [Servers -> BOOLEAN] /\ loads' \in [Servers -> Nat]
        /\ executor' \in [Servers -> Threads \cup {Nothing}] /\ calls' \in [Servers -> Nat]
    OBVIOUS
  <2>4. last' \in [Servers -> {"none", "failed", "decoded", "opened"}] /\ late' \in [Servers -> BOOLEAN]
    OBVIOUS
  <2> QED
    BY <2>1, <2>2, <2>3, <2>4
<1>2. CASE Preloads(s)
  BY <1>2 DEF Preloads, pathVars
<1>3. CASE PreloadFails(s)
  BY <1>3 DEF PreloadFails, pathVars
<1>4. CASE Binds(s)
  <2> USE <1>4 DEF Binds, modelVars
  <2>1. [of |-> s, start |-> starts] \in Socket
    BY ProcessAssumption DEF SocketInv, Socket
  <2>2. path' \in Socket \cup {Nothing, File} /\ socket' \in [Servers -> Socket \cup {Nothing}]
    BY <2>1
  <2>3. disturbed' \in [Servers -> BOOLEAN]
    BY DEF OthersDisturbed
  <2>4. phase' = [phase EXCEPT ![s] = "serving"] \/ phase' = [phase EXCEPT ![s] = "down"]
    BY Zenon
  <2>5. phase' \in [Servers -> {"down", "preloading", "binding", "serving"}]
    BY <2>4
  <2> QED
    BY <2>2, <2>3, <2>5
<1>5. CASE Stops(s)
  <2> USE <1>5 DEF Stops, modelVars
  <2>1. path' \in Socket \cup {Nothing, File} /\ disturbed' \in [Servers -> BOOLEAN]
    BY DEF Unlinked, OthersDisturbed
  <2>2. socket' \in [Servers -> Socket \cup {Nothing}]
        /\ phase' \in [Servers -> {"down", "preloading", "binding", "serving"}]
    OBVIOUS
  <2> QED
    BY <2>1, <2>2
<1>6. CASE Crashes(s)
  <2> USE <1>6 DEF Crashes, modelVars
  <2>1. crashed' \subseteq Socket
    OBVIOUS
  <2>2. socket' \in [Servers -> Socket \cup {Nothing}]
        /\ phase' \in [Servers -> {"down", "preloading", "binding", "serving"}]
    OBVIOUS
  <2> QED
    BY <2>1, <2>2
<1> QED
  BY <1>1, <1>2, <1>3, <1>4, <1>5, <1>6 DEF Lifespan

\* What a step of a call may do to the variables of its server.
LEMMA TypeCall ==
  ASSUME TypeOK, NEW s \in Servers, NEW t \in Threads, CallStep(s, t)
  PROVE  TypeOK'
<1>0. call \in [Servers -> [Threads -> Call]]
  BY DEF TypeOK
<1> USE DEF pathVars
<1>1. CASE Begins(s, t)
  <2>1. PICK kind \in {"http", "decode", "open"} :
            call' = [call EXCEPT ![s][t] = [at |-> "entered", kind |-> kind]]
    BY <1>1 DEF Begins
  <2>2. [at |-> "entered", kind |-> kind] \in Call
    BY DEF Call
  <2>3. call' \in [Servers -> [Threads -> Call]]
    BY <1>0, <2>1, <2>2, CallUpdated
  <2>4. calls' \in [Servers -> Nat]
    BY <1>1 DEF Begins, TypeOK
  <2> QED
    BY <1>1, <2>3, <2>4 DEF Begins, TypeOK
<1>2. CASE Refused(s, t)
  <2>1. call' \in [Servers -> [Threads -> Call]]
    BY <1>0, <1>2, IdleIsCall, CallUpdated DEF Refused
  <2> QED
    BY <1>2, <2>1 DEF Refused, TypeOK
<1>3. CASE Looks(s, t)
  <2>1. call' \in [Servers -> [Threads -> Call]]
    BY <1>0, <1>3, GoesUpdates DEF Looks, Places
  <2>2. executor' \in [Servers -> Threads \cup {Nothing}]
    BY <1>3 DEF Looks, Taken, TypeOK
  <2> QED
    BY <1>3, <2>1, <2>2 DEF Looks, TypeOK
<1>4. CASE Loads(s, t)
  <2>1. call' \in [Servers -> [Threads -> Call]]
    BY <1>0, <1>4, GoesUpdates DEF Loads, Places
  <2>2. loads' \in [Servers -> Nat]
    BY <1>4 DEF Loads, TypeOK
  <2> QED
    BY <1>4, <2>1, <2>2 DEF Loads, TypeOK
<1>5. CASE Raises(s, t)
  <2>1. PICK failure \in {"unavailable", "exception"} : Goes(s, t, failure)
    <3>1. setting[s].backend.useRaises \subseteq {"unavailable", "exception"}
      BY ProcessAssumption DEF TypeOK, Setting, Adapter
    <3> QED
      BY <1>5, <3>1 DEF Raises
  <2>2. call' \in [Servers -> [Threads -> Call]]
    BY <1>0, <2>1, GoesUpdates DEF Places
  <2>3. executor' \in [Servers -> Threads \cup {Nothing}]
        /\ last' \in [Servers -> {"none", "failed", "decoded", "opened"}]
    BY <1>5 DEF Raises, Freed, TypeOK
  <2> QED
    BY <1>5, <2>2, <2>3 DEF Raises, TypeOK
<1>6. CASE Returns(s, t)
  <2>1. call' \in [Servers -> [Threads -> Call]]
    BY <1>0, <1>6, IdleIsCall, CallUpdated DEF Returns
  <2>2. executor' \in [Servers -> Threads \cup {Nothing}]
        /\ last' \in [Servers -> {"none", "failed", "decoded", "opened"}]
    BY <1>6 DEF Returns, Freed, TypeOK
  <2>3. error' \in [Servers -> BOOLEAN] /\ late' \in [Servers -> BOOLEAN]
    BY <1>6, Zenon DEF Returns, Clears, TypeOK
  <2> QED
    BY <1>6, <2>1, <2>2, <2>3 DEF Returns, TypeOK
<1>7. CASE Records(s, t)
  <2>1. call' \in [Servers -> [Threads -> Call]]
    BY <1>0, <1>7, IdleIsCall, CallUpdated DEF Records
  <2>2. error' \in [Servers -> BOOLEAN] /\ late' \in [Servers -> BOOLEAN]
    BY <1>7, Zenon DEF Records, Degrades, TypeOK
  <2> QED
    BY <1>7, <2>1, <2>2 DEF Records, TypeOK
<1> QED
  BY <1>1, <1>2, <1>3, <1>4, <1>5, <1>6, <1>7 DEF CallStep
-----------------------------------------------------------------------------
(* The socket path *)

LEMMA PathStep ==
  ASSUME TypeOK, SocketInv, PathReachable, NEW s \in Servers, Lifespan(s)
  PROVE  SocketInv' /\ PathReachable'
<1> USE DEF TypeOK, SocketInv, PathReachable
<1>0. Nothing \notin Socket
  BY ProcessAssumption
<1>1. CASE Starts(s)
  BY <1>1 DEF Starts
<1>2. CASE Preloads(s)
  BY <1>2 DEF Preloads, pathVars
<1>3. CASE PreloadFails(s)
  BY <1>3 DEF PreloadFails, pathVars
<1>4. CASE Binds(s)
  <2> USE <1>4 DEF Binds
  <2>1. CASE ~setting[s].rawUds
    BY <2>1
  <2>2. CASE setting[s].rawUds /\ Prepared(s)
    <3>1. path'.of = s /\ path' = socket'[s]
      BY <2>2
    <3>2. \A o \in Servers : o # s => disturbed'[o] /\ socket'[o] = socket[o]
      BY <2>2 DEF OthersDisturbed
    <3>3. PathReachable'
      BY <3>1, <3>2
    <3>4. SocketInv'
      BY <2>2, <3>2
    <3> QED
      BY <3>3, <3>4
  <2>3. CASE setting[s].rawUds /\ ~Prepared(s)
    BY <2>3
  <2> QED
    BY <2>1, <2>2, <2>3
<1>5. CASE Stops(s)
  <2> USE <1>5 DEF Stops
  <2>1. CASE setting[s].rawUds
    <3>1. path' = Nothing
      BY <2>1 DEF Unlinked
    <3>2. \A o \in Servers : o # s => disturbed'[o]
      BY <2>1 DEF OthersDisturbed
    <3> QED
      BY <1>0, <3>1, <3>2
  <2>2. CASE ~setting[s].rawUds
    <3>1. \A o \in Servers : socket'[o] = socket[o]
      BY <2>2
    <3> QED
      BY <2>2, <3>1
  <2> QED
    BY <2>1, <2>2
<1>6. CASE Crashes(s)
  <2> USE <1>6 DEF Crashes
  <2>1. \A o \in Servers : o # s => socket'[o] = socket[o] /\ phase'[o] = phase[o]
    OBVIOUS
  <2>2. phase'[s] = "down" /\ socket'[s] = Nothing
    OBVIOUS
  <2>3. path' \in Socket => path' = socket'[path'.of] \/ path' \in crashed'
    <3>1. SUFFICES ASSUME path \in Socket, path = socket[path.of], path \notin crashed
                   PROVE  path = socket'[path.of] \/ path \in crashed'
      OBVIOUS
    <3>2. CASE path.of = s
      BY <1>0, <3>1, <3>2
    <3>3. CASE path.of # s
      BY <2>1, <3>1, <3>3 DEF Socket
    <3> QED
      BY <3>2, <3>3
  <2> QED
    BY <2>1, <2>2, <2>3
<1> QED
  BY <1>1, <1>2, <1>3, <1>4, <1>5, <1>6 DEF Lifespan
-----------------------------------------------------------------------------
(* The model of one instance *)

\* A step leaves the instance o as it is.
Untouched(o) ==
    /\ setting' = setting
    /\ phase'[o] = phase[o] /\ error'[o] = error[o] /\ loads'[o] = loads[o]
    /\ executor'[o] = executor[o] /\ call'[o] = call[o]
    /\ last'[o] = last[o] /\ late'[o] = late[o]

LEMMA UntouchedKeeps ==
  ASSUME NEW o \in Servers, ModelInv(o), Untouched(o)
  PROVE  ModelInv(o)'
<1>1. Loading(o)' = Loading(o)
  BY DEF Loading, Untouched
<1>2. CountInv(o)'
  BY <1>1 DEF ModelInv, CountInv, LoadsAllowed, Untouched
<1>3. BeforeServing(o)' /\ UseInv(o)' /\ ErrorInv(o)'
  BY DEF ModelInv, BeforeServing, UseInv, ErrorInv, Untouched
<1> QED
  BY <1>2, <1>3 DEF ModelInv

LEMMA OthersUntouched ==
  ASSUME TypeOK, NEW s \in Servers, NEW o \in Servers, o # s,
         Lifespan(s) \/ \E t \in Threads : CallStep(s, t)
  PROVE  Untouched(o)
<1> USE DEF TypeOK, Untouched, modelVars, pathVars
<1>1. CASE Lifespan(s)
  <2>1. CASE Starts(s)
    BY <2>1 DEF Starts, Reset
  <2>2. CASE Preloads(s)
    BY <2>2 DEF Preloads
  <2>3. CASE PreloadFails(s)
    BY <2>3 DEF PreloadFails
  <2>4. CASE Binds(s)
    BY <2>4 DEF Binds
  <2>5. CASE Stops(s) \/ Crashes(s)
    BY <2>5 DEF Stops, Crashes
  <2> QED
    BY <1>1, <2>1, <2>2, <2>3, <2>4, <2>5 DEF Lifespan
<1>2. CASE \E t \in Threads : CallStep(s, t)
  <2>0. PICK t \in Threads : CallStep(s, t)
    BY <1>2
  <2>1. CASE Begins(s, t) \/ Refused(s, t)
    BY <2>1 DEF Begins, Refused
  <2>2. CASE Looks(s, t)
    BY <2>2 DEF Looks, Taken, Goes
  <2>3. CASE Loads(s, t)
    BY <2>3 DEF Loads, Goes
  <2>4. CASE Raises(s, t)
    BY <2>4 DEF Raises, Freed, Goes
  <2>5. CASE Returns(s, t)
    BY <2>5 DEF Returns, Freed
  <2>6. CASE Records(s, t)
    BY <2>6 DEF Records
  <2> QED
    BY <2>0, <2>1, <2>2, <2>3, <2>4, <2>5, <2>6 DEF CallStep
<1> QED
  BY <1>1, <1>2

LEMMA AllowedAtLeastOne ==
  ASSUME NEW s \in Servers
  PROVE  LoadsAllowed(s) \in Nat /\ LoadsAllowed(s) >= 1
BY ThreadsFinite DEF LoadsAllowed

LEMMA NobodyLoading ==
  ASSUME NEW s \in Servers, \A t \in Threads : call[s][t].at = "idle"
  PROVE  Loading(s) = {} /\ Cardinality(Loading(s)) = 0
BY FS_EmptySet DEF Loading

LEMMA ModelLifespan ==
  ASSUME TypeOK, NEW s \in Servers, ModelInv(s), Lifespan(s)
  PROVE  ModelInv(s)'
<1> USE DEF TypeOK, modelVars, pathVars
<1>0. LoadsAllowed(s) \in Nat /\ LoadsAllowed(s) >= 1
  BY AllowedAtLeastOne
<1>1. CASE Starts(s)
  <2> USE <1>1 DEF Starts, Reset
  <2>1. \A t \in Threads : call'[s][t].at = "idle"
    BY IdleIsCall
  <2>2. error'[s] = FALSE /\ loads'[s] = 0 /\ last'[s] = "none"
    OBVIOUS
  <2>3. Loading(s)' = {} /\ Cardinality(Loading(s)') = 0
    BY <2>1, FS_EmptySet DEF Loading
  <2>4. CountInv(s)'
    BY <1>0, <2>2, <2>3 DEF CountInv, LoadsAllowed
  <2>5. BeforeServing(s)' /\ UseInv(s)' /\ ErrorInv(s)'
    BY <2>1, <2>2 DEF BeforeServing, UseInv, ErrorInv
  <2> QED
    BY <2>4, <2>5 DEF ModelInv
<1>2. CASE Preloads(s)
  <2> USE <1>2 DEF Preloads
  <2>1. \A t \in Threads : call[s][t].at = "idle"
    BY DEF ModelInv, BeforeServing
  <2>2. Loading(s) = {} /\ Cardinality(Loading(s)) = 0
    BY <2>1, NobodyLoading
  <2>3. Loading(s)' = Loading(s)
    BY DEF Loading
  <2>4. error'[s] = FALSE /\ loads'[s] = 1
    BY DEF ModelInv, BeforeServing
  <2>5. CountInv(s)'
    BY <1>0, <2>2, <2>3, <2>4 DEF CountInv, LoadsAllowed
  <2>6. BeforeServing(s)' /\ UseInv(s)' /\ ErrorInv(s)'
    BY <2>1, <2>4 DEF BeforeServing, UseInv, ErrorInv
  <2> QED
    BY <2>5, <2>6 DEF ModelInv
<1>3. CASE PreloadFails(s)
  <2> USE <1>3 DEF PreloadFails
  <2>1. loads[s] = 0
    BY DEF ModelInv, BeforeServing
  <2>2. CountInv(s)'
    BY DEF ModelInv, CountInv, Loading, LoadsAllowed
  <2>3. BeforeServing(s)' /\ UseInv(s)' /\ ErrorInv(s)'
    BY <2>1 DEF ModelInv, BeforeServing, UseInv, ErrorInv
  <2> QED
    BY <2>2, <2>3 DEF ModelInv
<1>4. CASE Binds(s) \/ Stops(s) \/ Crashes(s)
  <2> USE <1>4 DEF Binds, Stops, Crashes
  <2>1. UNCHANGED <<setting, modelVars>> /\ phase'[s] \in {"serving", "down"}
    OBVIOUS
  <2>2. CountInv(s)'
    BY <2>1 DEF ModelInv, CountInv, Loading, LoadsAllowed
  <2>3. BeforeServing(s)' /\ UseInv(s)' /\ ErrorInv(s)'
    BY <2>1 DEF ModelInv, BeforeServing, UseInv, ErrorInv
  <2> QED
    BY <2>2, <2>3 DEF ModelInv
<1> QED
  BY <1>1, <1>2, <1>3, <1>4 DEF Lifespan

\* Calls that neither begin nor end the making of a model leave the count.
LEMMA CountKept ==
  ASSUME NEW s \in Servers, CountInv(s), setting' = setting, loads'[s] = loads[s],
         \A u \in Threads : call'[s][u].at = "loading" <=> call[s][u].at = "loading"
  PROVE  CountInv(s)'
<1>1. Loading(s)' = Loading(s)
  BY DEF Loading
<1> QED
  BY <1>1 DEF CountInv, LoadsAllowed

LEMMA CountLooks ==
  ASSUME TypeOK, NEW s \in Servers, NEW t \in Threads, ModelInv(s), Looks(s, t)
  PROVE  CountInv(s)'
<1> USE DEF Looks
<1>0. call \in [Servers -> [Threads -> Call]] /\ loads[s] \in Nat
  BY DEF TypeOK
<1>1. CASE loads[s] > 0
  <2>1. Goes(s, t, "using")
    BY <1>1
  <2>2. call'[s][t].at = "using" /\ \A u \in Threads : u # t => call'[s][u] = call[s][u]
    BY <1>0, <2>1, GoesUpdates DEF Places
  <2>3. \A u \in Threads : call'[s][u].at = "loading" <=> call[s][u].at = "loading"
    BY <2>2
  <2> QED
    BY <2>3, CountKept DEF ModelInv
<1>2. CASE loads[s] = 0
  <2>1. Goes(s, t, "loading")
    BY <1>2
  <2>2. call'[s][t].at = "loading" /\ \A u \in Threads : u # t => call'[s][u] = call[s][u]
    BY <1>0, <2>1, GoesUpdates DEF Places
  <2>3. CASE setting[s].backend.oneWorker
    <3>1. executor[s] = Nothing
      BY <2>3 DEF MayEnter
    <3>2. \A u \in Threads : call[s][u].at # "loading"
      BY <2>3, <3>1, ProcessAssumption DEF ModelInv, UseInv, Threads
    <3>3. Loading(s)' = {t}
      BY <2>2, <3>2 DEF Loading
    <3>4. Cardinality(Loading(s)') = 1
      BY <3>3, FS_Singleton
    <3> QED
      BY <1>2, <2>3, <3>4 DEF CountInv, LoadsAllowed
  <2>4. CASE ~setting[s].backend.oneWorker
    <3>1. Loading(s)' \subseteq Threads
      BY DEF Loading
    <3>2. Cardinality(Loading(s)') \in Nat /\ Cardinality(Loading(s)') <= Cardinality(Threads)
      BY <3>1, LoadingFinite
    <3> QED
      BY <1>2, <2>4, <3>2, ThreadsFinite DEF CountInv, LoadsAllowed
  <2> QED
    BY <2>3, <2>4
<1> QED
  BY <1>0, <1>1, <1>2

\* The making of a model has ended: with a model, or without.
LEMMA CountEnds ==
  ASSUME TypeOK, NEW s \in Servers, NEW t \in Threads, CountInv(s), setting' = setting,
         call'[s][t].at # "loading",
         \A u \in Threads : u # t => call'[s][u] = call[s][u],
         \/ loads'[s] = loads[s]
         \/ call[s][t].at = "loading" /\ loads'[s] = loads[s] + 1
  PROVE  CountInv(s)'
<1>0. loads[s] \in Nat /\ LoadsAllowed(s) \in Nat
  BY AllowedAtLeastOne DEF TypeOK
<1>1. Loading(s) \subseteq Threads /\ Loading(s)' = Loading(s) \ {t}
  BY DEF Loading
<1>2. IsFiniteSet(Loading(s)) /\ Cardinality(Loading(s)) \in Nat
  BY <1>1, LoadingFinite
<1>3. Cardinality(Loading(s)') = IF t \in Loading(s) THEN Cardinality(Loading(s)) - 1 ELSE Cardinality(Loading(s))
  BY <1>1, <1>2, FS_RemoveElement
<1>4. call[s][t].at = "loading" => t \in Loading(s)
  BY DEF Loading
<1> QED
  BY <1>0, <1>2, <1>3, <1>4 DEF CountInv, LoadsAllowed

LEMMA ModelCall ==
  ASSUME TypeOK, NEW s \in Servers, NEW t \in Threads, ModelInv(s), CallStep(s, t)
  PROVE  ModelInv(s)'
<1>0. /\ call \in [Servers -> [Threads -> Call]] /\ loads \in [Servers -> Nat]
      /\ error \in [Servers -> BOOLEAN] /\ late \in [Servers -> BOOLEAN]
      /\ executor \in [Servers -> Threads \cup {Nothing}]
      /\ last \in [Servers -> {"none", "failed", "decoded", "opened"}]
  BY DEF TypeOK
<1>a. UseInv(s) /\ CountInv(s) /\ ErrorInv(s)
  BY DEF ModelInv
<1>b. phase[s] = "serving" /\ phase' = phase /\ setting' = setting
  BY DEF CallStep, Begins, Refused, Looks, Loads, Raises, Returns, Records
<1>c. BeforeServing(s)'
  BY <1>b DEF BeforeServing
<1>1. CASE Begins(s, t) \/ Refused(s, t)
  <2>1. PICK c \in Call : c.at \in {"idle", "entered"} /\ call' = [call EXCEPT ![s][t] = c]
    <3>1. CASE Begins(s, t)
      <4>1. PICK kind \in {"http", "decode", "open"} :
                call' = [call EXCEPT ![s][t] = [at |-> "entered", kind |-> kind]]
        BY <3>1 DEF Begins
      <4>2. [at |-> "entered", kind |-> kind] \in Call
        BY DEF Call
      <4> QED
        BY <4>1, <4>2
    <3>2. CASE Refused(s, t)
      BY <3>2, IdleIsCall DEF Refused
    <3> QED
      BY <1>1, <3>1, <3>2
  <2>2. call'[s][t] = c /\ \A u \in Threads : u # t => call'[s][u] = call[s][u]
    BY <1>0, <2>1, CallUpdated
  <2>3. call[s][t].at \in {"idle", "entered"} /\ UNCHANGED <<error, loads, executor, last, late>>
    BY <1>1 DEF Begins, Refused
  <2>4. \A u \in Threads : \A place \in {"loading", "using"} : call'[s][u].at = place <=> call[s][u].at = place
    BY <2>1, <2>2, <2>3
  <2>5. CountInv(s)'
    BY <1>a, <1>b, <2>3, <2>4, CountKept
  <2>6. UseInv(s)'
    BY <1>a, <1>b, <2>3, <2>4 DEF UseInv
  <2>7. ErrorInv(s)'
    BY <1>a, <2>3, <2>4 DEF ErrorInv
  <2> QED
    BY <1>c, <2>5, <2>6, <2>7 DEF ModelInv
<1>2. CASE Looks(s, t)
  <2>1. PICK a \in {"using", "loading"} : Goes(s, t, a) /\ (a = "using" <=> loads[s] > 0)
    BY <1>2 DEF Looks
  <2>2. call'[s][t].at = a /\ \A u \in Threads : u # t => call'[s][u] = call[s][u]
    BY <1>0, <2>1, GoesUpdates DEF Places
  <2>3. UNCHANGED <<error, loads, last, late>> /\ call[s][t].at = "entered"
    BY <1>2 DEF Looks
  <2>4. setting[s].backend.oneWorker => executor'[s] = t /\ executor[s] = Nothing
    BY <1>0, <1>2 DEF Looks, Taken, MayEnter
  <2>5. setting[s].backend.oneWorker => \A u \in Threads : call[s][u].at \notin {"loading", "using"}
    BY <1>a, <2>4, ProcessAssumption DEF UseInv, Threads
  <2>6. loads[s] > 0 \/ loads[s] = 0
    BY <1>0
  <2>7. UseInv(s)'
    BY <1>a, <1>b, <2>1, <2>2, <2>3, <2>4, <2>5, <2>6 DEF UseInv
  <2>8. ErrorInv(s)'
    BY <1>a, <2>2, <2>3 DEF ErrorInv
  <2> QED
    BY <1>c, <1>2, <2>7, <2>8, CountLooks DEF ModelInv
<1>3. CASE Loads(s, t)
  <2>1. Goes(s, t, "using") /\ UNCHANGED <<error, executor, last, late>> /\ call[s][t].at = "loading"
    BY <1>3 DEF Loads
  <2>2. call'[s][t].at = "using" /\ \A u \in Threads : u # t => call'[s][u] = call[s][u]
    BY <1>0, <2>1, GoesUpdates DEF Places
  <2>3. loads'[s] = loads[s] + 1 /\ loads'[s] > 0
    BY <1>0, <1>3 DEF Loads
  <2>4. CountInv(s)'
    BY <1>a, <1>b, <2>1, <2>2, <2>3, CountEnds
  <2>5. setting[s].backend.oneWorker =>
            executor[s] = t /\ \A u \in Threads : u # t => call[s][u].at \notin {"loading", "using"}
    BY <1>a, <2>1 DEF UseInv
  <2>6. UseInv(s)'
    BY <1>a, <1>b, <2>1, <2>2, <2>3, <2>5 DEF UseInv
  <2>7. last[s] \in {"none", "failed", "opened"} \/ loads[s] > 0
    BY <1>0, <1>a DEF UseInv
  <2>8. ErrorInv(s)'
    BY <1>0, <1>a, <2>1, <2>2, <2>7 DEF ErrorInv
  <2> QED
    BY <1>c, <2>4, <2>6, <2>8 DEF ModelInv
<1>4. CASE Raises(s, t)
  <2>0. setting[s].backend.useRaises \subseteq {"unavailable", "exception"}
    BY ProcessAssumption DEF TypeOK, Setting, Adapter
  <2>1. PICK failure \in {"unavailable", "exception"} : Goes(s, t, failure)
    BY <1>4, <2>0 DEF Raises
  <2>2. UNCHANGED <<error, loads, late>> /\ call[s][t].at \in {"loading", "using"} /\ last'[s] = "failed"
    BY <1>0, <1>4 DEF Raises
  <2>3. call'[s][t].at = failure /\ \A u \in Threads : u # t => call'[s][u] = call[s][u]
    BY <1>0, <2>1, GoesUpdates DEF Places
  <2>4. CountInv(s)'
    BY <1>a, <1>b, <2>2, <2>3, CountEnds
  <2>5. setting[s].backend.oneWorker => \A u \in Threads : u # t => call[s][u].at \notin {"loading", "using"}
    BY <1>a, <2>2 DEF UseInv
  <2>6. UseInv(s)'
    BY <1>a, <1>b, <2>2, <2>3, <2>5 DEF UseInv
  <2>7. ErrorInv(s)'
    BY <2>2 DEF ErrorInv
  <2> QED
    BY <1>c, <2>4, <2>6, <2>7 DEF ModelInv
<1>5. CASE Returns(s, t)
  <2>1. UNCHANGED loads /\ call[s][t].at = "using" /\ call' = [call EXCEPT ![s][t] = Idle]
    BY <1>5 DEF Returns
  <2>2. call'[s][t].at = "idle" /\ \A u \in Threads : u # t => call'[s][u] = call[s][u]
    BY <1>0, <2>1, IdleIsCall, CallUpdated
  <2>3. CountInv(s)'
    BY <1>a, <1>b, <2>1, <2>2, CountEnds
  <2>4. setting[s].backend.oneWorker => \A u \in Threads : u # t => call[s][u].at \notin {"loading", "using"}
    BY <1>a, <2>1 DEF UseInv
  <2>5. UseInv(s)'
    BY <1>a, <1>b, <2>1, <2>2, <2>4 DEF UseInv
  <2>6. CASE call[s][t].kind = "open"
    <3>1. last'[s] = "opened"
      BY <1>0, <1>5, <2>6 DEF Returns
    <3> QED
      BY <1>c, <2>3, <2>5, <3>1 DEF ModelInv, ErrorInv
  <2>7. CASE call[s][t].kind # "open"
    <3>1. error'[s] = FALSE
      BY <1>0, <1>5, <2>7, Zenon DEF Returns, Clears
    <3> QED
      BY <1>c, <2>3, <2>5, <3>1 DEF ModelInv, ErrorInv
  <2> QED
    BY <2>6, <2>7
<1>6. CASE Records(s, t)
  <2>1. /\ UNCHANGED <<loads, executor, last>> /\ call[s][t].at \in {"unavailable", "exception"}
        /\ call' = [call EXCEPT ![s][t] = Idle]
    BY <1>6 DEF Records
  <2>2. call'[s][t].at = "idle" /\ \A u \in Threads : u # t => call'[s][u] = call[s][u]
    BY <1>0, <2>1, IdleIsCall, CallUpdated
  <2>3. \A u \in Threads : \A place \in {"loading", "using"} : call'[s][u].at = place <=> call[s][u].at = place
    BY <2>1, <2>2
  <2>4. CountInv(s)'
    BY <1>a, <1>b, <2>1, <2>3, CountKept
  <2>5. UseInv(s)'
    BY <1>a, <1>b, <2>1, <2>3 DEF UseInv
  <2>6. error'[s] => error[s] \/ Degrades(s, call[s][t].at)
    BY <1>0, <1>6, Zenon DEF Records
  <2>7. late[s] \/ (last[s] # "failed" /\ Degrades(s, call[s][t].at)) => late'[s]
    BY <1>0, <1>6, Zenon DEF Records
  <2>8. ErrorInv(s)'
    BY <1>a, <2>1, <2>3, <2>6, <2>7 DEF ErrorInv
  <2> QED
    BY <1>c, <2>4, <2>5, <2>8 DEF ModelInv
<1> QED
  BY <1>1, <1>2, <1>3, <1>4, <1>5, <1>6 DEF CallStep
-----------------------------------------------------------------------------
(* The invariant *)

LEMMA InvInit == Init => IInv
<1> SUFFICES ASSUME Init PROVE IInv
  OBVIOUS
<1>1. TypeOK
  BY TypeInit
<1>2. SocketInv /\ PathReachable
  BY ProcessAssumption DEF Init, SocketInv, PathReachable, Socket
<1>3. ASSUME NEW s \in Servers PROVE ModelInv(s)
  <2>1. /\ \A t \in Threads : call[s][t].at = "idle"
        /\ error[s] = FALSE /\ loads[s] = 0 /\ last[s] = "none"
    BY IdleIsCall DEF Init
  <2>2. Cardinality(Loading(s)) = 0
    BY <2>1, NobodyLoading
  <2>3. CountInv(s)
    BY <2>1, <2>2, AllowedAtLeastOne DEF CountInv
  <2> QED
    BY <2>1, <2>3 DEF ModelInv, BeforeServing, UseInv, ErrorInv
<1> QED
  BY <1>1, <1>2, <1>3 DEF IInv

LEMMA InvStep == IInv /\ [Next]_vars => IInv'
<1> SUFFICES ASSUME IInv, [Next]_vars PROVE IInv'
  OBVIOUS
<1> USE DEF IInv
<1>1. ASSUME NEW s \in Servers, Lifespan(s) PROVE IInv'
  <2>1. TypeOK' /\ SocketInv' /\ PathReachable'
    BY <1>1, TypeLifespan, PathStep
  <2>2. ASSUME NEW o \in Servers PROVE ModelInv(o)'
    <3>1. CASE o = s
      BY <1>1, <3>1, ModelLifespan
    <3>2. CASE o # s
      BY <1>1, <3>2, OthersUntouched, UntouchedKeeps
    <3> QED
      BY <3>1, <3>2
  <2> QED
    BY <2>1, <2>2
<1>2. ASSUME NEW s \in Servers, NEW t \in Threads, CallStep(s, t) PROVE IInv'
  <2>1. TypeOK'
    BY <1>2, TypeCall
  <2>2. UNCHANGED <<setting, phase, pathVars>>
    BY <1>2 DEF CallStep, Begins, Refused, Looks, Loads, Raises, Returns, Records
  <2>3. SocketInv' /\ PathReachable'
    BY <2>2 DEF SocketInv, PathReachable, pathVars
  <2>4. ASSUME NEW o \in Servers PROVE ModelInv(o)'
    <3>1. CASE o = s
      BY <1>2, <3>1, ModelCall
    <3>2. CASE o # s
      BY <1>2, <3>2, OthersUntouched, UntouchedKeeps
    <3> QED
      BY <3>1, <3>2
  <2> QED
    BY <2>1, <2>3, <2>4
<1>3. CASE UNCHANGED vars
  <2>1. TypeOK' /\ SocketInv' /\ PathReachable'
    BY <1>3 DEF vars, pathVars, modelVars, TypeOK, SocketInv, PathReachable
  <2>2. ASSUME NEW o \in Servers PROVE ModelInv(o)'
    <3>1. Untouched(o)
      BY <1>3 DEF vars, pathVars, modelVars, Untouched
    <3> QED
      BY <3>1, UntouchedKeeps
  <2> QED
    BY <2>1, <2>2
<1> QED
  BY <1>1, <1>2, <1>3 DEF Next

LEMMA InvHolds == Spec => []IInv
BY InvInit, InvStep, PTL DEF Spec

\* A raw UDS listener can be reached at the path as long as no other instance
\* has bound or stopped since, and only a crash leaves a dead socket there, for
\* any number of instances and starts (_prepare_uds_socket, lifespan).
THEOREM Reachable == Spec => []PathReachable
<1>1. IInv => PathReachable
  BY DEF IInv
<1> QED
  BY <1>1, InvHolds, PTL

\* A model is made once behind a one-thread executor, and otherwise at most once
\* for each thread, for any number of threads and calls (_load_model,
\* _run_on_worker).
THEOREM LoadsBounded == Spec => []LoadedOnce
<1>1. IInv => LoadedOnce
  <2> SUFFICES ASSUME IInv, NEW s \in Servers PROVE CountInv(s)
    BY DEF LoadedOnce, CountInv, LoadsAllowed, Loading
  <2> QED
    BY DEF IInv, ModelInv
<1> QED
  BY <1>1, InvHolds, PTL

\* When nothing is under way /ready is wrong only for the causes the property
\* names, whichever way calls overlap (_record_lazy_load_failure,
\* _run_transcription).
THEOREM NotReadyExplained == Spec => []NotReadyHasCause
<1>1. IInv => NotReadyHasCause
  <2> SUFFICES ASSUME IInv, NEW s \in Servers, ~Accepting(s),
                      \A t \in Threads : call[s][t].at = "idle"
               PROVE  loads[s] = 0 \/ last[s] \in {"failed", "opened"} \/ late[s]
    BY DEF NotReadyHasCause
  <2>1. loads[s] \in Nat /\ ErrorInv(s)
    BY DEF IInv, ModelInv, TypeOK
  <2>2. error[s] \/ ~(loads[s] > 0)
    BY DEF Accepting
  <2> QED
    BY <2>1, <2>2 DEF ErrorInv
<1> QED
  BY <1>1, InvHolds, PTL
=============================================================================

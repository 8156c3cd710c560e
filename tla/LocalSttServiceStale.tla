------------------------ MODULE LocalSttServiceStale ------------------------
(***************************************************************************)
(* Whose audio a server gets, when the plugin does not reconnect and       *)
(* nothing is cancelled: that of the utterance it has the start of.        *)
(* Whoever has audio of the current utterance to send, or is told that it  *)
(* has begun, implies that the server of the connection has its start      *)
(* (StaleInv).  Most steps bring nothing new (Mute) and lead nowhere the   *)
(* invariant speaks of (Meek).                                             *)
(***************************************************************************)
EXTENDS LocalSttServiceSteady

-----------------------------------------------------------------------------
(* Whose audio a server gets                                               *)

\* What a server answers, and what it has of a connection.
Answers == [type : {"ready", "final", "partial", "ping", "closed", "error"}, gen : Nat]
Sides == [utterance : Nat, phase : {"none", "live", "closed"}]
WireInv == inbox \in [Conns -> Seq(Answers)] /\ server \in [Conns -> Sides]

\* The server of the connection, while it is open, has the current utterance.
Own == svc.ws # 0 /\ conn[svc.ws] = "open" => server[svc.ws].utterance = svc.gen

\* Audio of the current utterance is queued; a ready for it is under way, or has come.
Mine == \E i \in DOMAIN buf.queue : buf.queue[i].gen = svc.gen
Greeted == \E w \in Conns : \E i \in DOMAIN inbox[w] : inbox[w][i].type = "ready" /\ inbox[w][i].gen = svc.gen
Told == svc.readyOf \in readySet \/ Greeted

\* Nothing is of an utterance to come.
GenInv ==
    /\ \A i \in DOMAIN buf.queue : buf.queue[i].gen <= svc.gen
    /\ \A w \in Conns : \A i \in DOMAIN inbox[w] : inbox[w][i].type = "ready" => inbox[w][i].gen <= svc.gen

\* The pipeline is at p, or sends something and comes there then.
Under(p) == Tops(Pipeline, {"send", "sending"}) /\ 2 \in DOMAIN stack[Pipeline] /\ stack[Pipeline][2].at = p
Over(p) == Tops(Pipeline, {p}) \/ Under(p)

\* It begins an utterance and has not sent the start; it has, and waits for the answer.
EarlyPlaces == {"start", "start_lock", "start_locked", "start_connected"}
Early ==
    \/ Tops(Pipeline, EarlyPlaces)
    \/ Tops(Pipeline, ConnectPlaces) /\ 2 \in DOMAIN stack[Pipeline] /\ stack[Pipeline][2].at = "start_connected"
Awaited == Over("start_sent") \/ Tops(Pipeline, {"start_wait"})

\* What the place of the pipeline says, and what is true of a message about to be sent
\* and of a connection that is read.
SpotInv ==
    /\ Awaited /\ Told => Own
    /\ Early => ~Greeted
    /\ Tops(Pipeline, {"sending"}) => svc.ws \in {0, Frame(Pipeline).conn}
    /\ Tops(Pipeline, {"enqueue"}) => Frame(Pipeline).chunk.gen = svc.gen
    /\ Tops(Pipeline, {"joined"}) => buf.queue = <<>>
Says(t, m) ==
    /\ m.type # "cancel"
    /\ m.type = "audio" => m.gen = svc.gen /\ Own
    /\ m.type = "start" => t = Pipeline /\ m.gen = svc.gen
    /\ m.type = "finalize" => t = Pipeline /\ buf.queue = <<>> /\ Over("final_sent")
Said(t) ==
    /\ Tops(t, {"send"}) => Says(t, Frame(t).msg)
    /\ Tops(t, {"r_recv"}) => Frame(t).conn \in Conns

ActiveOwn == svc.active => Own \/ Over("final_sent")
StaleInv ==
    /\ ~heard.stale /\ WireInv /\ GenInv
    /\ Mine => Own
    /\ ActiveOwn /\ SpotInv /\ \A t \in Tasks : Said(t)

\* A step that brings nothing new: it keeps the utterance and the server's.
Mute ==
    /\ svc'.gen = svc.gen /\ svc'.ws \in {svc.ws, 0} /\ (svc'.active => svc.active) /\ (heard'.stale => heard.stale)
    /\ Own => Own'
    /\ WireInv' /\ GenInv'
    /\ Mine' => Mine
    /\ Greeted' => Greeted
    /\ Told' => Told

Thins == \A i \in DOMAIN buf'.queue : \E j \in DOMAIN buf.queue : buf'.queue[i] = buf.queue[j]
Hushed ==
    \A w \in Conns : \A i \in DOMAIN inbox'[w] :
        inbox'[w][i].type = "ready" => \E j \in DOMAIN inbox[w] : inbox'[w][i] = inbox[w][j]

LEMMA MuteIs ==
    ASSUME GenInv, svc'.gen = svc.gen, svc'.ws \in {svc.ws, 0}, svc'.readyOf = svc.readyOf, svc'.active => svc.active,
           heard'.stale => heard.stale, Own => Own', WireInv', Thins, Hushed,
           svc.readyOf \in readySet' => svc.readyOf \in readySet \/ Greeted
    PROVE  Mute
<1>1. GenInv'
  <2>1. ASSUME NEW i \in DOMAIN buf'.queue PROVE buf'.queue[i].gen <= svc'.gen
    <3>1. PICK j \in DOMAIN buf.queue : buf'.queue[i] = buf.queue[j]  BY DEF Thins
    <3> QED  BY <3>1 DEF GenInv
  <2>2. ASSUME NEW w \in Conns, NEW i \in DOMAIN inbox'[w], inbox'[w][i].type = "ready"
        PROVE  inbox'[w][i].gen <= svc'.gen
    <3>1. PICK j \in DOMAIN inbox[w] : inbox'[w][i] = inbox[w][j]  BY <2>2 DEF Hushed
    <3> QED  BY <2>2, <3>1 DEF GenInv
  <2> QED  BY <2>1, <2>2 DEF GenInv
<1>2. Mine' => Mine
  <2> SUFFICES ASSUME Mine' PROVE Mine  OBVIOUS
  <2>1. PICK i \in DOMAIN buf'.queue : buf'.queue[i].gen = svc'.gen  BY DEF Mine
  <2>2. PICK j \in DOMAIN buf.queue : buf'.queue[i] = buf.queue[j]  BY DEF Thins
  <2>3. buf.queue[j].gen = svc.gen  BY <2>1, <2>2
  <2> QED  BY <2>3 DEF Mine
<1>3. Greeted' => Greeted
  <2> SUFFICES ASSUME Greeted' PROVE Greeted  OBVIOUS
  <2>1. PICK w \in Conns : \E i \in DOMAIN inbox'[w] : inbox'[w][i].type = "ready" /\ inbox'[w][i].gen = svc'.gen
    BY DEF Greeted
  <2>2. PICK i \in DOMAIN inbox'[w] : inbox'[w][i].type = "ready" /\ inbox'[w][i].gen = svc'.gen  BY <2>1
  <2>3. PICK j \in DOMAIN inbox[w] : inbox'[w][i] = inbox[w][j]  BY <2>2 DEF Hushed
  <2>4. inbox[w][j].type = "ready" /\ inbox[w][j].gen = svc.gen  BY <2>2, <2>3
  <2> QED  BY <2>4 DEF Greeted
<1>4. Told' => Told  BY <1>3 DEF Told
<1> QED  BY <1>1, <1>2, <1>3, <1>4 DEF Mute

\* Most steps leave the wire alone.
LEMMA MuteSame ==
    ASSUME GenInv, WireInv, svc'.gen = svc.gen, svc'.ws = svc.ws, svc'.readyOf = svc.readyOf, svc'.active => svc.active,
           heard' = heard, conn' = conn, server' = server, inbox' = inbox, readySet' \subseteq readySet, Thins
    PROVE  Mute
<1>1. WireInv' /\ Hushed  BY DEF WireInv, Hushed
<1>2. Own => Own'  BY DEF Own
<1> QED  BY <1>1, <1>2, MuteIs

\* The places of the pipeline that SpotInv speaks of, and that of a message.
Loud == EarlyPlaces \cup ConnectPlaces \cup {"start_sent", "start_wait", "send", "sending", "enqueue", "joined", "r_recv"}
Meek(t) == stack'[t] # <<>> => (Frame(t)').at \notin Loud

LEMMA MeekSays ==
    ASSUME NEW t \in Tasks, Meek(t) PROVE Said(t)' /\ (t = Pipeline => SpotInv')
<1>2. ~Tops(t, {"send"})' /\ ~Tops(t, {"r_recv"})'  BY DEF Tops, Meek, Loud
<1>3. Said(t)'  BY <1>2 DEF Said
<1>4. ASSUME t = Pipeline PROVE SpotInv'
  <2>1. stack'[Pipeline] # <<>> => (Frame(Pipeline)').at \notin Loud  BY <1>4 DEF Meek
  <2>2. ~Awaited' /\ ~Early'  BY <2>1 DEF Awaited, Over, Under, Early, Tops, Loud
  <2>3. ~Tops(Pipeline, {"sending"})' /\ ~Tops(Pipeline, {"enqueue"})' /\ ~Tops(Pipeline, {"joined"})'
    BY <2>1 DEF Tops, Loud
  <2> QED  BY <2>2, <2>3 DEF SpotInv
<1> QED  BY <1>3, <1>4

\* What is said of a task stands while another one moves.
LEMMA OtherSaid ==
    ASSUME Inv, StaleInv, NEW t, NEW u \in Tasks, u # t, stack'[u] = stack[u], running \in {t, NoTask}
    PROVE  Said(u)'
<1>1. ASSUME Tops(u, {"send"})' PROVE FALSE
  <2>1. Tops(u, {"send"})  BY <1>1, SameStack
  <2>2. stack[u] # <<>> /\ Head(stack[u]).at \notin Awaits  BY <2>1 DEF Tops, Frame, Awaits
  <2>3. running = u  BY <2>2 DEF Inv, Slots, TaskInv
  <2> QED  BY <2>3, PlacesApart
<1>2. Tops(u, {"r_recv"})' = Tops(u, {"r_recv"}) /\ Frame(u)' = Frame(u)  BY SameStack
<1>3. Tops(u, {"r_recv"})' => (Frame(u)').conn \in Conns  BY <1>2 DEF StaleInv, Said
<1> QED  BY <1>1, <1>3 DEF Said

LEMMA KeptStale ==
    ASSUME Inv, StaleInv, Mute, NEW t \in Tasks, \A u \in Tasks : u # t => stack'[u] = stack[u], running \in {t, NoTask},
           Said(t)', t = Pipeline => SpotInv' /\ ActiveOwn'
    PROVE  StaleInv'
<1>1. ~heard'.stale /\ WireInv' /\ GenInv' /\ (Mine' => Own')  BY DEF StaleInv, Mute
<1>2. \A u \in Tasks : u # t => Said(u)'  BY OtherSaid
<1>3. ASSUME t # Pipeline PROVE SpotInv' /\ ActiveOwn'
  <2>1. stack'[Pipeline] = stack[Pipeline]  BY <1>3, PlacesApart
  <2>2. (\A P : Tops(Pipeline, P)' = Tops(Pipeline, P)) /\ Frame(Pipeline)' = Frame(Pipeline)  BY <2>1, SameStack
  <2>3. \A p : Under(p)' = Under(p) /\ Over(p)' = Over(p)  
    <3>1. Tops(Pipeline, {"send", "sending"})' = Tops(Pipeline, {"send", "sending"})  BY <2>2
    <3>2. \A p : Under(p)' = Under(p)  BY <2>1, <3>1 DEF Under
    <3>3. \A p : Tops(Pipeline, {p})' = Tops(Pipeline, {p})  BY <2>2
    <3> QED  BY <3>2, <3>3 DEF Over
  <2>4. ~Tops(Pipeline, {"enqueue", "joined"})
    <3> SUFFICES ASSUME Tops(Pipeline, {"enqueue", "joined"}) PROVE FALSE  OBVIOUS
    <3>1. stack[Pipeline] # <<>> /\ Head(stack[Pipeline]).at \notin Awaits  BY DEF Tops, Frame, Awaits
    <3>2. running = Pipeline  BY <3>1, PlacesApart DEF Inv, Slots, TaskInv
    <3> QED  BY <1>3, <3>2, PlacesApart
  <2>5. Awaited' = Awaited
    <3>1. Tops(Pipeline, {"start_wait"})' = Tops(Pipeline, {"start_wait"})  BY <2>2
    <3> QED  BY <2>3, <3>1 DEF Awaited
  <2>6. Early' = Early
    <3>1. Tops(Pipeline, EarlyPlaces)' = Tops(Pipeline, EarlyPlaces)  BY <2>2 DEF EarlyPlaces
    <3>2. Tops(Pipeline, ConnectPlaces)' = Tops(Pipeline, ConnectPlaces)  BY <2>2 DEF ConnectPlaces
    <3> QED  BY <2>1, <3>1, <3>2 DEF Early
  <2>7. ~Tops(Pipeline, {"enqueue"})' /\ ~Tops(Pipeline, {"joined"})'
    <3>1. Tops(Pipeline, {"enqueue"})' = Tops(Pipeline, {"enqueue"})  BY <2>2
    <3>2. Tops(Pipeline, {"joined"})' = Tops(Pipeline, {"joined"})  BY <2>2
    <3> QED  BY <2>4, <3>1, <3>2 DEF Tops
  <2>8. Tops(Pipeline, {"sending"})' = Tops(Pipeline, {"sending"})  BY <2>2
  <2>9. SpotInv'
    <3>1. Awaited' /\ Told' => Own'  BY <2>5 DEF StaleInv, SpotInv, Mute
    <3>2. Early' => ~Greeted'  BY <2>6 DEF StaleInv, SpotInv, Mute
    <3>3. Tops(Pipeline, {"sending"})' => svc'.ws \in {0, (Frame(Pipeline)').conn}
      BY <2>2, <2>8 DEF StaleInv, SpotInv, Mute
    <3> QED  BY <2>7, <3>1, <3>2, <3>3 DEF SpotInv
  <2>10. ActiveOwn'  BY <2>3 DEF StaleInv, ActiveOwn, Mute
  <2> QED  BY <2>9, <2>10
<1> QED  BY <1>1, <1>2, <1>3 DEF StaleInv

\* A meek step: the pipeline, if it is the one that moves, was not on its way to
\* the place where the utterance ends.
LEMMA MeekKeeps ==
    ASSUME Inv, StaleInv, Mute, NEW t \in Tasks, \A u \in Tasks : u # t => stack'[u] = stack[u], running \in {t, NoTask},
           Meek(t), t = Pipeline => Own' \/ ~svc'.active \/ ~Over("final_sent")
    PROVE  StaleInv'
<1>1. Said(t)' /\ (t = Pipeline => SpotInv')  BY MeekSays
<1>2. t = Pipeline => ActiveOwn'  BY DEF StaleInv, ActiveOwn, Mute
<1> QED  BY <1>1, <1>2, KeptStale

-----------------------------------------------------------------------------
(* Meek steps                                                              *)

LEMMA GotoMeek ==
    ASSUME Inv, NEW t \in Tasks, NEW l, Wakes(t, l) \/ Runs(t, l), NEW f, Goto(t, f), f.at \notin Loud PROVE Meek(t)
<1>1. Frame(t)' = f  BY GotoTop
<1> QED  BY <1>1 DEF Meek

LEMMA RaiseMeek ==
    ASSUME Inv, NEW t \in Tasks, NEW l, Wakes(t, l) \/ Runs(t, l), NEW e, Raise(t, e) PROVE Meek(t)
<1> DEFINE f == [at |-> "raise", exc |-> e]
<1>1. Goto(t, f) /\ f.at = "raise"  BY DEF Raise
<1> HIDE DEF f
<1>2. f.at \notin Loud  BY <1>1 DEF Loud, EarlyPlaces, ConnectPlaces
<1> QED  BY <1>1, <1>2, GotoMeek

LEMMA ReturnMeek ==
    ASSUME Inv, NestInv, NEW t \in Tasks, NEW l, Wakes(t, l) \/ Runs(t, l), Return(t),
           l \notin ConnectPlaces \cup {"send", "sending", "raise"}
    PROVE  Meek(t)
<1> SUFFICES ASSUME stack'[t] # <<>> PROVE (Frame(t)').at \notin Loud  BY DEF Meek
<1>1. /\ Frame(t)' = stack[t][2]
      /\ <<l, stack[t][2].at>> \in Nesting /\ stack[t][2].at \in CallerPlaces
  BY ReturnTop
<1>2. stack[t][2].at \notin {"start_connected", "start_sent"}
  BY <1>1 DEF Nesting, CallerPlaces, LoopPlaces, SendPlaces
<1> QED  BY <1>1, <1>2 DEF Loud, EarlyPlaces, ConnectPlaces, CallerPlaces

LEMMA EndsMeek == ASSUME Inv, NEW t \in Tasks, NEW r, Ends(t, r) PROVE Meek(t)
BY DEF Meek, Ends, Inv, Slots, TypeInv

LEMMA BecomesMeek ==
    ASSUME Inv, NEW t \in Tasks, NEW S, NEW w \in Seq(S), w # <<>>, NEW s \in Seq(Frames), Becomes(t, w \o s),
           Head(w).at \notin Loud
    PROVE  Meek(t)
<1>1. Frame(t)' = Head(w)  BY BecomesTop
<1> QED  BY <1>1 DEF Meek

LEMMA WholeMeek == ASSUME Inv, NEW t \in Tasks, NEW w, Becomes(t, w), Head(w).at \notin Loud PROVE Meek(t)
<1>1. stack'[t] = w  BY DEF Becomes, Inv, Slots, TypeInv
<1> QED  BY <1>1 DEF Meek, Frame

\* Disconnecting, on top of something.
LEMMA DisconnectMeek ==
    ASSUME Inv, NEW t \in Tasks, NEW h, h.at \in {"ended", "r_end", "final_done"}, NEW s \in Seq(Frames),
           \/ Becomes(t, (Disconnecting \o <<h>>) \o s) \/ Becomes(t, Disconnecting \o <<h>>)
           \/ Becomes(t, Disconnecting \o s)
    PROVE  Meek(t)
<1> DEFINE D == Disconnecting
           w == D \o <<h>>
<1>1. D \in Seq({D[1], D[2]}) /\ DOMAIN D = {1, 2} /\ D[1].at = "close"  BY DisconnectingAre
<1> HIDE DEF D
<1>2. 1 \in DOMAIN D  BY <1>1
<1>3. D # <<>> /\ Head(D) = D[1]  BY <1>1, <1>2
<1>4. "close" \notin Loud  BY DEF Loud, EarlyPlaces, ConnectPlaces
<1>5. <<h>> \in Seq({h})  OBVIOUS
<1>6. Head(w) = D[1] /\ w # <<>>  BY <1>1, <1>3, <1>5, HeadOver
<1>7. w \in Seq({D[1], D[2], h})
  <2>1. D \in Seq({D[1], D[2], h}) /\ <<h>> \in Seq({D[1], D[2], h})  BY <1>1, SeqMonotonic
  <2> QED  BY <2>1, ConcatAre
<1> HIDE DEF w
<1>8. CASE Becomes(t, w \o s)  BY <1>1, <1>4, <1>6, <1>7, <1>8, BecomesMeek
<1>9. CASE Becomes(t, w)  BY <1>1, <1>4, <1>6, <1>9, WholeMeek
<1>10. CASE Becomes(t, D \o s)  BY <1>1, <1>3, <1>4, <1>10, BecomesMeek
<1> QED  BY <1>8, <1>9, <1>10 DEF w, D

\* A task that is not on its way to "final_sent".
LEMMA NotOver ==
    ASSUME Inv, NEW l, Wakes(Pipeline, l) \/ Runs(Pipeline, l), l \notin {"send", "sending"}
    PROVE  /\ ~Under("final_sent") /\ (l # "final_sent" => ~Over("final_sent"))
           /\ ~Under("start_sent") /\ (l # "start_sent" => ~Over("start_sent"))
<1>1. Frame(Pipeline).at = l  BY Nonempty
<1> QED  BY <1>1 DEF Over, Under, Tops

-----------------------------------------------------------------------------
(* Closes, exceptions and the loops                                        *)

LEMMA QueueThins == ASSUME buf'.queue = buf.queue \/ buf'.queue = <<>> PROVE Thins
<1>1. CASE buf'.queue = buf.queue
  <2>1. \A i \in DOMAIN buf'.queue : i \in DOMAIN buf.queue /\ buf'.queue[i] = buf.queue[i]  BY <1>1
  <2> QED  BY <2>1 DEF Thins
<1>2. CASE buf'.queue = <<>>
  <2>1. DOMAIN buf'.queue = {}  BY <1>2
  <2> QED  BY <2>1 DEF Thins
<1> QED  BY <1>1, <1>2

LEMMA AwaitsStale ==
    ASSUME Inv, NestInv, StaleInv, NEW t \in Tasks, Close(t) \/ CloseAwaits(t) \/ CloseAwaited(t)
    PROVE  StaleInv'
<1>1. PICK l \in ClosePlaces : Wakes(t, l) \/ Runs(t, l)
  BY DEF Close, CloseAwaits, CloseAwaited, ClosePlaces
<1>2. stack[t] # <<>> /\ Frame(t).at = l /\ Frame(t) \in Frames /\ running \in {t, NoTask}
  BY <1>1, Nonempty, StackTyped DEF Inv
<1>3. \E f : Goto(t, f) /\ f.at \in ClosePlaces \cup {"raise"}
  <2>1. CASE Close(t)
    <3> DEFINE f == [at |-> "close_tasks", todo |-> Other(t, svc.sendTask) \o Other(t, svc.recvTask),
                     forGood |-> Frame(t).forGood]
    <3>1. Goto(t, f) /\ f.at = "close_tasks"  BY <2>1 DEF Close
    <3> HIDE DEF f
    <3> QED  BY <3>1 DEF ClosePlaces
  <2>2. CASE CloseAwaits(t) \/ CloseAwaited(t)
    <3> DEFINE s == Frame(t).todo
               a == [Frame(t) EXCEPT !.at = "close_await"]
               b == [Frame(t) EXCEPT !.todo = Tail(@)]
               c == [Frame(t) EXCEPT !.at = "close_tasks", !.todo = Tail(@)]
               e == [at |-> "raise", exc |-> "error"]
    <3>1. Goto(t, a) \/ Goto(t, b) \/ Goto(t, c) \/ Goto(t, e)
      BY <2>2 DEF CloseAwaits, CloseAwaited, Raise
    <3>2. a.at = "close_await" /\ b.at = l /\ c.at = "close_tasks" /\ e.at = "raise"
      <4>1. a.at = "close_await" /\ e.at = "raise"  BY <1>2, MovedAt
      <4>2. b.at = l  BY <1>2, MovedAt
      <4>3. c.at = "close_tasks"  BY <1>2, MovedAt
      <4> QED  BY <4>1, <4>2, <4>3
    <3> HIDE DEF s, a, b, c, e
    <3> QED  BY <3>1, <3>2 DEF ClosePlaces
  <2> QED  BY <2>1, <2>2
<1>4. PICK f : Goto(t, f) /\ f.at \in ClosePlaces \cup {"raise"}  BY <1>3
<1>5. Meek(t)
  <2>1. f.at \notin Loud  BY <1>4 DEF ClosePlaces, Loud, EarlyPlaces, ConnectPlaces
  <2> QED  BY <1>1, <1>4, <2>1, GotoMeek
<1>6. \A u \in Tasks : u # t => stack'[u] = stack[u]  BY <1>4 DEF Goto, Becomes, Inv, Slots, TypeInv
<1>7. Mute
  <2>1. svc \in Service  BY DEF Inv, Slots, TypeInv
  <2>2. /\ svc' = [svc EXCEPT !.closed = TRUE] \/ svc' = svc
        /\ buf' = buf /\ conn' = conn /\ readySet' = readySet /\ heard' = heard /\ server' = server /\ inbox' = inbox
    BY DEF Close, CloseAwaits, CloseAwaited, serviceVars, syncVars, eventVars, outsideVars, wireVars, historyVars
  <2>3. svc'.gen = svc.gen /\ svc'.ws = svc.ws /\ svc'.readyOf = svc.readyOf /\ svc'.active = svc.active
    BY <2>1, <2>2 DEF Service
  <2> QED  BY <2>2, <2>3, QueueThins, MuteSame DEF StaleInv
<1>8. t = Pipeline => ~Over("final_sent")
  <2>1. l \notin {"send", "sending", "final_sent"}  BY DEF ClosePlaces
  <2> QED  BY <1>1, <2>1, NotOver
<1> QED  BY <1>2, <1>5, <1>6, <1>7, <1>8, MeekKeeps

LEMMA DisconnectedStale ==
    ASSUME Inv, NestInv, StaleInv, NEW t \in Tasks, Disconnected(t) PROVE StaleInv'
<1>1. /\ Runs(t, "disconnected") /\ Return(t) /\ conn' = conn /\ readySet' = readySet /\ buf' = Emptied(buf)
      /\ heard' = heard /\ server' = server /\ inbox' = inbox
  BY DEF Disconnected, Emptied, outsideVars, wireVars, historyVars
<1>2. svc'.ws = 0 /\ svc'.active = FALSE /\ svc'.readyOf = svc.readyOf /\ svc'.gen = svc.gen
  <2>1. svc \in Service  BY DEF Inv, Slots, TypeInv
  <2> QED  BY <2>1 DEF Disconnected, Service
<1>3. buf'.queue = <<>>
  <2>1. buf \in Buffers  BY DEF Inv, Slots, TypeInv
  <2> QED  BY <1>1, <2>1 DEF Emptied, Cleared, Buffers
<1>4. Mute
  <2>1. WireInv' /\ Hushed  BY <1>1 DEF StaleInv, WireInv, Hushed
  <2>2. Own'  BY <1>2 DEF Own
  <2> QED  BY <1>1, <1>2, <1>3, <2>1, <2>2, QueueThins, MuteIs DEF StaleInv
<1>5. Meek(t)
  <2>1. "disconnected" \notin ConnectPlaces \cup {"send", "sending", "raise"}  BY DEF ConnectPlaces
  <2> QED  BY <1>1, <2>1, ReturnMeek
<1>6. (\A u \in Tasks : u # t => stack'[u] = stack[u]) /\ running \in {t, NoTask}
  BY <1>1, Nonempty DEF Return, Becomes, Inv, Slots, TypeInv
<1> QED  BY <1>2, <1>4, <1>5, <1>6, MeekKeeps

LEMMA SocketStale ==
    ASSUME Inv, ConnInv, NestInv, StaleInv, NEW t \in Tasks, CloseSocket(t) \/ Closed(t) PROVE StaleInv'
<1> DEFINE f == [at |-> "closing", conn |-> svc.ws, forGood |-> Frame(t).forGood]
<1>1. PICK l \in {"close_tasks", "closing"} : Wakes(t, l) \/ Runs(t, l)
  BY DEF CloseSocket, Closed
<1>2. (Goto(t, f) \/ Return(t)) /\ f.at = "closing"  BY DEF CloseSocket, Closed
<1> HIDE DEF f
<1>3. Meek(t)
  <2>1. f.at \notin Loud  BY <1>2 DEF Loud, EarlyPlaces, ConnectPlaces
  <2>2. l \notin ConnectPlaces \cup {"send", "sending", "raise"}  BY DEF ConnectPlaces
  <2> QED  BY <1>1, <1>2, <2>1, <2>2, GotoMeek, ReturnMeek
<1>4. (\A u \in Tasks : u # t => stack'[u] = stack[u]) /\ running \in {t, NoTask}
  BY <1>1, <1>2, Nonempty DEF Goto, Return, Becomes, Inv, Slots, TypeInv
<1>5. t = Pipeline => ~Over("final_sent")  BY <1>1, NotOver
<1>6. /\ svc'.gen = svc.gen /\ svc'.ws = svc.ws /\ svc'.readyOf = svc.readyOf /\ svc'.active = svc.active
      /\ buf' = buf /\ readySet' = readySet /\ heard' = heard
  <2>1. svc \in Service  BY DEF Inv, Slots, TypeInv
  <2> QED  BY <2>1 DEF CloseSocket, Closed, Service, syncVars, eventVars, historyVars
<1>7. svc.ws \in {0} \cup Conns /\ DOMAIN conn = Conns  BY DEF ConnInv, CurrentInv, Inv, Slots, TypeInv
<1>8. CASE conn' = conn /\ server' = server /\ inbox' = inbox
  <2>1. Mute  BY <1>6, <1>8, QueueThins, MuteSame DEF StaleInv
  <2> QED  BY <1>3, <1>4, <1>5, <2>1, MeekKeeps
<1>9. CASE CloseSocket(t) /\ svc.ws # 0
  <2>1. /\ conn' = [conn EXCEPT ![svc.ws] = IF conn[svc.ws] = "gone" THEN conn[svc.ws] ELSE "closed"]
        /\ inbox' = [inbox EXCEPT ![svc.ws] = <<>>]
        /\ server' = [server EXCEPT ![svc.ws] = Silent]
    BY <1>9 DEF CloseSocket
  <2>2. conn'[svc.ws] # "open" /\ inbox'[svc.ws] = <<>> /\ \A v \in Conns : v # svc.ws => inbox'[v] = inbox[v]
    BY <1>7, <1>9, <2>1 DEF StaleInv, WireInv
  <2>3. Own' /\ Hushed  BY <1>6, <2>2 DEF Own, Hushed
  <2>4. WireInv'
    <3>1. Silent \in Sides  BY DEF Silent, Sides
    <3> DEFINE e == <<>>
               c == Silent
    <3>2. e \in Seq(Answers) /\ c \in Sides /\ inbox' = [inbox EXCEPT ![svc.ws] = e] /\ server' = [server EXCEPT ![svc.ws] = c]
      BY <2>1, <3>1
    <3> HIDE DEF e, c
    <3> QED  BY <3>2 DEF StaleInv, WireInv
  <2>5. Mute  BY <1>6, <2>3, <2>4, QueueThins, MuteIs DEF StaleInv
  <2> QED  BY <1>3, <1>4, <1>5, <2>5, MeekKeeps
<1>10. CASE Closed(t)
  <2>1. conn' = [conn EXCEPT ![Frame(t).conn] = "gone"] /\ inbox' = inbox /\ server' = server
    BY <1>10 DEF Closed
  <2>2. svc.ws # 0 /\ conn'[svc.ws] = "open" => conn[svc.ws] = "open"  BY <1>7, <2>1
  <2>3. Own => Own'  BY <1>6, <2>1, <2>2 DEF Own
  <2>4. WireInv' /\ Hushed  BY <2>1 DEF StaleInv, WireInv, Hushed
  <2>5. Mute  BY <1>6, <2>3, <2>4, QueueThins, MuteIs DEF StaleInv
  <2> QED  BY <1>3, <1>4, <1>5, <2>5, MeekKeeps
<1> QED  BY <1>8, <1>9, <1>10 DEF CloseSocket, wireVars


LEMMA UnwindsStale ==
    ASSUME Inv, NestInv, CloseInv, EndingInv, StaleInv, NEW t \in Tasks, Unwinds(t) \/ CancelDelivered(t)
    PROVE  StaleInv'
<1>1. CASE Unwinds(t)
  <2>1. Runs(t, "raise") /\ running = t  BY <1>1 DEF Unwinds, Runs
  <2>2. buf'.queue = buf.queue
    <3>1. buf \in Buffers  BY DEF Inv, Slots, TypeInv
    <3> QED  BY <1>1, <3>1 DEF Unwinds, Buffers
  <2>3. svc' = svc /\ conn' = conn /\ readySet' = readySet /\ heard' = heard /\ server' = server /\ inbox' = inbox
    BY <1>1 DEF Unwinds, outsideVars, wireVars, historyVars
  <2>4. Mute  BY <2>2, <2>3, QueueThins, MuteSame DEF StaleInv
  <2>5. \A u \in Tasks : u # t => stack'[u] = stack[u]
    <3>1. (\E w : Becomes(t, w)) \/ (\E r : Ends(t, r))  BY <1>1, UnwindsAre DEF CloseInv, Unwinds, Return
    <3> QED  BY <3>1 DEF Becomes, Ends, Inv, Slots, TypeInv
  <2>6. Meek(t)
    <3>1. stack'[t] # <<>> => (Frame(t)').at \in {"idle", "ended", "raise", "close", "r_failed"}  BY <1>1, UnwindsTop
    <3> QED  BY <3>1 DEF Meek, Loud, EarlyPlaces, ConnectPlaces
  <2>7. t = Pipeline => ~Over("final_sent")
    <3>1. "raise" \notin {"send", "sending", "final_sent"}  OBVIOUS
    <3> QED  BY <2>1, <3>1, NotOver
  <2> QED  BY <2>1, <2>4, <2>5, <2>6, <2>7, MeekKeeps
<1>2. CASE CancelDelivered(t)
  <2> DEFINE f == [at |-> "raise", exc |-> "cancelled"]
             w == <<f>>
  <2>1. stack[t] # <<>> /\ Becomes(t, w \o Callers(t)) /\ running = NoTask
    BY <1>2 DEF CancelDelivered, Alive, Raise, Goto
  <2>2. f.at = "raise" /\ w \in Seq({f}) /\ w # <<>> /\ Head(w) = f  OBVIOUS
  <2> HIDE DEF f, w
  <2>3. Callers(t) \in Seq(Frames)  BY <2>1, StackTyped DEF Inv
  <2>4. Meek(t)
    <3>1. Head(w).at \notin Loud  BY <2>2 DEF Loud, EarlyPlaces, ConnectPlaces
    <3> QED  BY <2>1, <2>2, <2>3, <3>1, BecomesMeek
  <2>5. svc' = svc /\ buf' = buf /\ conn' = conn /\ readySet' = readySet /\ heard' = heard /\ server' = server
        /\ inbox' = inbox
    BY <1>2 DEF CancelDelivered, eventVars, historyVars
  <2>6. Mute  BY <2>5, QueueThins, MuteSame DEF StaleInv
  <2>7. \A u \in Tasks : u # t => stack'[u] = stack[u]  BY <2>1 DEF Becomes, Inv, Slots, TypeInv
  <2>8. t # Pipeline  BY <1>2, NotLoop DEF CancelDelivered, EndingInv, CancelInv
  <2> QED  BY <2>1, <2>4, <2>6, <2>7, <2>8, MeekKeeps
<1> QED  BY <1>1, <1>2

LEMMA SenderStale ==
    ASSUME Inv, NestInv, StaleInv, NEW k \in Conns, SenderStep(k) PROVE StaleInv'
<1> DEFINE t == SendTask(k)
           chunk == Head(buf.queue)
           m == [type |-> "audio", frames |-> chunk.frames, gen |-> chunk.gen]
           g == SendCall(m, TRUE, TRUE)
           f == [at |-> "s_sent", chunk |-> chunk]
<1>1. t \in Tasks /\ t # Pipeline  BY PlacesApart
<1>2. PICK l \in SendPlaces : Wakes(t, l) \/ Runs(t, l)
  BY DEF SenderStep, SenderLoops, SenderWakes, SenderTakes, SenderSent, SenderGone, SendPlaces
<1>3. /\ svc' = svc /\ readySet' = readySet /\ conn' = conn /\ heard' = heard /\ server' = server /\ inbox' = inbox
      /\ buf' = buf \/ SenderTakes(k) \/ buf' = [buf EXCEPT !.unfinished = @ - 1]
  BY DEF SenderStep, SenderLoops, SenderWakes, SenderTakes, SenderSent, SenderGone,
         serviceVars, syncVars, eventVars, outsideVars, wireVars, historyVars
<1>4. /\ \/ Call(t, g, f) /\ chunk.gen = svc.gen /\ SenderTakes(k)
         \/ \E p \in {"s_get", "s_take", "s_loop"} : Goto(t, At(p))
         \/ Ends(t, "ok")
      /\ SenderTakes(k) => Runs(t, "s_take") /\ buf'.queue = Tail(buf.queue)
  <2>1. buf \in Buffers  BY DEF Inv, Slots, TypeInv
  <2> QED  BY <2>1 DEF SenderStep, SenderLoops, SenderWakes, SenderTakes, SenderSent, SenderGone, Buffers
<1>5. g.at = "send" /\ g.msg = m /\ m.type = "audio" /\ m.gen = chunk.gen  BY DEF SendCall
<1> HIDE DEF g, f, m, t
<1>6. SenderTakes(k) => buf.queue # <<>>
  <2> SUFFICES ASSUME SenderTakes(k) PROVE buf.queue # <<>>  OBVIOUS
  <2>1. stack[t] # <<>> /\ Frame(t).at = "s_take"  BY <1>4, Nonempty
  <2>2. 1 \in DOMAIN stack[t] /\ stack[t][1].at = "s_take"  BY <1>1, <2>1, StackTyped DEF Inv
  <2> QED  BY <1>1, <2>2 DEF Inv, TakeInv
<1>7. buf.queue \in Seq(Chunk)  BY DEF Inv, Slots, TypeInv, Buffers
<1>8. Thins
  <2>1. CASE SenderTakes(k)
    <3> DEFINE q == buf.queue
    <3>1. q # <<>> /\ q \in Seq(Chunk) /\ buf'.queue = Tail(q)  BY <1>4, <1>6, <1>7, <2>1
    <3> HIDE DEF q
    <3>2. \A i \in DOMAIN Tail(q) : i + 1 \in DOMAIN q /\ Tail(q)[i] = q[i + 1]  BY <3>1
    <3>3. \A i \in DOMAIN buf'.queue : i + 1 \in DOMAIN q /\ buf'.queue[i] = q[i + 1]  BY <3>1, <3>2
    <3> QED  BY <3>3 DEF Thins, q
  <2>2. CASE ~SenderTakes(k)
    <3>1. buf \in Buffers  BY DEF Inv, Slots, TypeInv
    <3>2. buf'.queue = buf.queue  BY <1>3, <2>2, <3>1 DEF Buffers
    <3> QED  BY <3>2, QueueThins
  <2> QED  BY <2>1, <2>2
<1>9. Mute  BY <1>3, <1>8, MuteSame DEF StaleInv
<1>10. (\A u \in Tasks : u # t => stack'[u] = stack[u]) /\ running \in {t, NoTask}
  <2>1. (\E w : Becomes(t, w)) \/ Ends(t, "ok")  BY <1>4 DEF Call, Goto
  <2> QED  BY <1>2, <2>1, Nonempty DEF Becomes, Ends, Inv, Slots, TypeInv
<1>11. CASE Call(t, g, f) /\ chunk.gen = svc.gen /\ SenderTakes(k)
  <2> DEFINE w == <<g, f>>
  <2>1. w \in Seq({g, f}) /\ w # <<>> /\ Head(w) = g /\ Becomes(t, w \o Callers(t))  BY <1>11 DEF Call
  <2> HIDE DEF w
  <2>2. Callers(t) \in Seq(Frames)  BY <1>1, <1>2, Nonempty, StackTyped DEF Inv
  <2>3. Frame(t)' = g  BY <1>1, <2>1, <2>2, BecomesTop
  <2>4. 1 \in DOMAIN buf.queue /\ chunk = buf.queue[1]  BY <1>6, <1>7, <1>11
  <2>5. Mine  BY <1>11, <2>4 DEF Mine
  <2>6. Own'  BY <1>9, <2>5 DEF StaleInv, Mute
  <2>7. Said(t)'  BY <1>3, <1>5, <1>11, <2>3, <2>6 DEF Said, Says, Tops
  <2> QED  BY <1>1, <1>9, <1>10, <2>7, KeptStale
<1>12. ASSUME NEW p \in {"s_get", "s_take", "s_loop"}, Goto(t, At(p)) PROVE StaleInv'
  <2> DEFINE h == At(p)
  <2>1. Goto(t, h) /\ h.at = p  BY <1>12, AtIs
  <2> HIDE DEF h
  <2>2. h.at \notin Loud  BY <2>1 DEF Loud, EarlyPlaces, ConnectPlaces
  <2>3. Meek(t)  BY <1>1, <1>2, <2>1, <2>2, GotoMeek
  <2> QED  BY <1>1, <1>9, <1>10, <2>3, MeekKeeps
<1>13. CASE Ends(t, "ok")
  <2>1. Meek(t)  BY <1>1, <1>13, EndsMeek
  <2> QED  BY <1>1, <1>9, <1>10, <2>1, MeekKeeps
<1> QED  BY <1>4, <1>11, <1>12, <1>13

\* What the receive loop takes out of the inbox.
LEMMA TakesOut ==
    ASSUME StaleInv, NEW w \in Conns, inbox[w] # <<>>, inbox' = [inbox EXCEPT ![w] = Tail(@)], server' = server
    PROVE  WireInv' /\ Hushed /\ 1 \in DOMAIN inbox[w] /\ Head(inbox[w]) = inbox[w][1]
<1> DEFINE q == inbox[w]
<1>1. q \in Seq(Answers) /\ q # <<>> /\ inbox' = [inbox EXCEPT ![w] = Tail(q)] /\ DOMAIN inbox = Conns
  BY DEF StaleInv, WireInv
<1>2. inbox'[w] = Tail(q) /\ \A v \in Conns : v # w => inbox'[v] = inbox[v]  BY <1>1
<1> HIDE DEF q
<1>3. Tail(q) \in Seq(Answers) /\ (\A i \in DOMAIN Tail(q) : i + 1 \in DOMAIN q /\ Tail(q)[i] = q[i + 1])
      /\ 1 \in DOMAIN q /\ Head(q) = q[1]
  BY <1>1
<1>4. WireInv'  BY <1>1, <1>3 DEF StaleInv, WireInv
<1>5. \A i \in DOMAIN inbox'[w] : \E j \in DOMAIN inbox[w] : inbox'[w][i] = inbox[w][j]  BY <1>2, <1>3 DEF q
<1>6. Hushed  BY <1>2, <1>5 DEF Hushed
<1> QED  BY <1>3, <1>4, <1>6 DEF q

LEMMA ReceivesStale ==
    ASSUME Inv, StaleInv, NEW k \in Conns, NEW m \in [type : {"ready", "final", "partial", "ping", "closed", "error"}, gen : Gens],
           Receives(k, m), readySet' \subseteq readySet \cup (IF m.type = "ready" /\ m.gen = svc.gen THEN {svc.readyOf} ELSE {})
    PROVE  Mute
<1> DEFINE t == RecvTask(k)
           w == Frame(t).conn
<1>1. Wakes(t, "r_recv") /\ t \in Tasks  BY PlacesApart DEF Receives
<1>2. w \in Conns
  <2>1. Tops(t, {"r_recv"})  BY <1>1, TopIs
  <2> QED  BY <1>1, <2>1 DEF StaleInv, Said
<1>3. /\ inbox[w] # <<>> /\ m = Head(inbox[w]) /\ inbox' = [inbox EXCEPT ![w] = Tail(@)]
      /\ svc' = svc /\ buf' = buf /\ conn' = conn /\ server' = server /\ heard' = heard
  BY DEF Receives, historyVars
<1> HIDE DEF w
<1>4. WireInv' /\ Hushed /\ 1 \in DOMAIN inbox[w] /\ m = inbox[w][1]  BY <1>2, <1>3, TakesOut
<1>5. svc.readyOf \in readySet' => svc.readyOf \in readySet \/ Greeted  BY <1>2, <1>4 DEF Greeted
<1>6. Own => Own'  BY <1>3 DEF Own
<1> QED  BY <1>3, <1>4, <1>5, <1>6, QueueThins, MuteIs DEF StaleInv

LEMMA ReceiverStale ==
    ASSUME Inv, ConnInv, NestInv, StaleInv, ~svc.config.reconnect, NEW k \in Conns, ReceiverStep(k) PROVE StaleInv'
<1> DEFINE t == RecvTask(k)
           a == [at |-> "r_recv", conn |-> svc.ws]
           g == SendCall([type |-> "pong"], TRUE, TRUE)
           f == At("r_ponged")
           h == At("r_end")
<1>1. t \in Tasks /\ t # Pipeline  BY PlacesApart
<1>2. PICK l \in LoopPlaces : Wakes(t, l) \/ Runs(t, l)
  BY DEF ReceiverStep, ReceiverLoops, ReceivesPing, ReceivesReady, ReceivesTranscript, ReceiverPushes,
         ReceivesEnd, ReceiverLosesConnection, ReceiverFailed, ReceiverEnds, Receives, LoopPlaces
<1>3. Mute
  <2>1. CASE ReceivesPing(k) \/ ReceivesReady(k) \/ ReceivesTranscript(k) \/ ReceivesEnd(k)
    <3>1. PICK m \in [type : {"ready", "final", "partial", "ping", "closed", "error"}, gen : Gens] :
             /\ Receives(k, m)
             /\ readySet' \subseteq readySet \cup (IF m.type = "ready" /\ m.gen = svc.gen THEN {svc.readyOf} ELSE {})
      <4>1. CASE ReceivesPing(k)
        <5>1. PICK m \in [type : {"ping"}, gen : Gens] : Receives(k, m) /\ readySet' = readySet
          BY <4>1 DEF ReceivesPing, eventVars
        <5> QED  BY <5>1
      <4>2. CASE ReceivesReady(k)
        <5>1. PICK m \in [type : {"ready"}, gen : Gens] :
                Receives(k, m) /\ readySet' = IF m.gen = svc.gen THEN readySet \cup {svc.readyOf} ELSE readySet
          BY <4>2 DEF ReceivesReady
        <5> QED  BY <5>1
      <4>3. CASE ReceivesTranscript(k)
        <5>1. PICK m \in [type : {"partial", "final"}, gen : Gens] : Receives(k, m) /\ readySet' = readySet
          BY <4>3 DEF ReceivesTranscript
        <5> QED  BY <5>1
      <4>4. CASE ReceivesEnd(k)
        <5>1. PICK m \in [type : {"closed", "error"}, gen : Gens] : Receives(k, m) /\ readySet' = readySet
          BY <4>4 DEF ReceivesEnd
        <5> QED  BY <5>1
      <4> QED  BY <2>1, <4>1, <4>2, <4>3, <4>4
    <3> QED  BY <3>1, ReceivesStale
  <2>2. CASE ~(ReceivesPing(k) \/ ReceivesReady(k) \/ ReceivesTranscript(k) \/ ReceivesEnd(k))
    <3>1. /\ svc' = svc \/ \E b : svc' = [svc EXCEPT !.active = @ /\ b]
          /\ readySet' = readySet /\ conn' = conn /\ buf' = buf /\ heard' = heard /\ server' = server /\ inbox' = inbox
      BY <2>2 DEF ReceiverStep, ReceiverLoops, ReceiverPushes, ReceiverLosesConnection, ReceiverFailed, ReceiverEnds,
         serviceVars, syncVars, eventVars, outsideVars, wireVars, historyVars
    <3>2. svc'.gen = svc.gen /\ svc'.ws = svc.ws /\ svc'.readyOf = svc.readyOf /\ (svc'.active => svc.active)
      <4>1. svc \in Service  BY DEF Inv, Slots, TypeInv
      <4> QED  BY <3>1, <4>1 DEF Service
    <3> QED  BY <3>1, <3>2, QueueThins, MuteSame DEF StaleInv
  <2> QED  BY <2>1, <2>2
<1>4. \/ Goto(t, a) /\ svc.ws # 0
      \/ Call(t, g, f)
      \/ Goto(t, At("r_loop")) \/ Goto(t, At("r_failed"))
      \/ \E m : Goto(t, [at |-> "r_push", msg |-> m])
      \/ Becomes(t, Disconnecting \o <<h>>)
      \/ Ends(t, "ok")
  BY DEF ReceiverStep, ReceiverLoops, ReceivesPing, ReceivesReady, ReceivesTranscript, ReceiverPushes,
         ReceivesEnd, ReceiverLosesConnection, ReceiverFailed, ReceiverEnds
<1>5. g.at = "send" /\ g.msg.type = "pong" /\ a.at = "r_recv" /\ a.conn = svc.ws /\ h.at = "r_end"  BY AtIs DEF SendCall
<1> HIDE DEF g, f, t, a, h
<1>6. (\A u \in Tasks : u # t => stack'[u] = stack[u]) /\ running \in {t, NoTask}
  <2>1. (\E w : Becomes(t, w)) \/ Ends(t, "ok")  BY <1>4 DEF Call, Goto
  <2> QED  BY <1>2, <2>1, Nonempty DEF Becomes, Ends, Inv, Slots, TypeInv
<1>7. ASSUME NEW e, Goto(t, e), e.at \in {"r_loop", "r_failed", "r_push"} PROVE StaleInv'
  <2>1. e.at \notin Loud  BY <1>7 DEF Loud, EarlyPlaces, ConnectPlaces
  <2>2. Meek(t)  BY <1>1, <1>2, <1>7, <2>1, GotoMeek
  <2> QED  BY <1>1, <1>3, <1>6, <2>2, MeekKeeps
<1>8. CASE Goto(t, a) /\ svc.ws # 0
  <2>1. svc.ws \in Conns  BY <1>8 DEF ConnInv, CurrentInv
  <2>2. Frame(t)' = a  BY <1>1, <1>2, <1>8, GotoTop
  <2>3. Said(t)'  BY <1>5, <2>1, <2>2 DEF Said, Tops
  <2> QED  BY <1>1, <1>3, <1>6, <2>3, KeptStale
<1>9. CASE Call(t, g, f)
  <2> DEFINE w == <<g, f>>
  <2>1. w \in Seq({g, f}) /\ w # <<>> /\ Head(w) = g /\ Becomes(t, w \o Callers(t))  BY <1>9 DEF Call
  <2> HIDE DEF w
  <2>2. Callers(t) \in Seq(Frames)  BY <1>1, <1>2, Nonempty, StackTyped DEF Inv
  <2>3. Frame(t)' = g  BY <1>1, <2>1, <2>2, BecomesTop
  <2>4. Said(t)'  BY <1>5, <2>3 DEF Said, Says, Tops
  <2> QED  BY <1>1, <1>3, <1>6, <2>4, KeptStale
<1>10. ASSUME Goto(t, At("r_loop")) \/ Goto(t, At("r_failed")) PROVE StaleInv'
  <2>1. PICK e : Goto(t, e) /\ e.at \in {"r_loop", "r_failed"}  BY <1>10, AtIs
  <2> QED  BY <1>7, <2>1
<1>11. ASSUME NEW m, Goto(t, [at |-> "r_push", msg |-> m]) PROVE StaleInv'
  <2> DEFINE e == [at |-> "r_push", msg |-> m]
  <2>1. Goto(t, e) /\ e.at = "r_push"  BY <1>11
  <2> HIDE DEF e
  <2> QED  BY <1>7, <2>1
<1>12. CASE Becomes(t, Disconnecting \o <<h>>)
  <2> DEFINE e == <<>>
             D == Disconnecting
  <2>1. e \in Seq(Frames) /\ h.at \in {"ended", "r_end", "final_done"} /\ Becomes(t, D \o <<h>>)  BY <1>5, <1>12
  <2> HIDE DEF e
  <2>2. Meek(t)
    <3>1. Becomes(t, (Disconnecting \o <<h>>) \o e) \/ Becomes(t, Disconnecting \o <<h>>) \/ Becomes(t, Disconnecting \o e)
      BY <2>1
    <3> QED  BY <1>1, <2>1, <3>1, DisconnectMeek
  <2> QED  BY <1>1, <1>3, <1>6, <2>2, MeekKeeps
<1>13. CASE Ends(t, "ok")
  <2>1. Meek(t)  BY <1>1, <1>13, EndsMeek
  <2> QED  BY <1>1, <1>3, <1>6, <2>1, MeekKeeps
<1> QED  BY <1>4, <1>8, <1>9, <1>10, <1>11, <1>12, <1>13

-----------------------------------------------------------------------------
(* Connecting, and the start of an utterance                               *)

\* The pipeline goes on before the start is sent.
LEMMA EarlyKeeps ==
    ASSUME Inv, StaleInv, Mute, \A u \in Tasks : u # Pipeline => stack'[u] = stack[u], running \in {Pipeline, NoTask},
           stack'[Pipeline] # <<>>, (Frame(Pipeline)').at \in EarlyPlaces \cup ConnectPlaces, Early' => Early,
           ~Over("final_sent")
    PROVE  StaleInv'
<1>1. ~Awaited'  BY DEF Awaited, Over, Under, Tops, EarlyPlaces, ConnectPlaces
<1>2. ~Tops(Pipeline, {"sending"})' /\ ~Tops(Pipeline, {"enqueue"})' /\ ~Tops(Pipeline, {"joined"})'
      /\ ~Tops(Pipeline, {"send"})' /\ ~Tops(Pipeline, {"r_recv"})'
  BY DEF Tops, EarlyPlaces, ConnectPlaces
<1>3. SpotInv'  BY <1>1, <1>2 DEF SpotInv, StaleInv, Mute
<1>4. Said(Pipeline)'  BY <1>2 DEF Said
<1>5. ActiveOwn'  BY DEF StaleInv, ActiveOwn, Mute
<1> QED  BY <1>3, <1>4, <1>5, KeptStale, PlacesApart

LEMMA GotoConnect ==
    ASSUME Inv, NEW l \in ConnectPlaces, Wakes(Pipeline, l) \/ Runs(Pipeline, l), NEW f, Goto(Pipeline, f),
           f.at \in ConnectPlaces
    PROVE  Early' => Early
<1>1. Tops(Pipeline, ConnectPlaces)  BY TopIs
<1>2. Frame(Pipeline)' = f  BY GotoTop, PlacesApart
<1>3. ~Tops(Pipeline, EarlyPlaces)'  BY <1>2 DEF Tops, EarlyPlaces, ConnectPlaces
<1>4. DOMAIN stack'[Pipeline] = DOMAIN stack[Pipeline]
      /\ \A i \in DOMAIN stack[Pipeline] : i > 1 => stack'[Pipeline][i] = stack[Pipeline][i]
  BY GotoDeep, PlacesApart
<1>5. 2 > 1  OBVIOUS
<1>6. 2 \in DOMAIN stack'[Pipeline] => 2 \in DOMAIN stack[Pipeline] /\ stack'[Pipeline][2] = stack[Pipeline][2]
  BY <1>4, <1>5
<1> QED  BY <1>1, <1>3, <1>6 DEF Early

LEMMA StarterStale ==
    ASSUME Inv, NestInv, StaleInv, NEW t \in Tasks,
           \/ Connect(t) \/ ConnectGranted(t) \/ ConnectLocked(t) \/ ConnectFails(t)
           \/ Start(t) \/ StartGranted(t) \/ StartLocked(t) \/ StartTimesOut(t)
    PROVE  StaleInv'
<1>1. PICK l \in ConnectPlaces \cup (StartPlaces \ {"start_sent"}) : Wakes(t, l) \/ Runs(t, l)
  BY DEF Connect, ConnectGranted, ConnectLocked, ConnectFails, ConnectPlaces,
         Start, StartGranted, StartLocked, StartTimesOut, StartPlaces
<1>2. t = Pipeline
  <2>1. Tops(t, StartPlaces \cup ConnectPlaces)  BY <1>1, TopIs
  <2> QED  BY <2>1, StarterIs
<1>3. (\A u \in Tasks : u # Pipeline => stack'[u] = stack[u]) /\ running \in {Pipeline, NoTask}
  <2>1. Stays(t)  BY ConnectStays, StartStays
  <2> QED  BY <1>1, <1>2, <2>1, Nonempty DEF Stays, Adds
<1>4. /\ svc' = svc \/ svc' = [svc EXCEPT !.closed = FALSE]
      /\ buf' = buf /\ conn' = conn /\ readySet' = readySet /\ heard' = heard /\ server' = server /\ inbox' = inbox
  BY DEF Connect, ConnectGranted, ConnectLocked, ConnectFails, serviceVars, syncVars, eventVars, outsideVars, wireVars,
         Start, StartGranted, StartLocked, StartTimesOut, historyVars
<1>5. Mute
  <2>1. svc \in Service  BY DEF Inv, Slots, TypeInv
  <2>2. svc'.gen = svc.gen /\ svc'.ws = svc.ws /\ svc'.readyOf = svc.readyOf /\ svc'.active = svc.active
    BY <1>4, <2>1 DEF Service
  <2> QED  BY <1>4, <2>2, QueueThins, MuteSame DEF StaleInv
<1>6. ~Over("final_sent")
  <2>1. l \notin {"send", "sending", "final_sent"}  BY DEF ConnectPlaces, StartPlaces
  <2> QED  BY <1>1, <1>2, <2>1, NotOver
<1>7. ASSUME Meek(t) PROVE StaleInv'  BY <1>2, <1>3, <1>5, <1>6, <1>7, MeekKeeps
<1>8. ASSUME NEW p \in EarlyPlaces \cup ConnectPlaces, Goto(t, At(p)), l \in EarlyPlaces \/ (l \in ConnectPlaces /\ p \in ConnectPlaces)
      PROVE  StaleInv'
  <2> DEFINE f == At(p)
  <2>1. Goto(t, f) /\ f.at = p  BY <1>8, AtIs
  <2> HIDE DEF f
  <2>2. stack'[t] # <<>> /\ Frame(t)' = f  BY <1>1, <2>1, GotoTop
  <2>3. Early' => Early
    <3>1. CASE l \in EarlyPlaces
      <4>1. Tops(Pipeline, EarlyPlaces)  BY <1>1, <1>2, <3>1, TopIs
      <4> QED  BY <4>1 DEF Early
    <3>2. CASE l \in ConnectPlaces /\ p \in ConnectPlaces  BY <1>1, <1>2, <2>1, <3>2, GotoConnect
    <3> QED  BY <1>8, <3>1, <3>2
  <2> QED  BY <1>2, <1>3, <1>5, <1>6, <2>1, <2>2, <2>3, EarlyKeeps
<1>9. ASSUME Return(t), l \notin ConnectPlaces PROVE StaleInv'
  <2>1. l \notin ConnectPlaces \cup {"send", "sending", "raise"}  BY <1>9 DEF StartPlaces
  <2>2. Meek(t)  BY <1>1, <1>9, <2>1, ReturnMeek
  <2> QED  BY <1>7, <2>2
<1>10. ASSUME Raise(t, "error") PROVE StaleInv'
  <2>1. Meek(t)  BY <1>1, <1>10, RaiseMeek
  <2> QED  BY <1>7, <2>1
<1>11. ASSUME NEW p, Wakes(t, p) \/ Runs(t, p) PROVE l = p
  <2>1. Frame(t).at = l /\ Frame(t).at = p  BY <1>1, <1>11, Nonempty
  <2> QED  BY <2>1
<1>12. CASE Connect(t)
  <2>1. l = "connect"  BY <1>11, <1>12 DEF Connect
  <2>2. \E p \in {"connect_locked", "connect_lock"} : Goto(t, At(p))  BY <1>12 DEF Connect
  <2> QED  BY <1>8, <2>1, <2>2 DEF ConnectPlaces
<1>13. CASE ConnectGranted(t)
  <2>1. l = "connect_lock"  BY <1>11, <1>13 DEF ConnectGranted
  <2>2. Goto(t, At("connect_locked"))  BY <1>13 DEF ConnectGranted
  <2> QED  BY <1>8, <2>1, <2>2 DEF ConnectPlaces
<1>14. CASE ConnectLocked(t)
  <2>1. l = "connect_locked" /\ (Return(t) \/ Goto(t, At("connecting")))  BY <1>11, <1>14 DEF ConnectLocked
  <2>2. CASE Goto(t, At("connecting"))  BY <1>8, <2>1, <2>2 DEF ConnectPlaces
  <2>3. CASE Return(t) /\ stack'[t] # <<>>
    <3>1. /\ 2 \in DOMAIN stack[t] /\ Frame(t)' = stack[t][2]
          /\ <<l, stack[t][2].at>> \in Nesting /\ stack[t][2].at \in CallerPlaces
      BY <1>1, <2>3, ReturnTop
    <3>2. stack[t][2].at \in {"audio", "start_connected"}
      BY <2>1, <3>1 DEF Nesting, ConnectPlaces, StartPlaces, ClosePlaces, LoopPlaces, SendPlaces, CallerPlaces
    <3>3. CASE stack[t][2].at = "audio"
      <4>1. (Frame(t)').at \notin Loud  BY <3>1, <3>3 DEF Loud, EarlyPlaces, ConnectPlaces
      <4>2. Meek(t)  BY <4>1 DEF Meek
      <4> QED  BY <1>7, <4>2
    <3>4. CASE stack[t][2].at = "start_connected"
      <4>1. Tops(Pipeline, ConnectPlaces)
        <5>1. l \in ConnectPlaces  BY <2>1 DEF ConnectPlaces
        <5> QED  BY <1>1, <1>2, <5>1, TopIs
      <4>2. Early  BY <1>2, <3>1, <3>4, <4>1 DEF Early
      <4>3. (Frame(Pipeline)').at \in EarlyPlaces \cup ConnectPlaces  BY <1>2, <3>1, <3>4 DEF EarlyPlaces
      <4> QED  BY <1>2, <1>3, <1>5, <1>6, <2>3, <4>2, <4>3, EarlyKeeps
    <3> QED  BY <3>2, <3>3, <3>4
  <2>4. CASE Return(t) /\ stack'[t] = <<>>
    <3>1. Meek(t)  BY <2>4 DEF Meek
    <3> QED  BY <1>7, <3>1
  <2> QED  BY <2>1, <2>2, <2>3, <2>4
<1>15. CASE ConnectFails(t)  BY <1>10, <1>15 DEF ConnectFails
<1>16. CASE Start(t)
  <2>1. l = "start" /\ (Return(t) \/ \E p \in {"start_locked", "start_lock"} : Goto(t, At(p)))  BY <1>11, <1>16 DEF Start
  <2>2. l \in EarlyPlaces /\ l \notin ConnectPlaces  BY <2>1 DEF EarlyPlaces, ConnectPlaces
  <2> QED  BY <1>8, <1>9, <2>1, <2>2 DEF EarlyPlaces
<1>17. CASE StartGranted(t)
  <2>1. l = "start_lock" /\ Goto(t, At("start_locked"))  BY <1>11, <1>17 DEF StartGranted
  <2> QED  BY <1>8, <2>1 DEF EarlyPlaces
<1>18. CASE StartLocked(t)
  <2> DEFINE f == At("start_connected")
             s == Callers(t)
             w == <<f>>
             g == At("connect")
             r == w \o s
  <2>1. l = "start_locked" /\ (Return(t) \/ Becomes(t, r) \/ Becomes(t, <<g>> \o r))
    BY <1>11, <1>18, OnceIs DEF StartLocked
  <2>2. l \in EarlyPlaces /\ l \notin ConnectPlaces  BY <2>1 DEF EarlyPlaces, ConnectPlaces
  <2>3. f.at = "start_connected" /\ g.at = "connect"  BY AtIs
  <2>4. s \in Seq(Frames)  BY <1>1, Nonempty, StackTyped DEF Inv
  <2>5. f \in Frames  BY QuietAt, QuietIsQuiet DEF QuietPlaces
  <2> HIDE DEF f, g, s
  <2>6. w \in Seq({f}) /\ w \in Seq(Frames) /\ w # <<>> /\ Head(w) = f  BY <2>5
  <2>7. r \in Seq(Frames)  BY <2>4, <2>6, ConcatAre
  <2>8. ASSUME Becomes(t, r) \/ Becomes(t, <<g>> \o r)
        PROVE  stack'[t] # <<>> /\ (Frame(t)').at \in {"start_connected", "connect"}
    <3> HIDE DEF w
    <3>1. CASE Becomes(t, r)
      <4>1. stack'[t] # <<>> /\ Frame(t)' = Head(w)  BY <2>4, <2>6, <3>1, BecomesTop DEF r
      <4> QED  BY <2>3, <2>6, <4>1
    <3> HIDE DEF r
    <3>2. CASE Becomes(t, <<g>> \o r)
      <4> DEFINE v == <<g>>
      <4>1. v \in Seq({g}) /\ v # <<>> /\ Head(v) = g /\ Becomes(t, v \o r)  BY <3>2
      <4> HIDE DEF v
      <4>2. stack'[t] # <<>> /\ Frame(t)' = Head(v)  BY <2>7, <4>1, BecomesTop
      <4> QED  BY <2>3, <4>1, <4>2
    <3> QED  BY <2>8, <3>1, <3>2
  <2>9. Early
    <3>1. Tops(Pipeline, EarlyPlaces)  BY <1>1, <1>2, <2>2, TopIs
    <3> QED  BY <3>1 DEF Early
  <2> HIDE DEF w, r
  <2>10. ASSUME Becomes(t, r) \/ Becomes(t, <<g>> \o r) PROVE StaleInv'
    <3>1. stack'[t] # <<>> /\ (Frame(t)').at \in EarlyPlaces \cup ConnectPlaces
      BY <2>8, <2>10 DEF EarlyPlaces, ConnectPlaces
    <3> QED  BY <1>2, <1>3, <1>5, <1>6, <2>9, <3>1, EarlyKeeps
  <2> QED  BY <1>9, <2>1, <2>2, <2>10
<1>19. CASE StartTimesOut(t)  BY <1>10, <1>19 DEF StartTimesOut
<1> QED  BY <1>12, <1>13, <1>14, <1>15, <1>16, <1>17, <1>18, <1>19

LEMMA StartSentStale ==
    ASSUME Inv, NestInv, ReadyInv, StaleInv, NEW t \in Tasks, StartConnected(t) \/ StartSent(t) \/ StartReady(t)
    PROVE  StaleInv'
<1> DEFINE m == [type |-> "start", gen |-> svc.gen]
           g == SendCall(m, TRUE, FALSE)
           c == At("start_sent")
           f == [at |-> "start_wait", event |-> svc.readyOf]
<1>1. PICK l \in {"start_connected", "start_sent", "start_wait"} : Wakes(t, l) \/ Runs(t, l)
  BY DEF StartConnected, StartSent, StartReady
<1>2. t = Pipeline
  <2>1. Tops(t, StartPlaces \cup ConnectPlaces)  BY <1>1, TopIs DEF StartPlaces
  <2> QED  BY <2>1, StarterIs
<1>3. (\A u \in Tasks : u # Pipeline => stack'[u] = stack[u]) /\ running \in {Pipeline, NoTask}
  <2>1. Stays(t)  BY StartStays
  <2> QED  BY <1>1, <1>2, <2>1, Nonempty DEF Stays, Adds
<1>4. /\ svc' \in {svc, [svc EXCEPT !.suppress = FALSE], [svc EXCEPT !.active = TRUE]}
      /\ StartReady(t) \/ svc' \in {svc, [svc EXCEPT !.suppress = FALSE]}
      /\ buf' = buf /\ conn' = conn /\ heard' = heard /\ server' = server /\ inbox' = inbox
      /\ readySet' = readySet \/ readySet' = readySet \ {svc.readyOf}
  BY DEF StartConnected, StartSent, StartReady, serviceVars, syncVars, eventVars, outsideVars, wireVars, historyVars
<1>5. /\ svc'.gen = svc.gen /\ svc'.ws = svc.ws /\ svc'.readyOf = svc.readyOf
      /\ StartReady(t) \/ svc'.active = svc.active
  <2>1. svc \in Service  BY DEF Inv, Slots, TypeInv
  <2> QED  BY <1>4, <2>1 DEF Service
<1>6. ~StartReady(t) => Mute  BY <1>4, <1>5, QueueThins, MuteSame DEF StaleInv
<1>7. ~Under("final_sent") /\ ~Over("final_sent") /\ ~Under("start_sent")
  <2>1. l \notin {"send", "sending", "final_sent"}  OBVIOUS
  <2> QED  BY <1>1, <1>2, <2>1, NotOver
<1>8. ASSUME NEW p, Wakes(t, p) \/ Runs(t, p) PROVE l = p
  <2>1. Frame(t).at = l /\ Frame(t).at = p  BY <1>1, <1>8, Nonempty
  <2> QED  BY <2>1
<1>9. CASE StartConnected(t)
  <2>1. l = "start_connected" /\ Call(t, g, c) /\ readySet' = readySet \ {svc.readyOf}
    BY <1>8, <1>9 DEF StartConnected
  <2>2. Mute
    <3>1. ~StartReady(t)
      <4>1. StartReady(t) => l = "start_wait"  BY <1>8 DEF StartReady
      <4> QED  BY <2>1, <4>1
    <3> QED  BY <1>6, <3>1
  <2>3. g.at = "send" /\ g.msg = m /\ m.type = "start" /\ m.gen = svc.gen  BY DEF SendCall
  <2> HIDE DEF g, c, m
  <2> DEFINE w == <<g, c>>
  <2>4. w \in Seq({g, c}) /\ w # <<>> /\ Head(w) = g /\ Becomes(t, w \o Callers(t))  BY <2>1 DEF Call
  <2> HIDE DEF w
  <2>5. Callers(t) \in Seq(Frames)  BY <1>1, Nonempty, StackTyped DEF Inv
  <2>6. Frame(t)' = g  BY <2>4, <2>5, BecomesTop
  <2>7. Said(t)'  BY <1>2, <1>5, <2>3, <2>6 DEF Said, Says, Tops
  <2>8. ~Greeted
    <3>1. Tops(Pipeline, EarlyPlaces)  BY <1>1, <1>2, <2>1, TopIs DEF EarlyPlaces
    <3> QED  BY <3>1 DEF Early, StaleInv, SpotInv
  <2>9. ~Told'  BY <1>5, <2>1, <2>2, <2>8 DEF Told, Mute
  <2>10. SpotInv'
    <3>1. ~Early' /\ ~Tops(Pipeline, {"sending"})' /\ ~Tops(Pipeline, {"enqueue"})' /\ ~Tops(Pipeline, {"joined"})'
      BY <1>2, <2>3, <2>6 DEF Early, Tops, EarlyPlaces, ConnectPlaces
    <3> QED  BY <2>9, <3>1 DEF SpotInv
  <2>11. ActiveOwn'  BY <1>7, <2>2 DEF StaleInv, ActiveOwn, Mute
  <2> QED  BY <1>2, <1>3, <2>2, <2>7, <2>10, <2>11, KeptStale
<1>10. CASE StartSent(t)
  <2>1. l = "start_sent" /\ Goto(t, f)  BY <1>8, <1>10 DEF StartSent
  <2>2. Mute
    <3>1. ~StartReady(t)
      <4>1. StartReady(t) => l = "start_wait"  BY <1>8 DEF StartReady
      <4> QED  BY <2>1, <4>1
    <3> QED  BY <1>6, <3>1
  <2>3. f.at = "start_wait"  OBVIOUS
  <2> HIDE DEF f
  <2>4. Frame(t)' = f  BY <1>1, <2>1, GotoTop
  <2>5. Awaited
    <3>1. Tops(Pipeline, {"start_sent"})  BY <1>1, <1>2, <2>1, TopIs
    <3> QED  BY <3>1 DEF Awaited, Over
  <2>6. SpotInv'
    <3>1. ~Early' /\ ~Tops(Pipeline, {"sending"})' /\ ~Tops(Pipeline, {"enqueue"})' /\ ~Tops(Pipeline, {"joined"})'
      BY <1>2, <2>3, <2>4 DEF Early, Tops, EarlyPlaces, ConnectPlaces
    <3>2. Told' => Own'  BY <2>2, <2>5 DEF StaleInv, SpotInv, Mute
    <3> QED  BY <3>1, <3>2 DEF SpotInv
  <2>7. Said(t)'  BY <2>3, <2>4 DEF Said, Tops
  <2>8. ActiveOwn'  BY <1>7, <2>2 DEF StaleInv, ActiveOwn, Mute
  <2> QED  BY <1>2, <1>3, <2>2, <2>6, <2>7, <2>8, KeptStale
<1>11. CASE StartReady(t)
  <2>1. l = "start_wait" /\ Return(t) /\ Frame(t).event \in readySet /\ readySet' = readySet
    BY <1>8, <1>11 DEF StartReady, eventVars
  <2>2. Tops(Pipeline, {"start_wait"})  BY <1>1, <1>2, <2>1, TopIs
  <2>3. Awaited /\ Told  BY <1>2, <2>1, <2>2 DEF Awaited, Told, ReadyInv, PlaceInv, StartInv
  <2>4. Own'  BY <1>4, <1>5, <2>3 DEF StaleInv, SpotInv, Own
  <2>5. Meek(t)
    <3>1. l \notin ConnectPlaces \cup {"send", "sending", "raise"}  BY <2>1 DEF ConnectPlaces
    <3> QED  BY <1>1, <2>1, <3>1, ReturnMeek
  <2>6. Said(t)' /\ SpotInv'  BY <1>2, <2>5, MeekSays
  <2>7. \A u \in Tasks : u # t => Said(u)'  BY <1>2, <1>3, OtherSaid
  <2>8. WireInv' /\ GenInv' /\ ~heard'.stale  BY <1>4, <1>5 DEF StaleInv, WireInv, GenInv
  <2> QED  BY <2>4, <2>6, <2>7, <2>8 DEF StaleInv, ActiveOwn
<1> QED  BY <1>9, <1>10, <1>11

\* A connection is made while nothing is queued and no utterance is active.
LEMMA ConnectedStale ==
    ASSUME Inv, ConnInv, NestInv, ReadyInv, StaleInv, NEW t \in Tasks, Connected(t) PROVE StaleInv'
<1>1. PICK w \in Conns :
        /\ Wakes(t, "connecting") /\ conn[w] = "none"
        /\ svc' = [svc EXCEPT !.ws = w, !.readyOf = w, !.sendTask = SendTask(w), !.recvTask = RecvTask(w)]
        /\ stack' = [stack EXCEPT ![t] = Callers(t), ![SendTask(w)] = <<At("s_new")>>,
                                  ![RecvTask(w)] = <<At("r_new")>>]
        /\ buf' = buf /\ heard' = heard /\ server' = server /\ inbox' = inbox
  BY DEF Connected, historyVars
<1> DEFINE s == SendTask(w)
           r == RecvTask(w)
           x == <<At("s_new")>>
           y == <<At("r_new")>>
<1>2. t = Pipeline /\ t \notin Loops
  <2>1. Tops(t, StartPlaces \cup ConnectPlaces)  BY <1>1, TopIs DEF ConnectPlaces
  <2> QED  BY <2>1, StarterIs
<1>3. svc.ws = 0 /\ stack[t] # <<>> /\ Frame(t).at = "connecting" /\ running = NoTask
  <2>1. Tops(t, {"connecting"})  BY <1>1, TopIs
  <2> QED  BY <1>1, <2>1, Nonempty DEF ConnInv, Placed, Wakes
<1>4. ~svc.active /\ buf.queue = <<>>  BY <1>3 DEF ReadyInv, EmptyInv
<1>5. svc'.gen = svc.gen /\ svc'.active = svc.active
  <2>1. svc \in Service  BY DEF Inv, Slots, TypeInv
  <2> QED  BY <1>1, <2>1 DEF Service
<1>6. /\ stack'[t] = Callers(t) /\ stack'[s] = x /\ stack'[r] = y
      /\ \A u \in Tasks : u \notin {t, s, r} => stack'[u] = stack[u]
  <2>1. stack' = [stack EXCEPT ![t] = Callers(t), ![s] = x, ![r] = y]  BY <1>1
  <2>2. s \in Tasks /\ r \in Tasks /\ s # t /\ r # t /\ s # r  BY <1>2, PlacesApart DEF Loops
  <2>3. DOMAIN stack = Tasks  BY DEF Inv, Slots, TypeInv
  <2> HIDE DEF s, r, x, y
  <2> QED  BY <2>1, <2>2, <2>3
<1>7. (Frame(s)').at = "s_new" /\ (Frame(r)').at = "r_new"
  <2>1. At("s_new").at = "s_new" /\ At("r_new").at = "r_new"  BY AtIs
  <2>2. Head(x) = At("s_new") /\ Head(y) = At("r_new")  OBVIOUS
  <2> HIDE DEF s, r, x, y
  <2> QED  BY <1>6, <2>1, <2>2 DEF Frame
<1> HIDE DEF s, r, x, y
<1>8. ASSUME stack'[t] # <<>>
      PROVE  2 \in DOMAIN stack[t] /\ Frame(t)' = stack[t][2] /\ stack[t][2].at \in {"audio", "start_connected"}
  <2>1. stack[t] \in Seq(Frames) /\ Frame(t) = stack[t][1] /\ Callers(t) # <<>>
    BY <1>3, <1>6, <1>8, StackTyped DEF Inv
  <2>2. 2 \in DOMAIN stack[t] /\ Head(Callers(t)) = stack[t][2]  BY <1>3, <2>1 DEF Callers
  <2>3. 2 > 1 /\ 2 - 1 = 1  OBVIOUS
  <2>4. <<"connecting", stack[t][2].at>> \in Nesting /\ stack[t][2].at \in CallerPlaces
    BY <1>3, <2>1, <2>2, <2>3, Callee
  <2>5. stack[t][2].at \in {"audio", "start_connected"}
    BY <2>4 DEF Nesting, ConnectPlaces, StartPlaces, ClosePlaces, LoopPlaces, SendPlaces, CallerPlaces
  <2>6. Frame(t)' = stack[t][2]  BY <1>6, <2>2 DEF Frame
  <2> QED  BY <2>2, <2>5, <2>6
<1>9. Early' => Early
  <2> SUFFICES ASSUME Early' PROVE Early  OBVIOUS
  <2>1. stack'[t] # <<>>  BY <1>2 DEF Early, Tops
  <2>2. stack[t][2].at = "start_connected" /\ 2 \in DOMAIN stack[t]
    BY <1>2, <1>8, <2>1 DEF Early, Tops, EarlyPlaces, ConnectPlaces
  <2>3. Tops(Pipeline, ConnectPlaces)  BY <1>1, <1>2, TopIs DEF ConnectPlaces
  <2> QED  BY <1>2, <2>2, <2>3 DEF Early
<1>10. SpotInv'
  <2>1. ~Awaited' /\ ~Tops(Pipeline, {"sending"})' /\ ~Tops(Pipeline, {"enqueue"})' /\ ~Tops(Pipeline, {"joined"})'
    BY <1>2, <1>8 DEF Awaited, Over, Under, Tops
  <2>2. Greeted' = Greeted  BY <1>1, <1>5 DEF Greeted
  <2> QED  BY <1>9, <2>1, <2>2 DEF SpotInv, StaleInv
<1>11. ASSUME NEW u \in Tasks PROVE Said(u)'
  <2>1. CASE u \in {t, s, r}  BY <1>7, <1>8, <2>1 DEF Said, Tops
  <2>2. CASE u \notin {t, s, r}  BY <1>3, <1>6, <2>2, OtherSaid
  <2> QED  BY <2>1, <2>2
<1>12. WireInv' /\ GenInv' /\ ~heard'.stale  BY <1>1, <1>5 DEF StaleInv, WireInv, GenInv
<1>13. ~Mine' /\ ActiveOwn'
  <2>1. DOMAIN buf'.queue = {}  BY <1>1, <1>4
  <2> QED  BY <1>4, <1>5, <2>1 DEF Mine, ActiveOwn
<1> QED  BY <1>10, <1>11, <1>12, <1>13 DEF StaleInv

-----------------------------------------------------------------------------
(* Sends                                                                   *)

LEMMA ServesIs ==
    ASSUME NEW s \in Sides, NEW m \in Message, m.type # "cancel"
    PROVE  /\ Serves(s, m).then \in Sides
           /\ \/ Serves(s, m).then.utterance = s.utterance /\ Serves(s, m).says \in {"nothing", "closed", "error"}
              \/ m.type = "start" /\ Serves(s, m).then.utterance = m.gen /\ Serves(s, m).says = "ready"
              \/ m.type = "finalize" /\ Serves(s, m).says = "final"
<1> DEFINE c == [s EXCEPT !.phase = "closed"]
           n == [utterance |-> m.gen, phase |-> "live"]
<1>1. c \in Sides /\ c.utterance = s.utterance /\ Silent \in Sides  BY DEF Sides, Silent
<1>2. m.type = "start" => n \in Sides /\ n.utterance = m.gen  BY DEF Message, Sides
<1> HIDE DEF c, n
<1>3. CASE m.type = "start"
  <2>1. CASE s.phase = "none"
    <3>1. Serves(s, m) = [then |-> n, says |-> "ready"]  BY <1>3, <2>1 DEF Serves, n
    <3> QED  BY <1>2, <1>3, <3>1
  <2>2. CASE s.phase # "none"
    <3>1. Serves(s, m) = [then |-> c, says |-> "error"]  BY <1>3, <2>2 DEF Serves, c
    <3> QED  BY <1>1, <3>1
  <2> QED  BY <2>1, <2>2
<1>4. CASE m.type = "finalize"
  <2>1. CASE s.phase = "live"
    <3>1. Serves(s, m) = [then |-> Silent, says |-> "final"]  BY <1>4, <2>1 DEF Serves
    <3> QED  BY <1>1, <1>4, <3>1
  <2>2. CASE s.phase # "live"
    <3>1. Serves(s, m) = [then |-> c, says |-> "error"]  BY <1>4, <2>2 DEF Serves, c
    <3> QED  BY <1>1, <3>1
  <2> QED  BY <2>1, <2>2
<1>5. CASE m.type = "audio"
  <2>1. CASE s.phase = "live"
    <3>1. Serves(s, m) = [then |-> s, says |-> "nothing"]  BY <1>5, <2>1 DEF Serves
    <3> QED  BY <3>1
  <2>2. CASE s.phase # "live"
    <3>1. Serves(s, m) = [then |-> c, says |-> "error"]  BY <1>5, <2>2 DEF Serves, c
    <3> QED  BY <1>1, <3>1
  <2> QED  BY <2>1, <2>2
<1>6. CASE m.type = "close"
  <2>1. Serves(s, m) = [then |-> c, says |-> "closed"]  BY <1>6 DEF Serves, c
  <2> QED  BY <1>1, <2>1
<1>7. CASE m.type = "pong"
  <2>1. Serves(s, m) = [then |-> s, says |-> "nothing"]  BY <1>7 DEF Serves
  <2> QED  BY <2>1
<1> QED  BY <1>3, <1>4, <1>5, <1>6, <1>7 DEF Message

\* What an answer adds to an inbox.
LEMMA ReplyIs ==
    ASSUME StaleInv, NEW w \in Conns, NEW e \in Answers, inbox' = [inbox EXCEPT ![w] = Append(@, e)],
           server' \in [Conns -> Sides]
    PROVE  /\ WireInv'
           /\ \A v \in Conns : \A i \in DOMAIN inbox'[v] :
                inbox'[v][i] = e \/ \E j \in DOMAIN inbox[v] : inbox'[v][i] = inbox[v][j]
<1> DEFINE q == inbox[w]
<1>1. q \in Seq(Answers) /\ inbox' = [inbox EXCEPT ![w] = Append(q, e)] /\ inbox \in [Conns -> Seq(Answers)]
  BY DEF StaleInv, WireInv
<1>2. inbox'[w] = Append(q, e) /\ \A v \in Conns : v # w => inbox'[v] = inbox[v]  BY <1>1
<1> HIDE DEF q
<1>3. Append(q, e) \in Seq(Answers)  BY <1>1
<1>4. \A i \in DOMAIN Append(q, e) : Append(q, e)[i] = e \/ (i \in DOMAIN q /\ Append(q, e)[i] = q[i])  BY <1>1
<1>5. WireInv'  BY <1>1, <1>3 DEF WireInv
<1>6. \A i \in DOMAIN inbox'[w] : inbox'[w][i] = e \/ \E j \in DOMAIN inbox[w] : inbox'[w][i] = inbox[w][j]
  BY <1>2, <1>4 DEF q
<1> QED  BY <1>2, <1>5, <1>6

LEMMA DeliverIs ==
    ASSUME StaleInv, svc.ws \in Conns, conn[svc.ws] = "open", NEW t, NEW m \in Message, Says(t, m), Deliver(svc.ws, m),
           svc' = svc, conn' = conn, buf' = buf
    PROVE  /\ WireInv' /\ GenInv' /\ ~heard'.stale
           /\ \/ Hushed /\ (Own => Own')
              \/ m.type = "start" /\ Own'
              \/ m.type = "finalize"
<1> DEFINE w == svc.ws
           s == server[w]
           a == Serves(s, m)
           e == [type |-> a.says, gen |-> IF m.type = "start" THEN m.gen ELSE s.utterance]
<1>1. w \in Conns /\ w # 0 /\ s \in Sides /\ server \in [Conns -> Sides]  BY DEF StaleInv, WireInv, Conns
<1>2. /\ server' = [server EXCEPT ![w] = a.then]
      /\ IF a.says = "nothing" THEN inbox' = inbox ELSE inbox' = [inbox EXCEPT ![w] = Append(@, e)]
      /\ heard'.stale => heard.stale \/ (m.type = "audio" /\ m.gen # s.utterance)
  BY DEF Deliver, Reply
<1>3. /\ a.then \in Sides
      /\ \/ a.then.utterance = s.utterance /\ a.says \in {"nothing", "closed", "error"}
         \/ m.type = "start" /\ a.then.utterance = m.gen /\ a.says = "ready"
         \/ m.type = "finalize" /\ a.says = "final"
  BY <1>1, ServesIs DEF Says
<1>4. e.type = a.says /\ e.gen = IF m.type = "start" THEN m.gen ELSE s.utterance  OBVIOUS
<1>5. a.says # "nothing" => e \in Answers
  <2>1. e.gen \in Nat  BY <1>1, <1>4 DEF Message, Sides
  <2>2. a.says # "nothing" => e.type \in {"ready", "final", "partial", "ping", "closed", "error"}  BY <1>3, <1>4
  <2> QED  BY <2>1, <2>2 DEF Answers
<1> HIDE DEF a, e, s, w
<1>6. server' \in [Conns -> Sides] /\ server'[w] = a.then  BY <1>1, <1>2, <1>3
<1>7. ~heard'.stale
  <2>1. m.type = "audio" => m.gen = s.utterance  BY <1>1 DEF Says, Own, s, w
  <2> QED  BY <1>2, <2>1 DEF StaleInv
<1>8. WireInv' /\ \A v \in Conns : \A i \in DOMAIN inbox'[v] :
        (inbox'[v][i] = e /\ a.says # "nothing") \/ \E j \in DOMAIN inbox[v] : inbox'[v][i] = inbox[v][j]
  <2>1. CASE a.says = "nothing"
    <3>1. inbox' = inbox  BY <1>2, <2>1
    <3>2. WireInv'  BY <1>6, <3>1 DEF StaleInv, WireInv
    <3> QED  BY <3>1, <3>2
  <2>2. CASE a.says # "nothing"
    <3>1. inbox' = [inbox EXCEPT ![w] = Append(@, e)] /\ e \in Answers  BY <1>2, <1>5, <2>2
    <3> QED  BY <1>1, <1>6, <2>2, <3>1, ReplyIs
  <2> QED  BY <2>1, <2>2
<1>9. e.type = "ready" => m.type = "start" /\ e.gen = svc.gen  BY <1>3, <1>4 DEF Says
<1>10. GenInv'
  <2>1. \A i \in DOMAIN buf'.queue : buf'.queue[i].gen <= svc'.gen  BY DEF StaleInv, GenInv
  <2>2. ASSUME NEW v \in Conns, NEW i \in DOMAIN inbox'[v], inbox'[v][i].type = "ready"
        PROVE  inbox'[v][i].gen <= svc'.gen
    <3>1. CASE inbox'[v][i] = e
      <4>1. inbox'[v][i].gen = svc'.gen  BY <1>9, <2>2, <3>1
      <4>2. m.gen \in Nat  BY <1>9, <2>2, <3>1 DEF Message
      <4>3. svc.gen \in Nat  BY <1>9, <2>2, <3>1, <4>2 DEF Says
      <4> QED  BY <4>1, <4>3
    <3>2. ASSUME NEW j \in DOMAIN inbox[v], inbox'[v][i] = inbox[v][j] PROVE inbox'[v][i].gen <= svc'.gen
      BY <2>2, <3>2 DEF StaleInv, GenInv
    <3> QED  BY <1>8, <3>1, <3>2
  <2> QED  BY <2>1, <2>2 DEF GenInv
<1>11. CASE a.then.utterance = s.utterance /\ a.says \in {"nothing", "closed", "error"}
  <2>1. Own => Own'  BY <1>6, <1>11 DEF Own, s, w
  <2>2. Hushed
    <3> SUFFICES ASSUME NEW v \in Conns, NEW i \in DOMAIN inbox'[v], inbox'[v][i].type = "ready"
                 PROVE  \E j \in DOMAIN inbox[v] : inbox'[v][i] = inbox[v][j]
      BY DEF Hushed
    <3>1. inbox'[v][i] # e  BY <1>4, <1>11
    <3> QED  BY <1>8, <3>1
  <2> QED  BY <1>7, <1>8, <1>10, <2>1, <2>2
<1>12. CASE m.type = "start" /\ a.then.utterance = m.gen /\ a.says = "ready"
  <2>1. Own'  BY <1>6, <1>12 DEF Own, Says, w
  <2> QED  BY <1>7, <1>8, <1>10, <1>12, <2>1
<1> QED  BY <1>3, <1>7, <1>8, <1>10, <1>11, <1>12

\* A message is on its way: where the pipeline comes after it is as before.
LEMMA SendingSpot ==
    ASSUME Inv, StaleInv, Runs(Pipeline, "send"), NEW f, f.at = "sending", f.conn = svc.ws, Goto(Pipeline, f), svc' = svc,
           Under("start_sent") /\ Told' => Own', svc.active => Own' \/ Over("final_sent")
    PROVE  SpotInv' /\ ActiveOwn'
<1>1. Frame(Pipeline)' = f /\ stack'[Pipeline] # <<>>  BY GotoTop, PlacesApart
<1>2. DOMAIN stack'[Pipeline] = DOMAIN stack[Pipeline]
      /\ \A i \in DOMAIN stack[Pipeline] : i > 1 => stack'[Pipeline][i] = stack[Pipeline][i]
  BY GotoDeep, PlacesApart
<1>3. 2 > 1  OBVIOUS
<1>4. Tops(Pipeline, {"send", "sending"}) /\ \A p : ~Tops(Pipeline, {p}) \/ p = "send"
  <2>1. stack[Pipeline] # <<>> /\ Frame(Pipeline).at = "send"  BY Nonempty
  <2> QED  BY <2>1 DEF Tops
<1>5. Tops(Pipeline, {"send", "sending"})' /\ \A p : Tops(Pipeline, {p})' => p = "sending"  BY <1>1 DEF Tops
<1>6. \A p : Under(p)' = Under(p)  BY <1>2, <1>3, <1>4, <1>5 DEF Under
<1>7. ~Early' /\ ~Tops(Pipeline, {"enqueue"})' /\ ~Tops(Pipeline, {"joined"})' /\ ~Tops(Pipeline, {"start_wait"})'
      /\ ~Tops(Pipeline, {"start_sent"})'
  BY <1>1 DEF Early, Tops, EarlyPlaces, ConnectPlaces
<1>8. Awaited' => Under("start_sent")  BY <1>6, <1>7 DEF Awaited, Over
<1>9. SpotInv'  BY <1>1, <1>7, <1>8 DEF SpotInv
<1>10. Over("final_sent") => Over("final_sent")'  BY <1>4, <1>6 DEF Over
<1> QED  BY <1>9, <1>10 DEF ActiveOwn

LEMMA SendStale ==
    ASSUME Inv, ConnInv, NestInv, ReadyInv, StaleInv, ~svc.config.reconnect, NEW t \in Tasks, Send(t)
    PROVE  StaleInv'
<1> DEFINE w == svc.ws
           m == Frame(t).msg
           f == [Frame(t) EXCEPT !.at = "sending", !.conn = svc.ws]
<1>1. Runs(t, "send") /\ stack[t] # <<>> /\ Frame(t).at = "send" /\ Frame(t) \in Frames /\ running = t
  <2>1. Runs(t, "send")  BY DEF Send
  <2> QED  BY <2>1, Nonempty, StackTyped DEF Inv, Runs
<1>2. Frame(t) \in SendFrames /\ m \in Message /\ f.at = "sending" /\ f.conn = svc.ws
  <2>1. Frame(t) \in SendFrames  BY <1>1, SendFields
  <2> QED  BY <2>1 DEF SendFrames
<1>3. /\ svc' = svc /\ buf' = buf /\ readySet' = readySet /\ conn' = conn
      /\ \/ w # 0 /\ conn[w] = "open" /\ Deliver(w, m) /\ Goto(t, f)
         \/ (w = 0 \/ conn[w] # "open") /\ Raise(t, "error") /\ server' = server /\ inbox' = inbox /\ heard' = heard
  BY DEF Send, SendFails, serviceVars, syncVars, eventVars
<1>4. Says(t, m)
  <2>1. Tops(t, {"send"})  BY <1>1, TopIs
  <2> QED  BY <2>1 DEF StaleInv, Said
<1> HIDE DEF f
<1>5. \A u \in Tasks : u # t => stack'[u] = stack[u]
  BY <1>3 DEF Raise, Goto, Becomes, Inv, Slots, TypeInv
<1>6. CASE (w = 0 \/ conn[w] # "open") /\ Raise(t, "error") /\ server' = server /\ inbox' = inbox /\ heard' = heard
  <2>1. Mute  BY <1>3, <1>6, QueueThins, MuteSame DEF StaleInv
  <2>2. Meek(t)  BY <1>1, <1>6, RaiseMeek
  <2>3. Own'  BY <1>3, <1>6 DEF Own
  <2> QED  BY <1>1, <1>5, <2>1, <2>2, <2>3, MeekKeeps
<1>7. CASE w # 0 /\ conn[w] = "open" /\ Deliver(w, m) /\ Goto(t, f)
  <2>1. w \in Conns  BY <1>7 DEF ConnInv, CurrentInv
  <2> HIDE DEF m
  <2>2. /\ WireInv' /\ GenInv' /\ ~heard'.stale
        /\ \/ Hushed /\ (Own => Own')
           \/ m.type = "start" /\ Own'
           \/ m.type = "finalize"
    BY <1>2, <1>3, <1>4, <1>7, <2>1, DeliverIs
  <2>3. Frame(t)' = f /\ stack'[t] # <<>>  BY <1>1, <1>7, GotoTop
  <2>4. Said(t)'  BY <1>2, <2>3 DEF Said, Tops
  <2>5. \A u \in Tasks : u # t => Said(u)'  BY <1>1, <1>5, OtherSaid
  <2>6. CASE Hushed /\ (Own => Own')
    <3>1. Mute  BY <1>3, <2>2, <2>6, QueueThins, MuteIs DEF StaleInv
    <3>2. ASSUME t = Pipeline PROVE SpotInv' /\ ActiveOwn'
      <4>1. Under("start_sent") /\ Told' => Own'  BY <3>1 DEF Mute, StaleInv, SpotInv, Awaited, Over
      <4>2. svc.active => Own' \/ Over("final_sent")  BY <2>6 DEF StaleInv, ActiveOwn
      <4> QED  BY <1>1, <1>2, <1>3, <1>7, <3>2, <4>1, <4>2, SendingSpot
    <3> QED  BY <1>1, <1>5, <2>4, <3>1, <3>2, KeptStale
  <2>7. CASE m.type = "start" /\ Own'
    <3>1. t = Pipeline  BY <1>4, <2>7 DEF Says
    <3>2. SpotInv' /\ ActiveOwn'  BY <1>1, <1>2, <1>3, <1>7, <2>7, <3>1, SendingSpot
    <3> QED  BY <2>2, <2>4, <2>5, <2>7, <3>2 DEF StaleInv
  <2>8. CASE m.type = "finalize"
    <3>1. t = Pipeline /\ buf.queue = <<>> /\ Over("final_sent")  BY <1>4, <2>8 DEF Says
    <3>2. ~Under("start_sent")  BY <1>1, <3>1 DEF Over, Under, Tops
    <3>3. SpotInv' /\ ActiveOwn'  BY <1>1, <1>2, <1>3, <1>7, <3>1, <3>2, SendingSpot
    <3>4. ~Mine'
      <4>1. DOMAIN buf'.queue = {}  BY <1>3, <3>1
      <4> QED  BY <4>1 DEF Mine
    <3> QED  BY <2>2, <2>4, <2>5, <3>3, <3>4 DEF StaleInv
  <2> QED  BY <2>2, <2>6, <2>7, <2>8
<1> QED  BY <1>3, <1>6, <1>7

LEMMA SentStale ==
    ASSUME Inv, ConnInv, NestInv, ReadyInv, StaleInv, ~svc.config.reconnect, NEW t \in Tasks, Sent(t)
    PROVE  StaleInv'
<1>1. Wakes(t, "sending") /\ stack[t] # <<>> /\ Frame(t).at = "sending" /\ running = NoTask
  <2>1. Wakes(t, "sending")  BY DEF Sent
  <2> QED  BY <2>1, Nonempty DEF Wakes
<1>2. /\ svc' = svc /\ buf' = buf /\ readySet' = readySet /\ conn' = conn
      /\ server' = server /\ inbox' = inbox /\ heard' = heard
      /\ \/ conn[Frame(t).conn] # "open" /\ Raise(t, "error")
         \/ Return(t)
  BY DEF Sent, SendFails, serviceVars, syncVars, eventVars, outsideVars, wireVars, historyVars
<1>3. Mute  BY <1>2, QueueThins, MuteSame DEF StaleInv
<1>4. \A u \in Tasks : u # t => stack'[u] = stack[u]
  BY <1>2 DEF Raise, Goto, Return, Becomes, Inv, Slots, TypeInv
<1>5. CASE conn[Frame(t).conn] # "open" /\ Raise(t, "error")
  <2>1. Meek(t)  BY <1>1, <1>5, RaiseMeek
  <2>2. ASSUME t = Pipeline PROVE Own'
    <3>1. svc.ws \in {0, Frame(t).conn}  BY <1>1, <2>2 DEF StaleInv, SpotInv, Tops
    <3> QED  BY <1>2, <1>5, <3>1 DEF Own
  <2> QED  BY <1>1, <1>3, <1>4, <2>1, <2>2, MeekKeeps
<1>6. CASE Return(t) /\ stack'[t] = <<>>
  <2>1. Meek(t)  BY <1>6 DEF Meek
  <2>2. ASSUME t = Pipeline PROVE ~Over("final_sent")
    <3>1. stack[t] \in Seq(Frames) /\ Callers(t) = <<>>
      BY <1>6, <2>2 DEF Return, Becomes, Inv, Slots, TypeInv
    <3>2. Len(stack[t]) = 1  BY <1>1, <3>1, LoneFrame DEF Callers
    <3>3. 2 \notin DOMAIN stack[t]  BY <3>1, <3>2
    <3> QED  BY <1>1, <2>2, <3>3 DEF Over, Under, Tops
  <2> QED  BY <1>1, <1>3, <1>4, <2>1, <2>2, MeekKeeps
<1>7. CASE Return(t) /\ stack'[t] # <<>>
  <2>1. /\ 2 \in DOMAIN stack[t] /\ Frame(t)' = stack[t][2]
        /\ <<"sending", stack[t][2].at>> \in Nesting /\ stack[t][2].at \in CallerPlaces
    BY <1>1, <1>7, ReturnTop
  <2>2. stack[t][2].at \in {"start_sent", "final_sent", "s_sent", "r_ponged", "cancel_sent", "close"}
    BY <2>1 DEF Nesting, ConnectPlaces, StartPlaces, ClosePlaces, LoopPlaces, SendPlaces, CallerPlaces
  <2>3. Said(t)'  BY <2>1, <2>2 DEF Said, Tops
  <2>4. ASSUME t = Pipeline PROVE SpotInv' /\ ActiveOwn'
    <3>1. ~Early' /\ ~Tops(t, {"sending"})' /\ ~Tops(t, {"enqueue"})' /\ ~Tops(t, {"joined"})' /\ ~Tops(t, {"start_wait"})'
          /\ ~Tops(t, {"send", "sending"})'
      BY <2>1, <2>2, <2>4 DEF Early, Tops, EarlyPlaces, ConnectPlaces
    <3>2. Tops(t, {"send", "sending"})  BY <1>1 DEF Tops
    <3>3. \A p : Under(p) = (stack[t][2].at = p)  BY <2>1, <2>4, <3>2 DEF Under
    <3>4. \A p : Tops(t, {p})' = (stack[t][2].at = p)  BY <1>7, <2>1 DEF Tops
    <3>5. Awaited' => Awaited  BY <2>4, <3>1, <3>3, <3>4 DEF Awaited, Over, Under
    <3>6. SpotInv'  BY <1>3, <2>4, <3>1, <3>5 DEF SpotInv, StaleInv, Mute
    <3>7. Over("final_sent") => Over("final_sent")'
      <4>1. ~Tops(t, {"final_sent"})  BY <1>1 DEF Tops
      <4> QED  BY <2>4, <3>3, <3>4, <4>1 DEF Over
    <3> QED  BY <1>3, <3>6, <3>7 DEF StaleInv, ActiveOwn, Mute
  <2> QED  BY <1>1, <1>3, <1>4, <2>3, <2>4, KeptStale
<1> QED  BY <1>2, <1>5, <1>6, <1>7

-----------------------------------------------------------------------------
(* The pipeline                                                            *)

LEMMA EnqueuesStale ==
    ASSUME Inv, NestInv, ReadyInv, StaleInv, svc.config.policy # "block", Enqueues PROVE StaleInv'
<1> DEFINE t == Pipeline
           c == Frame(t).chunk
<1>1. /\ Runs(t, "enqueue") /\ Frame(t) \in Frames /\ Frame(t).at = "enqueue" /\ stack[t] # <<>> /\ t \in Tasks
      /\ running \in {t, NoTask}
  <2>1. Runs(t, "enqueue")  BY DEF Enqueues
  <2> QED  BY <2>1, PipelineFrame
<1>2. /\ svc' = svc /\ conn' = conn /\ readySet' = readySet /\ heard' = heard /\ server' = server /\ inbox' = inbox
      /\ \/ Raise(t, "error") /\ buf' = buf
         \/ /\ Return(t)
            /\ \/ buf' = Put(buf, c)
               \/ buf' = LET kept == Dropped(buf, c) IN IF Admits(kept, c) THEN Put(kept, c) ELSE kept
  BY DEF Enqueues, syncVars, eventVars, outsideVars, wireVars, historyVars
<1>3. Meek(t)
  <2>1. "enqueue" \notin ConnectPlaces \cup {"send", "sending", "raise"}  BY DEF ConnectPlaces
  <2> QED  BY <1>1, <1>2, <2>1, RaiseMeek, ReturnMeek
<1>4. \A u \in Tasks : u # t => stack'[u] = stack[u]
  BY <1>2 DEF Raise, Goto, Return, Becomes, Inv, Slots, TypeInv
<1>5. CASE buf' = buf
  <2>1. Mute  BY <1>2, <1>5, QueueThins, MuteSame DEF StaleInv
  <2>2. ~Over("final_sent")
    <3>1. "enqueue" \notin {"send", "sending", "final_sent"}  OBVIOUS
    <3> QED  BY <1>1, <3>1, NotOver
  <2> QED  BY <1>1, <1>3, <1>4, <2>1, <2>2, MeekKeeps
<1>6. CASE \/ buf' = Put(buf, c)
           \/ buf' = LET kept == Dropped(buf, c) IN IF Admits(kept, c) THEN Put(kept, c) ELSE kept
  <2>1. Tops(t, ActPlaces) /\ Tops(t, {"enqueue"})  BY <1>1, TopIs DEF ActPlaces
  <2>2. svc.active /\ c.gen = svc.gen  BY <2>1 DEF ReadyInv, PlaceInv, ActInv, StaleInv, SpotInv
  <2>3. Own'
    <3>1. ~Over("final_sent")
      <4>1. "enqueue" \notin {"send", "sending", "final_sent"}  OBVIOUS
      <4> QED  BY <1>1, <4>1, NotOver
    <3> QED  BY <1>2, <2>2, <3>1 DEF StaleInv, ActiveOwn, Own
  <2>4. c \in Chunk  BY <1>1, ChunkFields
  <2> HIDE DEF c
  <2>5. PICK k \in Nat : buf'.queue \in {SubSeq(buf.queue, k + 1, Len(buf.queue)),
                                         Append(SubSeq(buf.queue, k + 1, Len(buf.queue)), c)}
    BY <1>6, EnqueuePuts
  <2> DEFINE q == buf.queue
             d == SubSeq(q, k + 1, Len(q))
  <2>6. q \in Seq(Chunk) /\ Len(q) \in Nat  BY DEF Inv, Slots, TypeInv, Buffers
  <2> HIDE DEF q
  <2>7. d \in Seq(Chunk) /\ \A i \in DOMAIN d : k + i \in DOMAIN q /\ d[i] = q[k + i]
    BY <2>6
  <2> HIDE DEF d
  <2>8. \A i \in DOMAIN Append(d, c) : Append(d, c)[i] = c \/ (i \in DOMAIN d /\ Append(d, c)[i] = d[i])
    BY <2>4, <2>7
  <2>9. \A i \in DOMAIN buf'.queue : buf'.queue[i] = c \/ \E j \in DOMAIN buf.queue : buf'.queue[i] = buf.queue[j]
    BY <2>5, <2>7, <2>8 DEF q, d
  <2>10. GenInv'
    <3>1. ASSUME NEW i \in DOMAIN buf'.queue PROVE buf'.queue[i].gen <= svc'.gen
      <4>1. svc.gen \in Nat  BY DEF Inv, Slots, TypeInv, Service
      <4>2. CASE buf'.queue[i] = c  BY <1>2, <2>2, <4>1, <4>2
      <4>3. ASSUME NEW j \in DOMAIN buf.queue, buf'.queue[i] = buf.queue[j] PROVE buf'.queue[i].gen <= svc'.gen
        BY <1>2, <4>3 DEF StaleInv, GenInv
      <4> QED  BY <2>9, <4>2, <4>3
    <3> QED  BY <1>2, <3>1 DEF StaleInv, GenInv
  <2>11. WireInv' /\ ~heard'.stale  BY <1>2 DEF StaleInv, WireInv
  <2>12. Said(t)' /\ SpotInv'  BY <1>1, <1>3, MeekSays
  <2>13. \A u \in Tasks : u # t => Said(u)'  BY <1>1, <1>4, OtherSaid
  <2> QED  BY <2>3, <2>10, <2>11, <2>12, <2>13 DEF StaleInv, ActiveOwn
<1> QED  BY <1>2, <1>5, <1>6

LEMMA AudioStale ==
    ASSUME Inv, NestInv, StaleInv, HandlesAudio \/ QueuesAudio \/ Flushes \/ SpeechBegun PROVE StaleInv'
<1> DEFINE t == Pipeline
           a == [at |-> "queue", frames |-> <<Frame(Pipeline).frame>>]
           b == [at |-> "queue", frames |-> buf.preroll]
           f == [at |-> "enqueue", chunk |-> [frames |-> buf.aggregate, gen |-> svc.gen]]
<1>1. PICK l \in {"audio", "queue", "flush", "begun"} : Runs(t, l)
  BY DEF HandlesAudio, QueuesAudio, Flushes, SpeechBegun
<1>2. t \in Tasks /\ running \in {t, NoTask}  BY <1>1, PipelineFrame
<1>3. /\ svc' = svc /\ conn' = conn /\ readySet' = readySet /\ heard' = heard /\ server' = server /\ inbox' = inbox
      /\ buf' = buf \/ \E x : buf' = [buf EXCEPT !.preroll = x] \/ buf' = [buf EXCEPT !.aggregate = x]
      /\ Return(t) \/ Goto(t, a) \/ Goto(t, b) \/ Goto(t, At("flush")) \/ Goto(t, f)
  BY DEF HandlesAudio, QueuesAudio, Flushes, SpeechBegun, syncVars, eventVars, outsideVars, wireVars, historyVars
<1>4. buf'.queue = buf.queue
  <2>1. buf \in Buffers  BY DEF Inv, Slots, TypeInv
  <2> QED  BY <1>3, <2>1 DEF Buffers
<1>5. Mute  BY <1>3, <1>4, QueueThins, MuteSame DEF StaleInv
<1>6. ~Over("final_sent")
  <2>1. l \notin {"send", "sending", "final_sent"}  OBVIOUS
  <2> QED  BY <1>1, <2>1, NotOver
<1>7. a.at = "queue" /\ b.at = "queue" /\ f.at = "enqueue" /\ f.chunk.gen = svc.gen  OBVIOUS
<1> HIDE DEF a, b, f
<1>8. \A u \in Tasks : u # t => stack'[u] = stack[u]
  BY <1>3 DEF Goto, Return, Becomes, Inv, Slots, TypeInv
<1>9. CASE Goto(t, f)
  <2>1. Frame(t)' = f  BY <1>1, <1>2, <1>9, GotoTop
  <2>2. ~Early' /\ ~Awaited' /\ ~Tops(t, {"sending"})' /\ ~Tops(t, {"joined"})'
    BY <1>7, <2>1 DEF Early, Awaited, Over, Under, Tops, EarlyPlaces, ConnectPlaces
  <2>3. SpotInv'  BY <1>3, <1>7, <2>1, <2>2 DEF SpotInv
  <2>4. Said(t)'  BY <1>7, <2>1 DEF Said, Tops
  <2>5. ActiveOwn'  BY <1>5, <1>6 DEF StaleInv, ActiveOwn, Mute
  <2> QED  BY <1>2, <1>5, <1>8, <2>3, <2>4, <2>5, KeptStale
<1>10. ASSUME Meek(t) PROVE StaleInv'  BY <1>2, <1>5, <1>6, <1>8, <1>10, MeekKeeps
<1>11. ASSUME NEW g, Goto(t, g), g.at \in {"queue", "flush"} PROVE StaleInv'
  <2>1. g.at \notin Loud  BY <1>11 DEF Loud, EarlyPlaces, ConnectPlaces
  <2>2. Meek(t)  BY <1>1, <1>2, <1>11, <2>1, GotoMeek
  <2> QED  BY <1>10, <2>2
<1>12. CASE Return(t)
  <2>1. l \notin ConnectPlaces \cup {"send", "sending", "raise"}  BY DEF ConnectPlaces
  <2>2. Meek(t)  BY <1>1, <1>2, <1>12, <2>1, ReturnMeek
  <2> QED  BY <1>10, <2>2
<1> QED  BY <1>3, <1>7, <1>9, <1>11, <1>12, AtIs

LEMMA FinalStale ==
    ASSUME Inv, NestInv, StaleInv,
           Joins \/ Joined \/ SendsFinalize \/ FinalizeSent \/ FinalArrives \/ FinalTimesOut \/ FinalDone
    PROVE  StaleInv'
<1> DEFINE t == Pipeline
           m == [type |-> "finalize"]
           g == SendCall(m, FALSE, FALSE)
           f == [at |-> "final_sent", gen |-> Frame(t).gen]
           w == <<g, f>>
           h == [Frame(t) EXCEPT !.at = "final_done"]
<1>1. PICK l \in FinalPlaces : (Wakes(t, l) \/ Runs(t, l)) /\ (l = "final_sent" => FinalizeSent)
      /\ (SendsFinalize => l = "joined")
  <2>1. CASE Joins  
    <3>1. Runs(t, "flushed")  BY <2>1 DEF Joins
    <3>2. ~SendsFinalize  BY <3>1 DEF SendsFinalize, Runs, IsAt
    <3> QED  BY <3>1, <3>2 DEF FinalPlaces
  <2>2. CASE Joined \/ FinalArrives \/ FinalTimesOut
    <3>1. PICK p \in {"join", "final_wait"} : Wakes(t, p)  BY <2>2 DEF Joined, FinalArrives, FinalTimesOut
    <3>2. ~SendsFinalize  BY <3>1 DEF SendsFinalize, Runs, IsAt, Wakes
    <3> QED  BY <3>1, <3>2 DEF FinalPlaces
  <2>3. CASE FinalizeSent \/ FinalDone
    <3>1. PICK p \in {"final_sent", "final_done"} : Runs(t, p) /\ (p = "final_sent" => FinalizeSent)
      BY <2>3 DEF FinalizeSent, FinalDone
    <3>2. ~SendsFinalize  BY <3>1 DEF SendsFinalize, Runs, IsAt
    <3> QED  BY <3>1, <3>2 DEF FinalPlaces
  <2>4. CASE SendsFinalize
    <3>1. Runs(t, "joined")  BY <2>4 DEF SendsFinalize
    <3> QED  BY <3>1 DEF FinalPlaces
  <2> QED  BY <2>1, <2>2, <2>3, <2>4
<1>2. t \in Tasks /\ running \in {t, NoTask} /\ Frame(t) \in Frames /\ Frame(t).at = l /\ stack[t] # <<>>
  BY <1>1, PipelineFrame
<1>3. /\ svc' = svc \/ svc' = [svc EXCEPT !.active = FALSE]
      /\ FinalizeSent => svc' = [svc EXCEPT !.active = FALSE]
      /\ buf' = buf /\ conn' = conn /\ readySet' = readySet /\ heard' = heard /\ server' = server /\ inbox' = inbox
  BY DEF Joins, Joined, SendsFinalize, FinalizeSent, FinalArrives, FinalTimesOut, FinalDone,
         serviceVars, syncVars, eventVars, outsideVars, wireVars, historyVars
<1>4. /\ svc'.gen = svc.gen /\ svc'.ws = svc.ws /\ svc'.readyOf = svc.readyOf /\ (svc'.active => svc.active)
      /\ FinalizeSent => ~svc'.active
  <2>1. svc \in Service  BY DEF Inv, Slots, TypeInv
  <2> QED  BY <1>3, <2>1 DEF Service
<1>5. Mute  BY <1>3, <1>4, QueueThins, MuteSame DEF StaleInv
<1>6. ~svc'.active \/ ~Over("final_sent")
  <2>1. l \notin {"send", "sending"}  BY DEF FinalPlaces
  <2> QED  BY <1>1, <1>4, <2>1, NotOver
<1>7. \/ \E p \in {"join", "final_wait", "final_done"} : Goto(t, [Frame(t) EXCEPT !.at = p])
      \/ Goto(t, [Frame(t) EXCEPT !.at = "joined"]) /\ buf.unfinished = 0
      \/ SendsFinalize /\ Becomes(t, w \o Callers(t))
      \/ Return(t)
      \/ Becomes(t, (Disconnecting \o <<h>>) \o Callers(t))
  BY DEF Joins, Joined, SendsFinalize, FinalizeSent, FinalArrives, FinalTimesOut, FinalDone
<1>8. \A u \in Tasks : u # t => stack'[u] = stack[u]
  BY <1>7 DEF Goto, Return, Becomes, Inv, Slots, TypeInv
<1>9. ASSUME Meek(t) PROVE StaleInv'  BY <1>2, <1>5, <1>6, <1>8, <1>9, MeekKeeps
<1>10. Callers(t) \in Seq(Frames)  BY <1>2, StackTyped DEF Inv
<1>11. ASSUME NEW p \in {"join", "final_wait", "final_done"}, Goto(t, [Frame(t) EXCEPT !.at = p]) PROVE StaleInv'
  <2> DEFINE e == [Frame(t) EXCEPT !.at = p]
  <2>1. Goto(t, e) /\ e.at = p  BY <1>2, <1>11, MovedAt
  <2> HIDE DEF e
  <2>2. e.at \notin Loud  BY <2>1 DEF Loud, EarlyPlaces, ConnectPlaces
  <2>3. Meek(t)  BY <1>1, <1>2, <2>1, <2>2, GotoMeek
  <2> QED  BY <1>9, <2>3
<1>12. CASE Goto(t, [Frame(t) EXCEPT !.at = "joined"]) /\ buf.unfinished = 0
  <2> DEFINE e == [Frame(t) EXCEPT !.at = "joined"]
  <2>1. Goto(t, e) /\ e.at = "joined"  BY <1>2, <1>12, MovedAt
  <2> HIDE DEF e
  <2>2. Frame(t)' = e  BY <1>1, <1>2, <2>1, GotoTop
  <2>3. buf.queue = <<>>
    <3>1. buf.unfinished = Len(buf.queue) + Cardinality(Holding) /\ Cardinality(Holding) \in Nat
      BY HoldingFinite DEF Inv, AccountInv
    <3>2. buf.queue \in Seq(Chunk) /\ Len(buf.queue) \in Nat  BY DEF Inv, Slots, TypeInv, Buffers
    <3>3. Len(buf.queue) = 0  BY <1>12, <3>1, <3>2
    <3> QED  BY <3>2, <3>3
  <2>4. ~Early' /\ ~Awaited' /\ ~Tops(t, {"sending"})' /\ ~Tops(t, {"enqueue"})'
    BY <2>1, <2>2 DEF Early, Awaited, Over, Under, Tops, EarlyPlaces, ConnectPlaces
  <2>5. SpotInv'  BY <1>3, <2>3, <2>4 DEF SpotInv
  <2>6. Said(t)'  BY <2>1, <2>2 DEF Said, Tops
  <2>7. ActiveOwn'  BY <1>5, <1>6 DEF StaleInv, ActiveOwn, Mute
  <2> QED  BY <1>2, <1>5, <1>8, <2>5, <2>6, <2>7, KeptStale
<1>13. CASE SendsFinalize /\ Becomes(t, w \o Callers(t))
  <2>1. g.at = "send" /\ g.msg = m /\ m.type = "finalize" /\ f.at = "final_sent"  BY DEF SendCall
  <2> HIDE DEF g, f, m
  <2> DEFINE s == Callers(t)
             r == w \o s
  <2>2. w \in Seq({g, f}) /\ w # <<>> /\ Head(w) = g /\ Len(w) = 2 /\ w[2] = f  OBVIOUS
  <2>3. s \in Seq(Frames) /\ Len(s) \in Nat  BY <1>10
  <2> HIDE DEF w, s
  <2>4. Frame(t)' = g /\ stack'[t] # <<>>  BY <1>2, <1>13, <2>2, <2>3, BecomesTop DEF s
  <2>5. stack'[t] = r  BY <1>2, <1>13 DEF Becomes, Inv, Slots, TypeInv, s
  <2>6. w \in Seq({g, f} \cup Frames) /\ s \in Seq({g, f} \cup Frames)  BY <2>2, <2>3, SeqMonotonic
  <2>7. /\ DOMAIN r = 1..(Len(w) + Len(s))
        /\ \A i \in 1..(Len(w) + Len(s)) : r[i] = IF i <= Len(w) THEN w[i] ELSE s[i - Len(w)]
    BY <2>6, ConcatAre
  <2> HIDE DEF r
  <2>8. 2 \in DOMAIN r /\ r[2] = f
    <3>1. 2 \in 1..(Len(w) + Len(s)) /\ 2 <= Len(w)  BY <2>2, <2>3
    <3> QED  BY <2>2, <2>7, <3>1
  <2>9. Under("final_sent")' /\ ~Under("start_sent")'  BY <2>1, <2>4, <2>5, <2>8 DEF Under, Tops
  <2>10. ~Early' /\ ~Tops(t, {"sending"})' /\ ~Tops(t, {"enqueue"})' /\ ~Tops(t, {"joined"})' /\ ~Tops(t, {"start_wait"})'
         /\ ~Tops(t, {"start_sent"})'
    BY <2>1, <2>4 DEF Early, Tops, EarlyPlaces, ConnectPlaces
  <2>11. SpotInv'  BY <2>9, <2>10 DEF SpotInv, Awaited, Over
  <2>12. ActiveOwn'  BY <2>9 DEF ActiveOwn, Over
  <2>13. buf.queue = <<>>
    <3>1. Tops(t, {"joined"})  BY <1>1, <1>2, <1>13 DEF Tops
    <3> QED  BY <3>1 DEF StaleInv, SpotInv
  <2>14. Said(t)'
    <3>1. buf'.queue = <<>> /\ Over("final_sent")'  BY <1>3, <2>9, <2>13 DEF Over
    <3>2. ~Tops(t, {"r_recv"})'  BY <2>1, <2>4 DEF Tops
    <3> QED  BY <2>1, <2>4, <3>1, <3>2 DEF Said, Says
  <2> QED  BY <1>2, <1>5, <1>8, <2>11, <2>12, <2>14, KeptStale
<1>14. CASE Return(t)
  <2>1. l \notin ConnectPlaces \cup {"send", "sending", "raise"}  BY DEF ConnectPlaces, FinalPlaces
  <2>2. Meek(t)  BY <1>1, <1>2, <1>14, <2>1, ReturnMeek
  <2> QED  BY <1>9, <2>2
<1>15. CASE Becomes(t, (Disconnecting \o <<h>>) \o Callers(t))
  <2>1. h.at = "final_done"  BY <1>2, MovedAt
  <2> HIDE DEF h
  <2>2. Meek(t)  BY <1>2, <1>10, <1>15, <2>1, DisconnectMeek
  <2> QED  BY <1>9, <2>2
<1> QED  BY <1>7, <1>11, <1>12, <1>13, <1>14, <1>15

-----------------------------------------------------------------------------
(* What begins, and what the servers do                                    *)

LEMMA RestStale ==
    ASSUME Inv, NestInv, StaleInv, SpeechEnds \/ CleansUp \/ CancelSent PROVE StaleInv'
<1> DEFINE a == At("flush")
           w == <<a, [at |-> "flushed", gen |-> svc.gen], At("idle")>>
           h == At("ended")
<1>1. PICK t \in {Pipeline, Controller} :
        /\ \A u \in Tasks : u # t => stack'[u] = stack[u]
        /\ Runs(t, "cancel_sent") \/ Wakes(t, "idle")
        /\ \/ Becomes(t, w)
           \/ Becomes(t, Disconnecting \o <<h>>) \/ Becomes(t, Disconnecting \o Callers(t))
           \/ Runs(t, "cancel_sent") /\ Return(t)
  <2>1. CASE SpeechEnds  BY <2>1, SpeechStays DEF SpeechEnds, Stays, Adds
  <2>2. CASE CleansUp  BY <2>2, CleansUpStays, PlacesApart DEF CleansUp, Stays, Adds
  <2>3. CASE CancelSent  BY <2>3, CancelSentStays, PlacesApart DEF CancelSent, Stays, Adds
  <2> QED  BY <2>1, <2>2, <2>3
<1>2. t \in Tasks /\ t \notin Loops  BY NotLoop
<1>3. running \in {t, NoTask} /\ stack[t] # <<>>  BY <1>1, Nonempty
<1>4. Callers(t) \in Seq(Frames)  BY <1>2, <1>3, StackTyped DEF Inv
<1>5. /\ svc' = svc /\ buf' = buf /\ conn' = conn /\ readySet' = readySet /\ heard' = heard
      /\ server' = server /\ inbox' = inbox
  BY DEF SpeechEnds, CleansUp, CancelSent, serviceVars, syncVars, eventVars, outsideVars, wireVars, historyVars
<1>6. Mute  BY <1>5, QueueThins, MuteSame DEF StaleInv
<1>7. t = Pipeline => ~Over("final_sent")
  <2>1. "idle" \notin {"send", "sending", "final_sent"} /\ "cancel_sent" \notin {"send", "sending", "final_sent"}
    OBVIOUS
  <2> QED  BY <1>1, <2>1, NotOver
<1>8. h.at = "ended" /\ Head(w) = a /\ a.at = "flush"  BY AtIs
<1> HIDE DEF w, a, h
<1>9. Meek(t)
  <2>1. CASE Becomes(t, w)
    <3>1. Head(w).at \notin Loud  BY <1>8 DEF Loud, EarlyPlaces, ConnectPlaces
    <3> QED  BY <1>2, <2>1, <3>1, WholeMeek
  <2>2. CASE Becomes(t, Disconnecting \o <<h>>) \/ Becomes(t, Disconnecting \o Callers(t))
    <3> DEFINE s == Callers(t)
    <3>1. s \in Seq(Frames) /\ (Becomes(t, Disconnecting \o <<h>>) \/ Becomes(t, Disconnecting \o s))  BY <1>4, <2>2
    <3> HIDE DEF s
    <3> QED  BY <1>2, <1>8, <3>1, DisconnectMeek
  <2>3. CASE Runs(t, "cancel_sent") /\ Return(t)
    <3>1. "cancel_sent" \notin ConnectPlaces \cup {"send", "sending", "raise"}  BY DEF ConnectPlaces
    <3> QED  BY <1>2, <2>3, <3>1, ReturnMeek
  <2> QED  BY <1>1, <2>1, <2>2, <2>3
<1> QED  BY <1>1, <1>2, <1>3, <1>6, <1>7, <1>9, MeekKeeps

LEMMA HearsStale == ASSUME Inv, NestInv, StaleInv, HearsAudio PROVE StaleInv'
<1> DEFINE t == Pipeline
           c == At("connect")
           a == [at |-> "audio", frame |-> budget.frames + 1]
           e == At("idle")
           s == <<a, e>>
           w == <<c>> \o s
<1>1. t \in Tasks /\ Wakes(t, "idle") /\ \A u \in Tasks : u # t => stack'[u] = stack[u]
  BY NotLoop, HearsAudioStays DEF HearsAudio, Stays, Adds
<1>2. running = NoTask /\ stack[t] # <<>>  BY <1>1, Nonempty DEF Wakes
<1>3. /\ svc' = svc /\ buf' = buf /\ conn' = conn /\ readySet' = readySet /\ heard' = heard
      /\ server' = server /\ inbox' = inbox
  BY DEF HearsAudio, serviceVars, syncVars, eventVars, wireVars
<1>4. Mute  BY <1>3, QueueThins, MuteSame DEF StaleInv
<1>5. ~Over("final_sent")
  <2>1. "idle" \notin {"send", "sending", "final_sent"}  OBVIOUS
  <2> QED  BY <1>1, <2>1, NotOver
<1>6. Becomes(t, s) \/ Becomes(t, w)  BY OnceIs DEF HearsAudio
<1>7. c.at = "connect" /\ a.at = "audio"  BY AtIs
<1> HIDE DEF c, a, e
<1>8. s = <<a, e>> /\ Head(s) = a /\ w = <<c, a, e>>
  <2>1. c \in {c, a, e} /\ a \in {c, a, e} /\ e \in {c, a, e}  OBVIOUS
  <2>2. w = <<c, a, e>>  BY <2>1, TripleIs
  <2>3. Head(s) = a  OBVIOUS
  <2> QED  BY <2>2, <2>3
<1>9. Head(w) = c /\ w[2] = a  BY <1>8
<1> HIDE DEF s, w
<1>10. stack'[t] \in {s, w}  BY <1>1, <1>6 DEF Becomes, Inv, Slots, TypeInv
<1>11. (Frame(t)').at \in {"audio", "connect"} /\ ((Frame(t)').at = "connect" => stack'[t][2].at = "audio")
  <2>1. CASE stack'[t] = s  BY <1>7, <1>8, <2>1 DEF Frame
  <2>2. CASE stack'[t] = w  BY <1>7, <1>9, <2>2 DEF Frame
  <2> QED  BY <1>10, <2>1, <2>2
<1>12. ~Early'  BY <1>11 DEF Early, Tops, EarlyPlaces, ConnectPlaces
<1>13. ~Awaited' /\ ~Tops(t, {"sending"})' /\ ~Tops(t, {"enqueue"})' /\ ~Tops(t, {"joined"})'
  BY <1>11 DEF Awaited, Over, Under, Tops
<1>14. SpotInv'  BY <1>12, <1>13 DEF SpotInv
<1>15. Said(t)'  BY <1>11 DEF Said, Tops
<1>16. ActiveOwn'  BY <1>4, <1>5 DEF StaleInv, ActiveOwn, Mute
<1> QED  BY <1>1, <1>2, <1>4, <1>14, <1>15, <1>16, KeptStale

\* stop() says close, and then disconnects.
LEMMA StopsStale == ASSUME Inv, NestInv, StaleInv, Stops PROVE StaleInv'
<1> DEFINE t == Pipeline
           m == [type |-> "close"]
           c == SendCall(m, TRUE, TRUE)
           h == At("ended")
           D == Disconnecting
           u == D \o <<h>>
           v == <<c>>
           w == v \o u
<1>0. t \in Tasks /\ Wakes(t, "idle") /\ \A x \in Tasks : x # t => stack'[x] = stack[x]
  BY NotLoop, StopsStays DEF Stops, Stays, Adds
<1>1. c.at = "send" /\ c.msg = m /\ m.type = "close" /\ h.at = "ended"  BY AtIs DEF SendCall
<1>2. Becomes(t, <<>> \o D \o <<h>>) \/ Becomes(t, <<c>> \o D \o <<h>>)  BY DEF Stops
<1>3. running = NoTask /\ stack[t] # <<>>  BY <1>0, Nonempty DEF Wakes
<1>4. /\ svc' = svc /\ buf' = buf /\ conn' = conn /\ readySet' = readySet /\ heard' = heard
      /\ server' = server /\ inbox' = inbox
  BY DEF Stops, serviceVars, syncVars, eventVars, outsideVars, wireVars, historyVars
<1>5. Mute  BY <1>4, QueueThins, MuteSame DEF StaleInv
<1>6. ~Over("final_sent")
  <2>1. "idle" \notin {"send", "sending", "final_sent"}  OBVIOUS
  <2> QED  BY <1>0, <2>1, NotOver
<1> HIDE DEF c, h, m
<1>7. PICK S : u \in Seq(S)  BY <1>1, EndsAre
<1> DEFINE U == S \cup {D[1], D[2], c, h}
<1>8. D \in Seq(U) /\ <<h>> \in Seq(U) /\ <<c>> \in Seq(U) /\ u \in Seq(U) /\ D # <<>> /\ Head(D).at = "close"
      /\ v \in Seq(U) /\ Len(v) = 1 /\ v # <<>> /\ Head(v) = c
  <2>1. <<h>> \in Seq(U) /\ <<c>> \in Seq(U) /\ v \in Seq(U) /\ Len(v) = 1 /\ v # <<>> /\ Head(v) = c  OBVIOUS
  <2>2. D \in Seq({D[1], D[2]}) /\ DOMAIN D = {1, 2} /\ D[1].at = "close"  BY DisconnectingAre
  <2>3. D # <<>> /\ Head(D) = D[1]
    <3>1. 1 \in DOMAIN D  BY <2>2
    <3> HIDE DEF D
    <3> QED  BY <2>2, <3>1
  <2> QED  BY <1>7, <2>1, <2>2, <2>3, SeqMonotonic
<1> HIDE DEF U, D, t
<1>9. <<>> \o D = D /\ (<<c>> \o D) \o <<h>> = w  BY <1>8, ConcatEmptySeq, ConcatAssociative
<1>10. Head(u) = Head(D) /\ u # <<>>  BY <1>8, HeadOver
<1> HIDE DEF u, v
<1>11. Head(w) = c  BY <1>8, HeadOver
<1>12. w[2] = Head(u)
  <2>1. Len(u) \in Nat /\ Len(u) > 0 /\ Head(u) = u[1]  BY <1>8, <1>10
  <2>2. \A i \in 1..(Len(v) + Len(u)) : (v \o u)[i] = IF i <= Len(v) THEN v[i] ELSE u[i - Len(v)]
    BY <1>8, ConcatAre
  <2>3. 2 \in 1..(Len(v) + Len(u)) /\ ~(2 <= Len(v)) /\ 2 - Len(v) = 1  BY <1>8, <2>1
  <2>4. (v \o u)[2] = u[2 - Len(v)]  BY <2>2, <2>3
  <2> QED  BY <2>1, <2>3, <2>4
<1> HIDE DEF w
<1>13. Becomes(t, u) \/ Becomes(t, w)  BY <1>2, <1>9 DEF u
<1>14. t \in Tasks /\ t = Pipeline  BY <1>0 DEF t
<1>15. stack'[t] \in {u, w}  BY <1>13, <1>14 DEF Becomes, Inv, Slots, TypeInv
<1>16. CASE stack'[t] = u
  <2>1. (Frame(t)').at = "close"  BY <1>8, <1>10, <1>16 DEF Frame
  <2>2. Meek(t)  BY <2>1 DEF Meek, Loud, EarlyPlaces, ConnectPlaces
  <2> QED  BY <1>0, <1>3, <1>5, <1>6, <1>14, <2>2, MeekKeeps
<1>17. CASE stack'[t] = w
  <2>1. Frame(t)' = c /\ stack'[t][2].at = "close"  BY <1>8, <1>10, <1>11, <1>12, <1>17 DEF Frame
  <2>2. ~Early' /\ ~Awaited'
    BY <1>1, <1>14, <2>1 DEF Early, Awaited, Over, Under, Tops, EarlyPlaces, ConnectPlaces
  <2>3. ~Tops(t, {"sending"})' /\ ~Tops(t, {"enqueue"})' /\ ~Tops(t, {"joined"})' /\ ~Tops(t, {"r_recv"})'
    BY <1>1, <2>1 DEF Tops
  <2>4. SpotInv'  BY <1>14, <2>2, <2>3 DEF SpotInv
  <2>5. Said(t)'  BY <1>1, <2>1, <2>3 DEF Said, Says
  <2>6. ActiveOwn'  BY <1>5, <1>6 DEF StaleInv, ActiveOwn, Mute
  <2> QED  BY <1>0, <1>3, <1>5, <1>14, <2>4, <2>5, <2>6, KeptStale DEF t
<1> QED  BY <1>15, <1>16, <1>17

\* A new utterance: nothing is of it yet.
LEMMA BeginsStale == ASSUME Inv, NestInv, StaleInv, SpeechStarts PROVE StaleInv'
<1> DEFINE t == Pipeline
           a == At("start")
           w == <<a, At("begun"), At("idle")>>
<1>1. t \in Tasks /\ Wakes(t, "idle") /\ \A u \in Tasks : u # t => stack'[u] = stack[u]
  BY NotLoop, SpeechStays DEF SpeechStarts, Stays, Adds
<1>2. running = NoTask /\ stack[t] # <<>>  BY <1>1, Nonempty DEF Wakes
<1>3. /\ svc' = [svc EXCEPT !.gen = @ + 1] /\ ~svc.active /\ Becomes(t, w)
      /\ buf' = buf /\ conn' = conn /\ readySet' = readySet /\ heard' = heard /\ server' = server /\ inbox' = inbox
  BY DEF SpeechStarts, syncVars, eventVars, outsideVars, wireVars, historyVars
<1>4. svc.gen \in Nat /\ svc'.gen = svc.gen + 1 /\ ~svc'.active
  <2>1. svc \in Service  BY DEF Inv, Slots, TypeInv
  <2> QED  BY <1>3, <2>1 DEF Service
<1>5. a.at = "start" /\ Head(w) = a  BY AtIs
<1> HIDE DEF w, a
<1>6. Frame(t)' = a
  <2>1. stack'[t] = w  BY <1>1, <1>3 DEF Becomes, Inv, Slots, TypeInv
  <2> QED  BY <1>5, <2>1 DEF Frame
<1>7. ASSUME NEW i \in DOMAIN buf'.queue PROVE buf'.queue[i].gen <= svc'.gen /\ buf'.queue[i].gen # svc'.gen
  <2>1. buf.queue \in Seq(Chunk) /\ i \in DOMAIN buf.queue  BY <1>3 DEF Inv, Slots, TypeInv, Buffers
  <2>2. buf.queue[i] \in Chunk  BY <2>1
  <2>3. buf.queue[i].gen \in Nat /\ buf.queue[i].gen <= svc.gen  BY <2>1, <2>2 DEF StaleInv, GenInv, Chunk
  <2> QED  BY <1>3, <1>4, <2>3
<1>8. ASSUME NEW v \in Conns, NEW i \in DOMAIN inbox'[v], inbox'[v][i].type = "ready"
      PROVE  inbox'[v][i].gen <= svc'.gen /\ inbox'[v][i].gen # svc'.gen
  <2>1. inbox[v] \in Seq(Answers) /\ i \in DOMAIN inbox[v]  BY <1>3, <1>8 DEF StaleInv, WireInv
  <2>2. inbox[v][i] \in Answers  BY <2>1
  <2>3. inbox[v][i].gen \in Nat /\ inbox[v][i].gen <= svc.gen  BY <1>3, <1>8, <2>1, <2>2 DEF StaleInv, GenInv, Answers
  <2> QED  BY <1>3, <1>4, <2>3
<1>9. GenInv'  BY <1>7, <1>8 DEF GenInv
<1>10. ~Mine' /\ ~Greeted'  BY <1>7, <1>8 DEF Mine, Greeted
<1>11. ~Awaited' /\ ~Tops(t, {"sending"})' /\ ~Tops(t, {"enqueue"})' /\ ~Tops(t, {"joined"})'
  BY <1>5, <1>6 DEF Awaited, Over, Under, Tops
<1>12. SpotInv'  BY <1>10, <1>11 DEF SpotInv
<1>13. ASSUME NEW u \in Tasks PROVE Said(u)'
  <2>1. CASE u = t  BY <1>5, <1>6, <2>1 DEF Said, Tops
  <2>2. CASE u # t  BY <1>1, <1>2, <2>2, OtherSaid
  <2> QED  BY <2>1, <2>2
<1>14. WireInv' /\ ~heard'.stale /\ ActiveOwn'  BY <1>3, <1>4 DEF StaleInv, WireInv, ActiveOwn
<1> QED  BY <1>9, <1>10, <1>12, <1>13, <1>14 DEF StaleInv

LEMMA StandsStale ==
    ASSUME Inv, StaleInv, Mute, stack' = stack, running = NoTask PROVE StaleInv'
<1> DEFINE t == Controller
<1>1. t \in Tasks /\ t # Pipeline /\ Pipeline \in Tasks  BY NotLoop, PlacesApart
<1>2. Said(t)'  BY <1>1, OtherSaid
<1> QED  BY <1>1, <1>2, KeptStale

LEMMA ServersStale ==
    ASSUME Inv, ConnInv, StaleInv, NEW w \in Conns,
           HangsUp(w) \/ Breaks(w) \/ \E type \in {"partial", "ping"} : ServerChats(w, type)
    PROVE  StaleInv'
<1>1. /\ stack' = stack /\ running = NoTask /\ svc' = svc /\ buf' = buf /\ readySet' = readySet /\ heard' = heard
  BY DEF HangsUp, Breaks, ServerChats, serviceVars, syncVars, eventVars, taskVars, historyVars
<1>2. DOMAIN conn = Conns /\ WireInv /\ Thins
  BY <1>1, QueueThins DEF Inv, Slots, TypeInv, StaleInv
<1>3. CASE HangsUp(w)
  <2>1. server' = server /\ inbox' = inbox /\ conn' = [conn EXCEPT ![w] = "broken"]  BY <1>3 DEF HangsUp
  <2>2. Own => Own'
    <3>1. conn'[svc.ws] = "open" /\ svc.ws # 0 => conn[svc.ws] = "open"  BY <1>2, <2>1
    <3> QED  BY <1>1, <2>1, <3>1 DEF Own
  <2>3. WireInv' /\ Hushed  BY <1>2, <2>1 DEF WireInv, Hushed
  <2>4. Mute  BY <1>1, <1>2, <2>2, <2>3, MuteIs DEF StaleInv
  <2> QED  BY <1>1, <2>4, StandsStale
<1>4. CASE Breaks(w)
  <2>1. server' = [server EXCEPT ![w] = Silent] /\ conn' = [conn EXCEPT ![w] = "broken"]  BY <1>4 DEF Breaks
  <2>2. PICK n \in 0..Len(inbox[w]) : inbox' = [inbox EXCEPT ![w] = SubSeq(@, 1, n)]  BY <1>4 DEF Breaks
  <2> DEFINE q == inbox[w]
             r == SubSeq(q, 1, n)
  <2>3. q \in Seq(Answers) /\ inbox' = [inbox EXCEPT ![w] = r] /\ inbox \in [Conns -> Seq(Answers)]
    BY <1>2, <2>2 DEF WireInv
  <2>4. r \in Seq(Answers) /\ \A i \in DOMAIN r : i \in DOMAIN q /\ r[i] = q[i]
    <3>1. n \in 0..Len(q) /\ q \in Seq(Answers)  BY <2>2, <2>3
    <3> HIDE DEF q
    <3> QED  BY <3>1
  <2>5. inbox'[w] = r /\ \A v \in Conns : v # w => inbox'[v] = inbox[v]  BY <2>3
  <2> HIDE DEF r
  <2>6. inbox' \in [Conns -> Seq(Answers)]  BY <2>3, <2>4
  <2>7. Hushed
    <3> SUFFICES ASSUME NEW v \in Conns, NEW i \in DOMAIN inbox'[v] PROVE \E j \in DOMAIN inbox[v] : inbox'[v][i] = inbox[v][j]
      BY DEF Hushed
    <3>1. CASE v = w  BY <2>4, <2>5, <3>1
    <3>2. CASE v # w  BY <2>5, <3>2
    <3> QED  BY <3>1, <3>2
  <2>8. WireInv'
    <3>1. Silent \in Sides  BY DEF Silent, Sides
    <3> QED  BY <1>2, <2>1, <2>6, <3>1 DEF WireInv
  <2>9. Own => Own'
    <3>1. conn'[svc.ws] = "open" /\ svc.ws # 0 => conn[svc.ws] = "open" /\ svc.ws # w  BY <1>2, <2>1
    <3>2. svc.ws # w => server'[svc.ws] = server[svc.ws]  BY <1>2, <2>1 DEF WireInv
    <3> QED  BY <1>1, <3>1, <3>2 DEF Own
  <2>10. Mute  BY <1>1, <1>2, <2>7, <2>8, <2>9, MuteIs DEF StaleInv
  <2> QED  BY <1>1, <2>10, StandsStale
<1>5. ASSUME NEW type \in {"partial", "ping"}, ServerChats(w, type) PROVE StaleInv'
  <2> DEFINE e == [type |-> type, gen |-> server[w].utterance]
  <2>1. server' = server /\ conn' = conn /\ inbox' = [inbox EXCEPT ![w] = Append(@, e)]
    BY <1>5 DEF ServerChats, Reply
  <2>2. server[w] \in Sides  BY <1>2 DEF WireInv
  <2>3. e \in Answers /\ e.type # "ready"  BY <2>2 DEF Sides, Answers
  <2> HIDE DEF e
  <2>4. server' \in [Conns -> Sides]  BY <1>2, <2>1 DEF WireInv
  <2>5. /\ WireInv'
        /\ \A v \in Conns : \A i \in DOMAIN inbox'[v] :
             inbox'[v][i] = e \/ \E j \in DOMAIN inbox[v] : inbox'[v][i] = inbox[v][j]
    BY <2>1, <2>3, <2>4, ReplyIs
  <2>6. Hushed  BY <2>3, <2>5 DEF Hushed
  <2>7. Own => Own'  BY <1>1, <2>1 DEF Own
  <2>8. Mute  BY <1>1, <1>2, <2>5, <2>6, <2>7, MuteIs DEF StaleInv
  <2> QED  BY <1>1, <2>8, StandsStale
<1> QED  BY <1>3, <1>4, <1>5

-----------------------------------------------------------------------------
(* Every step                                                              *)

LEMMA SameStale ==
    ASSUME StaleInv, stack' = stack, svc' = svc, buf' = buf, conn' = conn, readySet' = readySet, heard' = heard,
           server' = server, inbox' = inbox
    PROVE  StaleInv'
<1>1. /\ ~heard'.stale /\ WireInv' /\ GenInv' /\ Own' = Own /\ Mine' = Mine /\ Greeted' = Greeted /\ Told' = Told
  BY DEF StaleInv, WireInv, GenInv, Own, Mine, Greeted, Told
<1>2. /\ \A u, P : Tops(u, P)' = Tops(u, P)
      /\ \A u : Frame(u)' = Frame(u)
  BY SameStack
<1>3. (\A p : Over(p)' = Over(p)) /\ Awaited' = Awaited /\ Early' = Early
  <2>1. \A p : Under(p)' = Under(p)
    <3>1. Tops(Pipeline, {"send", "sending"})' = Tops(Pipeline, {"send", "sending"})  BY <1>2
    <3> QED  BY <3>1 DEF Under
  <2>2. \A p : Over(p)' = Over(p)
    <3>1. \A p : Tops(Pipeline, {p})' = Tops(Pipeline, {p})  BY <1>2
    <3> QED  BY <2>1, <3>1 DEF Over
  <2>3. Tops(Pipeline, {"start_wait"})' = Tops(Pipeline, {"start_wait"})  BY <1>2
  <2>4. Tops(Pipeline, EarlyPlaces)' = Tops(Pipeline, EarlyPlaces)  BY <1>2 DEF EarlyPlaces
  <2>5. Tops(Pipeline, ConnectPlaces)' = Tops(Pipeline, ConnectPlaces)  BY <1>2 DEF ConnectPlaces
  <2> QED  BY <2>2, <2>3, <2>4, <2>5 DEF Awaited, Early
<1>4. SpotInv'
  <2>1. /\ Tops(Pipeline, {"sending"})' = Tops(Pipeline, {"sending"})
        /\ Tops(Pipeline, {"enqueue"})' = Tops(Pipeline, {"enqueue"})
        /\ Tops(Pipeline, {"joined"})' = Tops(Pipeline, {"joined"})
        /\ Frame(Pipeline)' = Frame(Pipeline)
    BY <1>2
  <2> QED  BY <1>1, <1>3, <2>1 DEF SpotInv, StaleInv
<1>5. ActiveOwn'
  <2>1. Over("final_sent")' = Over("final_sent")  BY <1>3
  <2> QED  BY <1>1, <2>1 DEF ActiveOwn, StaleInv
<1>6. ASSUME NEW u \in Tasks PROVE Said(u)'
  <2>1. /\ Tops(u, {"send"})' = Tops(u, {"send"}) /\ Tops(u, {"r_recv"})' = Tops(u, {"r_recv"})
        /\ Frame(u)' = Frame(u)
    BY <1>2
  <2>2. Over("final_sent")' = Over("final_sent")  BY <1>3
  <2>3. Says(u, Frame(u).msg)' = Says(u, Frame(u).msg)  BY <1>1, <2>1, <2>2 DEF Says
  <2> QED  BY <2>1, <2>3 DEF Said, StaleInv
<1> QED  BY <1>1, <1>4, <1>5, <1>6 DEF StaleInv

LEMMA NextStale ==
    ASSUME Inv, ConnInv, NestInv, CloseInv, EndingInv, ReadyInv, StaleInv,
           ~svc.config.reconnect, svc.config.policy # "block", [Next]_vars, ~Cancels
    PROVE  StaleInv'
<1>1. ASSUME NEW t \in Tasks, CoroutineStep(t) PROVE StaleInv'
  <2>1. ASSUME ReconnectClosed(t) \/ SendAgain(t) PROVE FALSE
    <3>1. PICK l \in Bent : Runs(t, l)  BY <2>1 DEF ReconnectClosed, SendAgain, Bent
    <3>2. stack[t] # <<>> /\ Frame(t).at = l  BY <3>1, Nonempty
    <3>3. Frame(t) = stack[t][1] /\ 1 \in DOMAIN stack[t]  BY <3>2, StackTyped DEF Inv
    <3> QED  BY <3>1, <3>2, <3>3 DEF NestInv, Straight, Bent
  <2>2. CASE \/ Connect(t) \/ ConnectGranted(t) \/ ConnectLocked(t) \/ ConnectFails(t)
             \/ Start(t) \/ StartGranted(t) \/ StartLocked(t) \/ StartTimesOut(t)
    BY <2>2, StarterStale
  <2>3. CASE StartConnected(t) \/ StartSent(t) \/ StartReady(t)  BY <2>3, StartSentStale
  <2>4. CASE Send(t) \/ Sent(t) \/ Connected(t) \/ Disconnected(t)
    BY <2>4, SendStale, SentStale, ConnectedStale, DisconnectedStale
  <2>5. CASE Close(t) \/ CloseAwaits(t) \/ CloseAwaited(t)  BY <2>5, AwaitsStale
  <2>6. CASE CloseSocket(t) \/ Closed(t)  BY <2>6, SocketStale
  <2>7. CASE CancelDelivered(t) \/ Unwinds(t)  BY <2>7, UnwindsStale
  <2> QED  BY <1>1, <2>1, <2>2, <2>3, <2>4, <2>5, <2>6, <2>7 DEF CoroutineStep
<1>2. CASE PipelineStep
  <2>1. CASE HandlesAudio \/ QueuesAudio \/ Flushes \/ SpeechBegun  BY <2>1, AudioStale
  <2>2. CASE Enqueues  BY <2>2, EnqueuesStale
  <2>3. ~Sleeps
    <3> SUFFICES ASSUME Sleeps PROVE FALSE  OBVIOUS
    <3> QED  BY AudioPlaced
  <2>4. CASE Joins \/ Joined \/ SendsFinalize \/ FinalizeSent \/ FinalArrives \/ FinalTimesOut \/ FinalDone
    BY <2>4, FinalStale
  <2> QED  BY <1>2, <2>1, <2>2, <2>3, <2>4 DEF PipelineStep
<1>3. ASSUME NEW t \in Tasks, TaskStep(t) PROVE StaleInv'
  <2>1. CASE CoroutineStep(t)  BY <1>1, <2>1
  <2>2. CASE CancelSent  BY <2>2, RestStale
  <2>3. ASSUME NEW k \in Conns, SenderStep(k) \/ ReceiverStep(k) PROVE StaleInv'
    BY <2>3, SenderStale, ReceiverStale
  <2> QED  BY <1>2, <1>3, <2>1, <2>2, <2>3 DEF TaskStep
<1>4. CASE Environment
  <2>1. CASE HearsAudio \/ SpeechStarts \/ SpeechEnds \/ Stops \/ CleansUp
    BY <2>1, HearsStale, BeginsStale, RestStale, StopsStale
  <2>2. ASSUME NEW w \in Conns,
               HangsUp(w) \/ Breaks(w) \/ \E type \in {"partial", "ping"} : ServerChats(w, type)
        PROVE  StaleInv'
    BY <2>2, ServersStale
  <2> QED  BY <1>4, <2>1, <2>2 DEF Environment
<1>5. CASE UNCHANGED vars
  <2>1. /\ stack' = stack /\ svc' = svc /\ buf' = buf /\ conn' = conn /\ readySet' = readySet /\ heard' = heard
        /\ server' = server /\ inbox' = inbox
    BY <1>5 DEF vars, serviceVars, taskVars, syncVars, eventVars, wireVars, historyVars
  <2> QED  BY <2>1, SameStale
<1> QED  BY <1>3, <1>4, <1>5 DEF Next

LEMMA InitStale == Init => StaleInv
<1> SUFFICES ASSUME Init PROVE StaleInv  OBVIOUS
<1>1. /\ ~svc.active /\ buf.queue = <<>> /\ ~heard.stale
      /\ inbox = [w \in Conns |-> <<>>] /\ server = [w \in Conns |-> Silent]
  BY DEF Init
<1>2. WireInv
  <2>1. Silent \in Sides /\ <<>> \in Seq(Answers)  BY DEF Silent, Sides
  <2> QED  BY <1>1, <2>1 DEF WireInv
<1>3. DOMAIN <<>> = {}  OBVIOUS
<1>4. GenInv /\ ~Mine /\ ActiveOwn  BY <1>1, <1>3 DEF GenInv, Mine, ActiveOwn
<1>5. ASSUME NEW t \in Tasks, stack[t] # <<>> PROVE Frame(t).at = "idle"
  <2>1. stack[t] = <<At("idle")>>  BY <1>5 DEF Init
  <2> QED  BY <2>1, AtIs DEF Frame
<1>6. SpotInv
  <2>1. stack[Pipeline] # <<>> => Frame(Pipeline).at = "idle"  BY <1>5, NotLoop
  <2> QED  BY <2>1 DEF SpotInv, Awaited, Early, Over, Under, Tops, EarlyPlaces, ConnectPlaces
<1>7. \A t \in Tasks : Said(t)  BY <1>5 DEF Said, Tops
<1> QED  BY <1>1, <1>2, <1>4, <1>6, <1>7 DEF StaleInv

-----------------------------------------------------------------------------
(* The theorem                                                             *)

LEMMA CancelsCounted == ASSUME Inv, [Next]_vars, ~Cancels PROVE budget'.cancels = budget.cancels
<1>0. budget \in Budget  BY DEF Inv, Slots, TypeInv
<1>1. ASSUME NEW t \in Tasks, CoroutineStep(t) PROVE budget' = budget
  <2>1. CASE Connect(t) \/ ConnectGranted(t) \/ ConnectLocked(t) \/ Connected(t) \/ ConnectFails(t)
    BY <2>1 DEF Connect, ConnectGranted, ConnectLocked, Connected, ConnectFails, outsideVars, historyVars
  <2>2. CASE \/ Start(t) \/ StartGranted(t) \/ StartLocked(t) \/ StartConnected(t) \/ StartSent(t)
             \/ StartReady(t) \/ StartTimesOut(t)
    BY <2>2 DEF Start, StartGranted, StartLocked, StartConnected, StartSent, StartReady,
                StartTimesOut, outsideVars, historyVars
  <2>3. CASE Send(t) \/ Sent(t) \/ SendAgain(t) \/ ReconnectClosed(t) \/ Disconnected(t)
    BY <2>3 DEF Send, Sent, SendAgain, ReconnectClosed, Disconnected, outsideVars, historyVars
  <2>4. CASE Close(t) \/ CloseAwaits(t) \/ CloseAwaited(t) \/ CloseSocket(t) \/ Closed(t)
    BY <2>4 DEF Close, CloseAwaits, CloseAwaited, CloseSocket, Closed, outsideVars, historyVars
  <2>5. CASE CancelDelivered(t) \/ Unwinds(t)  BY <2>5 DEF CancelDelivered, Unwinds, outsideVars, historyVars
  <2> QED  BY <1>1, <2>1, <2>2, <2>3, <2>4, <2>5 DEF CoroutineStep
<1>2. ASSUME NEW k \in Conns, SenderStep(k) PROVE budget' = budget
  BY <1>2 DEF SenderStep, SenderLoops, SenderWakes, SenderTakes, SenderSent, SenderGone, outsideVars, historyVars
<1>3. ASSUME NEW k \in Conns, ReceiverStep(k) PROVE budget' = budget
  <2>1. CASE \/ ReceiverLoops(k) \/ ReceiverPushes(k) \/ ReceiverLosesConnection(k) \/ ReceiverFailed(k)
             \/ ReceiverEnds(k)
    BY <2>1 DEF ReceiverLoops, ReceiverPushes, ReceiverLosesConnection, ReceiverFailed, ReceiverEnds,
                outsideVars, historyVars
  <2>2. CASE ReceivesPing(k) \/ ReceivesReady(k) \/ ReceivesTranscript(k) \/ ReceivesEnd(k)
    <3>1. PICK m : Receives(k, m)  BY <2>2 DEF ReceivesPing, ReceivesReady, ReceivesTranscript, ReceivesEnd
    <3> QED  BY <3>1 DEF Receives, historyVars
  <2> QED  BY <1>3, <2>1, <2>2 DEF ReceiverStep
<1>4. CASE PipelineStep
  BY <1>4 DEF PipelineStep, HandlesAudio, QueuesAudio, Flushes, Enqueues, Sleeps, SpeechBegun, Joins, Joined,
              SendsFinalize, FinalizeSent, FinalArrives, FinalTimesOut, FinalDone, outsideVars, historyVars
<1>5. CASE CancelSent  BY <1>5 DEF CancelSent, outsideVars, historyVars
<1>6. CASE Environment
  BY <1>0, <1>6 DEF Environment, HearsAudio, SpeechStarts, SpeechEnds, Stops, CleansUp, HangsUp, Breaks,
                    ServerChats, Budget, outsideVars, historyVars
<1>7. CASE UNCHANGED vars  BY <1>7 DEF vars, historyVars
<1> QED  BY <1>1, <1>2, <1>3, <1>4, <1>5, <1>6, <1>7 DEF Next, TaskStep

LEMMA StaleHolds ==
    Spec => [](svc.config.reconnect \/ svc.config.policy = "block" \/ budget.cancels > 0 \/ StaleInv)
<1> DEFINE I == svc.config.reconnect \/ svc.config.policy = "block" \/ budget.cancels > 0 \/ StaleInv
           H == svc.config.reconnect \/ svc.config.policy = "block" \/ (EndingInv /\ ReadyInv /\ HopeInv)
           J == svc.config.reconnect \/ AudioInv
           K == svc.config.reconnect \/ CloseInv
<1>1. Init => I  BY InitStale
<1>2. ASSUME Inv, ConnInv, J, K, H, I, [Next]_vars PROVE I'
  <2>1. svc'.config = svc.config  BY <1>2, ConfigKept
  <2>2. budget \in Budget /\ budget.cancels \in Nat  BY <1>2 DEF Inv, Slots, TypeInv, Budget
  <2>3. CASE Cancels
    <3>1. budget' = [budget EXCEPT !.cancels = @ + 1]  BY <2>3 DEF Cancels
    <3>2. budget'.cancels = budget.cancels + 1  BY <2>2, <3>1 DEF Budget
    <3> QED  BY <2>2, <3>2
  <2>4. CASE ~Cancels
    <3>1. budget'.cancels = budget.cancels  BY <1>2, <2>4, CancelsCounted
    <3>2. CASE svc.config.reconnect \/ svc.config.policy = "block" \/ budget.cancels > 0  BY <2>1, <3>1, <3>2
    <3>3. CASE ~svc.config.reconnect /\ svc.config.policy # "block" /\ StaleInv
      <4>1. NestInv /\ CloseInv /\ EndingInv /\ ReadyInv  BY <1>2, <3>3 DEF AudioInv
      <4> QED  BY <1>2, <2>4, <3>3, <4>1, NextStale
    <3> QED  BY <1>2, <3>2, <3>3
  <2> QED  BY <2>3, <2>4
<1>3. Spec => []J  BY AudioHolds
<1>4. Spec => []K  BY CloseHolds
<1>5. Spec => []H  BY HopeHolds
<1>6. Inv /\ ConnInv /\ J /\ K /\ H /\ I /\ [Next]_vars => I'  BY <1>2
<1> HIDE DEF I, H, J, K
<1>7. Spec => []I  BY <1>1, <1>3, <1>4, <1>5, <1>6, InvHolds, ConnHolds, PTL DEF Spec
<1> QED  BY <1>7 DEF I

\* Without a cancel, a reconnect and the block policy, no server gets audio of one
\* utterance under the start of another one or under none: while audio of the current
\* utterance is queued, or about to be sent, the server of the connection, if that is
\* open, has the start of that utterance; a chunk of an earlier one is dropped by the
\* send loop; and a task that is about to send holds the event loop until it has
\* (chunk.generation against _generation in _send_loop, _ensure_utterance_started).
THEOREM StaleAudioKept == Spec => []StaleAudioHasCause
<1> DEFINE I == svc.config.reconnect \/ svc.config.policy = "block" \/ budget.cancels > 0 \/ StaleInv
<1>1. I => StaleAudioHasCause  BY DEF StaleInv, StaleAudioHasCause, AudioUnderItsStart
<1>2. Spec => []I  BY StaleHolds
<1> HIDE DEF I
<1> QED  BY <1>1, <1>2, PTL

=============================================================================

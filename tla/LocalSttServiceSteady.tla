----------------------- MODULE LocalSttServiceSteady -----------------------
(***************************************************************************)
(* What holds of the plugin when it does not reconnect.                    *)
(*                                                                         *)
(* Audio reaches the servers in the order it was heard.  Without a         *)
(* reconnect no coroutine is ever inside itself, so the invariant says     *)
(* which place may be upon which (NestInv).  Audio then stands in a line,  *)
(* from what a server has heard to what nobody has heard yet, and every    *)
(* step leaves the line as it is, lets some of it out, or moves one part   *)
(* of it up (Advances).                                                    *)
(*                                                                         *)
(* And one loop at most reads a connection.  A close cancels and awaits    *)
(* the loops of the connection, which may be closing it themselves and     *)
(* awaiting one another; while any of them is at it no connection is made, *)
(* so that all are about the same one (CloseInv).                          *)
(*                                                                         *)
(* And audio that is queued is never left alone.  A loop stops only when   *)
(* the service is closed, or to disconnect, and ends with no error that    *)
(* would stop a close that awaits it (EndingInv); so that as long as there *)
(* is a connection with something to lose, some task works for it or is on *)
(* its way to clear the queue (HopeInv).                                   *)
(***************************************************************************)
EXTENDS LocalSttServiceProofs

-----------------------------------------------------------------------------
(* The order of audio                                                      *)

ConnectPlaces == {"connect", "connect_lock", "connect_locked", "connecting"}
StartPlaces ==
    {"start", "start_lock", "start_locked", "start_connected", "start_sent", "start_wait"}
ClosePlaces == {"close", "close_tasks", "close_await", "closing"}

\* Where a task is when no coroutine of its is called by another.
LoopPlaces == {"idle", "ended", "r_new", "r_loop", "r_ponged", "r_recv", "r_push", "r_failed", "r_end"}
                \cup SendPlaces

\* Who calls whom: a place and the place its coroutine will return to.
Nesting ==
    ((ConnectPlaces \cup {"raise"}) \X {"audio", "start_connected"})
    \cup ((StartPlaces \cup {"raise"}) \X {"begun"})
    \cup ({"send", "sending", "raise"}
            \X {"start_sent", "final_sent", "s_sent", "r_ponged", "cancel_sent", "close"})
    \cup ((ClosePlaces \cup {"raise"}) \X {"disconnected"})
    \cup ({"disconnected", "raise"} \X {"s_gone", "r_end", "final_done", "ended", "idle"})
    \cup ({"flush", "enqueue", "sleep", "raise"} \X {"flushed", "idle"})
    \cup ({"audio", "begun", "queue", "flushed", "join", "joined", "final_sent", "final_wait", "final_done",
           "cancel_sent"} \X {"idle"})
    \cup ((LoopPlaces \cup {"raise"}) \X {"none"})

\* Nobody is where only a reconnect leads.
Straight(s) ==
    \A i \in DOMAIN s : /\ s[i].at \notin {"reconnect_closed", "send_again"}
                        /\ i > 1 => <<s[i - 1].at, s[i].at>> \in Nesting
Ground(s) == s # <<>> => <<s[Len(s)].at, "none">> \in Nesting
NestInv == \A t \in Tasks : Straight(stack[t]) /\ Ground(stack[t])

\* The audio a coroutine has in hand: a send that has not been made, and the
\* pipeline's frame, its frames to be queued and its chunk.
InHand == {"audio", "queue", "enqueue", "sleep"}
Sends(f) == f.at = "send" /\ f.msg.type = "audio"
Carried(f) ==
    CASE f.at = "audio" -> <<f.frame>>
      [] f.at = "queue" -> f.frames
      [] f.at \in {"enqueue", "sleep"} -> f.chunk.frames
      [] Sends(f) -> f.msg.frames
      [] OTHER -> <<>>
Coroutines == UNION {ToSet(stack[t]) : t \in Tasks}
CarriedAt(places) == UNION {ToSet(Carried(f)) : f \in {f \in Coroutines : f.at \in places}}
Queued == UNION {ToSet(buf.queue[i].frames) : i \in DOMAIN buf.queue}

\* Where audio is, from what was sent last to what is heard next.
Line ==
    <<{heard.last}, CarriedAt({"send"}), Queued, CarriedAt({"enqueue", "sleep"}), ToSet(buf.aggregate),
      CarriedAt({"queue"}), ToSet(buf.preroll), CarriedAt({"audio"}), {budget.frames + 1}>>
Below(a, b) == \A x \in a, y \in b : x < y
InOrder(line) == \A m, n \in 1..9 : m < n => Below(line[m], line[n])

Rising(s) == \A i, j \in DOMAIN s : i < j => s[i] < s[j]
PartsRise ==
    /\ \A t \in Tasks : \A i \in DOMAIN stack[t] : Rising(Carried(stack[t][i]))
    /\ Rising(buf.aggregate) /\ Rising(buf.preroll)
    /\ \A i \in DOMAIN buf.queue : Rising(buf.queue[i].frames)
    /\ \A i, j \in DOMAIN buf.queue :
         i < j => Below(ToSet(buf.queue[i].frames), ToSet(buf.queue[j].frames))

\* No chunk is empty.
ChunksFilled ==
    /\ \A i \in DOMAIN buf.queue : buf.queue[i].frames # <<>>
    /\ \A t \in Tasks : \A i \in DOMAIN stack[t] :
         LET f == stack[t][i]
         IN  Sends(f) \/ f.at \in InHand \ {"audio"} => Carried(f) # <<>>

\* The pre-roll is for the utterance that begins: while one is active there is
\* none, except on the way from one to the other.
PrerollInv == svc.active /\ buf.preroll # <<>> => IsAt(Pipeline, "begun")

AudioInv ==
    /\ NestInv /\ InOrder(Line) /\ PartsRise /\ ChunksFilled /\ PrerollInv
    /\ heard.last \in Nat /\ ~heard.late

-----------------------------------------------------------------------------
(* Stacks                                                                  *)

\* w may stand where l stood.
Fits(a, l) == \A m : <<l, m>> \in Nesting => <<a, m>> \in Nesting

LEMMA StraightOver ==
    ASSUME NEW S, NEW w \in Seq(S), NEW s \in Seq(S), Straight(w), Straight(s),
           w # <<>> /\ s # <<>> => <<w[Len(w)].at, s[1].at>> \in Nesting
    PROVE  Straight(w \o s)
<1> DEFINE r == w \o s
<1>1. Len(w) \in Nat /\ Len(s) \in Nat /\ DOMAIN w = 1..Len(w) /\ DOMAIN s = 1..Len(s)
      /\ (w = <<>> <=> Len(w) = 0) /\ (s = <<>> <=> Len(s) = 0)
  OBVIOUS
<1>2. /\ DOMAIN (w \o s) = 1..(Len(w) + Len(s))
      /\ \A i \in 1..(Len(w) + Len(s)) : (w \o s)[i] = IF i <= Len(w) THEN w[i] ELSE s[i - Len(w)]
  BY ConcatAre
<1>3. /\ DOMAIN r = 1..(Len(w) + Len(s))
      /\ \A i \in 1..(Len(w) + Len(s)) : r[i] = IF i <= Len(w) THEN w[i] ELSE s[i - Len(w)]
  BY <1>2
<1> HIDE DEF r
<1> SUFFICES ASSUME NEW i \in DOMAIN r
             PROVE  /\ r[i].at \notin {"reconnect_closed", "send_again"}
                    /\ i > 1 => <<r[i - 1].at, r[i].at>> \in Nesting
  BY DEF Straight, r
<1>4. CASE i <= Len(w)
  <2>1. i \in DOMAIN w /\ r[i] = w[i] /\ (i > 1 => r[i - 1] = w[i - 1])  BY <1>1, <1>3, <1>4
  <2> QED  BY <2>1 DEF Straight
<1>5. CASE i = Len(w) + 1
  <2>1. r[i] = s[1] /\ Len(s) # 0 /\ 1 \in DOMAIN s  BY <1>1, <1>3, <1>5
  <2>2. i > 1 => r[i - 1] = w[Len(w)] /\ w # <<>>  BY <1>1, <1>3, <1>5
  <2> QED  BY <1>1, <2>1, <2>2 DEF Straight
<1>6. CASE i > Len(w) + 1
  <2> DEFINE k == i - Len(w)
  <2>1. k \in DOMAIN s /\ k > 1 /\ (i - 1) - Len(w) = k - 1  BY <1>1, <1>3, <1>6
  <2>2. r[i] = s[k] /\ r[i - 1] = s[k - 1]  BY <1>1, <1>3, <1>6, <2>1
  <2> HIDE DEF k
  <2> QED  BY <2>1, <2>2 DEF Straight
<1> QED  BY <1>1, <1>3, <1>4, <1>5, <1>6

LEMMA StraightTail == ASSUME NEW S, NEW s \in Seq(S), s # <<>>, Straight(s)
                      PROVE  /\ Straight(Tail(s)) /\ Tail(s) \in Seq(S)
                             /\ Tail(s) # <<>> => <<s[1].at, Tail(s)[1].at>> \in Nesting
<1> DEFINE r == Tail(s)
<1>1. /\ Len(s) \in Nat /\ DOMAIN s = 1..Len(s) /\ r \in Seq(S) /\ DOMAIN r = 1..(Len(s) - 1)
      /\ \A i \in DOMAIN r : r[i] = s[i + 1]
      /\ r # <<>> => 1 \in DOMAIN r
  OBVIOUS
<1> HIDE DEF r
<1>2. Straight(r)
  <2> SUFFICES ASSUME NEW i \in DOMAIN r
               PROVE  /\ r[i].at \notin {"reconnect_closed", "send_again"}
                      /\ i > 1 => <<r[i - 1].at, r[i].at>> \in Nesting
    BY DEF Straight
  <2>1. i + 1 \in DOMAIN s /\ i + 1 > 1 /\ (i + 1) - 1 = i  BY <1>1
  <2>2. s[i + 1].at \notin {"reconnect_closed", "send_again"} /\ <<s[i].at, s[i + 1].at>> \in Nesting
    BY <2>1 DEF Straight
  <2>3. i > 1 => r[i - 1] = s[i]  BY <1>1
  <2> QED  BY <1>1, <2>2, <2>3
<1>3. r # <<>> => <<s[1].at, r[1].at>> \in Nesting
  <2> SUFFICES ASSUME r # <<>> PROVE <<s[1].at, r[1].at>> \in Nesting
    OBVIOUS
  <2>1. 2 \in DOMAIN s /\ r[1] = s[2] /\ 2 > 1 /\ 2 - 1 = 1  BY <1>1
  <2> QED  BY <2>1 DEF Straight
<1> QED  BY <1>1, <1>2, <1>3 DEF r

\* Task t has a new stack: frames of N over some of those it was called by.
Puts(t, N) ==
    /\ \A u \in Tasks : /\ Straight(stack'[u]) /\ Ground(stack'[u])
                        /\ u # t => stack'[u] = stack[u]
    /\ \A i \in DOMAIN stack'[t] :
         stack'[t][i] \in N \/ \E j \in DOMAIN stack[t] : j > 1 /\ stack'[t][i] = stack[t][j]

LEMMA PutsOver ==
    ASSUME Inv, NestInv, NEW t \in Tasks, NEW S, NEW w \in Seq(S), NEW s \in Seq(Frames), NEW N,
           Straight(w), Straight(s), \A i \in DOMAIN w : w[i] \in N,
           \A i \in DOMAIN s : \E j \in DOMAIN stack[t] : j > 1 /\ s[i] = stack[t][j],
           w # <<>> /\ s # <<>> => <<w[Len(w)].at, s[1].at>> \in Nesting,
           w # <<>> /\ s = <<>> => <<w[Len(w)].at, "none">> \in Nesting, Ground(s),
           stack' = [stack EXCEPT ![t] = w \o s]
    PROVE  Puts(t, N)
<1> DEFINE r == w \o s
<1>1. w \in Seq(S \cup Frames) /\ s \in Seq(S \cup Frames)  BY SeqMonotonic
<1>2. Straight(w \o s)  BY <1>1, StraightOver
<1>3. /\ DOMAIN (w \o s) = 1..(Len(w) + Len(s))
      /\ \A i \in 1..(Len(w) + Len(s)) : (w \o s)[i] = IF i <= Len(w) THEN w[i] ELSE s[i - Len(w)]
  BY <1>1, ConcatAre
<1>4. Straight(r) /\ DOMAIN r = 1..(Len(w) + Len(s))
      /\ \A i \in 1..(Len(w) + Len(s)) : r[i] = IF i <= Len(w) THEN w[i] ELSE s[i - Len(w)]
  BY <1>2, <1>3
<1>5. stack'[t] = r /\ \A u \in Tasks : u # t => stack'[u] = stack[u]  BY DEF Inv, Slots, TypeInv
<1>g. Ground(r)
  <2> SUFFICES ASSUME r # <<>> PROVE <<r[Len(r)].at, "none">> \in Nesting
    BY DEF Ground
  <2>1. CASE s = <<>>
    <3>1. r = w  BY <1>1, <2>1, ConcatEmptySeq
    <3> HIDE DEF r
    <3> QED  BY <2>1, <3>1
  <2>2. CASE s # <<>>
    <3>1. Len(r) = Len(w) + Len(s) /\ Len(s) \in Nat /\ Len(s) > 0 /\ Len(w) \in Nat
      <4>1. Len(w \o s) = Len(w) + Len(s)  BY <1>1, ConcatAre
      <4> QED  BY <2>2, <4>1
    <3> HIDE DEF r
    <3>2. Len(r) \in 1..(Len(w) + Len(s)) /\ ~(Len(r) <= Len(w)) /\ Len(r) - Len(w) = Len(s)  BY <3>1
    <3>3. r[Len(r)] = s[Len(s)]  BY <1>4, <3>2
    <3> QED  BY <2>2, <3>3 DEF Ground
  <2> QED  BY <2>1, <2>2
<1> HIDE DEF r
<1>6. ASSUME NEW i \in DOMAIN r
      PROVE  r[i] \in N \/ \E j \in DOMAIN stack[t] : j > 1 /\ r[i] = stack[t][j]
  <2>1. Len(w) \in Nat /\ Len(s) \in Nat /\ DOMAIN w = 1..Len(w) /\ DOMAIN s = 1..Len(s)  OBVIOUS
  <2>2. CASE i <= Len(w)
    <3>1. i \in DOMAIN w /\ r[i] = w[i]  BY <1>4, <2>1, <2>2
    <3> QED  BY <3>1
  <2>3. CASE ~(i <= Len(w))
    <3>1. i - Len(w) \in DOMAIN s  BY <1>4, <2>1, <2>3
    <3>2. i \in 1..(Len(w) + Len(s))  BY <1>4
    <3>3. r[i] = s[i - Len(w)]  BY <1>4, <2>3, <3>2
    <3> QED  BY <3>1, <3>3
  <2> QED  BY <2>2, <2>3
<1> QED  BY <1>4, <1>5, <1>6, <1>g DEF Puts, NestInv

LEMMA TailLast ==
    ASSUME NEW S, NEW s \in Seq(S), s # <<>>
    PROVE  /\ Tail(s) = <<>> => Len(s) = 1
           /\ Tail(s) # <<>> => Tail(s)[Len(Tail(s))] = s[Len(s)]
<1> DEFINE r == Tail(s)
<1>1. r \in Seq(S) /\ Len(r) = Len(s) - 1 /\ Len(s) \in Nat /\ \A i \in 1..Len(r) : r[i] = s[i + 1]
  OBVIOUS
<1> HIDE DEF r
<1>2. r = <<>> => Len(s) = 1  BY <1>1
<1>3. ASSUME r # <<>> PROVE r[Len(r)] = s[Len(s)]
  <2>1. Len(r) \in 1..Len(r) /\ Len(r) + 1 = Len(s)  BY <1>1, <1>3
  <2> QED  BY <1>1, <2>1
<1> QED  BY <1>2, <1>3 DEF r

LEMMA CallersAre ==
    ASSUME Inv, NestInv, NEW t \in Tasks, stack[t] # <<>>
    PROVE  /\ Callers(t) \in Seq(Frames) /\ Straight(Callers(t))
           /\ \A i \in DOMAIN Callers(t) : \E j \in DOMAIN stack[t] : j > 1 /\ Callers(t)[i] = stack[t][j]
           /\ Callers(t) # <<>> => <<Frame(t).at, Callers(t)[1].at>> \in Nesting
           /\ Callers(t) = <<>> => <<Frame(t).at, "none">> \in Nesting
           /\ Ground(Callers(t))
<1>1. stack[t] \in Seq(Frames) /\ Straight(stack[t]) /\ Frame(t) = stack[t][1]  BY StackTyped DEF Inv, NestInv
<1>2. /\ Straight(Tail(stack[t])) /\ Tail(stack[t]) \in Seq(Frames)
      /\ Tail(stack[t]) # <<>> => <<stack[t][1].at, Tail(stack[t])[1].at>> \in Nesting
  BY <1>1, StraightTail
<1>3. ASSUME NEW i \in DOMAIN Tail(stack[t])
      PROVE  \E j \in DOMAIN stack[t] : j > 1 /\ Tail(stack[t])[i] = stack[t][j]
  <2>1. i \in Nat /\ i >= 1 /\ i + 1 \in DOMAIN stack[t] /\ Tail(stack[t])[i] = stack[t][i + 1]  BY <1>1
  <2> QED  BY <2>1
<1>4. /\ Tail(stack[t]) = <<>> => Len(stack[t]) = 1
      /\ Tail(stack[t]) # <<>> => Tail(stack[t])[Len(Tail(stack[t]))] = stack[t][Len(stack[t])]
  BY <1>1, TailLast
<1>5. <<stack[t][Len(stack[t])].at, "none">> \in Nesting  BY DEF NestInv, Ground
<1>6. Ground(Tail(stack[t])) /\ (Tail(stack[t]) = <<>> => <<Frame(t).at, "none">> \in Nesting)
  BY <1>1, <1>4, <1>5 DEF Ground
<1> QED  BY <1>1, <1>2, <1>3, <1>6 DEF Callers

LEMMA BeyondAre ==
    ASSUME Inv, NestInv, NEW t \in Tasks, stack[t] # <<>>, Callers(t) # <<>>
    PROVE  LET s == Tail(Callers(t))
           IN  /\ s \in Seq(Frames) /\ Straight(s)
               /\ \A i \in DOMAIN s : \E j \in DOMAIN stack[t] : j > 1 /\ s[i] = stack[t][j]
               /\ s # <<>> => <<Head(Callers(t)).at, s[1].at>> \in Nesting
               /\ s = <<>> => <<Head(Callers(t)).at, "none">> \in Nesting
               /\ Ground(s)
<1> DEFINE c == Callers(t)
           s == Tail(c)
<1>1. /\ c \in Seq(Frames) /\ Straight(c) /\ c # <<>> /\ Ground(c)
      /\ \A i \in DOMAIN c : \E j \in DOMAIN stack[t] : j > 1 /\ c[i] = stack[t][j]
  BY CallersAre
<1> HIDE DEF c
<1>2. Straight(Tail(c)) /\ Tail(c) \in Seq(Frames) /\ (Tail(c) # <<>> => <<c[1].at, Tail(c)[1].at>> \in Nesting)
  BY <1>1, StraightTail
<1>3. ASSUME NEW i \in DOMAIN Tail(c)
      PROVE  \E j \in DOMAIN stack[t] : j > 1 /\ Tail(c)[i] = stack[t][j]
  <2>1. i + 1 \in DOMAIN c /\ Tail(c)[i] = c[i + 1]  BY <1>1
  <2> QED  BY <1>1, <2>1
<1>4. c[1] = Head(c)  BY <1>1
<1>5. /\ Tail(c) = <<>> => Len(c) = 1
      /\ Tail(c) # <<>> => Tail(c)[Len(Tail(c))] = c[Len(c)]
  BY <1>1, TailLast
<1>6. Ground(Tail(c)) /\ (Tail(c) = <<>> => <<c[1].at, "none">> \in Nesting)  BY <1>1, <1>5 DEF Ground
<1> QED  BY <1>2, <1>3, <1>4, <1>6 DEF c

LEMMA StraightNone == Straight(<<>>) /\ Ground(<<>>)
BY DEF Straight, Ground

Bent == {"reconnect_closed", "send_again"}

LEMMA StraightOne ==
    ASSUME NEW f, f.at \notin Bent
    PROVE  /\ <<f>> \in Seq({f}) /\ Straight(<<f>>) /\ Len(<<f>>) = 1 /\ <<f>>[1] = f /\ <<f>> # <<>>
           /\ \A i \in DOMAIN <<f>> : <<f>>[i] \in {f}
<1> DEFINE s == <<f>>
<1>1. s \in Seq({f}) /\ DOMAIN s = {1} /\ Len(s) = 1 /\ s[1] = f /\ s # <<>>  OBVIOUS
<1> HIDE DEF s
<1>2. Straight(s)  BY <1>1 DEF Straight, Bent
<1>3. \A i \in DOMAIN s : s[i] \in {f}  BY <1>1
<1> QED  BY <1>1, <1>2, <1>3 DEF s

LEMMA StraightPair ==
    ASSUME NEW g, NEW f, g.at \notin Bent, f.at \notin Bent, <<g.at, f.at>> \in Nesting
    PROVE  /\ <<g, f>> \in Seq({g, f}) /\ Straight(<<g, f>>) /\ Len(<<g, f>>) = 2 /\ <<g, f>>[2] = f
           /\ <<g, f>>[1] = g /\ <<g, f>> # <<>> /\ \A i \in DOMAIN <<g, f>> : <<g, f>>[i] \in {g, f}
<1> DEFINE s == <<g, f>>
<1>1. s \in Seq({g, f}) /\ DOMAIN s = {1, 2} /\ Len(s) = 2 /\ s[1] = g /\ s[2] = f /\ s # <<>>
  <2>1. DOMAIN s = 1..2  OBVIOUS
  <2> QED  BY <2>1
<1> HIDE DEF s
<1>2. Straight(s)
  <2>1. 2 - 1 = 1 /\ 2 > 1 /\ ~(1 > 1)  OBVIOUS
  <2> QED  BY <1>1, <2>1 DEF Straight, Bent
<1>3. \A i \in DOMAIN s : s[i] \in {g, f}  BY <1>1
<1> QED  BY <1>1, <1>2, <1>3 DEF s

-----------------------------------------------------------------------------
\* The innermost frame gives way to others, or all of them do.
LEMMA PutsPush ==
    ASSUME Inv, NestInv, NEW t \in Tasks, NEW l, Wakes(t, l) \/ Runs(t, l), NEW S, NEW w \in Seq(S), NEW N,
           Straight(w), \A i \in DOMAIN w : w[i] \in N, w # <<>> => Fits(w[Len(w)].at, l),
           Becomes(t, w \o Callers(t))
    PROVE  Puts(t, N)
<1>1. stack[t] # <<>> /\ Frame(t).at = l  BY Nonempty
<1>2. /\ Callers(t) \in Seq(Frames) /\ Straight(Callers(t))
      /\ \A i \in DOMAIN Callers(t) : \E j \in DOMAIN stack[t] : j > 1 /\ Callers(t)[i] = stack[t][j]
      /\ Callers(t) # <<>> => <<l, Callers(t)[1].at>> \in Nesting
      /\ Callers(t) = <<>> => <<l, "none">> \in Nesting
      /\ Ground(Callers(t))
  BY <1>1, CallersAre
<1>3. /\ w # <<>> /\ Callers(t) # <<>> => <<w[Len(w)].at, Callers(t)[1].at>> \in Nesting
      /\ w # <<>> /\ Callers(t) = <<>> => <<w[Len(w)].at, "none">> \in Nesting
  BY <1>2 DEF Fits
<1>4. stack' = [stack EXCEPT ![t] = w \o Callers(t)]  BY DEF Becomes
<1> QED  BY <1>2, <1>3, <1>4, PutsOver

LEMMA PutsGoto ==
    ASSUME Inv, NestInv, NEW t \in Tasks, NEW l, Wakes(t, l) \/ Runs(t, l), NEW f,
           Fits(f.at, l), f.at \notin Bent, Goto(t, f)
    PROVE  Puts(t, {f})
<1> DEFINE w == <<f>>
<1>1. w \in Seq({f}) /\ Straight(w) /\ Len(w) = 1 /\ w[1] = f /\ \A i \in DOMAIN w : w[i] \in {f}
  BY StraightOne
<1>2. Becomes(t, w \o Callers(t))  BY DEF Goto
<1> HIDE DEF w
<1> QED  BY <1>1, <1>2, PutsPush

LEMMA PutsCall ==
    ASSUME Inv, NestInv, NEW t \in Tasks, NEW l, Wakes(t, l) \/ Runs(t, l), NEW g, NEW f,
           g.at \notin Bent, f.at \notin Bent, <<g.at, f.at>> \in Nesting, Fits(f.at, l), Call(t, g, f)
    PROVE  Puts(t, {g, f})
<1> DEFINE w == <<g, f>>
<1>1. w \in Seq({g, f}) /\ Straight(w) /\ Len(w) = 2 /\ w[2] = f /\ \A i \in DOMAIN w : w[i] \in {g, f}
  BY StraightPair
<1>2. Becomes(t, w \o Callers(t))  BY DEF Call
<1> HIDE DEF w
<1> QED  BY <1>1, <1>2, PutsPush

LEMMA PutsReturn ==
    ASSUME Inv, NestInv, NEW t \in Tasks, NEW l, Wakes(t, l) \/ Runs(t, l), Return(t)
    PROVE  Puts(t, {})
<1>1. stack[t] # <<>> /\ Frame(t).at = l  BY Nonempty
<1>2. Callers(t) \in Seq(Frames)  BY <1>1, CallersAre
<1>3. <<>> \o Callers(t) = Callers(t) /\ <<>> \in Seq({}) /\ DOMAIN <<>> = {}  BY <1>2, ConcatEmptySeq
<1>4. Becomes(t, <<>> \o Callers(t))  BY <1>3 DEF Return
<1> QED  BY <1>3, <1>4, StraightNone, PutsPush

LEMMA PutsWhole ==
    ASSUME Inv, NestInv, NEW t \in Tasks, NEW S, NEW w \in Seq(S), NEW N,
           Straight(w), Ground(w), \A i \in DOMAIN w : w[i] \in N, stack' = [stack EXCEPT ![t] = w]
    PROVE  Puts(t, N)
<1>1. w \o <<>> = w /\ <<>> \in Seq(Frames) /\ DOMAIN <<>> = {}  BY ConcatEmptySeq
<1>2. stack' = [stack EXCEPT ![t] = w \o <<>>]  BY <1>1
<1>3. w # <<>> => <<w[Len(w)].at, "none">> \in Nesting  BY DEF Ground
<1> QED  BY <1>1, <1>2, <1>3, StraightNone, PutsOver

LEMMA PutsEnds ==
    ASSUME Inv, NestInv, NEW t \in Tasks, NEW r, Ends(t, r)
    PROVE  Puts(t, {})
<1>1. <<>> \in Seq({}) /\ DOMAIN <<>> = {}  OBVIOUS
<1> QED  BY <1>1, StraightNone, PutsWhole DEF Ends

\* An exception leaves one frame.
LEMMA PutsUnwind ==
    ASSUME Inv, NestInv, NEW t \in Tasks, Runs(t, "raise"), Callers(t) # <<>>, NEW S, NEW w \in Seq(S), NEW N,
           Straight(w), \A i \in DOMAIN w : w[i] \in N,
           w # <<>> => Fits(w[Len(w)].at, Head(Callers(t)).at), Becomes(t, w \o Tail(Callers(t)))
    PROVE  Puts(t, N)
<1> DEFINE s == Tail(Callers(t))
<1>1. /\ s \in Seq(Frames) /\ Straight(s)
      /\ \A i \in DOMAIN s : \E j \in DOMAIN stack[t] : j > 1 /\ s[i] = stack[t][j]
      /\ s # <<>> => <<Head(Callers(t)).at, s[1].at>> \in Nesting
      /\ s = <<>> => <<Head(Callers(t)).at, "none">> \in Nesting
      /\ Ground(s)
  BY Nonempty, BeyondAre
<1>2. /\ w # <<>> /\ s # <<>> => <<w[Len(w)].at, s[1].at>> \in Nesting
      /\ w # <<>> /\ s = <<>> => <<w[Len(w)].at, "none">> \in Nesting
  BY <1>1 DEF Fits
<1>3. stack' = [stack EXCEPT ![t] = w \o s]  BY DEF Becomes
<1> HIDE DEF s
<1> QED  BY <1>1, <1>2, <1>3, PutsOver

-----------------------------------------------------------------------------
(* Places                                                                  *)

FlushPlaces == {"flush", "enqueue", "sleep"}
CallPlaces == {"audio", "begun", "queue", "flushed", "join", "joined", "final_sent", "final_wait", "final_done",
               "cancel_sent"}

LEMMA RaiseFits == ASSUME NEW l PROVE Fits("raise", l)
BY DEF Fits, Nesting, LoopPlaces, SendPlaces

LEMMA GroupsFit ==
    /\ \A a, l \in ConnectPlaces : Fits(a, l)
    /\ \A a, l \in StartPlaces : Fits(a, l)
    /\ \A a, l \in ClosePlaces : Fits(a, l)
    /\ \A a, l \in FlushPlaces : Fits(a, l)
    /\ \A a, l \in {"send", "sending"} : Fits(a, l)
<1>1. \A a, l \in ConnectPlaces : Fits(a, l)  BY DEF Fits, Nesting, LoopPlaces, SendPlaces, ConnectPlaces, StartPlaces, ClosePlaces
<1>2. \A a, l \in StartPlaces : Fits(a, l)  BY DEF Fits, Nesting, LoopPlaces, SendPlaces, ConnectPlaces, StartPlaces, ClosePlaces
<1>3. \A a, l \in ClosePlaces : Fits(a, l)  BY DEF Fits, Nesting, LoopPlaces, SendPlaces, ConnectPlaces, StartPlaces, ClosePlaces
<1>4. \A a, l \in FlushPlaces : Fits(a, l)
  BY DEF Fits, Nesting, LoopPlaces, SendPlaces, FlushPlaces, ConnectPlaces, StartPlaces, ClosePlaces
<1>5. \A a, l \in {"send", "sending"} : Fits(a, l)  BY DEF Fits, Nesting, LoopPlaces, SendPlaces, ConnectPlaces, StartPlaces, ClosePlaces
<1> QED  BY <1>1, <1>2, <1>3, <1>4, <1>5

LEMMA CallsFit == ASSUME NEW l \in CallPlaces, NEW a \in CallPlaces \cup {"flush", "disconnected"} PROVE Fits(a, l)
BY DEF Fits, Nesting, LoopPlaces, SendPlaces, CallPlaces, ConnectPlaces, StartPlaces, ClosePlaces

LEMMA LoopsFit == ASSUME NEW l \in LoopPlaces, NEW a \in LoopPlaces PROVE Fits(a, l)
BY DEF Fits, Nesting, LoopPlaces, SendPlaces, ConnectPlaces, StartPlaces, ClosePlaces

-----------------------------------------------------------------------------
(* Steps that bring no audio                                               *)

Blank(f) == f.at \notin InHand /\ ~Sends(f)
Fresh(t) == \A i \in DOMAIN stack'[t] :
                \/ Blank(stack'[t][i])
                \/ \E j \in DOMAIN stack[t] : stack'[t][i] = stack[t][j]
Plain == \A t \in Tasks : Straight(stack'[t]) /\ Ground(stack'[t]) /\ Fresh(t)

LEMMA PutsPlain == ASSUME NEW t \in Tasks, NEW N, Puts(t, N), \A f \in N : Blank(f) PROVE Plain
<1>1. Fresh(t)  BY DEF Puts, Fresh
<1>2. ASSUME NEW u \in Tasks, u # t PROVE Fresh(u)
  <2>1. stack'[u] = stack[u]  BY <1>2 DEF Puts
  <2> QED  BY <2>1 DEF Fresh
<1> QED  BY <1>1, <1>2 DEF Plain, Puts

LEMMA StandPlain == ASSUME NestInv, stack' = stack PROVE Plain
BY DEF NestInv, Plain, Fresh

LEMMA BlankCarries == ASSUME NEW f, Blank(f) PROVE Carried(f) = <<>>
BY DEF Blank, Carried, InHand

LEMMA ToSetIs == ASSUME NEW s PROVE ToSet(s) = {s[i] : i \in DOMAIN s}
BY DEF ToSet

\* What the queue, the aggregate buffer and the pre-roll hold stays or goes.
SameAudio ==
    /\ buf'.queue \in {buf.queue, <<>>} /\ buf'.aggregate \in {buf.aggregate, <<>>}
    /\ buf'.preroll \in {buf.preroll, <<>>}
SameMarks == heard'.last = heard.last /\ (heard'.late => heard.late) /\ budget'.frames = budget.frames

LEMMA NoneSet == ToSet(<<>>) = {} /\ Rising(<<>>)
BY ToSetIs DEF Rising

LEMMA PlainCarries == ASSUME Plain, NEW places PROVE CarriedAt(places)' \subseteq CarriedAt(places)
<1> SUFFICES ASSUME NEW x \in CarriedAt(places)' PROVE x \in CarriedAt(places)
  OBVIOUS
<1>1. PICK f \in Coroutines' : f.at \in places /\ x \in ToSet(Carried(f))  BY DEF CarriedAt
<1>2. ~Blank(f)  BY <1>1, BlankCarries, NoneSet
<1>3. PICK t \in Tasks : \E i \in DOMAIN stack'[t] : f = stack'[t][i]  BY ToSetIs DEF Coroutines
<1>4. \E j \in DOMAIN stack[t] : f = stack[t][j]  BY <1>2, <1>3 DEF Plain, Fresh
<1>5. f \in Coroutines  BY <1>4, ToSetIs DEF Coroutines
<1> QED  BY <1>1, <1>5 DEF CarriedAt

LEMMA LineOf ==
    /\ Line[1] = {heard.last} /\ Line[2] = CarriedAt({"send"}) /\ Line[3] = Queued
    /\ Line[4] = CarriedAt({"enqueue", "sleep"}) /\ Line[5] = ToSet(buf.aggregate)
    /\ Line[6] = CarriedAt({"queue"}) /\ Line[7] = ToSet(buf.preroll) /\ Line[8] = CarriedAt({"audio"})
    /\ Line[9] = {budget.frames + 1}
BY DEF Line

LEMMA LineNext ==
    /\ (Line')[1] = {heard'.last} /\ (Line')[2] = CarriedAt({"send"})' /\ (Line')[3] = Queued'
    /\ (Line')[4] = CarriedAt({"enqueue", "sleep"})' /\ (Line')[5] = ToSet(buf'.aggregate)
    /\ (Line')[6] = CarriedAt({"queue"})' /\ (Line')[7] = ToSet(buf'.preroll) /\ (Line')[8] = CarriedAt({"audio"})'
    /\ (Line')[9] = {budget'.frames + 1}
BY DEF Line

\* Audio leaves the line.
LEMMA LessInLine ==
    ASSUME NEW L, NEW M, InOrder(L), \A m \in 1..9 : M[m] \subseteq L[m]
    PROVE  InOrder(M)
<1> SUFFICES ASSUME NEW m \in 1..9, NEW n \in 1..9, m < n, NEW x \in M[m], NEW y \in M[n] PROVE x < y
  BY DEF InOrder, Below
<1>1. x \in L[m] /\ y \in L[n]  OBVIOUS
<1> QED  BY <1>1 DEF InOrder, Below

\* Part of what stands at place s moves up to place d.
LEMMA Advances ==
    ASSUME NEW L, NEW M, InOrder(L), NEW d \in 1..9, NEW s \in 1..9,
           \A m \in 1..9 : m # d => M[m] \subseteq L[m], M[d] \subseteq L[d] \cup L[s],
           \A m \in 1..9 : d < m /\ m <= s => M[m] = {}, d < s
    PROVE  InOrder(M)
<1> SUFFICES ASSUME NEW m \in 1..9, NEW n \in 1..9, m < n, NEW x \in M[m], NEW y \in M[n] PROVE x < y
  BY DEF InOrder, Below
<1>1. CASE m # d /\ n # d
  <2>1. x \in L[m] /\ y \in L[n]  BY <1>1
  <2> QED  BY <2>1 DEF InOrder, Below
<1>2. CASE m = d
  <2>1. y \in L[n] /\ ~(d < n /\ n <= s) /\ (x \in L[d] \/ x \in L[s])  BY <1>2
  <2>2. s < n /\ d < n  BY <1>2, <2>1
  <2> QED  BY <2>1, <2>2 DEF InOrder, Below
<1>3. CASE n = d
  <2>1. x \in L[m] /\ (y \in L[d] \/ y \in L[s]) /\ m < s  BY <1>3
  <2> QED  BY <1>3, <2>1 DEF InOrder, Below
<1> QED  BY <1>1, <1>2, <1>3

LEMMA QueuedKept == ASSUME buf'.queue \in {buf.queue, <<>>} PROVE Queued' \subseteq Queued
<1>1. CASE buf'.queue = buf.queue  BY <1>1 DEF Queued
<1>2. CASE buf'.queue = <<>>
  <2>1. DOMAIN buf'.queue = {}  BY <1>2
  <2> QED  BY <2>1 DEF Queued
<1> QED  BY <1>1, <1>2

LEMMA PlainLine == ASSUME InOrder(Line), Plain, SameAudio, SameMarks PROVE InOrder(Line)'
<1>1. ToSet(buf'.aggregate) \subseteq ToSet(buf.aggregate) /\ ToSet(buf'.preroll) \subseteq ToSet(buf.preroll)
  BY NoneSet DEF SameAudio
<1>2. \A places : CarriedAt(places)' \subseteq CarriedAt(places)  BY PlainCarries
<1>3. Queued' \subseteq Queued  BY QueuedKept DEF SameAudio
<1>4. ASSUME NEW m \in 1..9 PROVE (Line')[m] \subseteq Line[m]
  <2>1. m \in {1, 2, 3, 4, 5, 6, 7, 8, 9}  OBVIOUS
  <2> QED  BY <1>1, <1>2, <1>3, <2>1, LineOf, LineNext DEF SameMarks
<1>5. InOrder(Line')  BY <1>4, LessInLine
<1> QED  BY <1>5 DEF InOrder

Filled(f) == Rising(Carried(f)) /\ (Sends(f) \/ f.at \in InHand \ {"audio"} => Carried(f) # <<>>)
QueueRises ==
    /\ \A i \in DOMAIN buf.queue : Rising(buf.queue[i].frames) /\ buf.queue[i].frames # <<>>
    /\ \A i, j \in DOMAIN buf.queue :
         i < j => Below(ToSet(buf.queue[i].frames), ToSet(buf.queue[j].frames))

LEMMA PartsAre ==
    PartsRise /\ ChunksFilled <=>
        /\ \A t \in Tasks : \A i \in DOMAIN stack[t] : Filled(stack[t][i])
        /\ Rising(buf.aggregate) /\ Rising(buf.preroll) /\ QueueRises
BY DEF PartsRise, ChunksFilled, Filled, QueueRises

LEMMA PlainParts ==
    ASSUME PartsRise, ChunksFilled, Plain, SameAudio
    PROVE  PartsRise' /\ ChunksFilled'
<1>1. ASSUME NEW t \in Tasks, NEW i \in DOMAIN stack'[t] PROVE Filled(stack'[t][i])
  <2>1. CASE Blank(stack'[t][i])
    <3>1. Carried(stack'[t][i]) = <<>>  BY <2>1, BlankCarries
    <3> QED  BY <2>1, <3>1, NoneSet DEF Filled, Blank
  <2>2. CASE ~Blank(stack'[t][i])
    <3>1. PICK j \in DOMAIN stack[t] : stack'[t][i] = stack[t][j]  BY <2>2 DEF Plain, Fresh
    <3> QED  BY <3>1, PartsAre
  <2> QED  BY <2>1, <2>2
<1>2. Rising(buf'.aggregate) /\ Rising(buf'.preroll)  BY NoneSet, PartsAre DEF SameAudio
<1>3. QueueRises'
  <2>1. QueueRises  BY PartsAre
  <2>2. CASE buf'.queue = buf.queue  BY <2>1, <2>2 DEF QueueRises
  <2>3. CASE buf'.queue = <<>>
    <3>1. DOMAIN buf'.queue = {}  BY <2>3
    <3> QED  BY <3>1 DEF QueueRises
  <2> QED  BY <2>2, <2>3 DEF SameAudio
<1>4. (PartsRise /\ ChunksFilled)'
  <2>1. (\A t \in Tasks : \A i \in DOMAIN stack[t] : Filled(stack[t][i]))'  BY <1>1
  <2>2. (PartsRise /\ ChunksFilled <=>
        /\ \A t \in Tasks : \A i \in DOMAIN stack[t] : Filled(stack[t][i])
        /\ Rising(buf.aggregate) /\ Rising(buf.preroll) /\ QueueRises)'
    BY DEF PartsRise, ChunksFilled, Filled, QueueRises
  <2> QED  BY <1>2, <1>3, <2>1, <2>2
<1> QED  BY <1>4

\* A step that is not the start's last one finds no pre-roll in an utterance.
LEMMA NotBegun ==
    ASSUME Inv, AudioInv, NEW t, NEW l, l # "begun", Wakes(t, l) \/ Runs(t, l)
    PROVE  svc.active => buf.preroll = <<>>
<1>1. ASSUME IsAt(Pipeline, "begun") PROVE FALSE
  <2>1. running = Pipeline  BY <1>1, PlacesApart DEF Inv, Slots, TaskInv, IsAt, Awaits
  <2>2. t = Pipeline /\ IsAt(t, l)  BY <2>1, PlacesApart DEF Wakes, Runs
  <2> QED  BY <1>1, <2>2 DEF IsAt
<1> QED  BY <1>1 DEF AudioInv, PrerollInv

LEMMA RestNotBegun == ASSUME Inv, AudioInv, running = NoTask PROVE svc.active => buf.preroll = <<>>
<1>1. ASSUME IsAt(Pipeline, "begun") PROVE FALSE
  <2>1. running = Pipeline  BY <1>1, PlacesApart DEF Inv, Slots, TaskInv, IsAt, Awaits
  <2> QED  BY <2>1, PlacesApart
<1> QED  BY <1>1 DEF AudioInv, PrerollInv

LEMMA PlainKeeps ==
    ASSUME AudioInv, Plain, SameAudio, SameMarks, svc.active => buf.preroll = <<>>, svc'.active => svc.active
    PROVE  AudioInv'
<1>1. InOrder(Line)'  BY PlainLine DEF AudioInv
<1>2. PartsRise' /\ ChunksFilled'  BY PlainParts DEF AudioInv
<1>3. NestInv'  BY DEF NestInv, Plain
<1>4. PrerollInv'  BY DEF PrerollInv, SameAudio
<1>5. (heard.last \in Nat /\ ~heard.late)'  BY DEF AudioInv, SameMarks
<1> QED  BY <1>1, <1>2, <1>3, <1>4, <1>5 DEF AudioInv

-----------------------------------------------------------------------------
\* A task moves on, with no audio in hand, and the buffers stay or are emptied.
Calmly == SameAudio /\ SameMarks /\ (svc'.active => svc.active)

LEMMA CalmSame ==
    ASSUME Inv, buf' = buf, heard' = heard, budget'.frames = budget.frames,
           \/ svc' = svc
           \/ svc'.active = svc.active
           \/ svc'.active = FALSE
    PROVE  Calmly
BY DEF Calmly, SameAudio, SameMarks

LEMMA BlankFrame == ASSUME NEW f, f.at \notin InHand, f.at # "send" \/ f.msg.type # "audio" PROVE Blank(f)
BY DEF Blank, Sends

LEMMA StepKeeps ==
    ASSUME Inv, AudioInv, NEW t \in Tasks, NEW l, l # "begun", Wakes(t, l) \/ Runs(t, l),
           NEW N, Puts(t, N), \A f \in N : Blank(f), Calmly
    PROVE  AudioInv'
<1>1. Plain  BY PutsPlain
<1>2. svc.active => buf.preroll = <<>>  BY NotBegun
<1> QED  BY <1>1, <1>2, PlainKeeps DEF Calmly

LEMMA StepGoto ==
    ASSUME Inv, AudioInv, NEW t \in Tasks, NEW l, l # "begun", Wakes(t, l) \/ Runs(t, l), NEW f,
           Goto(t, f), Fits(f.at, l), f.at \notin Bent \cup InHand, f.at # "send", Calmly
    PROVE  AudioInv'
<1>1. Puts(t, {f})  BY PutsGoto DEF AudioInv
<1>2. \A g \in {f} : Blank(g)  BY BlankFrame
<1> QED  BY <1>1, <1>2, StepKeeps

LEMMA StepCall ==
    ASSUME Inv, AudioInv, NEW t \in Tasks, NEW l, l # "begun", Wakes(t, l) \/ Runs(t, l), NEW g, NEW f,
           Call(t, g, f), Fits(f.at, l), <<g.at, f.at>> \in Nesting, f.at \notin Bent, g.at \notin Bent,
           Blank(g), Blank(f), Calmly
    PROVE  AudioInv'
<1>1. Puts(t, {g, f})  BY PutsCall DEF AudioInv
<1> QED  BY <1>1, StepKeeps

LEMMA StepReturn ==
    ASSUME Inv, AudioInv, NEW t \in Tasks, NEW l, l # "begun", Wakes(t, l) \/ Runs(t, l), Return(t), Calmly
    PROVE  AudioInv'
<1>1. Puts(t, {})  BY PutsReturn DEF AudioInv
<1> QED  BY <1>1, StepKeeps

LEMMA StepRaise ==
    ASSUME Inv, AudioInv, NEW t \in Tasks, NEW l, l # "begun", Wakes(t, l) \/ Runs(t, l), NEW e, Raise(t, e), Calmly
    PROVE  AudioInv'
<1> DEFINE f == [at |-> "raise", exc |-> e]
<1>1. f.at = "raise" /\ Goto(t, f)  BY DEF Raise
<1> HIDE DEF f
<1> QED  BY <1>1, RaiseFits, StepGoto DEF Bent, InHand

LEMMA StepEnds ==
    ASSUME Inv, AudioInv, NEW t \in Tasks, NEW l, l # "begun", Wakes(t, l) \/ Runs(t, l), NEW r, Ends(t, r), Calmly
    PROVE  AudioInv'
<1>1. Puts(t, {})  BY PutsEnds DEF AudioInv
<1> QED  BY <1>1, StepKeeps

LEMMA ConnectAudio ==
    ASSUME Inv, AudioInv, NEW t \in Tasks,
           Connect(t) \/ ConnectGranted(t) \/ ConnectLocked(t) \/ ConnectFails(t)
    PROVE  AudioInv'
<1>0. ConnectPlaces \cap (Bent \cup InHand) = {} /\ "begun" \notin ConnectPlaces /\ "send" \notin ConnectPlaces
  BY DEF ConnectPlaces, Bent, InHand
<1>1. svc \in Service  BY DEF Inv, Slots, TypeInv
<1>2. svc'.active = svc.active
  BY <1>1 DEF Service, Connect, ConnectGranted, ConnectLocked, ConnectFails, serviceVars
<1>3. Calmly
  <2>1. buf' = buf /\ heard' = heard /\ budget' = budget
    BY DEF Connect, ConnectGranted, ConnectLocked, ConnectFails, serviceVars, outsideVars, historyVars
  <2> QED  BY <1>2, <2>1, CalmSame
<1>4. PICK l \in ConnectPlaces : Wakes(t, l) \/ Runs(t, l)
  BY DEF Connect, ConnectGranted, ConnectLocked, ConnectFails, ConnectPlaces
<1>5. (\E m \in ConnectPlaces : Goto(t, At(m))) \/ Return(t) \/ Raise(t, "error")
  BY DEF Connect, ConnectGranted, ConnectLocked, ConnectFails, ConnectPlaces
<1>6. ASSUME NEW m \in ConnectPlaces, Goto(t, At(m)) PROVE AudioInv'
  <2> DEFINE f == At(m)
  <2>1. f.at = m /\ Goto(t, f)  BY <1>6, AtIs
  <2> HIDE DEF f
  <2>2. Fits(f.at, l)  BY <2>1, GroupsFit
  <2> QED  BY <1>0, <1>3, <1>4, <2>1, <2>2, StepGoto
<1> QED  BY <1>0, <1>3, <1>4, <1>5, <1>6, StepReturn, StepRaise

LEMMA StartAudio ==
    ASSUME Inv, AudioInv, NEW t \in Tasks,
           Start(t) \/ StartGranted(t) \/ StartLocked(t) \/ StartConnected(t) \/ StartSent(t) \/ StartTimesOut(t)
    PROVE  AudioInv'
<1>0. StartPlaces \cap (Bent \cup InHand) = {} /\ "begun" \notin StartPlaces /\ "send" \notin StartPlaces
  BY DEF StartPlaces, Bent, InHand
<1>1. svc \in Service  BY DEF Inv, Slots, TypeInv
<1>2. svc'.active = svc.active
  BY <1>1 DEF Service, Start, StartGranted, StartLocked, StartConnected, StartSent, StartTimesOut, serviceVars
<1>3. Calmly
  <2>1. buf' = buf /\ heard' = heard /\ budget' = budget
    BY DEF Start, StartGranted, StartLocked, StartConnected, StartSent, StartTimesOut, serviceVars, outsideVars,
           historyVars
  <2> QED  BY <1>2, <2>1, CalmSame
<1>4. ASSUME NEW l \in StartPlaces, Wakes(t, l) \/ Runs(t, l), NEW f, f.at \in StartPlaces, Goto(t, f)
      PROVE  AudioInv'
  <2>1. Fits(f.at, l)  BY <1>4, GroupsFit
  <2> QED  BY <1>0, <1>3, <1>4, <2>1, StepGoto
<1>5. ASSUME NEW l \in StartPlaces, Wakes(t, l) \/ Runs(t, l), Return(t) \/ Raise(t, "error")
      PROVE  AudioInv'
  BY <1>0, <1>3, <1>5, StepReturn, StepRaise
<1>6. CASE Start(t) \/ StartGranted(t)
  <2>1. PICK l \in StartPlaces : Wakes(t, l) \/ Runs(t, l)  BY <1>6 DEF Start, StartGranted, StartPlaces
  <2>2. Return(t) \/ \E m \in StartPlaces : Goto(t, At(m))  BY <1>6 DEF Start, StartGranted, StartPlaces
  <2>3. ASSUME NEW m \in StartPlaces, Goto(t, At(m)) PROVE AudioInv'
    <3> DEFINE f == At(m)
    <3>1. f.at = m /\ Goto(t, f)  BY <2>3, AtIs
    <3> HIDE DEF f
    <3> QED  BY <1>4, <2>1, <3>1
  <2> QED  BY <1>5, <2>1, <2>2, <2>3
<1>7. CASE StartLocked(t)
  <2> DEFINE c == At("connect")
             f == At("start_connected")
             s == <<f>> \o Callers(t)
  <2>1. Runs(t, "start_locked") /\ "start_locked" \in StartPlaces /\ "start_connected" \in StartPlaces
    BY <1>7 DEF StartLocked, StartPlaces
  <2>2. c.at = "connect" /\ f.at = "start_connected"  BY AtIs
  <2>3. Return(t) \/ Becomes(t, s) \/ Becomes(t, <<c>> \o s)  BY <1>7 DEF StartLocked, OnceConnected
  <2>4. CASE Return(t)  BY <1>5, <2>1, <2>4
  <2>5. CASE Becomes(t, s)
    <3>1. Goto(t, f)  BY <2>5 DEF Goto
    <3> HIDE DEF f
    <3> QED  BY <1>4, <2>1, <2>2, <3>1
  <2>6. CASE Becomes(t, <<c>> \o s)
    <3>0. Callers(t) \in Seq(Frames)  BY <2>1, Nonempty, StackTyped DEF Inv
    <3>1. <<c>> \o s = <<c, f>> \o Callers(t)
      <4> HIDE DEF c, f
      <4>0. c \in {c, f} /\ f \in {c, f}  OBVIOUS
      <4>1. <<c>> \o <<f>> = <<c, f>>  BY <4>0, PairIs
      <4>2. /\ <<c>> \in Seq({c, f} \cup Frames) /\ <<f>> \in Seq({c, f} \cup Frames)
            /\ Callers(t) \in Seq({c, f} \cup Frames)
        BY <3>0, SeqMonotonic
      <4>3. (<<c>> \o <<f>>) \o Callers(t) = <<c>> \o (<<f>> \o Callers(t))  BY <4>2, ConcatAssociative
      <4> QED  BY <4>1, <4>3
    <3>2. Call(t, c, f)  BY <2>6, <3>1 DEF Call
    <3> HIDE DEF c, f
    <3>3. Fits(f.at, "start_locked")  BY <2>1, <2>2, GroupsFit
    <3>4. <<c.at, f.at>> \in Nesting  BY <2>2 DEF Nesting, ConnectPlaces
    <3>5. Blank(c) /\ Blank(f) /\ c.at \notin Bent /\ f.at \notin Bent  BY <2>2, BlankFrame DEF InHand, Bent
    <3> QED  BY <1>3, <2>1, <3>2, <3>3, <3>4, <3>5, StepCall
  <2> QED  BY <2>3, <2>4, <2>5, <2>6
<1>8. CASE StartConnected(t)
  <2> DEFINE m == [type |-> "start", gen |-> svc.gen]
             g == SendCall(m, TRUE, FALSE)
             f == At("start_sent")
  <2>1. Runs(t, "start_connected") /\ Call(t, g, f)  BY <1>8 DEF StartConnected
  <2>2. g.at = "send" /\ g.msg = m /\ m.type = "start" /\ f.at = "start_sent"  BY AtIs DEF SendCall
  <2> HIDE DEF g, f, m
  <2>3. Fits(f.at, "start_connected")  BY <2>2, GroupsFit DEF StartPlaces
  <2>4. <<g.at, f.at>> \in Nesting  BY <2>2 DEF Nesting
  <2>5. Blank(g) /\ Blank(f) /\ g.at \notin Bent /\ f.at \notin Bent  BY <2>2, BlankFrame DEF InHand, Bent
  <2> QED  BY <1>3, <2>1, <2>3, <2>4, <2>5, StepCall
<1>9. CASE StartSent(t)
  <2> DEFINE f == [at |-> "start_wait", event |-> svc.readyOf]
  <2>1. Runs(t, "start_sent") /\ Goto(t, f) /\ f.at = "start_wait"  BY <1>9 DEF StartSent
  <2> HIDE DEF f
  <2> QED  BY <1>4, <2>1 DEF StartPlaces
<1>10. CASE StartTimesOut(t)
  <2>1. Wakes(t, "start_wait") /\ Raise(t, "error")  BY <1>10 DEF StartTimesOut
  <2> QED  BY <1>5, <2>1 DEF StartPlaces
<1> QED  BY <1>6, <1>7, <1>8, <1>9, <1>10

\* The start's last step makes the utterance active, in the hands of "begun".
LEMMA StartReadyAudio == ASSUME Inv, AudioInv, NEW t \in Tasks, StartReady(t) PROVE AudioInv'
<1>1. Wakes(t, "start_wait") /\ Return(t)  BY DEF StartReady
<1>2. stack[t] # <<>> /\ Frame(t).at = "start_wait"  BY <1>1, Nonempty
<1>3. Puts(t, {})  BY <1>1, PutsReturn DEF AudioInv
<1>4. Plain  BY <1>3, PutsPlain
<1>5. SameAudio /\ SameMarks  BY DEF StartReady, SameAudio, SameMarks, outsideVars, historyVars
<1>6. svc.active => buf.preroll = <<>>  BY <1>1, NotBegun
<1>7. Callers(t) # <<>> /\ Callers(t)[1].at = "begun"
  <2>1. /\ Callers(t) # <<>> => <<"start_wait", Callers(t)[1].at>> \in Nesting
        /\ Callers(t) = <<>> => <<"start_wait", "none">> \in Nesting
    BY <1>2, CallersAre DEF AudioInv
  <2>2. \A m : <<"start_wait", m>> \in Nesting => m = "begun"
    BY DEF Nesting, StartPlaces, ConnectPlaces, ClosePlaces, LoopPlaces, SendPlaces
  <2> QED  BY <2>1, <2>2
<1>8. stack'[t] = Callers(t) /\ IsAt(t, "begun")'
  <2>1. stack'[t] = Callers(t)  BY <1>1 DEF Return, Becomes, Inv, Slots, TypeInv
  <2> QED  BY <1>7, <2>1 DEF IsAt
<1>9. t = Pipeline
  <2>1. Callers(t) \in Seq(Frames) /\ \E j \in DOMAIN stack[t] : Callers(t)[1] = stack[t][j]
    <3>1. Callers(t) \in Seq(Frames)  BY <1>2, CallersAre DEF AudioInv
    <3>2. 1 \in DOMAIN Callers(t)  BY <1>7, <3>1
    <3> QED  BY <1>2, <3>1, <3>2, CallersAre DEF AudioInv
  <2>2. Inside(t, AudioPlaces \cup FinalPlaces)  BY <1>7, <2>1 DEF Inside, AudioPlaces
  <2> QED  BY <2>2 DEF Inv, Slots, TaskInv
<1>10. InOrder(Line)'  BY <1>4, <1>5, PlainLine DEF AudioInv
<1>11. PartsRise' /\ ChunksFilled'  BY <1>4, <1>5, PlainParts DEF AudioInv
<1>12. NestInv'  BY <1>4 DEF NestInv, Plain
<1>13. PrerollInv'  BY <1>8, <1>9 DEF PrerollInv
<1>14. (heard.last \in Nat /\ ~heard.late)'  BY <1>5 DEF AudioInv, SameMarks
<1> QED  BY <1>10, <1>11, <1>12, <1>13, <1>14 DEF AudioInv

-----------------------------------------------------------------------------
\* Sends are innermost: one at "send" is that of the task that runs.
LEMMA SendFirst ==
    ASSUME Inv, NestInv, NEW t \in Tasks, NEW i \in DOMAIN stack[t], stack[t][i].at = "send"
    PROVE  i = 1 /\ running = t
<1>1. stack[t] \in Seq(Frames)  BY DEF Inv, Slots, TypeInv
<1>2. i = 1
  <2> SUFFICES ASSUME i # 1 PROVE FALSE
    OBVIOUS
  <2>1. i > 1  BY <1>1
  <2>2. <<stack[t][i - 1].at, "send">> \in Nesting  BY <2>1 DEF NestInv, Straight
  <2>3. \A a : <<a, "send">> \notin Nesting  BY DEF Nesting
  <2> QED  BY <2>2, <2>3
<1>3. Head(stack[t]) = stack[t][1] /\ stack[t] # <<>>  BY <1>1, <1>2
<1> QED  BY <1>2, <1>3 DEF Inv, Slots, TaskInv, Awaits

\* A frame of audio in the hands of the task that runs stands in the line.
LEMMA InCoroutines == ASSUME NEW t \in Tasks, NEW i \in DOMAIN stack[t] PROVE stack[t][i] \in Coroutines
BY ToSetIs DEF Coroutines

LEMMA InHands ==
    ASSUME NEW t \in Tasks, NEW i \in DOMAIN stack[t], NEW places, stack[t][i].at \in places
    PROVE  ToSet(Carried(stack[t][i])) \subseteq CarriedAt(places)
<1>1. stack[t][i] \in {f \in Coroutines : f.at \in places}  BY InCoroutines
<1> QED  BY <1>1 DEF CarriedAt

LEMMA SendFailsAudio ==
    ASSUME Inv, AudioInv, NEW t \in Tasks, NEW l \in {"send", "sending"}, Wakes(t, l) \/ Runs(t, l), Calmly,
           ~svc.config.reconnect, SendFails(t)
    PROVE  AudioInv'
<1>1. Raise(t, "error")  BY DEF SendFails
<1> QED  BY <1>1, StepRaise

LEMMA SentAudio ==
    ASSUME Inv, AudioInv, NEW t \in Tasks, ~svc.config.reconnect, Sent(t) PROVE AudioInv'
<1>1. Calmly  BY CalmSame DEF Sent, serviceVars, outsideVars, historyVars
<1>2. Wakes(t, "sending") /\ (Return(t) \/ SendFails(t))  BY DEF Sent
<1> QED  BY <1>1, <1>2, StepReturn, SendFailsAudio

LEMMA SendsAudio ==
    ASSUME Inv, AudioInv, NEW t \in Tasks, Runs(t, "send"), Deliver(svc.ws, Frame(t).msg),
           Frame(t).msg.type = "audio", Goto(t, [Frame(t) EXCEPT !.at = "sending", !.conn = svc.ws]),
           UNCHANGED <<buf, svc, budget>>
    PROVE  AudioInv'
<1> DEFINE m == Frame(t).msg
           f == [Frame(t) EXCEPT !.at = "sending", !.conn = svc.ws]
<1>1. stack[t] # <<>> /\ Frame(t).at = "send"  BY Nonempty
<1>2. Frame(t) \in Frames /\ Frame(t) = stack[t][1] /\ 1 \in DOMAIN stack[t]  BY <1>1, StackTyped DEF Inv
<1>3. f.at = "sending" /\ Goto(t, f)  BY <1>2, MovedAt
<1>4. m \in Message /\ m.type = "audio"  BY <1>1, <1>2, SendFields DEF SendFrames
<1>5. m.frames \in Seq(Nat) /\ Carried(Frame(t)) = m.frames /\ Sends(Frame(t))
  BY <1>1, <1>4 DEF Message, Carried, Sends
<1>6. m.frames # <<>> /\ ToSet(m.frames) \subseteq Line[2]
  <2>1. m.frames # <<>>  BY <1>2, <1>5, PartsAre DEF AudioInv, Filled
  <2>2. ToSet(Carried(stack[t][1])) \subseteq CarriedAt({"send"})  BY <1>1, <1>2, InHands
  <2> QED  BY <1>2, <1>5, <2>1, <2>2, LineOf
<1>7. /\ Last(m.frames) \in ToSet(m.frames) /\ Head(m.frames) \in ToSet(m.frames)
      /\ Last(m.frames) \in Nat
  <2>1. /\ Last(m.frames) = m.frames[Len(m.frames)] /\ Head(m.frames) = m.frames[1]
        /\ Len(m.frames) \in DOMAIN m.frames /\ 1 \in DOMAIN m.frames
    BY <1>5, <1>6 DEF Last
  <2> QED  BY <1>5, <2>1, ToSetIs
<1>8. /\ heard'.last = Last(m.frames)
      /\ heard'.late => heard.late \/ Head(m.frames) < heard.last
  BY <1>4 DEF Deliver
<1> HIDE DEF m
<1>9. heard'.last \in Nat /\ ~heard'.late
  <2>1. heard.last \in Line[1] /\ Head(m.frames) \in Line[2]  BY <1>6, <1>7, LineOf
  <2>2. heard.last < Head(m.frames)  BY <2>1 DEF AudioInv, InOrder, Below
  <2>3. Head(m.frames) \in Nat /\ heard.last \in Nat  BY <1>5, <1>6 DEF AudioInv
  <2> QED  BY <1>7, <1>8, <2>2, <2>3 DEF AudioInv
<1> HIDE DEF f
<1>10. Puts(t, {f})
  <2>1. Fits(f.at, "send")  BY <1>3, GroupsFit
  <2> QED  BY <1>3, <2>1, PutsGoto DEF AudioInv, Bent
<1>11. Plain  BY <1>3, <1>10, BlankFrame, PutsPlain DEF InHand
<1>12. CarriedAt({"send"})' = {}
  <2> SUFFICES ASSUME NEW g \in Coroutines', g.at = "send" PROVE FALSE
    BY DEF CarriedAt
  <2>1. PICK u \in Tasks : \E i \in DOMAIN stack'[u] : g = stack'[u][i]  BY ToSetIs DEF Coroutines
  <2>2. PICK i \in DOMAIN stack'[u] : g = stack'[u][i]  BY <2>1
  <2>3. CASE u = t
    <3>1. g # f  BY <1>3
    <3>2. PICK j \in DOMAIN stack[t] : j > 1 /\ g = stack[t][j]  BY <1>10, <2>2, <2>3, <3>1 DEF Puts
    <3>3. j = 1  BY <3>2, SendFirst DEF AudioInv
    <3> QED  BY <3>2, <3>3
  <2>4. CASE u # t
    <3>1. stack'[u] = stack[u]  BY <1>10, <2>4 DEF Puts
    <3>2. running = u  BY <2>2, <3>1, SendFirst DEF AudioInv
    <3> QED  BY <2>4, <3>2 DEF Runs
  <2> QED  BY <2>3, <2>4
<1>13. InOrder(Line)'
  <2>1. \A places : CarriedAt(places)' \subseteq CarriedAt(places)  BY <1>11, PlainCarries
  <2>2. Queued' = Queued  BY DEF Queued
  <2>3. ASSUME NEW n \in 1..9, n # 1 PROVE (Line')[n] \subseteq Line[n]
    <3>1. n \in {2, 3, 4, 5, 6, 7, 8, 9}  BY <2>3
    <3> QED  BY <2>1, <2>2, <3>1, LineOf, LineNext
  <2>4. (Line')[1] \subseteq Line[2]  BY <1>6, <1>7, <1>8, LineNext
  <2>5. (Line')[2] = {}  BY <1>12, LineNext
  <2>6. \A n \in 1..9 : 1 < n /\ n <= 2 => (Line')[n] = {}  BY <2>5
  <2>7. InOrder(Line')
    <3> DEFINE L == Line
               M == Line'
    <3>1. /\ InOrder(L) /\ \A n \in 1..9 : n # 1 => M[n] \subseteq L[n]
          /\ M[1] \subseteq L[1] \cup L[2] /\ \A n \in 1..9 : 1 < n /\ n <= 2 => M[n] = {}
      BY <2>3, <2>4, <2>6 DEF AudioInv
    <3> HIDE DEF L, M
    <3>2. InOrder(M)  BY <3>1, Advances
    <3> QED  BY <3>2 DEF M
  <2> QED  BY <2>7 DEF InOrder
<1>14. PartsRise' /\ ChunksFilled'  BY <1>11, PlainParts DEF AudioInv, SameAudio
<1>15. NestInv'  BY <1>11 DEF NestInv, Plain
<1>16. PrerollInv'
  <2>1. svc.active => buf.preroll = <<>>  BY NotBegun
  <2> QED  BY <2>1 DEF PrerollInv
<1> QED  BY <1>9, <1>13, <1>14, <1>15, <1>16 DEF AudioInv

LEMMA SendAudio == ASSUME Inv, AudioInv, NEW t \in Tasks, ~svc.config.reconnect, Send(t) PROVE AudioInv'
<1> DEFINE f == [Frame(t) EXCEPT !.at = "sending", !.conn = svc.ws]
<1>1. Runs(t, "send") /\ buf' = buf /\ svc' = svc /\ budget' = budget  BY DEF Send, serviceVars
<1>2. Frame(t) \in Frames  BY <1>1, Nonempty, StackTyped DEF Inv
<1>3. f.at = "sending"  BY <1>2, MovedAt
<1>4. \/ Deliver(svc.ws, Frame(t).msg) /\ Goto(t, f)
      \/ (Raise(t, "error") \/ SendFails(t)) /\ heard' = heard
  BY DEF Send
<1>5. CASE Deliver(svc.ws, Frame(t).msg) /\ Goto(t, f) /\ Frame(t).msg.type = "audio"
  BY <1>1, <1>5, SendsAudio
<1>6. CASE Deliver(svc.ws, Frame(t).msg) /\ Goto(t, f) /\ Frame(t).msg.type # "audio"
  <2>1. heard'.last = heard.last /\ (heard'.late => heard.late)  BY <1>6 DEF Deliver
  <2>2. Calmly  BY <1>1, <2>1 DEF Calmly, SameAudio, SameMarks
  <2>3. Fits("sending", "send")  BY GroupsFit
  <2> HIDE DEF f
  <2> QED  BY <1>1, <1>3, <1>6, <2>2, <2>3, StepGoto DEF Bent, InHand
<1>7. CASE (Raise(t, "error") \/ SendFails(t)) /\ heard' = heard
  <2>1. Calmly  BY <1>1, <1>7, CalmSame
  <2> QED  BY <1>1, <1>7, <2>1, StepRaise, SendFailsAudio
<1> QED  BY <1>4, <1>5, <1>6, <1>7

-----------------------------------------------------------------------------
(* Closes, exceptions and new connections                                  *)

\* What a disconnect pushes, with or without the frame it returns to.
LEMMA DisconnectIs ==
    \E S : /\ Disconnecting \in Seq(S) /\ Straight(Disconnecting) /\ Disconnecting # <<>>
           /\ Disconnecting[Len(Disconnecting)].at = "disconnected" /\ Disconnecting[1].at = "close"
           /\ \A i \in DOMAIN Disconnecting : Disconnecting[i] \in S
           /\ \A f \in S : Blank(f)
<1>1. PICK g, f : Disconnecting = <<g, f>> /\ g.at = "close" /\ f.at = "disconnected"  BY DisconnectingNeat
<1>2. <<g.at, f.at>> \in Nesting  BY <1>1 DEF Nesting, ClosePlaces
<1>3. /\ <<g, f>> \in Seq({g, f}) /\ Straight(<<g, f>>) /\ Len(<<g, f>>) = 2 /\ <<g, f>>[2] = f
      /\ <<g, f>>[1] = g /\ <<g, f>> # <<>> /\ \A i \in DOMAIN <<g, f>> : <<g, f>>[i] \in {g, f}
  BY <1>1, <1>2, StraightPair DEF Bent
<1>4. \A h \in {g, f} : Blank(h)  BY <1>1, BlankFrame DEF InHand
<1> DEFINE T == {g, f}
           D == Disconnecting
<1>5. /\ D \in Seq(T) /\ Straight(D) /\ D # <<>> /\ D[Len(D)].at = "disconnected" /\ D[1].at = "close"
      /\ \A i \in DOMAIN D : D[i] \in T
      /\ \A h \in T : Blank(h)
  BY <1>1, <1>3, <1>4
<1> HIDE DEF T, D
<1> QED  BY <1>5 DEF D

LEMMA CutStraight ==
    ASSUME NEW h, h.at \in {"s_gone", "r_end", "final_done", "ended"}
    PROVE  \E S : LET w == Disconnecting \o <<h>>
                  IN  /\ w \in Seq(S) /\ Straight(w) /\ w # <<>> /\ w[Len(w)] = h /\ w[1].at = "close"
                      /\ \A i \in DOMAIN w : w[i] \in S
                      /\ \A f \in S : Blank(f)
<1> DEFINE D == Disconnecting
           v == <<h>>
           w == D \o v
<1>1. PICK S : /\ D \in Seq(S) /\ Straight(D) /\ D # <<>> /\ D[Len(D)].at = "disconnected" /\ D[1].at = "close"
               /\ \A f \in S : Blank(f)
  BY DisconnectIs
<1>2. v \in Seq({h}) /\ Straight(v) /\ Len(v) = 1 /\ v[1] = h /\ v # <<>>  BY StraightOne DEF Bent
<1> DEFINE T == S \cup {h}
<1> HIDE DEF D, v
<1>3. D \in Seq(T) /\ v \in Seq(T)  BY <1>1, <1>2, SeqMonotonic
<1>4. <<D[Len(D)].at, v[1].at>> \in Nesting  BY <1>1, <1>2 DEF Nesting
<1>5. Straight(D \o v)  BY <1>1, <1>2, <1>3, <1>4, StraightOver
<1>6. /\ D \o v \in Seq(T) /\ Len(D \o v) = Len(D) + Len(v)
      /\ \A i \in 1..(Len(D) + Len(v)) : (D \o v)[i] = IF i <= Len(D) THEN D[i] ELSE v[i - Len(D)]
  BY <1>3, ConcatAre
<1>7. Len(w) = Len(D) + 1 /\ w[Len(w)] = h /\ w # <<>>
  <2>1. Len(D) \in Nat  BY <1>1
  <2>2. Len(D) + 1 \in 1..(Len(D) + 1) /\ ~(Len(D) + 1 <= Len(D)) /\ (Len(D) + 1) - Len(D) = 1  BY <2>1
  <2>3. Len(w) = Len(D) + 1 /\ w \in Seq(T)  BY <1>2, <1>6
  <2>4. w[Len(D) + 1] = v[1]  BY <1>2, <1>6, <2>2
  <2>5. w # <<>>  BY <2>1, <2>3
  <2> QED  BY <1>2, <2>3, <2>4, <2>5
<1>11. w[1].at = "close"
  <2>1. 1 \in 1..(Len(D) + Len(v)) /\ 1 <= Len(D)
    <3>1. Len(D) \in Nat /\ Len(D) > 0  BY <1>1
    <3> QED  BY <1>2, <3>1
  <2>2. w[1] = D[1]  BY <1>6, <2>1
  <2> QED  BY <1>1, <2>2
<1>8. \A f \in T : Blank(f)  BY <1>1, BlankFrame DEF InHand
<1>9. \A i \in DOMAIN w : w[i] \in T
  <2>1. w \in Seq(T)  BY <1>6
  <2> QED  BY <2>1
<1>10. w \in Seq(T) /\ Straight(w)  BY <1>5, <1>6
<1> QED  BY <1>7, <1>8, <1>9, <1>10, <1>11 DEF D, v

LEMMA CloseAudio ==
    ASSUME Inv, AudioInv, NEW t \in Tasks,
           Close(t) \/ CloseAwaits(t) \/ CloseAwaited(t) \/ CloseSocket(t) \/ Closed(t)
    PROVE  AudioInv'
<1>0. ClosePlaces \cap (Bent \cup InHand) = {} /\ "begun" \notin ClosePlaces /\ "send" \notin ClosePlaces
  BY DEF ClosePlaces, Bent, InHand
<1>1. svc \in Service  BY DEF Inv, Slots, TypeInv
<1>2. svc'.active = svc.active
  BY <1>1 DEF Service, Close, CloseAwaits, CloseAwaited, CloseSocket, Closed, serviceVars
<1>3. Calmly
  <2>1. buf' = buf /\ heard' = heard /\ budget' = budget
    BY DEF Close, CloseAwaits, CloseAwaited, CloseSocket, Closed, serviceVars, outsideVars, historyVars
  <2> QED  BY <1>2, <2>1, CalmSame
<1>4. PICK l \in ClosePlaces : Wakes(t, l) \/ Runs(t, l)
  BY DEF Close, CloseAwaits, CloseAwaited, CloseSocket, Closed, ClosePlaces
<1>5. Frame(t) \in Frames /\ Frame(t).at = l  BY <1>4, Nonempty, StackTyped DEF Inv
<1>6. ASSUME NEW f, f.at \in ClosePlaces, Goto(t, f) PROVE AudioInv'
  <2>1. Fits(f.at, l)  BY <1>6, GroupsFit
  <2> QED  BY <1>0, <1>3, <1>4, <1>6, <2>1, StepGoto
<1>7. CASE Return(t) \/ Raise(t, "error")  BY <1>0, <1>3, <1>4, <1>7, StepReturn, StepRaise
<1>8. CASE Close(t)
  <2> DEFINE f == [at |-> "close_tasks", todo |-> Other(t, svc.sendTask) \o Other(t, svc.recvTask),
                   forGood |-> Frame(t).forGood]
  <2>1. f.at \in ClosePlaces /\ Goto(t, f)  BY <1>8 DEF Close, ClosePlaces
  <2> QED  BY <1>6, <2>1
<1>9. CASE CloseAwaits(t)
  <2> DEFINE f == [Frame(t) EXCEPT !.at = "close_await"]
             g == [Frame(t) EXCEPT !.todo = Tail(@)]
  <2>1. Goto(t, f) \/ Goto(t, g) \/ Raise(t, "error")  BY <1>9 DEF CloseAwaits
  <2>2. f.at \in ClosePlaces /\ g.at \in ClosePlaces  BY <1>5, MovedAt DEF ClosePlaces
  <2> QED  BY <1>6, <1>7, <2>1, <2>2
<1>10. CASE CloseAwaited(t)
  <2> DEFINE f == [Frame(t) EXCEPT !.at = "close_tasks", !.todo = Tail(@)]
  <2>1. Goto(t, f) \/ Raise(t, "error")  BY <1>10 DEF CloseAwaited
  <2>2. f.at \in ClosePlaces  BY <1>5, MovedAt DEF ClosePlaces
  <2> QED  BY <1>6, <1>7, <2>1, <2>2
<1>11. CASE CloseSocket(t)
  <2> DEFINE f == [at |-> "closing", conn |-> svc.ws, forGood |-> Frame(t).forGood]
  <2>1. Goto(t, f) \/ Return(t)  BY <1>11 DEF CloseSocket
  <2>2. f.at \in ClosePlaces  BY DEF ClosePlaces
  <2> QED  BY <1>6, <1>7, <2>1, <2>2
<1>12. CASE Closed(t)  BY <1>7, <1>12 DEF Closed
<1> QED  BY <1>8, <1>9, <1>10, <1>11, <1>12

LEMMA DisconnectedAudio == ASSUME Inv, AudioInv, NEW t \in Tasks, Disconnected(t) PROVE AudioInv'
<1>1. svc \in Service /\ buf \in Buffers  BY DEF Inv, Slots, TypeInv
<1>2. svc'.active = FALSE /\ buf'.queue = <<>> /\ buf'.aggregate = <<>> /\ buf'.preroll = <<>>
  BY <1>1 DEF Disconnected, Service, Buffers, Cleared
<1>3. heard' = heard /\ budget' = budget  BY DEF Disconnected, outsideVars, historyVars
<1>4. Calmly  BY <1>2, <1>3 DEF Calmly, SameAudio, SameMarks
<1>5. Runs(t, "disconnected") /\ Return(t)  BY DEF Disconnected
<1> QED  BY <1>4, <1>5, StepReturn

LEMMA CancelDeliveredAudio == ASSUME Inv, AudioInv, NEW t \in Tasks, CancelDelivered(t) PROVE AudioInv'
<1> DEFINE f == [at |-> "raise", exc |-> "cancelled"]
           w == <<f>>
<1>1. stack[t] # <<>> /\ running = NoTask /\ Becomes(t, w \o Callers(t))
  BY DEF CancelDelivered, Alive, Raise, Goto
<1>2. f.at = "raise"  OBVIOUS
<1> HIDE DEF f
<1>3. w \in Seq({f}) /\ Straight(w) /\ Len(w) = 1 /\ w[1] = f /\ \A i \in DOMAIN w : w[i] \in {f}
  BY <1>2, StraightOne DEF Bent
<1> HIDE DEF w
<1>4. /\ Callers(t) \in Seq(Frames) /\ Straight(Callers(t)) /\ Ground(Callers(t))
      /\ \A i \in DOMAIN Callers(t) : \E j \in DOMAIN stack[t] : j > 1 /\ Callers(t)[i] = stack[t][j]
      /\ Callers(t) # <<>> => <<Frame(t).at, Callers(t)[1].at>> \in Nesting
      /\ Callers(t) = <<>> => <<Frame(t).at, "none">> \in Nesting
  BY <1>1, CallersAre DEF AudioInv
<1>5. /\ w # <<>> /\ Callers(t) # <<>> => <<w[Len(w)].at, Callers(t)[1].at>> \in Nesting
      /\ w # <<>> /\ Callers(t) = <<>> => <<w[Len(w)].at, "none">> \in Nesting
  BY <1>2, <1>3, <1>4, RaiseFits DEF Fits
<1>6. stack' = [stack EXCEPT ![t] = w \o Callers(t)]  BY <1>1 DEF Becomes
<1>7. Puts(t, {f})  BY <1>3, <1>4, <1>5, <1>6, PutsOver DEF AudioInv
<1>8. Plain  BY <1>2, <1>7, BlankFrame, PutsPlain DEF InHand
<1>9. Calmly  BY CalmSame DEF CancelDelivered, historyVars
<1>10. svc.active => buf.preroll = <<>>  BY <1>1, RestNotBegun
<1> QED  BY <1>8, <1>9, <1>10, PlainKeeps DEF Calmly

LEMMA UnwindsAudio == ASSUME Inv, AudioInv, NEW t \in Tasks, Unwinds(t) PROVE AudioInv'
<1> DEFINE c == Head(Callers(t))
<1>1. Runs(t, "raise")  BY DEF Unwinds
<1>2. Calmly
  <2>1. buf \in Buffers  BY DEF Inv, Slots, TypeInv
  <2>2. /\ buf'.queue = buf.queue /\ buf'.aggregate = buf.aggregate /\ buf'.preroll = buf.preroll
    BY <2>1 DEF Buffers, Unwinds
  <2>3. svc' = svc /\ heard' = heard /\ budget' = budget  BY DEF Unwinds, outsideVars, historyVars
  <2> QED  BY <2>2, <2>3 DEF Calmly, SameAudio, SameMarks
<1>3. CASE Callers(t) = <<>>
  <2>1. Ends(t, Frame(t).exc)  BY <1>3 DEF Unwinds, At
  <2> QED  BY <1>1, <1>2, <2>1, StepEnds
<1>4. CASE Callers(t) # <<>>
  <2>1. c.at # "none" /\ c \in Frames /\ Frame(t).at = "raise"
    <3>1. \A f \in Frames : f.at # "none"
      BY DEF Frames, QuietFrames, QuietPlaces, LoopFrames, AudioFrames, FinalFrames, SendPlaces,
             FinalPlaces, CloseFrames, SendFrames
    <3> QED  BY <1>1, <1>4, <3>1, CallerIs
  <2>2. CASE c.at = "idle" \/ c.at = "ended"
    <3>1. Return(t)  BY <1>4, <2>1, <2>2 DEF Unwinds
    <3> QED  BY <1>1, <1>2, <3>1, StepReturn
  <2>3. CASE c.at = "s_sent" /\ Frame(t).exc = "error"
    <3> DEFINE h == [c EXCEPT !.at = "s_gone"]
               w == Disconnecting \o <<h>>
    <3>1. Becomes(t, w \o Tail(Callers(t)))  BY <1>4, <2>1, <2>3 DEF Unwinds
    <3>2. h.at = "s_gone"  BY <2>1, MovedAt
    <3> HIDE DEF h
    <3>3. Fits(h.at, c.at)  BY <2>3, <3>2, LoopsFit DEF LoopPlaces, SendPlaces
    <3>4. PICK S : /\ w \in Seq(S) /\ Straight(w) /\ w # <<>> /\ w[Len(w)] = h
                   /\ \A i \in DOMAIN w : w[i] \in S
                   /\ \A f \in S : Blank(f)
      BY <3>2, CutStraight
    <3> HIDE DEF w
    <3>5. Puts(t, S)  BY <1>1, <1>4, <3>1, <3>3, <3>4, PutsUnwind DEF AudioInv
    <3> QED  BY <1>1, <1>2, <3>4, <3>5, StepKeeps
  <2>4. ASSUME NEW f, f.at \in {"raise", "r_failed"}, Fits(f.at, c.at), Becomes(t, <<f>> \o Tail(Callers(t)))
        PROVE  AudioInv'
    <3> DEFINE w == <<f>>
    <3>1. w \in Seq({f}) /\ Straight(w) /\ Len(w) = 1 /\ w[1] = f /\ \A i \in DOMAIN w : w[i] \in {f}
      BY <2>4, StraightOne DEF Bent
    <3> HIDE DEF w
    <3>2. Puts(t, {f})  BY <1>1, <1>4, <2>4, <3>1, PutsUnwind DEF AudioInv, w
    <3>3. \A g \in {f} : Blank(g)  BY <2>4, BlankFrame DEF InHand
    <3> QED  BY <1>1, <1>2, <3>2, <3>3, StepKeeps
  <2>5. CASE c.at = "r_ponged" /\ Frame(t).exc = "error"
    <3>1. Becomes(t, <<At("r_failed")>> \o Tail(Callers(t)))  BY <1>4, <2>1, <2>5 DEF Unwinds
    <3>2. Fits("r_failed", c.at)  BY <2>5, LoopsFit DEF LoopPlaces, SendPlaces
    <3> QED  BY <2>4, <3>1, <3>2, AtIs
  <2>6. CASE /\ ~(c.at = "idle" \/ c.at = "ended")
             /\ ~(c.at = "s_sent" /\ Frame(t).exc = "error")
             /\ ~(c.at = "r_ponged" /\ Frame(t).exc = "error")
    <3>1. Becomes(t, <<Frame(t)>> \o Tail(Callers(t)))  BY <1>4, <2>1, <2>6 DEF Unwinds
    <3> QED  BY <2>1, <2>4, <3>1, RaiseFits
  <2> QED  BY <2>2, <2>3, <2>5, <2>6
<1> QED  BY <1>3, <1>4

LEMMA NewLoop == ASSUME NEW l \in {"s_new", "r_new"} PROVE Straight(<<At(l)>>) /\ Ground(<<At(l)>>) /\ Blank(At(l))
<1> DEFINE f == At(l)
<1>1. f.at = l  BY AtIs
<1> HIDE DEF f
<1>2. Straight(<<f>>) /\ Len(<<f>>) = 1 /\ <<f>>[1] = f  BY <1>1, StraightOne DEF Bent
<1>3. <<f.at, "none">> \in Nesting  BY <1>1 DEF Nesting, LoopPlaces, SendPlaces
<1>4. Ground(<<f>>)  BY <1>2, <1>3 DEF Ground
<1>5. Blank(f)  BY <1>1, BlankFrame DEF InHand
<1> QED  BY <1>2, <1>4, <1>5 DEF f

LEMMA ConnectedAudio == ASSUME Inv, AudioInv, NEW t \in Tasks, Connected(t) PROVE AudioInv'
<1>1. PICK w \in Conns :
        /\ Wakes(t, "connecting") /\ conn[w] = "none"
        /\ svc' = [svc EXCEPT !.ws = w, !.readyOf = w, !.sendTask = SendTask(w), !.recvTask = RecvTask(w)]
        /\ stack' = [stack EXCEPT ![t] = Callers(t), ![SendTask(w)] = <<At("s_new")>>,
                                  ![RecvTask(w)] = <<At("r_new")>>]
        /\ UNCHANGED <<buf, historyVars>>
  BY DEF Connected
<1>2. stack[t] # <<>>  BY <1>1, Nonempty
<1>3. stack[SendTask(w)] = <<>> /\ stack[RecvTask(w)] = <<>>  BY <1>1 DEF Inv, Slots, TaskInv
<1>4. t # SendTask(w) /\ t # RecvTask(w) /\ SendTask(w) # RecvTask(w)
      /\ SendTask(w) \in Tasks /\ RecvTask(w) \in Tasks
  BY <1>2, <1>3, PlacesApart
<1>5. /\ stack'[t] = Callers(t) /\ stack'[SendTask(w)] = <<At("s_new")>> /\ stack'[RecvTask(w)] = <<At("r_new")>>
      /\ \A u \in Tasks \ {t, SendTask(w), RecvTask(w)} : stack'[u] = stack[u]
  BY <1>1, <1>4 DEF Inv, Slots, TypeInv
<1>6. Plain
  <2>1. Straight(stack'[t]) /\ Ground(stack'[t]) /\ Fresh(t)
    <3>1. /\ Straight(Callers(t)) /\ Ground(Callers(t))
          /\ \A i \in DOMAIN Callers(t) : \E j \in DOMAIN stack[t] : j > 1 /\ Callers(t)[i] = stack[t][j]
      BY <1>2, CallersAre DEF AudioInv
    <3> QED  BY <1>5, <3>1 DEF Fresh
  <2>2. ASSUME NEW u \in Tasks, NEW l \in {"s_new", "r_new"}, stack'[u] = <<At(l)>>
        PROVE  Straight(stack'[u]) /\ Ground(stack'[u]) /\ Fresh(u)
    <3> DEFINE f == At(l)
    <3>1. \A i \in DOMAIN <<f>> : <<f>>[i] = f
      <4> HIDE DEF f
      <4> QED  OBVIOUS
    <3> QED  BY <2>2, <3>1, NewLoop DEF Fresh
  <2>3. ASSUME NEW u \in Tasks \ {t, SendTask(w), RecvTask(w)}
        PROVE  Straight(stack'[u]) /\ Ground(stack'[u]) /\ Fresh(u)
    BY <1>5, <2>3 DEF AudioInv, NestInv, Fresh
  <2> QED  BY <1>4, <1>5, <2>1, <2>2, <2>3 DEF Plain
<1>7. svc'.active = svc.active
  <2>1. svc \in Service  BY DEF Inv, Slots, TypeInv
  <2> QED  BY <1>1, <2>1 DEF Service
<1>8. Calmly  BY <1>1, <1>7, CalmSame DEF historyVars
<1>9. svc.active => buf.preroll = <<>>  BY <1>1, NotBegun
<1> QED  BY <1>6, <1>8, <1>9, PlainKeeps DEF Calmly

LEMMA CoroutineAudio ==
    ASSUME Inv, AudioInv, NEW t \in Tasks, ~svc.config.reconnect, CoroutineStep(t)
    PROVE  AudioInv'
<1>1. ASSUME ReconnectClosed(t) \/ SendAgain(t) PROVE FALSE
  <2>1. PICK l \in Bent : Runs(t, l)  BY <1>1 DEF ReconnectClosed, SendAgain, Bent
  <2>2. stack[t] # <<>> /\ Frame(t).at = l  BY <2>1, Nonempty
  <2>3. Frame(t) = stack[t][1] /\ 1 \in DOMAIN stack[t]  BY <2>2, StackTyped DEF Inv
  <2> QED  BY <2>1, <2>2, <2>3 DEF AudioInv, NestInv, Straight, Bent
<1> QED  BY <1>1, ConnectAudio, StartAudio, StartReadyAudio, SendAudio, SentAudio, CloseAudio, DisconnectedAudio,
            CancelDeliveredAudio, UnwindsAudio, ConnectedAudio DEF CoroutineStep

-----------------------------------------------------------------------------
(* The loops, the pipeline's operations but for audio, and their starts    *)

\* From place to place of a loop.
LEMMA LoopGoto ==
    ASSUME Inv, AudioInv, NEW t \in Tasks, NEW l \in LoopPlaces, Wakes(t, l) \/ Runs(t, l), NEW f,
           f.at \in LoopPlaces, Goto(t, f), Calmly
    PROVE  AudioInv'
<1>1. LoopPlaces \cap (Bent \cup InHand) = {} /\ "begun" \notin LoopPlaces /\ "send" \notin LoopPlaces
  BY DEF LoopPlaces, SendPlaces, Bent, InHand
<1>2. Fits(f.at, l)  BY LoopsFit
<1> QED  BY <1>1, <1>2, StepGoto

LEMMA LoopEnds ==
    ASSUME Inv, AudioInv, NEW t \in Tasks, NEW l \in LoopPlaces, Wakes(t, l) \/ Runs(t, l), NEW r, Ends(t, r), Calmly
    PROVE  AudioInv'
<1>1. "begun" \notin LoopPlaces  BY DEF LoopPlaces, SendPlaces
<1> QED  BY <1>1, StepEnds

LEMMA SenderAudio ==
    ASSUME Inv, AudioInv, NEW k \in Conns, SenderLoops(k) \/ SenderWakes(k) \/ SenderSent(k) \/ SenderGone(k)
    PROVE  AudioInv'
<1> DEFINE t == SendTask(k)
<1>1. t \in Tasks  BY PlacesApart
<1>2. Calmly
  <2>1. buf \in Buffers  BY DEF Inv, Slots, TypeInv
  <2>2. buf'.queue = buf.queue /\ buf'.aggregate = buf.aggregate /\ buf'.preroll = buf.preroll
    BY <2>1 DEF Buffers, SenderLoops, SenderWakes, SenderSent, SenderGone, serviceVars
  <2>3. svc' = svc /\ heard' = heard /\ budget' = budget
    BY DEF SenderLoops, SenderWakes, SenderSent, SenderGone, serviceVars, outsideVars, historyVars
  <2> QED  BY <2>2, <2>3 DEF Calmly, SameAudio, SameMarks
<1>3. PICK l \in SendPlaces : Wakes(t, l) \/ Runs(t, l)
  BY DEF SenderLoops, SenderWakes, SenderSent, SenderGone, SendPlaces
<1>4. Ends(t, "ok") \/ \E m \in SendPlaces : Goto(t, At(m))
  BY DEF SenderLoops, SenderWakes, SenderSent, SenderGone, SendPlaces
<1>5. ASSUME NEW m \in SendPlaces, Goto(t, At(m)) PROVE AudioInv'
  <2> DEFINE f == At(m)
  <2>1. f.at = m /\ Goto(t, f)  BY <1>5, AtIs
  <2> HIDE DEF f
  <2> QED  BY <1>1, <1>2, <1>3, <2>1, LoopGoto DEF LoopPlaces
<1> QED  BY <1>1, <1>2, <1>3, <1>4, <1>5, LoopEnds DEF LoopPlaces

LEMMA ReceiverAudio ==
    ASSUME Inv, AudioInv, NEW k \in Conns, ~svc.config.reconnect, ReceiverStep(k) PROVE AudioInv'
<1> DEFINE t == RecvTask(k)
<1>0. t \in Tasks  BY PlacesApart
<1>1. Calmly
  <2>1. buf' = buf /\ heard' = heard /\ budget' = budget
    BY DEF ReceiverStep, ReceiverLoops, ReceivesPing, ReceivesReady, ReceivesTranscript, ReceiverPushes,
           ReceivesEnd, ReceiverLosesConnection, ReceiverFailed, ReceiverEnds, Receives, serviceVars,
           outsideVars, historyVars
  <2>2. svc'.active => svc.active
    <3>1. CASE ReceiverPushes(k)
      <4>1. svc \in Service  BY DEF Inv, Slots, TypeInv
      <4> QED  BY <3>1, <4>1 DEF Service, ReceiverPushes
    <3>2. CASE ~ReceiverPushes(k)
      <4>1. svc' = svc
        BY <3>2 DEF ReceiverStep, ReceiverLoops, ReceivesPing, ReceivesReady, ReceivesTranscript,
           ReceivesEnd, ReceiverLosesConnection, ReceiverFailed, ReceiverEnds, Receives, serviceVars
      <4> QED  BY <4>1
    <3> QED  BY <3>1, <3>2
  <2> QED  BY <2>1, <2>2 DEF Calmly, SameAudio, SameMarks
<1>2. CASE ReceiverLoops(k)
  <2> DEFINE f == [at |-> "r_recv", conn |-> svc.ws]
  <2>1. PICK l \in {"r_new", "r_loop", "r_ponged"} : Wakes(t, l) \/ Runs(t, l)  BY <1>2 DEF ReceiverLoops
  <2>2. (Ends(t, "ok") \/ Goto(t, f)) /\ f.at = "r_recv"  BY <1>2 DEF ReceiverLoops
  <2> HIDE DEF f
  <2> QED  BY <1>0, <1>1, <2>1, <2>2, LoopEnds, LoopGoto DEF LoopPlaces
<1>3. ASSUME NEW l \in {"r_recv", "r_push"}, Wakes(t, l), NEW m \in {"r_loop", "r_failed"}, Goto(t, At(m))
      PROVE  AudioInv'
  <2> DEFINE f == At(m)
  <2>1. f.at = m /\ Goto(t, f)  BY <1>3, AtIs
  <2> HIDE DEF f
  <2> QED  BY <1>0, <1>1, <1>3, <2>1, LoopGoto DEF LoopPlaces
<1>4. CASE ReceiverPushes(k) \/ ReceiverLosesConnection(k)
  <2>1. \E l \in {"r_recv", "r_push"}, m \in {"r_loop", "r_failed"} : Wakes(t, l) /\ Goto(t, At(m))
    BY <1>4 DEF ReceiverPushes, ReceiverLosesConnection
  <2> QED  BY <1>3, <2>1
<1>5. CASE ReceivesReady(k) \/ ReceivesTranscript(k) \/ ReceivesEnd(k)
  <2>1. PICK m : /\ Receives(k, m)
                 /\ Goto(t, At("r_loop")) \/ Goto(t, [at |-> "r_push", msg |-> m])
    BY <1>5 DEF ReceivesReady, ReceivesTranscript, ReceivesEnd
  <2> DEFINE f == [at |-> "r_push", msg |-> m]
  <2>2. f.at = "r_push" /\ Wakes(t, "r_recv")  BY <2>1 DEF Receives
  <2>3. Goto(t, At("r_loop")) \/ Goto(t, f)  BY <2>1
  <2> HIDE DEF f
  <2> QED  BY <1>0, <1>1, <1>3, <2>2, <2>3, LoopGoto DEF LoopPlaces
<1>6. CASE ReceivesPing(k)
  <2> DEFINE p == [type |-> "pong"]
             g == SendCall(p, TRUE, TRUE)
             f == At("r_ponged")
  <2>1. Wakes(t, "r_recv") /\ Call(t, g, f)  BY <1>6 DEF ReceivesPing, Receives
  <2>2. g.at = "send" /\ g.msg.type = "pong" /\ f.at = "r_ponged"  BY AtIs DEF SendCall
  <2> HIDE DEF g, f, p
  <2>3. Fits(f.at, "r_recv")  BY <2>2, LoopsFit DEF LoopPlaces
  <2>4. <<g.at, f.at>> \in Nesting  BY <2>2 DEF Nesting
  <2>5. Blank(g) /\ Blank(f) /\ g.at \notin Bent /\ f.at \notin Bent  BY <2>2, BlankFrame DEF InHand, Bent
  <2> QED  BY <1>0, <1>1, <2>1, <2>3, <2>4, <2>5, StepCall
<1>7. CASE ReceiverFailed(k)
  <2> DEFINE h == At("r_end")
             w == Disconnecting \o <<h>>
  <2>1. Runs(t, "r_failed") /\ Becomes(t, w)  BY <1>7 DEF ReceiverFailed
  <2>2. h.at = "r_end"  BY AtIs
  <2> HIDE DEF h
  <2>3. PICK S : /\ w \in Seq(S) /\ Straight(w) /\ w # <<>> /\ w[Len(w)] = h
                 /\ \A i \in DOMAIN w : w[i] \in S
                 /\ \A f \in S : Blank(f)
    BY <2>2, CutStraight
  <2> HIDE DEF w
  <2>4. Ground(w)  BY <2>2, <2>3 DEF Ground, Nesting, LoopPlaces
  <2>5. Puts(t, S)  BY <1>0, <2>1, <2>3, <2>4, PutsWhole DEF Becomes, AudioInv
  <2> QED  BY <1>0, <1>1, <2>1, <2>3, <2>5, StepKeeps
<1>8. CASE ReceiverEnds(k)  BY <1>0, <1>1, <1>8, LoopEnds DEF ReceiverEnds, LoopPlaces
<1> QED  BY <1>2, <1>4, <1>5, <1>6, <1>7, <1>8 DEF ReceiverStep

LEMMA FinalsAudio ==
    ASSUME Inv, AudioInv,
           Joins \/ Joined \/ SendsFinalize \/ FinalizeSent \/ FinalArrives \/ FinalTimesOut \/ FinalDone
    PROVE  AudioInv'
<1> DEFINE t == Pipeline
           Goes == {"flushed", "join", "joined", "final_sent", "final_wait", "final_done"}
<1>0. t \in Tasks /\ Goes \cap (Bent \cup InHand) = {} /\ "begun" \notin Goes /\ "send" \notin Goes
      /\ Goes \subseteq CallPlaces
  BY PlacesApart DEF Bent, InHand, CallPlaces
<1>1. Calmly
  <2>1. buf' = buf /\ heard' = heard /\ budget' = budget
    BY DEF Joins, Joined, SendsFinalize, FinalizeSent, FinalArrives, FinalTimesOut, FinalDone, serviceVars,
           outsideVars, historyVars
  <2>2. svc' = svc \/ svc'.active = FALSE
    <3>1. svc \in Service  BY DEF Inv, Slots, TypeInv
    <3> QED  BY <3>1 DEF Service, Joins, Joined, SendsFinalize, FinalizeSent, FinalArrives, FinalTimesOut,
                         FinalDone, serviceVars
  <2> QED  BY <2>1, <2>2, CalmSame
<1>2. ASSUME NEW l \in Goes, Wakes(t, l) \/ Runs(t, l), NEW x \in Goes, Goto(t, [Frame(t) EXCEPT !.at = x])
      PROVE  AudioInv'
  <2> DEFINE f == [Frame(t) EXCEPT !.at = x]
  <2>1. Frame(t) \in Frames  BY <1>0, <1>2, Nonempty, StackTyped DEF Inv
  <2>2. f.at = x /\ Goto(t, f)  BY <1>2, <2>1, MovedAt
  <2> HIDE DEF f
  <2>3. Fits(f.at, l)  BY <1>0, <2>2, CallsFit
  <2> QED  BY <1>0, <1>1, <1>2, <2>2, <2>3, StepGoto
<1>3. CASE Joins \/ Joined \/ FinalizeSent \/ FinalArrives
  <2>1. \E l \in Goes, x \in Goes : (Wakes(t, l) \/ Runs(t, l)) /\ Goto(t, [Frame(t) EXCEPT !.at = x])
    BY <1>3 DEF Joins, Joined, FinalizeSent, FinalArrives
  <2> QED  BY <1>2, <2>1
<1>4. CASE SendsFinalize
  <2> DEFINE p == [type |-> "finalize"]
             g == SendCall(p, FALSE, FALSE)
             f == [at |-> "final_sent", gen |-> Frame(t).gen]
  <2>1. Runs(t, "joined") /\ (Call(t, g, f) \/ Return(t))  BY <1>4 DEF SendsFinalize, Call
  <2>2. g.at = "send" /\ g.msg.type = "finalize" /\ f.at = "final_sent"  BY AtIs DEF SendCall
  <2> HIDE DEF g, f, p
  <2>3. Fits(f.at, "joined")  BY <2>2, CallsFit DEF CallPlaces
  <2>4. <<g.at, f.at>> \in Nesting  BY <2>2 DEF Nesting
  <2>5. Blank(g) /\ Blank(f) /\ g.at \notin Bent /\ f.at \notin Bent  BY <2>2, BlankFrame DEF InHand, Bent
  <2> QED  BY <1>0, <1>1, <2>1, <2>3, <2>4, <2>5, StepCall, StepReturn
<1>5. CASE FinalTimesOut
  <2> DEFINE h == [Frame(t) EXCEPT !.at = "final_done"]
             w == Disconnecting \o <<h>>
  <2>1. Wakes(t, "final_wait") /\ Becomes(t, w \o Callers(t))  BY <1>5 DEF FinalTimesOut
  <2>2. Frame(t) \in Frames  BY <1>0, <2>1, Nonempty, StackTyped DEF Inv
  <2>3. h.at = "final_done"  BY <2>2, MovedAt
  <2> HIDE DEF h
  <2>4. PICK S : /\ w \in Seq(S) /\ Straight(w) /\ w # <<>> /\ w[Len(w)] = h
                 /\ \A i \in DOMAIN w : w[i] \in S
                 /\ \A f \in S : Blank(f)
    BY <2>3, CutStraight
  <2> HIDE DEF w
  <2>5. Fits(h.at, "final_wait")  BY <2>3, CallsFit DEF CallPlaces
  <2>6. Puts(t, S)  BY <1>0, <2>1, <2>4, <2>5, PutsPush DEF AudioInv
  <2> QED  BY <1>0, <1>1, <2>1, <2>4, <2>6, StepKeeps
<1>6. CASE FinalDone  BY <1>0, <1>1, <1>6, StepReturn DEF FinalDone
<1> QED  BY <1>3, <1>4, <1>5, <1>6

LEMMA CancelSentAudio == ASSUME Inv, AudioInv, CancelSent PROVE AudioInv'
<1> DEFINE t == Controller
<1>1. t \in Tasks /\ Runs(t, "cancel_sent")  BY PlacesApart DEF CancelSent
<1>2. Calmly  BY CalmSame DEF CancelSent, serviceVars, outsideVars, historyVars
<1>3. CASE Return(t)  BY <1>1, <1>2, <1>3, StepReturn
<1>4. CASE Becomes(t, Disconnecting \o Callers(t))
  <2>1. PICK S : /\ Disconnecting \in Seq(S) /\ Straight(Disconnecting) /\ Disconnecting # <<>>
                 /\ Disconnecting[Len(Disconnecting)].at = "disconnected"
                 /\ \A i \in DOMAIN Disconnecting : Disconnecting[i] \in S
                 /\ \A f \in S : Blank(f)
    BY DisconnectIs
  <2>2. Fits("disconnected", "cancel_sent")  BY CallsFit DEF CallPlaces
  <2>3. Puts(t, S)  BY <1>1, <1>4, <2>1, <2>2, PutsPush DEF AudioInv
  <2> QED  BY <1>1, <1>2, <2>1, <2>3, StepKeeps
<1> QED  BY <1>3, <1>4 DEF CancelSent

LEMMA StraightTriple ==
    ASSUME NEW g, NEW f, NEW h, g.at \notin Bent, f.at \notin Bent, h.at \notin Bent,
           <<g.at, f.at>> \in Nesting, <<f.at, h.at>> \in Nesting, <<h.at, "none">> \in Nesting
    PROVE  LET w == <<g, f, h>>
           IN  /\ w \in Seq({g, f, h}) /\ Straight(w) /\ Ground(w) /\ w # <<>>
               /\ \A i \in DOMAIN w : w[i] \in {g, f, h}
<1> DEFINE w == <<g, f, h>>
<1>1. w \in Seq({g, f, h}) /\ DOMAIN w = {1, 2, 3} /\ Len(w) = 3 /\ w[1] = g /\ w[2] = f /\ w[3] = h /\ w # <<>>
  <2>1. DOMAIN w = 1..3  OBVIOUS
  <2> QED  BY <2>1
<1> HIDE DEF w
<1>2. Straight(w)
  <2>1. 2 - 1 = 1 /\ 3 - 1 = 2 /\ ~(1 > 1)  OBVIOUS
  <2> QED  BY <1>1, <2>1 DEF Straight, Bent
<1>3. Ground(w)  BY <1>1 DEF Ground
<1>4. \A i \in DOMAIN w : w[i] \in {g, f, h}  BY <1>1
<1> QED  BY <1>1, <1>2, <1>3, <1>4 DEF w

\* A task that is idle begins an operation, with no audio in hand.
LEMMA BeginsAudio ==
    ASSUME Inv, AudioInv, NEW t \in Tasks, Wakes(t, "idle"), NEW S, NEW w \in Seq(S), NEW N, Straight(w),
           Ground(w), \A i \in DOMAIN w : w[i] \in N, \A f \in N : Blank(f), Becomes(t, w), Calmly
    PROVE  AudioInv'
<1>1. Puts(t, N)  BY PutsWhole DEF Becomes, AudioInv
<1> QED  BY <1>1, StepKeeps

LEMMA SpeechAudio == ASSUME Inv, AudioInv, SpeechStarts \/ SpeechEnds PROVE AudioInv'
<1>1. Calmly
  <2>1. svc \in Service  BY DEF Inv, Slots, TypeInv
  <2>2. svc'.active = svc.active  BY <2>1 DEF Service, SpeechStarts, SpeechEnds, serviceVars
  <2> QED  BY <2>2, CalmSame DEF SpeechStarts, SpeechEnds, serviceVars, outsideVars, historyVars
<1>2. Wakes(Pipeline, "idle") /\ Pipeline \in Tasks  BY PlacesApart DEF SpeechStarts, SpeechEnds
<1>3. PICK a, b : /\ Becomes(Pipeline, <<a, b, At("idle")>>)
                  /\ <<a.at, b.at>> \in {<<"start", "begun">>, <<"flush", "flushed">>}
  <2>1. CASE SpeechStarts  BY <2>1, AtIs DEF SpeechStarts
  <2>2. CASE SpeechEnds
    <3> DEFINE f == [at |-> "flushed", gen |-> svc.gen]
    <3>1. f.at = "flushed" /\ Becomes(Pipeline, <<At("flush"), f, At("idle")>>)  BY <2>2 DEF SpeechEnds
    <3> HIDE DEF f
    <3> QED  BY <3>1, AtIs
  <2> QED  BY <2>1, <2>2
<1> DEFINE e == At("idle")
           w == <<a, b, e>>
           N == {a, b, e}
<1>4. e.at = "idle"  BY AtIs
<1>5. a.at \in {"start", "flush"} /\ b.at \in {"begun", "flushed"}  BY <1>3
<1> HIDE DEF e
<1>6. <<a.at, b.at>> \in Nesting /\ <<b.at, e.at>> \in Nesting /\ <<e.at, "none">> \in Nesting
  <2>1. <<"start", "begun">> \in Nesting /\ <<"flush", "flushed">> \in Nesting  BY DEF Nesting, StartPlaces
  <2>2. <<b.at, e.at>> \in Nesting  BY <1>4, <1>5 DEF Nesting
  <2>3. <<e.at, "none">> \in Nesting  BY <1>4 DEF Nesting, LoopPlaces
  <2> QED  BY <1>3, <2>1, <2>2, <2>3
<1>7. w \in Seq(N) /\ Straight(w) /\ Ground(w) /\ \A i \in DOMAIN w : w[i] \in N
  BY <1>4, <1>5, <1>6, StraightTriple DEF Bent
<1>8. \A f \in N : Blank(f)  BY <1>4, <1>5, BlankFrame DEF InHand
<1>9. Becomes(Pipeline, w)  BY <1>3 DEF e
<1> HIDE DEF w, N
<1> QED  BY <1>1, <1>2, <1>7, <1>8, <1>9, BeginsAudio

LEMMA EndsStraight ==
    ASSUME NEW h, h.at = "ended"
    PROVE  \E S : LET w == Disconnecting \o <<h>>
                  IN  /\ w \in Seq(S) /\ Straight(w) /\ Ground(w) /\ w # <<>> /\ w[1].at = "close"
                      /\ \A i \in DOMAIN w : w[i] \in S
                      /\ \A f \in S : Blank(f)
<1> DEFINE w == Disconnecting \o <<h>>
<1>1. PICK S : /\ w \in Seq(S) /\ Straight(w) /\ w # <<>> /\ w[Len(w)] = h /\ w[1].at = "close"
               /\ \A i \in DOMAIN w : w[i] \in S
               /\ \A f \in S : Blank(f)
  BY CutStraight
<1> HIDE DEF w
<1>2. Ground(w)  BY <1>1 DEF Ground, Nesting, LoopPlaces
<1> QED  BY <1>1, <1>2 DEF w

LEMMA StopsAudio == ASSUME Inv, AudioInv, Stops PROVE AudioInv'
<1> DEFINE m == [type |-> "close"]
           c == SendCall(m, TRUE, TRUE)
           h == At("ended")
           D == Disconnecting \o <<h>>
<1>1. Calmly  BY CalmSame DEF Stops, serviceVars, outsideVars, historyVars
<1>2. Wakes(Pipeline, "idle") /\ Pipeline \in Tasks  BY PlacesApart DEF Stops
<1>3. c.at = "send" /\ c.msg.type = "close" /\ h.at = "ended"  BY AtIs DEF SendCall
<1>4. \/ Becomes(Pipeline, <<>> \o Disconnecting \o <<h>>)
      \/ Becomes(Pipeline, <<c>> \o Disconnecting \o <<h>>)
  BY DEF Stops
<1> HIDE DEF m, c, h
<1>5. PICK S : /\ D \in Seq(S) /\ Straight(D) /\ Ground(D) /\ D # <<>> /\ D[1].at = "close"
               /\ \A i \in DOMAIN D : D[i] \in S
               /\ \A f \in S : Blank(f)
  BY <1>3, EndsStraight
<1>6. PICK T : Disconnecting \in Seq(T)  BY DisconnectIs
<1> DEFINE U == S \cup T \cup {c, h}
<1>7. Disconnecting \in Seq(U) /\ <<h>> \in Seq(U) /\ <<c>> \in Seq(U)
  <2>1. <<h>> \in Seq(U) /\ <<c>> \in Seq(U)  OBVIOUS
  <2> QED  BY <1>6, <2>1, SeqMonotonic
<1> HIDE DEF U
<1>8. CASE Becomes(Pipeline, <<>> \o Disconnecting \o <<h>>)
  <2>1. <<>> \o Disconnecting = Disconnecting  BY <1>7, ConcatEmptySeq
  <2>2. Becomes(Pipeline, D)  BY <1>8, <2>1
  <2> HIDE DEF D
  <2> QED  BY <1>1, <1>2, <1>5, <2>2, BeginsAudio
<1>9. CASE Becomes(Pipeline, <<c>> \o Disconnecting \o <<h>>)
  <2>1. (<<c>> \o Disconnecting) \o <<h>> = <<c>> \o D  BY <1>7, ConcatAssociative
  <2> DEFINE v == <<c>>
             N == S \cup {c}
             w == v \o D
  <2>2. stack' = [stack EXCEPT ![Pipeline] = v \o D]  BY <1>9, <2>1 DEF Becomes
  <2>3. v \in Seq({c}) /\ Straight(v) /\ Len(v) = 1 /\ v[1] = c /\ v # <<>> /\ DOMAIN v = {1}
    <3>1. DOMAIN <<c>> = {1}  OBVIOUS
    <3> QED  BY <1>3, <3>1, StraightOne DEF Bent
  <2> HIDE DEF D, v
  <2>4. v \in Seq(N) /\ D \in Seq(N)  BY <1>5, <2>3, SeqMonotonic
  <2>5. <<v[Len(v)].at, D[1].at>> \in Nesting  BY <1>3, <1>5, <2>3 DEF Nesting
  <2>6. Straight(v \o D)  BY <1>5, <2>3, <2>4, <2>5, StraightOver
  <2>7. /\ v \o D \in Seq(N) /\ Len(v \o D) = Len(v) + Len(D)
        /\ \A i \in 1..(Len(v) + Len(D)) : (v \o D)[i] = IF i <= Len(v) THEN v[i] ELSE D[i - Len(v)]
    BY <2>4, ConcatAre
  <2>8. Ground(v \o D)
    <3>1. Len(D) \in Nat /\ Len(D) > 0  BY <1>5
    <3>2. Len(v) + Len(D) \in 1..(Len(v) + Len(D)) /\ ~(Len(v) + Len(D) <= Len(v))
          /\ (Len(v) + Len(D)) - Len(v) = Len(D)
      BY <2>3, <3>1
    <3>3. (v \o D)[Len(v \o D)] = D[Len(D)]  BY <2>7, <3>2
    <3> QED  BY <1>5, <3>3 DEF Ground
  <2>9. w \in Seq(N) /\ \A i \in DOMAIN w : w[i] \in N
    <3>1. w \in Seq(N)  BY <2>7
    <3> QED  BY <3>1
  <2>10. \A f \in N : Blank(f)  BY <1>3, <1>5, BlankFrame DEF InHand
  <2>11. Puts(Pipeline, N)
    <3>1. Straight(w) /\ Ground(w) /\ stack' = [stack EXCEPT ![Pipeline] = w]  BY <2>2, <2>6, <2>8
    <3> HIDE DEF w
    <3> QED  BY <1>2, <2>9, <3>1, PutsWhole DEF AudioInv
  <2> QED  BY <1>1, <1>2, <2>10, <2>11, StepKeeps
<1> QED  BY <1>4, <1>8, <1>9

LEMMA CleansUpAudio == ASSUME Inv, AudioInv, CleansUp PROVE AudioInv'
<1> DEFINE h == At("ended")
           w == Disconnecting \o <<h>>
<1>1. Calmly  BY CalmSame DEF CleansUp, serviceVars, outsideVars, historyVars
<1>2. Wakes(Controller, "idle") /\ Controller \in Tasks /\ Becomes(Controller, w)  BY PlacesApart DEF CleansUp
<1>3. h.at = "ended"  BY AtIs
<1> HIDE DEF h
<1>4. PICK S : /\ w \in Seq(S) /\ Straight(w) /\ Ground(w)
               /\ \A i \in DOMAIN w : w[i] \in S
               /\ \A f \in S : Blank(f)
  BY <1>3, EndsStraight
<1> HIDE DEF w
<1> QED  BY <1>1, <1>2, <1>4, BeginsAudio

LEMMA CancelsAudio == ASSUME Inv, AudioInv, Cancels PROVE AudioInv'
<1>1. Calmly
  <2>1. svc \in Service /\ buf \in Buffers /\ budget \in Budget  BY DEF Inv, Slots, TypeInv
  <2>2. svc'.active = FALSE /\ buf'.queue = <<>> /\ buf'.aggregate = <<>> /\ buf'.preroll = <<>>
    BY <2>1 DEF Cancels, Service, Buffers, Cleared
  <2>3. heard' = heard /\ budget'.frames = budget.frames  BY <2>1 DEF Cancels, Budget
  <2> QED  BY <2>2, <2>3 DEF Calmly, SameAudio, SameMarks
<1>2. Wakes(Controller, "idle") /\ Controller \in Tasks  BY PlacesApart DEF Cancels
<1>3. CASE stack' = stack
  <2>1. Plain  BY <1>3, StandPlain DEF AudioInv
  <2>2. svc.active => buf.preroll = <<>>  BY <1>2, NotBegun
  <2> QED  BY <1>1, <2>1, <2>2, PlainKeeps DEF Calmly
<1>4. CASE Becomes(Controller, <<SendCall([type |-> "cancel"], FALSE, FALSE),
                                  [at |-> "cancel_sent", conn |-> svc.ws], At("idle")>>)
  <2> DEFINE m == [type |-> "cancel"]
             g == SendCall(m, FALSE, FALSE)
             f == [at |-> "cancel_sent", conn |-> svc.ws]
             e == At("idle")
             w == <<g, f, e>>
             N == {g, f, e}
  <2>1. g.at = "send" /\ g.msg.type = "cancel" /\ f.at = "cancel_sent" /\ e.at = "idle"  BY AtIs DEF SendCall
  <2>2. Becomes(Controller, w)  BY <1>4
  <2> HIDE DEF m, g, f, e
  <2>3. <<g.at, f.at>> \in Nesting /\ <<f.at, e.at>> \in Nesting /\ <<e.at, "none">> \in Nesting
    BY <2>1 DEF Nesting, LoopPlaces
  <2>4. w \in Seq(N) /\ Straight(w) /\ Ground(w) /\ \A i \in DOMAIN w : w[i] \in N
    BY <2>1, <2>3, StraightTriple DEF Bent
  <2>5. \A x \in N : Blank(x)  BY <2>1, BlankFrame DEF InHand
  <2> HIDE DEF w, N
  <2> QED  BY <1>1, <1>2, <2>2, <2>4, <2>5, BeginsAudio
<1> QED  BY <1>3, <1>4 DEF Cancels

LEMMA ServersAudio ==
    ASSUME Inv, AudioInv, NEW w \in Conns,
           HangsUp(w) \/ Breaks(w) \/ \E type \in {"partial", "ping"} : ServerChats(w, type)
    PROVE  AudioInv'
<1>1. budget \in Budget  BY DEF Inv, Slots, TypeInv
<1>2. /\ buf' = buf /\ heard' = heard /\ svc' = svc /\ stack' = stack /\ running = NoTask
      /\ budget'.frames = budget.frames
  BY <1>1 DEF Budget, HangsUp, Breaks, ServerChats, serviceVars, taskVars, historyVars
<1>3. Calmly  BY <1>2, CalmSame
<1>4. Plain  BY <1>2, StandPlain DEF AudioInv
<1>5. svc.active => buf.preroll = <<>>  BY <1>2, RestNotBegun
<1> QED  BY <1>3, <1>4, <1>5, PlainKeeps DEF Calmly

-----------------------------------------------------------------------------
(* Steps that move audio                                                   *)

\* What a place holds after a step: what it held, or some of it, and what the
\* new frames bring.
LEMMA CarriesNew ==
    ASSUME NEW t \in Tasks, NEW N, Puts(t, N), NEW P, NEW X,
           \A f \in N : f.at \in P => ToSet(Carried(f)) \subseteq X
    PROVE  CarriedAt(P)' \subseteq CarriedAt(P) \cup X
<1> SUFFICES ASSUME NEW x \in CarriedAt(P)' PROVE x \in CarriedAt(P) \cup X
  OBVIOUS
<1>1. PICK f \in Coroutines' : f.at \in P /\ x \in ToSet(Carried(f))  BY DEF CarriedAt
<1>2. PICK u \in Tasks : \E i \in DOMAIN stack'[u] : f = stack'[u][i]  BY <1>1, ToSetIs DEF Coroutines
<1>3. f \in N \/ \E j \in DOMAIN stack[u] : f = stack[u][j]
  <2>1. CASE u = t  BY <1>2, <2>1 DEF Puts
  <2>2. CASE u # t
    <3>1. stack'[u] = stack[u]  BY <2>2 DEF Puts
    <3> QED  BY <1>2, <3>1
  <2> QED  BY <2>1, <2>2
<1>4. CASE f \in N  BY <1>1, <1>4
<1>5. CASE \E j \in DOMAIN stack[u] : f = stack[u][j]
  <2>1. f \in Coroutines  BY <1>5, ToSetIs DEF Coroutines
  <2> QED  BY <1>1, <2>1 DEF CarriedAt
<1> QED  BY <1>3, <1>4, <1>5

\* The pipeline has one frame that carries audio, so what it held is gone.
LEMMA HandOver ==
    ASSUME Inv, NEW N, Puts(Pipeline, N), stack[Pipeline] # <<>>, Frame(Pipeline).at \in AudioPlaces,
           NEW P, P \subseteq AudioPlaces, NEW X, \A f \in N : f.at \in P => ToSet(Carried(f)) \subseteq X
    PROVE  CarriedAt(P)' \subseteq X
<1> SUFFICES ASSUME NEW x \in CarriedAt(P)' PROVE x \in X
  OBVIOUS
<1>1. PICK f \in Coroutines' : f.at \in P /\ x \in ToSet(Carried(f))  BY DEF CarriedAt
<1>2. PICK u \in Tasks : \E i \in DOMAIN stack'[u] : f = stack'[u][i]  BY <1>1, ToSetIs DEF Coroutines
<1>3. f.at \in AudioPlaces  BY <1>1
<1>4. f \in N
  <2>1. CASE u = Pipeline
    <3>1. f \in N \/ \E j \in DOMAIN stack[u] : j > 1 /\ f = stack[u][j]  BY <1>2, <2>1 DEF Puts
    <3>2. ASSUME NEW j \in DOMAIN stack[u], j > 1, f = stack[u][j] PROVE FALSE
      <4>1. Frame(u) = stack[u][1] /\ 1 \in DOMAIN stack[u]  BY <2>1, StackTyped, PlacesApart DEF Inv
      <4>2. AtMostOne(stack[u], AudioPlaces)  BY DEF Inv, Slots, TaskInv
      <4>3. j = 1  BY <1>3, <2>1, <3>2, <4>1, <4>2 DEF AtMostOne
      <4> QED  BY <3>2, <4>3
    <3> QED  BY <3>1, <3>2
  <2>2. CASE u # Pipeline
    <3>1. stack'[u] = stack[u]  BY <2>2 DEF Puts
    <3>2. Inside(u, AudioPlaces \cup FinalPlaces)  BY <1>2, <1>3, <3>1 DEF Inside
    <3> QED  BY <2>2, <3>2 DEF Inv, Slots, TaskInv
  <2> QED  BY <2>1, <2>2
<1> QED  BY <1>1, <1>4

LEMMA PutsFilled ==
    ASSUME PartsRise, ChunksFilled, NEW t \in Tasks, NEW N, Puts(t, N), \A f \in N : Filled(f)
    PROVE  \A u \in Tasks : \A i \in DOMAIN stack'[u] : Filled(stack'[u][i])
<1> TAKE u \in Tasks
<1> TAKE i \in DOMAIN stack'[u]
<1>1. stack'[u][i] \in N \/ \E j \in DOMAIN stack[u] : stack'[u][i] = stack[u][j]
  <2>1. CASE u = t  BY <2>1 DEF Puts
  <2>2. CASE u # t
    <3>1. stack'[u] = stack[u]  BY <2>2 DEF Puts
    <3> QED  BY <3>1
  <2> QED  BY <2>1, <2>2
<1> QED  BY <1>1, PartsAre

LEMMA BlankFilled == ASSUME NEW f, Blank(f) PROVE Filled(f) /\ ToSet(Carried(f)) = {}
<1>1. Carried(f) = <<>>  BY BlankCarries
<1> QED  BY <1>1, NoneSet DEF Filled, Blank

Shifts(d, s) ==
    /\ \A m \in 1..9 : m # d => (Line')[m] \subseteq Line[m]
    /\ (Line')[d] \subseteq Line[d] \cup Line[s]
    /\ \A m \in 1..9 : d < m /\ m <= s => (Line')[m] = {}

LEMMA ShiftsKeep ==
    ASSUME InOrder(Line), NEW d \in 1..9, NEW s \in 1..9, d < s, Shifts(d, s) PROVE InOrder(Line)'
<1> DEFINE L == Line
           M == Line'
<1>1. /\ InOrder(L) /\ \A n \in 1..9 : n # d => M[n] \subseteq L[n]
      /\ M[d] \subseteq L[d] \cup L[s] /\ \A n \in 1..9 : d < n /\ n <= s => M[n] = {}
  BY DEF Shifts
<1> HIDE DEF L, M
<1>2. InOrder(M)  BY <1>1, Advances
<1> QED  BY <1>2 DEF M, InOrder

LEMMA AudioStep ==
    ASSUME AudioInv, NEW t \in Tasks, NEW N, Puts(t, N), \A f \in N : Filled(f), InOrder(Line)',
           Rising(buf'.aggregate), Rising(buf'.preroll), QueueRises', PrerollInv', heard' = heard
    PROVE  AudioInv'
<1>1. NestInv'  BY DEF Puts, NestInv
<1>2. (PartsRise /\ ChunksFilled)'
  <2>1. (\A u \in Tasks : \A i \in DOMAIN stack[u] : Filled(stack[u][i]))'  BY PutsFilled DEF AudioInv
  <2>2. (PartsRise /\ ChunksFilled <=>
        /\ \A u \in Tasks : \A i \in DOMAIN stack[u] : Filled(stack[u][i])
        /\ Rising(buf.aggregate) /\ Rising(buf.preroll) /\ QueueRises)'
    BY DEF PartsRise, ChunksFilled, Filled, QueueRises
  <2> QED  BY <2>1, <2>2
<1> QED  BY <1>1, <1>2 DEF AudioInv

\* Sequences that rise.
LEMMA RisingConcat ==
    ASSUME NEW a \in Seq(Nat), NEW b \in Seq(Nat), Rising(a), Rising(b), Below(ToSet(a), ToSet(b))
    PROVE  Rising(a \o b) /\ ToSet(a \o b) = ToSet(a) \cup ToSet(b)
<1> DEFINE r == a \o b
<1>1. Len(a) \in Nat /\ Len(b) \in Nat /\ DOMAIN a = 1..Len(a) /\ DOMAIN b = 1..Len(b)  OBVIOUS
<1>2. /\ DOMAIN (a \o b) = 1..(Len(a) + Len(b))
      /\ \A i \in 1..(Len(a) + Len(b)) : (a \o b)[i] = IF i <= Len(a) THEN a[i] ELSE b[i - Len(a)]
  BY ConcatAre
<1>3. /\ DOMAIN r = 1..(Len(a) + Len(b))
      /\ \A i \in 1..(Len(a) + Len(b)) : r[i] = IF i <= Len(a) THEN a[i] ELSE b[i - Len(a)]
  BY <1>2
<1> HIDE DEF r
<1>4. \A i \in DOMAIN r : \/ i \in DOMAIN a /\ r[i] = a[i]
                          \/ i > Len(a) /\ i - Len(a) \in DOMAIN b /\ r[i] = b[i - Len(a)]
  BY <1>1, <1>3
<1>5. Rising(r)
  <2> SUFFICES ASSUME NEW i \in DOMAIN r, NEW j \in DOMAIN r, i < j PROVE r[i] < r[j]
    BY DEF Rising
  <2>1. CASE i \in DOMAIN a /\ j \in DOMAIN a /\ r[i] = a[i] /\ r[j] = a[j]  BY <2>1 DEF Rising
  <2>2. CASE i \in DOMAIN a /\ r[i] = a[i] /\ j - Len(a) \in DOMAIN b /\ r[j] = b[j - Len(a)]
    BY <2>2, ToSetIs DEF Below
  <2>3. CASE /\ i > Len(a) /\ i - Len(a) \in DOMAIN b /\ r[i] = b[i - Len(a)]
             /\ j - Len(a) \in DOMAIN b /\ r[j] = b[j - Len(a)]
    <3>1. i - Len(a) < j - Len(a)  BY <1>1, <1>3
    <3> QED  BY <2>3, <3>1 DEF Rising
  <2>4. CASE i > Len(a) /\ j \in DOMAIN a  BY <1>1, <1>3, <2>4
  <2> QED  BY <1>4, <2>1, <2>2, <2>3, <2>4
<1>6. ToSet(r) \subseteq ToSet(a) \cup ToSet(b)  BY <1>4, ToSetIs
<1>7. ASSUME NEW i \in DOMAIN a PROVE a[i] \in ToSet(r)
  <2>1. i \in DOMAIN r /\ r[i] = a[i]  BY <1>1, <1>3
  <2> QED  BY <2>1, ToSetIs
<1>8. ASSUME NEW i \in DOMAIN b PROVE b[i] \in ToSet(r)
  <2>1. Len(a) + i \in DOMAIN r /\ ~(Len(a) + i <= Len(a)) /\ (Len(a) + i) - Len(a) = i  BY <1>1, <1>3
  <2>2. r[Len(a) + i] = b[i]  BY <1>3, <2>1
  <2> QED  BY <2>1, <2>2, ToSetIs
<1>9. ToSet(r) = ToSet(a) \cup ToSet(b)  BY <1>6, <1>7, <1>8, ToSetIs
<1> QED  BY <1>5, <1>9 DEF r

LEMMA RisingEnd ==
    ASSUME NEW s \in Seq(Nat), Rising(s), NEW k \in Nat
    PROVE  /\ Rising(SubSeq(s, k + 1, Len(s))) /\ ToSet(SubSeq(s, k + 1, Len(s))) \subseteq ToSet(s)
<1> DEFINE r == SubSeq(s, k + 1, Len(s))
<1>1. Len(s) \in Nat /\ DOMAIN s = 1..Len(s)  OBVIOUS
<1>2. \A i \in DOMAIN r : i \in Nat /\ i >= 1 /\ k + i \in DOMAIN s /\ r[i] = s[k + i]
  <2>1. CASE k + 1 <= Len(s)
    <3>1. DOMAIN r = 1..(Len(s) - k) /\ \A i \in 1..(Len(s) - k) : r[i] = s[(k + 1) + i - 1]  BY <1>1, <2>1
    <3>2. \A i \in 1..(Len(s) - k) : (k + 1) + i - 1 = k + i /\ k + i \in 1..Len(s)  BY <1>1, <2>1
    <3> QED  BY <1>1, <3>1, <3>2
  <2>2. CASE ~(k + 1 <= Len(s))
    <3>1. r = <<>>  BY <1>1, <2>2
    <3>2. DOMAIN r = {}
      <4> HIDE DEF r
      <4> QED  BY <3>1
    <3> QED  BY <3>2
  <2> QED  BY <2>1, <2>2
<1> HIDE DEF r
<1>3. Rising(r)
  <2> SUFFICES ASSUME NEW i \in DOMAIN r, NEW j \in DOMAIN r, i < j PROVE r[i] < r[j]
    BY DEF Rising
  <2>1. k + i \in DOMAIN s /\ k + j \in DOMAIN s /\ k + i < k + j /\ r[i] = s[k + i] /\ r[j] = s[k + j]
    BY <1>2
  <2> QED  BY <2>1 DEF Rising
<1>4. ToSet(r) \subseteq ToSet(s)  BY <1>2, ToSetIs
<1> QED  BY <1>3, <1>4 DEF r

LEMMA OneRises == ASSUME NEW x \in Nat PROVE <<x>> \in Seq(Nat) /\ Rising(<<x>>) /\ ToSet(<<x>>) = {x}
<1> DEFINE s == <<x>>
<1>1. s \in Seq(Nat) /\ DOMAIN s = {1} /\ s[1] = x  OBVIOUS
<1> HIDE DEF s
<1>2. Rising(s)  BY <1>1 DEF Rising
<1>3. ToSet(s) = {x}  BY <1>1, ToSetIs
<1> QED  BY <1>1, <1>2, <1>3 DEF s

-----------------------------------------------------------------------------
(* The pipeline's steps: audio goes from its hands to the buffers, and from *)
(* the buffers to its hands.                                               *)

Brings(N, P) == UNION {ToSet(Carried(f)) : f \in {f \in N : f.at \in P}}

\* All there is to say of the line when the pipeline task puts down what it had.
LEMMA PipelineLine ==
    ASSUME Inv, NEW N, Puts(Pipeline, N), stack[Pipeline] # <<>>, Frame(Pipeline).at \in AudioPlaces,
           \A f \in N : f.at # "send", heard' = heard, budget' = budget
    PROVE  /\ (Line')[1] = Line[1] /\ (Line')[2] \subseteq Line[2]
           /\ (Line')[4] \subseteq Brings(N, {"enqueue", "sleep"})
           /\ (Line')[6] \subseteq Brings(N, {"queue"})
           /\ (Line')[8] \subseteq Brings(N, {"audio"}) /\ (Line')[9] = Line[9]
<1>1. (Line')[1] = Line[1] /\ (Line')[9] = Line[9]  BY LineOf, LineNext
<1>2. (Line')[2] \subseteq Line[2]
  <2>1. CarriedAt({"send"})' \subseteq CarriedAt({"send"}) \cup {}  BY PlacesApart, CarriesNew
  <2> QED  BY <2>1, LineOf, LineNext
<1>3. ASSUME NEW P, P \subseteq AudioPlaces PROVE CarriedAt(P)' \subseteq Brings(N, P)
  <2>1. \A f \in N : f.at \in P => ToSet(Carried(f)) \subseteq Brings(N, P)  BY DEF Brings
  <2> QED  BY <1>3, <2>1, HandOver
<1>4. CarriedAt({"enqueue", "sleep"})' \subseteq Brings(N, {"enqueue", "sleep"})  BY <1>3 DEF AudioPlaces
<1>5. CarriedAt({"queue"})' \subseteq Brings(N, {"queue"})  BY <1>3 DEF AudioPlaces
<1>6. CarriedAt({"audio"})' \subseteq Brings(N, {"audio"})  BY <1>3 DEF AudioPlaces
<1> QED  BY <1>1, <1>2, <1>4, <1>5, <1>6, LineNext

LEMMA CarriedIs ==
    ASSUME NEW f
    PROVE  /\ f.at = "audio" => Carried(f) = <<f.frame>>
           /\ f.at = "queue" => Carried(f) = f.frames
           /\ f.at \in {"enqueue", "sleep"} => Carried(f) = f.chunk.frames
<1> DEFINE y == <<f.frame>>
<1>1. Carried(f) = CASE f.at = "audio" -> y
                     [] f.at = "queue" -> f.frames
                     [] f.at \in {"enqueue", "sleep"} -> f.chunk.frames
                     [] Sends(f) -> f.msg.frames
                     [] OTHER -> <<>>
  BY DEF Carried
<1> HIDE DEF y
<1>2. f.at = "audio" => Carried(f) = y  BY <1>1 DEF Sends
<1>3. f.at = "queue" => Carried(f) = f.frames  BY <1>1 DEF Sends
<1>4. f.at \in {"enqueue", "sleep"} => Carried(f) = f.chunk.frames  BY <1>1 DEF Sends
<1> QED  BY <1>2, <1>3, <1>4 DEF y

LEMMA BringsNone == ASSUME NEW P PROVE Brings({}, P) = {}
BY DEF Brings

LEMMA BringsOne ==
    ASSUME NEW f, NEW P
    PROVE  Brings({f}, P) = IF f.at \in P THEN ToSet(Carried(f)) ELSE {}
BY DEF Brings

\* What the pipeline has in hand stands in the line.
LEMMA PipelineHas ==
    ASSUME Inv, NEW l, Wakes(Pipeline, l) \/ Runs(Pipeline, l), NEW P, l \in P
    PROVE  ToSet(Carried(Frame(Pipeline))) \subseteq CarriedAt(P)
<1>1. /\ Pipeline \in Tasks /\ Frame(Pipeline) = stack[Pipeline][1] /\ 1 \in DOMAIN stack[Pipeline]
      /\ Frame(Pipeline).at = l
  BY PipelineFrame
<1> QED  BY <1>1, InHands

LEMMA PrerollSame ==
    ASSUME Inv, AudioInv, NEW l, l # "begun", Wakes(Pipeline, l) \/ Runs(Pipeline, l),
           svc' = svc, buf'.preroll = buf.preroll
    PROVE  PrerollInv'
<1>1. svc.active => buf.preroll = <<>>  BY NotBegun
<1> QED  BY <1>1 DEF PrerollInv

LEMMA QueueSame == ASSUME AudioInv, buf'.queue = buf.queue PROVE QueueRises' /\ (Line')[3] = Line[3]
<1>1. QueueRises  BY PartsAre DEF AudioInv
<1>2. QueueRises'  BY <1>1 DEF QueueRises
<1>3. Queued' = Queued  BY DEF Queued
<1> QED  BY <1>2, <1>3, LineOf, LineNext

LEMMA HandlesAudioAudio == ASSUME Inv, AudioInv, HandlesAudio PROVE AudioInv'
<1> DEFINE t == Pipeline
           x == Frame(t).frame
           f == [at |-> "queue", frames |-> <<x>>]
           p == Append(buf.preroll, x)
           k == Less(Len(p), svc.config.preRoll)
<1>1. Runs(t, "audio") /\ svc' = svc /\ heard' = heard /\ budget' = budget
  BY DEF HandlesAudio, outsideVars, historyVars
<1>2. /\ t \in Tasks /\ stack[t] # <<>> /\ Frame(t).at = "audio" /\ Frame(t) \in Frames
  BY <1>1, PipelineFrame
<1>3. buf \in Buffers /\ svc.config.preRoll \in Nat  BY DEF Inv, Slots, TypeInv, Service, Config
<1>4. x \in Nat /\ Carried(Frame(t)) = <<x>>  BY <1>2, AudioFields, CarriedIs
<1>5. x \in Line[8]
  <2>1. ToSet(Carried(Frame(t))) \subseteq CarriedAt({"audio"})  BY <1>1, PipelineHas
  <2> QED  BY <1>4, <2>1, OneRises, LineOf
<1>6. Frame(t).at \in AudioPlaces  BY <1>2 DEF AudioPlaces
<1>r. Rising(buf.aggregate) /\ Rising(buf.preroll)  BY PartsAre DEF AudioInv
<1>7. CASE svc.active
  <2>1. Goto(t, f) /\ buf' = buf  BY <1>7 DEF HandlesAudio
  <2>2. f.at = "queue" /\ Carried(f) = <<x>>
    <3>1. f.at = "queue" /\ f.frames = <<x>>  OBVIOUS
    <3> HIDE DEF f, x
    <3> QED  BY <3>1, CarriedIs
  <2>3. Filled(f)  BY <1>4, <2>2, OneRises DEF Filled
  <2> HIDE DEF f
  <2>4. Fits("queue", "audio")  BY CallsFit DEF CallPlaces
  <2>5. Puts(t, {f})  BY <1>1, <1>2, <2>1, <2>2, <2>4, PutsGoto DEF AudioInv, Bent
  <2>6. /\ Brings({f}, {"enqueue", "sleep"}) = {} /\ Brings({f}, {"audio"}) = {}
        /\ Brings({f}, {"queue"}) = {x}
    BY <1>4, <2>2, BringsOne, OneRises
  <2>7. /\ (Line')[1] = Line[1] /\ (Line')[2] \subseteq Line[2] /\ (Line')[4] \subseteq {}
        /\ (Line')[6] \subseteq {x} /\ (Line')[8] \subseteq {} /\ (Line')[9] = Line[9]
    <3>1. \A g \in {f} : g.at # "send"  BY <2>2
    <3> QED  BY <1>1, <1>2, <1>6, <2>5, <2>6, <3>1, PipelineLine
  <2>8. QueueRises' /\ (Line')[3] = Line[3]  BY <2>1, QueueSame
  <2>9. (Line')[5] = Line[5] /\ (Line')[7] = {}
    <3>1. buf.preroll = <<>>  BY <1>1, <1>7, NotBegun
    <3> QED  BY <2>1, <3>1, LineOf, LineNext, NoneSet
  <2>10. Shifts(6, 8)
    <3>1. ASSUME NEW m \in 1..9, m # 6 PROVE (Line')[m] \subseteq Line[m]
      <4>1. m \in {1, 2, 3, 4, 5, 7, 8, 9}  BY <3>1
      <4> QED  BY <2>7, <2>8, <2>9, <4>1
    <3>2. ASSUME NEW m \in 1..9, 6 < m, m <= 8 PROVE (Line')[m] = {}
      <4>1. m \in {7, 8}  BY <3>2
      <4> QED  BY <2>7, <2>9, <4>1
    <3> QED  BY <1>5, <2>7, <3>1, <3>2 DEF Shifts
  <2>11. InOrder(Line)'  BY <2>10, ShiftsKeep DEF AudioInv
  <2>12. PrerollInv'  BY <1>1, <2>1, PrerollSame
  <2> QED  BY <1>1, <1>2, <1>r, <2>1, <2>3, <2>5, <2>8, <2>11, <2>12, AudioStep
<1>8. CASE ~svc.active
  <2>1. Return(t) /\ buf' = [buf EXCEPT !.preroll = SubSeq(p, k + 1, Len(p))]  BY <1>8 DEF HandlesAudio
  <2>2. /\ buf'.queue = buf.queue /\ buf'.aggregate = buf.aggregate
        /\ buf'.preroll = SubSeq(p, k + 1, Len(p)) /\ buf.preroll \in Seq(Nat)
    BY <1>3, <2>1 DEF Buffers
  <2>3. /\ p \in Seq(Nat) /\ Rising(p) /\ ToSet(p) = ToSet(buf.preroll) \cup {x}
    <3> HIDE DEF x
    <3>1. p = buf.preroll \o <<x>>  BY <1>4, <2>2
    <3>2. Below(Line[7], Line[8])  BY DEF AudioInv, InOrder
    <3>3. Below(ToSet(buf.preroll), ToSet(<<x>>))  BY <1>4, <1>5, <3>2, OneRises, LineOf DEF Below
    <3>4. Rising(buf.preroll \o <<x>>) /\ ToSet(buf.preroll \o <<x>>) = ToSet(buf.preroll) \cup {x}
      <4> DEFINE y == <<x>>
      <4>1. y \in Seq(Nat) /\ Rising(y) /\ ToSet(y) = {x} /\ Below(ToSet(buf.preroll), ToSet(y))
        BY <1>4, <3>3, OneRises
      <4> HIDE DEF y
      <4>2. Rising(buf.preroll \o y) /\ ToSet(buf.preroll \o y) = ToSet(buf.preroll) \cup ToSet(y)
        BY <1>r, <2>2, <4>1, RisingConcat
      <4> QED  BY <4>1, <4>2 DEF y
    <3>5. p \in Seq(Nat)  BY <1>4, <2>2
    <3> HIDE DEF p
    <3> QED  BY <3>1, <3>4, <3>5
  <2>4. k \in Nat
    <3>1. Len(p) \in Nat  BY <2>3
    <3> HIDE DEF p
    <3> QED  BY <1>3, <3>1 DEF Less
  <2> HIDE DEF p, k
  <2>5. Rising(buf'.preroll) /\ ToSet(buf'.preroll) \subseteq ToSet(p)  BY <2>2, <2>3, <2>4, RisingEnd
  <2>6. Puts(t, {})  BY <1>1, <1>2, <2>1, PutsReturn DEF AudioInv
  <2>7. /\ (Line')[1] = Line[1] /\ (Line')[2] \subseteq Line[2] /\ (Line')[4] \subseteq {}
        /\ (Line')[6] \subseteq {} /\ (Line')[8] \subseteq {} /\ (Line')[9] = Line[9]
    BY <1>1, <1>2, <1>6, <2>6, BringsNone, PipelineLine
  <2>8. QueueRises' /\ (Line')[3] = Line[3]  BY <2>2, QueueSame
  <2>9. (Line')[5] = Line[5] /\ (Line')[7] \subseteq Line[7] \cup Line[8]
    BY <1>5, <2>2, <2>3, <2>5, LineOf, LineNext
  <2>10. Shifts(7, 8)
    <3>1. ASSUME NEW m \in 1..9, m # 7 PROVE (Line')[m] \subseteq Line[m]
      <4>1. m \in {1, 2, 3, 4, 5, 6, 8, 9}  BY <3>1
      <4> QED  BY <2>7, <2>8, <2>9, <4>1
    <3>2. ASSUME NEW m \in 1..9, 7 < m, m <= 8 PROVE (Line')[m] = {}
      <4>1. m = 8  BY <3>2
      <4> QED  BY <2>7, <4>1
    <3> QED  BY <2>9, <3>1, <3>2 DEF Shifts
  <2>11. InOrder(Line)'  BY <2>10, ShiftsKeep DEF AudioInv
  <2>12. PrerollInv'  BY <1>1, <1>8 DEF PrerollInv
  <2> QED  BY <1>1, <1>2, <1>r, <2>2, <2>5, <2>6, <2>8, <2>11, <2>12, AudioStep
<1> QED  BY <1>7, <1>8

\* The queue stays and one place of the line gains what another had.
LEMMA LineShifts ==
    ASSUME NEW d \in 1..9, NEW s \in 1..9, \A m \in 1..9 : m # d => (Line')[m] \subseteq Line[m],
           (Line')[d] \subseteq Line[d] \cup Line[s], \A m \in 1..9 : d < m /\ m <= s => (Line')[m] = {},
           d < s, InOrder(Line)
    PROVE  InOrder(Line)'
<1>1. Shifts(d, s)  BY DEF Shifts
<1> QED  BY <1>1, ShiftsKeep

LEMMA QueuesAudioAudio == ASSUME Inv, AudioInv, QueuesAudio PROVE AudioInv'
<1> DEFINE t == Pipeline
           a == Frame(t).frames
<1>1. /\ Runs(t, "queue") /\ svc' = svc /\ heard' = heard /\ budget' = budget
      /\ buf' = [buf EXCEPT !.aggregate = buf.aggregate \o a]
      /\ Goto(t, At("flush")) \/ Return(t)
  BY DEF QueuesAudio, outsideVars, historyVars
<1>2. /\ t \in Tasks /\ stack[t] # <<>> /\ Frame(t).at = "queue" /\ Frame(t) \in Frames
      /\ Frame(t) = stack[t][1] /\ 1 \in DOMAIN stack[t]
  BY <1>1, PipelineFrame
<1>3. buf \in Buffers  BY DEF Inv, Slots, TypeInv
<1>4. a \in Seq(Nat) /\ Carried(Frame(t)) = a  BY <1>2, AudioFields, CarriedIs
<1>5. ToSet(a) \subseteq Line[6]
  <2>1. ToSet(Carried(Frame(t))) \subseteq CarriedAt({"queue"})  BY <1>1, PipelineHas
  <2> QED  BY <1>4, <2>1, LineOf
<1>6. Frame(t).at \in AudioPlaces  BY <1>2 DEF AudioPlaces
<1>7. Rising(buf.aggregate) /\ Rising(buf.preroll) /\ Rising(a)
  <2>1. Filled(Frame(t))  BY <1>2, PartsAre DEF AudioInv
  <2> QED  BY <1>4, <2>1, PartsAre DEF AudioInv, Filled
<1>8. /\ buf'.queue = buf.queue /\ buf'.preroll = buf.preroll /\ buf'.aggregate = buf.aggregate \o a
      /\ buf.aggregate \in Seq(Nat)
  BY <1>1, <1>3 DEF Buffers
<1> HIDE DEF a
<1>9. Rising(buf'.aggregate) /\ ToSet(buf'.aggregate) = ToSet(buf.aggregate) \cup ToSet(a)
  <2>1. Below(Line[5], Line[6])  BY DEF AudioInv, InOrder
  <2>2. Below(ToSet(buf.aggregate), ToSet(a))  BY <1>5, <2>1, LineOf DEF Below
  <2> QED  BY <1>4, <1>7, <1>8, <2>2, RisingConcat
<1>10. PICK N : /\ Puts(t, N) /\ \A f \in N : f.at = "flush"
  <2>1. CASE Return(t)
    <3>1. Puts(t, {})  BY <1>1, <1>2, <2>1, PutsReturn DEF AudioInv
    <3> QED  BY <3>1
  <2>2. CASE Goto(t, At("flush"))
    <3> DEFINE f == At("flush")
    <3>1. f.at = "flush" /\ Goto(t, f)  BY <2>2, AtIs
    <3> HIDE DEF f
    <3>2. Fits(f.at, "queue")  BY <3>1, CallsFit DEF CallPlaces
    <3>3. Puts(t, {f})  BY <1>1, <1>2, <3>1, <3>2, PutsGoto DEF AudioInv, Bent
    <3> QED  BY <3>1, <3>3
  <2> QED  BY <1>1, <2>1, <2>2
<1>11. \A f \in N : Blank(f) /\ Filled(f) /\ f.at \notin InHand /\ f.at # "send"
  <2> TAKE f \in N
  <2>1. Blank(f)  BY <1>10, BlankFrame DEF InHand
  <2> QED  BY <1>10, <2>1, BlankFilled DEF InHand
<1>12. /\ (Line')[1] = Line[1] /\ (Line')[2] \subseteq Line[2] /\ (Line')[4] \subseteq {}
       /\ (Line')[6] \subseteq {} /\ (Line')[8] \subseteq {} /\ (Line')[9] = Line[9]
  <2>1. /\ Brings(N, {"enqueue", "sleep"}) = {} /\ Brings(N, {"queue"}) = {} /\ Brings(N, {"audio"}) = {}
    BY <1>11 DEF Brings, InHand
  <2> QED  BY <1>1, <1>2, <1>6, <1>10, <1>11, <2>1, PipelineLine
<1>13. QueueRises' /\ (Line')[3] = Line[3]  BY <1>8, QueueSame
<1>14. (Line')[5] \subseteq Line[5] \cup Line[6] /\ (Line')[7] = Line[7]
  BY <1>5, <1>8, <1>9, LineOf, LineNext
<1>15. InOrder(Line)'
  <2>1. ASSUME NEW m \in 1..9, m # 5 PROVE (Line')[m] \subseteq Line[m]
    <3>1. m \in {1, 2, 3, 4, 6, 7, 8, 9}  BY <2>1
    <3> QED  BY <1>12, <1>13, <1>14, <3>1
  <2>2. ASSUME NEW m \in 1..9, 5 < m, m <= 6 PROVE (Line')[m] = {}
    <3>1. m = 6  BY <2>2
    <3> QED  BY <1>12, <3>1
  <2> QED  BY <1>14, <2>1, <2>2, LineShifts DEF AudioInv
<1>16. PrerollInv'  BY <1>1, <1>8, PrerollSame
<1> QED  BY <1>1, <1>2, <1>7, <1>8, <1>9, <1>10, <1>11, <1>13, <1>15, <1>16, AudioStep

LEMMA FlushesAudio == ASSUME Inv, AudioInv, Flushes PROVE AudioInv'
<1> DEFINE t == Pipeline
           f == [at |-> "enqueue", chunk |-> [frames |-> buf.aggregate, gen |-> svc.gen]]
<1>1. Runs(t, "flush") /\ svc' = svc /\ heard' = heard /\ budget' = budget
  BY DEF Flushes, outsideVars, historyVars
<1>2. t \in Tasks /\ stack[t] # <<>> /\ Frame(t).at = "flush"  BY <1>1, PipelineFrame
<1>3. buf \in Buffers  BY DEF Inv, Slots, TypeInv
<1>4. CASE buf.aggregate = <<>>
  <2>1. Return(t) /\ buf' = buf  BY <1>4 DEF Flushes
  <2>2. Calmly  BY <1>1, <2>1, CalmSame
  <2> QED  BY <1>1, <1>2, <2>1, <2>2, StepReturn
<1>5. CASE buf.aggregate # <<>>
  <2>1. Goto(t, f) /\ buf' = [buf EXCEPT !.aggregate = <<>>]  BY <1>5 DEF Flushes
  <2>2. buf'.queue = buf.queue /\ buf'.preroll = buf.preroll /\ buf'.aggregate = <<>>
    BY <1>3, <2>1 DEF Buffers
  <2>3. f.at = "enqueue" /\ Carried(f) = buf.aggregate
    <3>1. f.at = "enqueue" /\ f.chunk.frames = buf.aggregate  OBVIOUS
    <3> HIDE DEF f
    <3> QED  BY <3>1, CarriedIs
  <2> HIDE DEF f
  <2>4. Rising(buf.aggregate) /\ Rising(buf.preroll)  BY PartsAre DEF AudioInv
  <2>5. Filled(f)  BY <1>5, <2>3, <2>4 DEF Filled
  <2>6. Puts(t, {f})
    <3>1. Fits("enqueue", "flush")  BY GroupsFit DEF FlushPlaces
    <3> QED  BY <1>1, <1>2, <2>1, <2>3, <3>1, PutsGoto DEF AudioInv, Bent
  <2>7. /\ (Line')[1] = Line[1] /\ (Line')[2] \subseteq Line[2] /\ (Line')[4] \subseteq Line[5]
        /\ (Line')[6] \subseteq {} /\ (Line')[8] \subseteq {} /\ (Line')[9] = Line[9]
    <3>1. /\ Brings({f}, {"queue"}) = {} /\ Brings({f}, {"audio"}) = {}
          /\ Brings({f}, {"enqueue", "sleep"}) = Line[5]
      BY <2>3, BringsOne, LineOf
    <3>2. Frame(t).at \in AudioPlaces /\ \A g \in {f} : g.at # "send"  BY <1>2, <2>3 DEF AudioPlaces
    <3> QED  BY <1>1, <1>2, <2>6, <3>1, <3>2, PipelineLine
  <2>8. QueueRises' /\ (Line')[3] = Line[3]  BY <2>2, QueueSame
  <2>9. (Line')[5] = {} /\ (Line')[7] = Line[7]  BY <2>2, LineOf, LineNext, NoneSet
  <2>10. InOrder(Line)'
    <3>1. ASSUME NEW m \in 1..9, m # 4 PROVE (Line')[m] \subseteq Line[m]
      <4>1. m \in {1, 2, 3, 5, 6, 7, 8, 9}  BY <3>1
      <4> QED  BY <2>7, <2>8, <2>9, <4>1
    <3>2. ASSUME NEW m \in 1..9, 4 < m, m <= 5 PROVE (Line')[m] = {}
      <4>1. m = 5  BY <3>2
      <4> QED  BY <2>9, <4>1
    <3> QED  BY <2>7, <3>1, <3>2, LineShifts DEF AudioInv
  <2>11. PrerollInv'  BY <1>1, <2>2, PrerollSame
  <2>12. Rising(buf'.aggregate) /\ Rising(buf'.preroll)  BY <2>2, <2>4, NoneSet
  <2> QED  BY <1>1, <1>2, <2>5, <2>6, <2>8, <2>10, <2>11, <2>12, AudioStep
<1> QED  BY <1>4, <1>5

\* Chunks in the order of their audio.
Follow(q) ==
    /\ \A i \in DOMAIN q : Rising(q[i].frames) /\ q[i].frames # <<>>
    /\ \A i, j \in DOMAIN q : i < j => Below(ToSet(q[i].frames), ToSet(q[j].frames))
AllOf(q) == UNION {ToSet(q[i].frames) : i \in DOMAIN q}

LEMMA QueueFollows ==
    /\ QueueRises <=> Follow(buf.queue)
    /\ QueueRises' <=> Follow(buf'.queue)
    /\ Queued = AllOf(buf.queue) /\ Queued' = AllOf(buf'.queue)
BY DEF QueueRises, Follow, Queued, AllOf

LEMMA FollowEnd ==
    ASSUME NEW q \in Seq(Chunk), Follow(q), NEW k \in Nat
    PROVE  LET d == SubSeq(q, k + 1, Len(q))
           IN  d \in Seq(Chunk) /\ Follow(d) /\ AllOf(d) \subseteq AllOf(q)
<1> DEFINE d == SubSeq(q, k + 1, Len(q))
<1>1. Len(q) \in Nat /\ DOMAIN q = 1..Len(q)  OBVIOUS
<1>2. \A i \in DOMAIN d : i \in Nat /\ i >= 1 /\ k + i \in DOMAIN q /\ d[i] = q[k + i]
  <2>1. CASE k + 1 <= Len(q)
    <3>1. DOMAIN d = 1..(Len(q) - k) /\ \A i \in 1..(Len(q) - k) : d[i] = q[(k + 1) + i - 1]  BY <1>1, <2>1
    <3>2. \A i \in 1..(Len(q) - k) : (k + 1) + i - 1 = k + i /\ k + i \in 1..Len(q)  BY <1>1, <2>1
    <3> QED  BY <1>1, <3>1, <3>2
  <2>2. CASE ~(k + 1 <= Len(q))
    <3>1. d = <<>>  BY <1>1, <2>2
    <3>2. DOMAIN d = {}
      <4> HIDE DEF d
      <4> QED  BY <3>1
    <3> QED  BY <3>2
  <2> QED  BY <2>1, <2>2
<1>3. d \in Seq(Chunk)
  <2>1. \A i \in (k + 1)..Len(q) : q[i] \in Chunk
    <3> TAKE i \in (k + 1)..Len(q)
    <3>1. i \in DOMAIN q  BY <1>1
    <3> QED  BY <3>1
  <2> QED  BY <1>1, <2>1, SubSeqProperties
<1> HIDE DEF d
<1>4. Follow(d)
  <2>1. ASSUME NEW i \in DOMAIN d, NEW j \in DOMAIN d, i < j
        PROVE  Below(ToSet(d[i].frames), ToSet(d[j].frames))
    <3>1. k + i \in DOMAIN q /\ k + j \in DOMAIN q /\ k + i < k + j /\ d[i] = q[k + i] /\ d[j] = q[k + j]
      BY <1>2, <2>1
    <3> QED  BY <3>1 DEF Follow
  <2> QED  BY <1>2, <2>1 DEF Follow
<1>5. AllOf(d) \subseteq AllOf(q)
  <2> SUFFICES ASSUME NEW i \in DOMAIN d PROVE ToSet(d[i].frames) \subseteq AllOf(q)
    BY DEF AllOf
  <2>1. k + i \in DOMAIN q /\ d[i] = q[k + i]  BY <1>2
  <2> QED  BY <2>1 DEF AllOf
<1> QED  BY <1>3, <1>4, <1>5 DEF d

LEMMA FollowPut ==
    ASSUME NEW q \in Seq(Chunk), Follow(q), NEW c \in Chunk, Rising(c.frames), c.frames # <<>>,
           Below(AllOf(q), ToSet(c.frames))
    PROVE  Follow(Append(q, c)) /\ AllOf(Append(q, c)) \subseteq AllOf(q) \cup ToSet(c.frames)
<1> DEFINE r == Append(q, c)
<1>1. Len(q) \in Nat /\ DOMAIN q = 1..Len(q)  OBVIOUS
<1>2. DOMAIN r = 1..(Len(q) + 1) /\ \A i \in DOMAIN r : r[i] = IF i \in DOMAIN q THEN q[i] ELSE c
  BY <1>1, AppendProperties
<1> HIDE DEF r
<1>3. \A i \in DOMAIN r : \/ i \in DOMAIN q /\ r[i] = q[i]
                          \/ i = Len(q) + 1 /\ r[i] = c
  BY <1>1, <1>2
<1>4. Follow(r)
  <2>1. ASSUME NEW i \in DOMAIN r, NEW j \in DOMAIN r, i < j
        PROVE  Below(ToSet(r[i].frames), ToSet(r[j].frames))
    <3>1. i \in DOMAIN q /\ r[i] = q[i]  BY <1>1, <1>2, <1>3, <2>1
    <3>2. CASE j \in DOMAIN q /\ r[j] = q[j]  BY <2>1, <3>1, <3>2 DEF Follow
    <3>3. CASE r[j] = c
      <4>1. ToSet(q[i].frames) \subseteq AllOf(q)  BY <3>1 DEF AllOf
      <4> QED  BY <3>1, <3>3, <4>1 DEF Below
    <3> QED  BY <1>3, <3>2, <3>3
  <2> QED  BY <1>3, <2>1 DEF Follow
<1>5. AllOf(r) \subseteq AllOf(q) \cup ToSet(c.frames)
  <2> SUFFICES ASSUME NEW i \in DOMAIN r PROVE ToSet(r[i].frames) \subseteq AllOf(q) \cup ToSet(c.frames)
    BY DEF AllOf
  <2> QED  BY <1>3 DEF AllOf
<1> QED  BY <1>4, <1>5 DEF r

\* The chunk is put behind some of the queue, or not at all.
LEMMA DroppedIs ==
    ASSUME Inv, NEW c
    PROVE  /\ Dropped(buf, c).aggregate = buf.aggregate /\ Dropped(buf, c).preroll = buf.preroll
           /\ \E k \in Nat : Dropped(buf, c).queue = SubSeq(buf.queue, k + 1, Len(buf.queue))
<1> DEFINE q == buf.queue
           After(n) == [buf EXCEPT !.queue = SubSeq(@, n + 1, Len(@)), !.unfinished = @ - n,
                                   !.queued = Less(@, Duration(SubSeq(buf.queue, 1, n)))]
           fits == {n \in 0..Len(q) : Admits(After(n), c)}
           m == IF fits = {} THEN Len(q) ELSE CHOOSE n \in fits : \A k \in fits : n <= k
<1>1. q \in Seq(Chunk) /\ buf \in Buffers /\ Len(q) \in Nat
  BY DEF Inv, Slots, TypeInv, Buffers
<1>2. Dropped(buf, c) = After(m)  BY DEF Dropped
<1>3. m \in Nat
  <2> HIDE DEF After
  <2>1. fits \subseteq Nat  BY <1>1
  <2> HIDE DEF fits
  <2>2. fits # {} => \E n \in fits : \A k \in fits : n <= k  BY <2>1, LeastNat
  <2>3. fits # {} => m \in fits  BY <2>2
  <2>4. fits = {} => m = Len(q)  OBVIOUS
  <2> HIDE DEF m
  <2> QED  BY <1>1, <2>1, <2>3, <2>4
<1> HIDE DEF m, fits
<1>4. /\ After(m).queue = SubSeq(q, m + 1, Len(q)) /\ After(m).aggregate = buf.aggregate
      /\ After(m).preroll = buf.preroll
  BY <1>1 DEF Buffers
<1> QED  BY <1>2, <1>3, <1>4

LEMMA EnqueuePuts ==
    ASSUME Inv, NEW c,
           \/ buf' = Put(buf, c)
           \/ buf' = LET kept == Dropped(buf, c) IN IF Admits(kept, c) THEN Put(kept, c) ELSE kept
    PROVE  /\ buf'.aggregate = buf.aggregate /\ buf'.preroll = buf.preroll
           /\ \E k \in Nat : LET d == SubSeq(buf.queue, k + 1, Len(buf.queue))
                             IN  buf'.queue \in {d, Append(d, c)}
<1>1. ASSUME NEW b \in Buffers
      PROVE  /\ Put(b, c).queue = Append(b.queue, c) /\ Put(b, c).aggregate = b.aggregate
             /\ Put(b, c).preroll = b.preroll
  BY DEF Put, Buffers
<1>2. buf \in Buffers /\ buf.queue \in Seq(Chunk)  BY DEF Inv, Slots, TypeInv, Buffers
<1>3. CASE buf' = Put(buf, c)
  <2>1. SubSeq(buf.queue, 0 + 1, Len(buf.queue)) = buf.queue  BY <1>2
  <2> QED  BY <1>1, <1>2, <1>3, <2>1
<1>4. CASE buf' = LET kept == Dropped(buf, c) IN IF Admits(kept, c) THEN Put(kept, c) ELSE kept
  <2> DEFINE b == Dropped(buf, c)
  <2>1. b \in Buffers  BY DroppedSound DEF Sound
  <2>2. PICK k \in Nat : b.queue = SubSeq(buf.queue, k + 1, Len(buf.queue))  BY DroppedIs
  <2>3. b.aggregate = buf.aggregate /\ b.preroll = buf.preroll  BY DroppedIs
  <2>4. buf' \in {b, Put(b, c)}  BY <1>4
  <2> HIDE DEF b
  <2> QED  BY <1>1, <2>1, <2>2, <2>3, <2>4
<1> QED  BY <1>3, <1>4

LEMMA EnqueuesAudio == ASSUME Inv, AudioInv, Enqueues PROVE AudioInv'
<1> DEFINE t == Pipeline
           c == Frame(t).chunk
           f == [at |-> "sleep", chunk |-> c]
           q == buf.queue
<1>1. Runs(t, "enqueue") /\ svc' = svc /\ heard' = heard /\ budget' = budget
  BY DEF Enqueues, outsideVars, historyVars
<1>2. /\ t \in Tasks /\ stack[t] # <<>> /\ Frame(t).at = "enqueue" /\ Frame(t) \in Frames
      /\ Frame(t) = stack[t][1] /\ 1 \in DOMAIN stack[t]
  BY <1>1, PipelineFrame
<1>3. q \in Seq(Chunk)  BY DEF Inv, Slots, TypeInv, Buffers
<1>4. c \in Chunk /\ Carried(Frame(t)) = c.frames  BY <1>2, ChunkFields, CarriedIs
<1>5. ToSet(c.frames) \subseteq Line[4]
  <2>1. ToSet(Carried(Frame(t))) \subseteq CarriedAt({"enqueue", "sleep"})  BY <1>1, PipelineHas
  <2> QED  BY <1>4, <2>1, LineOf
<1>6. Rising(c.frames) /\ c.frames # <<>>
  <2>1. Filled(Frame(t))  BY <1>2, PartsAre DEF AudioInv
  <2> QED  BY <1>2, <1>4, <2>1 DEF Filled, InHand
<1>7. Frame(t).at \in AudioPlaces  BY <1>2 DEF AudioPlaces
<1>8. Rising(buf.aggregate) /\ Rising(buf.preroll)  BY PartsAre DEF AudioInv
<1>9. ASSUME Return(t), buf'.aggregate = buf.aggregate, buf'.preroll = buf.preroll, NEW k \in Nat,
             buf'.queue \in {SubSeq(q, k + 1, Len(q)), Append(SubSeq(q, k + 1, Len(q)), c)}
      PROVE  AudioInv'
  <2> DEFINE d == SubSeq(q, k + 1, Len(q))
  <2>1. d \in Seq(Chunk) /\ Follow(d) /\ AllOf(d) \subseteq AllOf(q)
    BY <1>3, QueueFollows, PartsAre, FollowEnd DEF AudioInv
  <2>2. buf'.queue \in {d, Append(d, c)}  BY <1>9
  <2> HIDE DEF d
  <2>3. Below(AllOf(d), ToSet(c.frames))
    <3>1. Below(Line[3], Line[4])  BY DEF AudioInv, InOrder
    <3>2. Line[3] = AllOf(q)  BY LineOf, QueueFollows
    <3> HIDE DEF c, q
    <3> QED  BY <1>5, <2>1, <3>1, <3>2 DEF Below
  <2>4. Follow(buf'.queue) /\ AllOf(buf'.queue) \subseteq AllOf(q) \cup ToSet(c.frames)
    <3>1. Follow(Append(d, c)) /\ AllOf(Append(d, c)) \subseteq AllOf(d) \cup ToSet(c.frames)
      <4> HIDE DEF c
      <4> QED  BY <1>4, <1>6, <2>1, <2>3, FollowPut
    <3> QED  BY <2>1, <2>2, <3>1
  <2>5. QueueRises' /\ (Line')[3] \subseteq Line[3] \cup Line[4]
    BY <1>5, <2>4, QueueFollows, LineOf, LineNext
  <2>6. Puts(t, {})  BY <1>1, <1>2, <1>9, PutsReturn DEF AudioInv
  <2>7. /\ (Line')[1] = Line[1] /\ (Line')[2] \subseteq Line[2] /\ (Line')[4] \subseteq {}
        /\ (Line')[6] \subseteq {} /\ (Line')[8] \subseteq {} /\ (Line')[9] = Line[9]
    BY <1>1, <1>2, <1>7, <2>6, BringsNone, PipelineLine
  <2>8. (Line')[5] = Line[5] /\ (Line')[7] = Line[7]  BY <1>9, LineOf, LineNext
  <2>9. InOrder(Line)'
    <3>1. ASSUME NEW m \in 1..9, m # 3 PROVE (Line')[m] \subseteq Line[m]
      <4>1. m \in {1, 2, 4, 5, 6, 7, 8, 9}  BY <3>1
      <4> QED  BY <2>7, <2>8, <4>1
    <3>2. ASSUME NEW m \in 1..9, 3 < m, m <= 4 PROVE (Line')[m] = {}
      <4>1. m = 4  BY <3>2
      <4> QED  BY <2>7, <4>1
    <3> QED  BY <2>5, <3>1, <3>2, LineShifts DEF AudioInv
  <2>10. PrerollInv'  BY <1>1, <1>9, PrerollSame
  <2> QED  BY <1>1, <1>2, <1>8, <1>9, <2>5, <2>6, <2>9, <2>10, AudioStep
<1>10. CASE Goto(t, f) /\ buf' = buf
  <2>1. f.at = "sleep" /\ Carried(f) = c.frames
    <3>1. f.at = "sleep" /\ f.chunk = c  OBVIOUS
    <3> HIDE DEF f, c
    <3> QED  BY <3>1, CarriedIs
  <2> HIDE DEF f
  <2>2. Goto(t, f) /\ buf' = buf /\ Fits("sleep", "enqueue")  BY <1>10, GroupsFit DEF FlushPlaces
  <2>3. \A g \in {f} : Filled(f) /\ g.at # "send"
    BY <1>6, <2>1 DEF Filled
  <2>4. Puts(t, {f})  BY <1>1, <1>2, <2>1, <2>2, PutsGoto DEF AudioInv, Bent
  <2>5. /\ (Line')[1] = Line[1] /\ (Line')[2] \subseteq Line[2] /\ (Line')[4] \subseteq Line[4]
        /\ (Line')[6] \subseteq {} /\ (Line')[8] \subseteq {} /\ (Line')[9] = Line[9]
    <3>1. /\ Brings({f}, {"queue"}) = {} /\ Brings({f}, {"audio"}) = {}
          /\ Brings({f}, {"enqueue", "sleep"}) \subseteq Line[4]
      BY <1>5, <2>1, BringsOne
    <3> QED  BY <1>1, <1>2, <1>7, <2>3, <2>4, <3>1, PipelineLine
  <2>6. QueueRises' /\ (Line')[3] = Line[3]  BY <2>2, QueueSame
  <2>7. (Line')[5] = Line[5] /\ (Line')[7] = Line[7]  BY <2>2, LineOf, LineNext
  <2>8. InOrder(Line)'
    <3>1. ASSUME NEW m \in 1..9 PROVE (Line')[m] \subseteq Line[m]
      <4>1. m \in {1, 2, 3, 4, 5, 6, 7, 8, 9}  OBVIOUS
      <4> QED  BY <2>5, <2>6, <2>7, <4>1
    <3>2. InOrder(Line')  BY <3>1, LessInLine DEF AudioInv
    <3> QED  BY <3>2 DEF InOrder
  <2>9. PrerollInv'  BY <1>1, <2>2, PrerollSame
  <2> QED  BY <1>1, <1>2, <1>8, <2>2, <2>3, <2>4, <2>6, <2>8, <2>9, AudioStep
<1>11. CASE Raise(t, "error") /\ buf' = buf
  <2>1. Calmly  BY <1>1, <1>11, CalmSame
  <2> QED  BY <1>1, <1>2, <1>11, <2>1, StepRaise
<1>12. \/ /\ Return(t)
          /\ \/ buf' = Put(buf, c)
             \/ buf' = LET kept == Dropped(buf, c) IN IF Admits(kept, c) THEN Put(kept, c) ELSE kept
       \/ Goto(t, f) /\ buf' = buf
       \/ Raise(t, "error") /\ buf' = buf
  BY DEF Enqueues
<1> HIDE DEF c, f
<1>13. ASSUME Return(t),
              \/ buf' = Put(buf, c)
              \/ buf' = LET kept == Dropped(buf, c) IN IF Admits(kept, c) THEN Put(kept, c) ELSE kept
       PROVE  AudioInv'
  <2>1. /\ buf'.aggregate = buf.aggregate /\ buf'.preroll = buf.preroll
        /\ \E k \in Nat : buf'.queue \in {SubSeq(q, k + 1, Len(q)), Append(SubSeq(q, k + 1, Len(q)), c)}
    BY <1>13, EnqueuePuts
  <2> QED  BY <1>9, <1>13, <2>1
<1> QED  BY <1>10, <1>11, <1>12, <1>13

LEMMA SleepsAudio == ASSUME Inv, AudioInv, Sleeps PROVE AudioInv'
<1> DEFINE t == Pipeline
           c == Frame(t).chunk
           f == [Frame(t) EXCEPT !.at = "enqueue"]
<1>1. /\ Wakes(t, "sleep") /\ svc' = svc /\ heard' = heard /\ budget' = budget /\ buf' = buf
      /\ Goto(t, f)
  BY DEF Sleeps, serviceVars, outsideVars, historyVars
<1>2. /\ t \in Tasks /\ stack[t] # <<>> /\ Frame(t).at = "sleep" /\ Frame(t) \in Frames
      /\ Frame(t) = stack[t][1] /\ 1 \in DOMAIN stack[t]
  BY <1>1, PipelineFrame
<1>4. Carried(Frame(t)) = c.frames  BY <1>2, CarriedIs
<1>5. ToSet(c.frames) \subseteq Line[4]
  <2>1. ToSet(Carried(Frame(t))) \subseteq CarriedAt({"enqueue", "sleep"})  BY <1>1, PipelineHas
  <2> QED  BY <1>4, <2>1, LineOf
<1>6. Rising(c.frames) /\ c.frames # <<>>
  <2>1. Filled(Frame(t))  BY <1>2, PartsAre DEF AudioInv
  <2> QED  BY <1>2, <1>4, <2>1 DEF Filled, InHand
<1>7. Frame(t).at \in AudioPlaces  BY <1>2 DEF AudioPlaces
<1>8. Rising(buf.aggregate) /\ Rising(buf.preroll)  BY PartsAre DEF AudioInv
<1>9. f.at = "enqueue" /\ Carried(f) = c.frames
  <2>1. Frame(t) \in AudioFrames
    BY <1>2 DEF Frames, QuietFrames, QuietPlaces, LoopFrames, AudioFrames, FinalFrames, SendPlaces, FinalPlaces,
                CloseFrames, SendFrames
  <2>2. f.at = "enqueue" /\ f.chunk = c  BY <1>2, <2>1 DEF AudioFrames
  <2> HIDE DEF f, c
  <2> QED  BY <2>2, CarriedIs
<1> HIDE DEF f
<1>10. Fits("enqueue", "sleep")  BY GroupsFit DEF FlushPlaces
<1>11. \A g \in {f} : Filled(f) /\ g.at # "send"  BY <1>6, <1>9 DEF Filled
<1>12. Puts(t, {f})  BY <1>1, <1>2, <1>9, <1>10, PutsGoto DEF AudioInv, Bent
<1>13. /\ (Line')[1] = Line[1] /\ (Line')[2] \subseteq Line[2] /\ (Line')[4] \subseteq Line[4]
       /\ (Line')[6] \subseteq {} /\ (Line')[8] \subseteq {} /\ (Line')[9] = Line[9]
  <2>1. /\ Brings({f}, {"queue"}) = {} /\ Brings({f}, {"audio"}) = {}
        /\ Brings({f}, {"enqueue", "sleep"}) \subseteq Line[4]
    BY <1>5, <1>9, BringsOne
  <2> QED  BY <1>1, <1>2, <1>7, <1>11, <1>12, <2>1, PipelineLine
<1>14. QueueRises' /\ (Line')[3] = Line[3]  BY <1>1, QueueSame
<1>15. (Line')[5] = Line[5] /\ (Line')[7] = Line[7]  BY <1>1, LineOf, LineNext
<1>16. InOrder(Line)'
  <2>1. ASSUME NEW m \in 1..9 PROVE (Line')[m] \subseteq Line[m]
    <3>1. m \in {1, 2, 3, 4, 5, 6, 7, 8, 9}  OBVIOUS
    <3> QED  BY <1>13, <1>14, <1>15, <3>1
  <2>2. InOrder(Line')  BY <2>1, LessInLine DEF AudioInv
  <2> QED  BY <2>2 DEF InOrder
<1>17. PrerollInv'  BY <1>1, PrerollSame
<1> QED  BY <1>1, <1>2, <1>8, <1>11, <1>12, <1>14, <1>16, <1>17, AudioStep

LEMMA SpeechBegunAudio == ASSUME Inv, AudioInv, SpeechBegun PROVE AudioInv'
<1> DEFINE t == Pipeline
           f == [at |-> "queue", frames |-> buf.preroll]
<1>1. /\ Runs(t, "begun") /\ svc' = svc /\ heard' = heard /\ budget' = budget
      /\ buf' = [buf EXCEPT !.preroll = <<>>]
      /\ (Goto(t, f) /\ buf.preroll # <<>>) \/ Return(t)
  BY DEF SpeechBegun, outsideVars, historyVars
<1>2. t \in Tasks /\ stack[t] # <<>> /\ Frame(t).at = "begun"  BY <1>1, PipelineFrame
<1>3. buf'.queue = buf.queue /\ buf'.aggregate = buf.aggregate /\ buf'.preroll = <<>>
  BY <1>1 DEF Inv, Slots, TypeInv, Buffers
<1>4. Rising(buf.aggregate) /\ Rising(buf.preroll)  BY PartsAre DEF AudioInv
<1>5. f.at = "queue" /\ Carried(f) = buf.preroll
  <2>1. f.at = "queue" /\ f.frames = buf.preroll  OBVIOUS
  <2> HIDE DEF f
  <2> QED  BY <2>1, CarriedIs
<1> HIDE DEF f
<1>6. buf.preroll # <<>> => Filled(f)  BY <1>4, <1>5 DEF Filled
<1>7. PICK N : Puts(t, N) /\ N \subseteq {f} /\ (N # {} => buf.preroll # <<>>)
  <2>1. CASE Return(t)
    <3>1. Puts(t, {})  BY <1>1, <1>2, <2>1, PutsReturn DEF AudioInv
    <3> QED  BY <3>1
  <2>2. CASE Goto(t, f) /\ buf.preroll # <<>>
    <3>1. Fits("queue", "begun")  BY CallsFit DEF CallPlaces
    <3>2. Puts(t, {f})  BY <1>1, <1>2, <1>5, <2>2, <3>1, PutsGoto DEF AudioInv, Bent
    <3> QED  BY <2>2, <3>2
  <2> QED  BY <1>1, <2>1, <2>2
<1>8. /\ (Line')[1] = Line[1] /\ (Line')[2] \subseteq Line[2] /\ (Line')[4] \subseteq {}
      /\ (Line')[6] \subseteq Line[7] /\ (Line')[8] \subseteq {} /\ (Line')[9] = Line[9]
  <2>1. /\ Brings(N, {"enqueue", "sleep"}) = {} /\ Brings(N, {"audio"}) = {}
        /\ Brings(N, {"queue"}) \subseteq Line[7]
    BY <1>5, <1>7, LineOf DEF Brings
  <2>2. Frame(t).at \in AudioPlaces /\ \A g \in N : g.at # "send"  BY <1>2, <1>5, <1>7 DEF AudioPlaces
  <2> QED  BY <1>1, <1>2, <1>7, <2>1, <2>2, PipelineLine
<1>9. QueueRises' /\ (Line')[3] = Line[3]  BY <1>3, QueueSame
<1>10. (Line')[5] = Line[5] /\ (Line')[7] = {}  BY <1>3, LineOf, LineNext, NoneSet
<1>11. InOrder(Line)'
  <2>1. ASSUME NEW m \in 1..9, m # 6 PROVE (Line')[m] \subseteq Line[m]
    <3>1. m \in {1, 2, 3, 4, 5, 7, 8, 9}  BY <2>1
    <3> QED  BY <1>8, <1>9, <1>10, <3>1
  <2>2. ASSUME NEW m \in 1..9, 6 < m, m <= 7 PROVE (Line')[m] = {}
    <3>1. m = 7  BY <2>2
    <3> QED  BY <1>10, <3>1
  <2> QED  BY <1>8, <2>1, <2>2, LineShifts DEF AudioInv
<1>12. PrerollInv'  BY <1>3 DEF PrerollInv
<1>13. \A g \in N : Filled(g)  BY <1>6, <1>7
<1> QED  BY <1>1, <1>2, <1>3, <1>4, <1>7, <1>9, <1>11, <1>12, <1>13, NoneSet, AudioStep

-----------------------------------------------------------------------------
(* A frame is heard, and a chunk is taken                                  *)

LEMMA CarriedNat == ASSUME Inv, NEW P PROVE CarriedAt(P) \subseteq Nat
<1> SUFFICES ASSUME NEW x \in CarriedAt(P) PROVE x \in Nat
  OBVIOUS
<1>1. PICK f \in Coroutines : x \in ToSet(Carried(f))  BY DEF CarriedAt
<1>2. PICK t \in Tasks : \E i \in DOMAIN stack[t] : f = stack[t][i]  BY ToSetIs DEF Coroutines
<1>3. f \in Frames
  <2>1. stack[t] \in Seq(Frames)  BY DEF Inv, Slots, TypeInv
  <2> QED  BY <1>2, <2>1
<1>4. Carried(f) \in Seq(Nat)
  <2>1. CASE f.at = "audio"
    <3> DEFINE x1 == f.frame
    <3>1. Carried(f) = <<x1>>  BY <2>1, CarriedIs
    <3>2. x1 \in Nat  BY <1>3, <2>1, AudioFields
    <3> HIDE DEF x1
    <3> QED  BY <3>1, <3>2, OneRises
  <2>2. CASE f.at = "queue"  BY <1>3, <2>2, CarriedIs, AudioFields
  <2>3. CASE f.at \in {"enqueue", "sleep"}  BY <1>3, <2>3, CarriedIs, ChunkFields DEF Chunk
  <2>4. CASE Sends(f)
    <3>1. f \in SendFrames  BY <1>3, <2>4, SendFields DEF Sends
    <3>2. f.msg \in Message /\ f.msg.type = "audio"  BY <2>4, <3>1 DEF SendFrames, Sends
    <3>3. f.msg.frames \in Seq(Nat)  BY <3>2 DEF Message
    <3>4. Carried(f) = f.msg.frames  BY <2>4 DEF Carried, Sends
    <3> QED  BY <3>3, <3>4
  <2>5. CASE Blank(f)
    <3>1. Carried(f) = <<>>  BY <2>5, BlankCarries
    <3> QED  BY <1>1, <3>1, NoneSet
  <2> QED  BY <2>1, <2>2, <2>3, <2>4, <2>5 DEF Blank, InHand
<1> QED  BY <1>1, <1>4, ToSetIs

LEMMA LineNat == ASSUME Inv, AudioInv, NEW m \in 1..9 PROVE Line[m] \subseteq Nat
<1>1. CarriedAt({"send"}) \subseteq Nat /\ CarriedAt({"enqueue", "sleep"}) \subseteq Nat
      /\ CarriedAt({"queue"}) \subseteq Nat /\ CarriedAt({"audio"}) \subseteq Nat
  BY CarriedNat
<1>2. /\ buf.queue \in Seq(Chunk) /\ buf.aggregate \in Seq(Nat) /\ buf.preroll \in Seq(Nat)
      /\ budget.frames \in Nat /\ heard.last \in Nat
  BY DEF Inv, Slots, TypeInv, Buffers, Budget, AudioInv
<1>3. ToSet(buf.aggregate) \subseteq Nat /\ ToSet(buf.preroll) \subseteq Nat  BY <1>2, ToSetIs
<1>4. Queued \subseteq Nat
  <2> SUFFICES ASSUME NEW i \in DOMAIN buf.queue PROVE ToSet(buf.queue[i].frames) \subseteq Nat
    BY DEF Queued
  <2>1. buf.queue[i] \in Chunk  BY <1>2
  <2>2. buf.queue[i].frames \in Seq(Nat)  BY <2>1 DEF Chunk
  <2> QED  BY <2>2, ToSetIs
<1>5. m \in {1, 2, 3, 4, 5, 6, 7, 8, 9}  OBVIOUS
<1>6. {heard.last} \subseteq Nat /\ {budget.frames + 1} \subseteq Nat  BY <1>2
<1> QED  BY <1>1, <1>3, <1>4, <1>5, <1>6, LineOf

\* The next frame to be heard is later than all others.
LEMMA HeardLine ==
    ASSUME NEW L, NEW M, InOrder(L), NEW x \in Nat, L[9] = {x}, M[9] = {x + 1}, M[8] \subseteq L[8] \cup {x},
           \A m \in 1..7 : M[m] \subseteq L[m], \A m \in 1..9 : L[m] \subseteq Nat
    PROVE  InOrder(M)
<1> SUFFICES ASSUME NEW m \in 1..9, NEW n \in 1..9, m < n, NEW y \in M[m], NEW z \in M[n] PROVE y < z
  BY DEF InOrder, Below
<1>1. m \in 1..8 /\ y \in Nat /\ (y \in L[m] \/ y = x)
  <2>1. CASE m = 8  BY <2>1
  <2>2. CASE m # 8
    <3>1. m \in 1..7  BY <2>2
    <3> QED  BY <3>1
  <2> QED  BY <2>1, <2>2
<1>2. y <= x
  <2>1. CASE y \in L[m]
    <3>1. m < 9 /\ 9 \in 1..9 /\ x \in L[9]  BY <1>1
    <3>2. y < x  BY <2>1, <3>1 DEF InOrder, Below
    <3> QED  BY <1>1, <3>2
  <2> QED  BY <1>1, <2>1
<1>3. CASE n = 9
  <2>1. z = x + 1  BY <1>3
  <2> QED  BY <1>1, <1>2, <2>1
<1>4. CASE n = 8
  <2>1. m \in 1..7  BY <1>1, <1>4
  <2>2. y \in L[m] /\ (z \in L[8] \/ z \in L[9])  BY <1>4, <2>1
  <2>3. m < 8 /\ m < 9 /\ 8 \in 1..9 /\ 9 \in 1..9 /\ m \in 1..9  BY <2>1
  <2> QED  BY <2>2, <2>3 DEF InOrder, Below
<1>5. CASE n \notin {8, 9}
  <2>1. m \in 1..7 /\ n \in 1..7  BY <1>1, <1>5
  <2>2. y \in L[m] /\ z \in L[n]  BY <2>1
  <2> QED  BY <2>2 DEF InOrder, Below
<1> QED  BY <1>3, <1>4, <1>5

LEMMA OnceIs == ASSUME NEW s PROVE OnceConnected(s) \in {s, <<At("connect")>> \o s}
BY DEF OnceConnected

LEMMA HearsAudioAudio == ASSUME Inv, AudioInv, HearsAudio PROVE AudioInv'
<1> DEFINE t == Pipeline
           x == budget.frames + 1
           f == [at |-> "audio", frame |-> x]
           e == At("idle")
           c == At("connect")
           v == <<f, e>>
           N == {c, f, e}
<1>1. /\ Wakes(t, "idle") /\ svc' = svc /\ buf' = buf /\ heard' = heard /\ running = NoTask
      /\ Becomes(t, OnceConnected(v)) /\ budget' = [budget EXCEPT !.frames = @ + 1]
  BY DEF HearsAudio, serviceVars, Wakes
<1>2. t \in Tasks /\ budget.frames \in Nat /\ budget'.frames = x
  BY <1>1, PlacesApart DEF Inv, Slots, TypeInv, Budget
<1>3. x \in Nat  BY <1>2
<1>4. f.at = "audio" /\ Carried(f) = <<x>>
  <2>1. f.at = "audio" /\ f.frame = x  OBVIOUS
  <2> HIDE DEF f, x
  <2> QED  BY <2>1, CarriedIs
<1>5. e.at = "idle" /\ c.at = "connect"  BY AtIs
<1> HIDE DEF f, e, c, x
<1>6. Blank(e) /\ Blank(c)  BY <1>5, BlankFrame DEF InHand
<1>7. \A g \in N : Filled(g)
  <2>1. Filled(f)  BY <1>3, <1>4, OneRises DEF Filled, InHand, Sends
  <2> QED  BY <1>6, <2>1, BlankFilled
<1>8. /\ <<f.at, e.at>> \in Nesting /\ <<c.at, f.at>> \in Nesting /\ <<e.at, "none">> \in Nesting
      /\ f.at \notin Bent /\ e.at \notin Bent /\ c.at \notin Bent
  BY <1>4, <1>5 DEF Nesting, ConnectPlaces, LoopPlaces, Bent
<1>9. PICK w : /\ w \in Seq(N) /\ Straight(w) /\ Ground(w) /\ \A i \in DOMAIN w : w[i] \in N
               /\ stack' = [stack EXCEPT ![t] = w]
  <2>1. CASE OnceConnected(v) = v
    <3> DEFINE w == <<f, e>>
    <3>1. w \in Seq({f, e}) /\ Straight(w) /\ Len(w) = 2 /\ w[2] = e /\ \A i \in DOMAIN w : w[i] \in {f, e}
      BY <1>8, StraightPair
    <3>2. stack' = [stack EXCEPT ![t] = w]  BY <1>1, <2>1 DEF Becomes
    <3> HIDE DEF w
    <3>3. Ground(w)  BY <1>8, <3>1 DEF Ground
    <3>4. w \in Seq(N) /\ \A i \in DOMAIN w : w[i] \in N  BY <3>1
    <3> QED  BY <3>1, <3>2, <3>3, <3>4
  <2>2. CASE OnceConnected(v) = <<c, f, e>>
    <3> DEFINE w == <<c, f, e>>
    <3>1. w \in Seq(N) /\ Straight(w) /\ Ground(w) /\ \A i \in DOMAIN w : w[i] \in N
      BY <1>8, StraightTriple
    <3>2. stack' = [stack EXCEPT ![t] = w]  BY <1>1, <2>2 DEF Becomes
    <3> HIDE DEF w
    <3> QED  BY <3>1, <3>2
  <2>3. OnceConnected(v) \in {v, <<c, f, e>>}
    <3>1. <<c>> \o <<f, e>> = <<c, f, e>>
      <4>1. c \in N /\ f \in N /\ e \in N  OBVIOUS
      <4> HIDE DEF N
      <4> QED  BY <4>1, TripleIs
    <3>2. <<c>> \o v = <<c, f, e>>  BY <3>1
    <3> HIDE DEF v
    <3>3. OnceConnected(v) \in {v, <<At("connect")>> \o v}  BY OnceIs
    <3>4. At("connect") = c  BY DEF c
    <3> QED  BY <3>2, <3>3, <3>4
  <2> QED  BY <2>1, <2>2, <2>3
<1>10. Puts(t, N)  BY <1>2, <1>9, PutsWhole DEF AudioInv
<1>11. ASSUME NEW P, "audio" \notin P PROVE CarriedAt(P)' \subseteq CarriedAt(P)
  <2>1. \A g \in N : g.at \in P => ToSet(Carried(g)) \subseteq {}
    BY <1>4, <1>6, <1>11, BlankFilled
  <2>2. CarriedAt(P)' \subseteq CarriedAt(P) \cup {}  BY <1>2, <1>10, <2>1, CarriesNew
  <2> QED  BY <2>2
<1>12. CarriedAt({"audio"})' \subseteq CarriedAt({"audio"}) \cup {x}
  <2>1. ToSet(Carried(f)) = {x}  BY <1>3, <1>4, OneRises
  <2>2. \A g \in N : g.at \in {"audio"} => ToSet(Carried(g)) \subseteq {x}
    BY <1>6, <2>1, BlankFilled
  <2> QED  BY <1>2, <1>10, <2>2, CarriesNew
<1>13. QueueRises' /\ (Line')[3] = Line[3]  BY <1>1, QueueSame
<1>14. InOrder(Line)'
  <2>1. ASSUME NEW m \in 1..7 PROVE (Line')[m] \subseteq Line[m]
    <3>1. m \in {1, 2, 3, 4, 5, 6, 7}  OBVIOUS
    <3>2. /\ CarriedAt({"send"})' \subseteq CarriedAt({"send"})
          /\ CarriedAt({"enqueue", "sleep"})' \subseteq CarriedAt({"enqueue", "sleep"})
          /\ CarriedAt({"queue"})' \subseteq CarriedAt({"queue"})
      BY <1>11
    <3> QED  BY <1>1, <1>13, <3>1, <3>2, LineOf, LineNext
  <2>2. (Line')[8] \subseteq Line[8] \cup {x}  BY <1>12, LineOf, LineNext
  <2>3. Line[9] = {x} /\ (Line')[9] = {x + 1}  BY <1>2, LineOf, LineNext DEF x
  <2>4. \A m \in 1..9 : Line[m] \subseteq Nat  BY LineNat
  <2> DEFINE L == Line
             M == Line'
  <2>5. /\ InOrder(L) /\ L[9] = {x} /\ M[9] = {x + 1} /\ M[8] \subseteq L[8] \cup {x}
        /\ \A m \in 1..7 : M[m] \subseteq L[m]
        /\ \A m \in 1..9 : L[m] \subseteq Nat
    BY <2>1, <2>2, <2>3, <2>4 DEF AudioInv
  <2> HIDE DEF L, M
  <2>6. InOrder(M)  BY <1>3, <2>5, HeardLine
  <2> QED  BY <2>6 DEF M, InOrder
<1>15. PrerollInv'
  <2>1. svc.active => buf.preroll = <<>>  BY <1>1, RestNotBegun
  <2> QED  BY <1>1, <2>1 DEF PrerollInv
<1>16. Rising(buf'.aggregate) /\ Rising(buf'.preroll)  BY <1>1, PartsAre DEF AudioInv
<1> QED  BY <1>1, <1>2, <1>7, <1>10, <1>13, <1>14, <1>15, <1>16, AudioStep

LEMMA FollowTail ==
    ASSUME NEW q \in Seq(Chunk), q # <<>>, Follow(q)
    PROVE  /\ Tail(q) \in Seq(Chunk) /\ Follow(Tail(q)) /\ AllOf(Tail(q)) \subseteq AllOf(q)
           /\ Head(q) \in Chunk /\ Rising(Head(q).frames) /\ Head(q).frames # <<>>
           /\ ToSet(Head(q).frames) \subseteq AllOf(q)
           /\ Below(ToSet(Head(q).frames), AllOf(Tail(q)))
<1> DEFINE r == Tail(q)
<1>1. Len(q) \in Nat /\ Len(q) > 0 /\ 1 \in DOMAIN q /\ Head(q) = q[1] /\ DOMAIN q = 1..Len(q)  OBVIOUS
<1>2. r \in Seq(Chunk) /\ \A i \in DOMAIN r : i + 1 \in DOMAIN q /\ r[i] = q[i + 1] /\ i \in Nat /\ i > 0
  BY <1>1
<1> HIDE DEF r
<1>3. Follow(r)
  <2>1. ASSUME NEW i \in DOMAIN r, NEW j \in DOMAIN r, i < j
        PROVE  Below(ToSet(r[i].frames), ToSet(r[j].frames))
    <3>1. i + 1 \in DOMAIN q /\ j + 1 \in DOMAIN q /\ i + 1 < j + 1 /\ r[i] = q[i + 1] /\ r[j] = q[j + 1]
      BY <1>2, <2>1
    <3> QED  BY <3>1 DEF Follow
  <2> QED  BY <1>2, <2>1 DEF Follow
<1>4. AllOf(r) \subseteq AllOf(q)
  <2> SUFFICES ASSUME NEW i \in DOMAIN r PROVE ToSet(r[i].frames) \subseteq AllOf(q)
    BY DEF AllOf
  <2> QED  BY <1>2 DEF AllOf
<1>5. /\ q[1] \in Chunk /\ Rising(q[1].frames) /\ q[1].frames # <<>>
      /\ ToSet(q[1].frames) \subseteq AllOf(q)
  BY <1>1 DEF Follow, AllOf
<1>6. Below(ToSet(q[1].frames), AllOf(r))
  <2> SUFFICES ASSUME NEW i \in DOMAIN r PROVE Below(ToSet(q[1].frames), ToSet(r[i].frames))
    BY DEF AllOf, Below
  <2>1. i + 1 \in DOMAIN q /\ 1 < i + 1 /\ r[i] = q[i + 1]  BY <1>2
  <2> QED  BY <1>1, <2>1 DEF Follow
<1> QED  BY <1>1, <1>2, <1>3, <1>4, <1>5, <1>6 DEF r

\* The head of the queue is sent next.
LEMMA TakenLine ==
    ASSUME NEW L, NEW M, InOrder(L), \A m \in 1..9 : m # 2 => M[m] \subseteq L[m], M[2] \subseteq L[3],
           Below(M[2], M[3])
    PROVE  InOrder(M)
<1> SUFFICES ASSUME NEW m \in 1..9, NEW n \in 1..9, m < n, NEW y \in M[m], NEW z \in M[n] PROVE y < z
  BY DEF InOrder, Below
<1>1. CASE m # 2 /\ n # 2
  <2>1. y \in L[m] /\ z \in L[n]  BY <1>1
  <2> QED  BY <2>1 DEF InOrder, Below
<1>2. CASE m = 2 /\ n = 3  BY <1>2 DEF Below
<1>3. CASE m = 2 /\ n # 3
  <2>1. y \in L[3] /\ z \in L[n] /\ 3 < n /\ 3 \in 1..9  BY <1>3
  <2> QED  BY <2>1 DEF InOrder, Below
<1>4. CASE n = 2
  <2>1. y \in L[m] /\ z \in L[3] /\ m < 3 /\ 3 \in 1..9  BY <1>4
  <2> QED  BY <2>1 DEF InOrder, Below
<1> QED  BY <1>1, <1>2, <1>3, <1>4

LEMMA SenderTakesAudio == ASSUME Inv, AudioInv, NEW k \in Conns, SenderTakes(k) PROVE AudioInv'
<1> DEFINE t == SendTask(k)
           q == buf.queue
           c == Head(q)
           m == [type |-> "audio", frames |-> c.frames, gen |-> c.gen]
           g == SendCall(m, TRUE, TRUE)
           f == [at |-> "s_sent", chunk |-> c]
<1>1. /\ t \in Tasks /\ Runs(t, "s_take") /\ svc' = svc /\ heard' = heard /\ budget' = budget
  BY PlacesApart DEF SenderTakes, outsideVars, historyVars
<1>2. stack[t] # <<>> /\ Frame(t).at = "s_take"  BY <1>1, Nonempty
<1>3. Frame(t) = stack[t][1] /\ 1 \in DOMAIN stack[t]  BY <1>1, <1>2, StackTyped DEF Inv
<1>4. q # <<>> /\ q \in Seq(Chunk) /\ buf \in Buffers
  BY <1>1, <1>2, <1>3 DEF Inv, TakeInv, Slots, TypeInv, Buffers
<1>5. Follow(q)  BY PartsAre, QueueFollows DEF AudioInv
<1>6. /\ buf'.queue = Tail(q) /\ buf'.aggregate = buf.aggregate /\ buf'.preroll = buf.preroll
      /\ Call(t, g, f) \/ Goto(t, At("s_loop"))
  BY <1>4 DEF SenderTakes, Buffers
<1>7. /\ c \in Chunk /\ Rising(c.frames) /\ c.frames # <<>> /\ ToSet(c.frames) \subseteq AllOf(q)
      /\ Below(ToSet(c.frames), AllOf(Tail(q)))
      /\ Follow(buf'.queue) /\ AllOf(buf'.queue) \subseteq AllOf(q)
  BY <1>4, <1>5, <1>6, FollowTail
<1>8. /\ g.at = "send" /\ Carried(g) = c.frames /\ Sends(g) /\ f.at = "s_sent"
  <2>1. g.at = "send" /\ g.msg = m  BY DEF SendCall
  <2>2. m.type = "audio" /\ m.frames = c.frames /\ f.at = "s_sent"  OBVIOUS
  <2> HIDE DEF g, f, m
  <2>3. Sends(g)  BY <2>1, <2>2 DEF Sends
  <2>4. Carried(g) = g.msg.frames  BY <2>1, <2>3 DEF Carried
  <2> QED  BY <2>1, <2>2, <2>3, <2>4
<1> DEFINE e == At("s_loop")
<1>9. e.at = "s_loop"  BY AtIs
<1> HIDE DEF g, f, m, e
<1>10. Blank(f) /\ Blank(e)  BY <1>8, <1>9, BlankFrame DEF InHand
<1>11. /\ Fits("s_sent", "s_take") /\ Fits("s_loop", "s_take") /\ <<"send", "s_sent">> \in Nesting
       /\ {"send", "s_sent", "s_loop"} \cap Bent = {}
  <2>1. {"s_sent", "s_take", "s_loop"} \subseteq LoopPlaces  BY DEF LoopPlaces, SendPlaces
  <2> QED  BY <2>1, LoopsFit DEF Nesting, Bent
<1>12. PICK N : Puts(t, N) /\ N \in {{g, f}, {e}}
  <2>1. CASE Call(t, g, f)
    <3>1. Puts(t, {g, f})  BY <1>1, <1>8, <1>11, <2>1, PutsCall DEF AudioInv
    <3> QED  BY <3>1
  <2>2. CASE Goto(t, e)
    <3>1. Puts(t, {e})  BY <1>1, <1>9, <1>11, <2>2, PutsGoto DEF AudioInv
    <3> QED  BY <3>1
  <2> QED  BY <1>6, <2>1, <2>2 DEF e
<1> HIDE DEF c, q
<1>13. \A h \in N : Filled(h) /\ (h = g \/ Blank(h))
  <2>1. Filled(g)  BY <1>7, <1>8 DEF Filled
  <2> QED  BY <1>10, <1>12, <2>1, BlankFilled
<1>14. ASSUME NEW P, "send" \notin P PROVE CarriedAt(P)' \subseteq CarriedAt(P)
  <2>1. \A h \in N : h.at \in P => ToSet(Carried(h)) \subseteq {}
    BY <1>8, <1>13, <1>14, BlankFilled
  <2>2. CarriedAt(P)' \subseteq CarriedAt(P) \cup {}  BY <1>1, <1>12, <2>1, CarriesNew
  <2> QED  BY <2>2
<1>15. CarriedAt({"send"})' \subseteq ToSet(c.frames)
  <2>1. CarriedAt({"send"}) = {}
    <3> SUFFICES ASSUME NEW h \in Coroutines, h.at = "send" PROVE FALSE
      BY DEF CarriedAt
    <3>1. PICK u \in Tasks : \E i \in DOMAIN stack[u] : h = stack[u][i]  BY ToSetIs DEF Coroutines
    <3>2. PICK i \in DOMAIN stack[u] : h = stack[u][i]  BY <3>1
    <3>3. i = 1 /\ running = u  BY <3>2, SendFirst DEF AudioInv
    <3>4. u = t  BY <1>1, <3>3 DEF Runs
    <3> QED  BY <1>2, <1>3, <3>2, <3>3, <3>4
  <2>2. \A h \in N : h.at \in {"send"} => ToSet(Carried(h)) \subseteq ToSet(c.frames)
    BY <1>8, <1>13, BlankFilled
  <2>3. CarriedAt({"send"})' \subseteq CarriedAt({"send"}) \cup ToSet(c.frames)
    BY <1>1, <1>12, <2>2, CarriesNew
  <2> QED  BY <2>1, <2>3
<1>16. QueueRises' /\ (Line')[3] \subseteq Line[3]  BY <1>7, QueueFollows, LineOf, LineNext DEF q
<1>17. (Line')[2] \subseteq Line[3] /\ Below((Line')[2], (Line')[3])
  <2>1. (Line')[2] \subseteq ToSet(c.frames)  BY <1>15, LineNext
  <2>2. ToSet(c.frames) \subseteq Line[3]  BY <1>7, QueueFollows, LineOf DEF q
  <2>3. (Line')[3] = AllOf(Tail(q))  BY <1>6, QueueFollows, LineNext
  <2> QED  BY <1>7, <2>1, <2>2, <2>3 DEF Below
<1>18. ASSUME NEW n \in 1..9, n # 2 PROVE (Line')[n] \subseteq Line[n]
  <2>1. n \in {1, 3, 4, 5, 6, 7, 8, 9}  BY <1>18
  <2>2. /\ CarriedAt({"enqueue", "sleep"})' \subseteq CarriedAt({"enqueue", "sleep"})
        /\ CarriedAt({"queue"})' \subseteq CarriedAt({"queue"})
        /\ CarriedAt({"audio"})' \subseteq CarriedAt({"audio"})
    BY <1>14
  <2> QED  BY <1>1, <1>6, <1>16, <2>1, <2>2, LineOf, LineNext
<1>19. InOrder(Line)'
  <2> DEFINE L == Line
             M == Line'
  <2>1. /\ InOrder(L) /\ \A n \in 1..9 : n # 2 => M[n] \subseteq L[n]
        /\ M[2] \subseteq L[3] /\ Below(M[2], M[3])
    BY <1>17, <1>18 DEF AudioInv
  <2> HIDE DEF L, M
  <2>2. InOrder(M)  BY <2>1, TakenLine
  <2> QED  BY <2>2 DEF M, InOrder
<1>20. PrerollInv'
  <2>1. svc.active => buf.preroll = <<>>  BY <1>1, NotBegun
  <2> QED  BY <1>1, <1>6, <2>1 DEF PrerollInv
<1>21. Rising(buf'.aggregate) /\ Rising(buf'.preroll)  BY <1>6, PartsAre DEF AudioInv
<1> QED  BY <1>1, <1>12, <1>13, <1>16, <1>19, <1>20, <1>21, AudioStep

-----------------------------------------------------------------------------
(* The theorem                                                             *)

LEMMA ConfigKept == ASSUME Inv, [Next]_vars PROVE svc'.config = svc.config
<1>0. svc \in Service  BY DEF Inv, Slots, TypeInv
<1>1. ASSUME NEW t \in Tasks, CoroutineStep(t) PROVE svc'.config = svc.config
  <2>1. CASE Connect(t) \/ ConnectGranted(t) \/ ConnectLocked(t) \/ Connected(t) \/ ConnectFails(t)
    <3>1. CASE Connected(t)
      <4>1. PICK w : svc' = [svc EXCEPT !.ws = w, !.readyOf = w, !.sendTask = SendTask(w), !.recvTask = RecvTask(w)]
        BY <3>1 DEF Connected
      <4> QED  BY <1>0, <4>1 DEF Service
    <3>2. CASE Connect(t) \/ ConnectGranted(t) \/ ConnectFails(t)
      BY <3>2 DEF Connect, ConnectGranted, ConnectFails, serviceVars
    <3>3. CASE ConnectLocked(t)  BY <1>0, <3>3 DEF ConnectLocked, Service
    <3> QED  BY <2>1, <3>1, <3>2, <3>3
  <2>2. CASE \/ Start(t) \/ StartGranted(t) \/ StartLocked(t) \/ StartConnected(t) \/ StartSent(t)
             \/ StartReady(t) \/ StartTimesOut(t)
    BY <1>0, <2>2 DEF Service, Start, StartGranted, StartLocked, StartConnected, StartSent, StartReady,
                      StartTimesOut, serviceVars
  <2>3. CASE Send(t) \/ Sent(t) \/ SendAgain(t) \/ ReconnectClosed(t) \/ Disconnected(t)
    BY <1>0, <2>3 DEF Service, Send, Sent, SendAgain, ReconnectClosed, Disconnected, serviceVars
  <2>4. CASE Close(t) \/ CloseAwaits(t) \/ CloseAwaited(t) \/ CloseSocket(t) \/ Closed(t)
    BY <1>0, <2>4 DEF Service, Close, CloseAwaits, CloseAwaited, CloseSocket, Closed, serviceVars
  <2>5. CASE CancelDelivered(t) \/ Unwinds(t)  BY <2>5 DEF CancelDelivered, Unwinds
  <2> QED  BY <1>1, <2>1, <2>2, <2>3, <2>4, <2>5 DEF CoroutineStep
<1>2. ASSUME NEW k \in Conns, SenderStep(k) PROVE svc'.config = svc.config
  BY <1>2 DEF SenderStep, SenderLoops, SenderWakes, SenderTakes, SenderSent, SenderGone, serviceVars
<1>3. ASSUME NEW k \in Conns, ReceiverStep(k) PROVE svc'.config = svc.config
  <2>1. CASE ReceiverPushes(k)  BY <1>0, <2>1 DEF ReceiverPushes, Service
  <2>2. CASE \/ ReceiverLoops(k) \/ ReceiverLosesConnection(k) \/ ReceiverFailed(k) \/ ReceiverEnds(k)
    BY <2>2 DEF ReceiverLoops, ReceiverLosesConnection, ReceiverFailed, ReceiverEnds, serviceVars
  <2>3. CASE ReceivesPing(k) \/ ReceivesReady(k) \/ ReceivesTranscript(k) \/ ReceivesEnd(k)
    <3>1. PICK m : Receives(k, m)  BY <2>3 DEF ReceivesPing, ReceivesReady, ReceivesTranscript, ReceivesEnd
    <3> QED  BY <3>1 DEF Receives
  <2> QED  BY <1>3, <2>1, <2>2, <2>3 DEF ReceiverStep
<1>4. CASE PipelineStep
  BY <1>0, <1>4 DEF PipelineStep, HandlesAudio, QueuesAudio, Flushes, Enqueues, Sleeps, SpeechBegun, Joins, Joined,
                    SendsFinalize, FinalizeSent, FinalArrives, FinalTimesOut, FinalDone, Service, serviceVars
<1>5. CASE CancelSent  BY <1>5 DEF CancelSent, serviceVars
<1>6. CASE Environment
  BY <1>0, <1>6 DEF Environment, HearsAudio, SpeechStarts, SpeechEnds, Stops, Cancels, CleansUp, HangsUp, Breaks,
                    ServerChats, Service, serviceVars
<1>7. CASE UNCHANGED vars  BY <1>7 DEF vars, serviceVars
<1> QED  BY <1>1, <1>2, <1>3, <1>4, <1>5, <1>6, <1>7 DEF Next, TaskStep

LEMMA PipelineAudio == ASSUME Inv, AudioInv, PipelineStep PROVE AudioInv'
BY HandlesAudioAudio, QueuesAudioAudio, FlushesAudio, EnqueuesAudio, SleepsAudio, SpeechBegunAudio, FinalsAudio
   DEF PipelineStep

LEMMA NextAudio == ASSUME Inv, AudioInv, ~svc.config.reconnect, [Next]_vars PROVE AudioInv'
<1>1. ASSUME NEW t \in Tasks, TaskStep(t) PROVE AudioInv'
  <2>1. CASE CoroutineStep(t)  BY <2>1, CoroutineAudio
  <2>2. CASE PipelineStep  BY <2>2, PipelineAudio
  <2>3. CASE CancelSent  BY <2>3, CancelSentAudio
  <2>4. ASSUME NEW k \in Conns, SenderStep(k) PROVE AudioInv'
    BY <2>4, SenderAudio, SenderTakesAudio DEF SenderStep
  <2>5. ASSUME NEW k \in Conns, ReceiverStep(k) PROVE AudioInv'  BY <2>5, ReceiverAudio
  <2> QED  BY <1>1, <2>1, <2>2, <2>3, <2>4, <2>5 DEF TaskStep
<1>2. CASE Environment
  BY <1>2, HearsAudioAudio, SpeechAudio, StopsAudio, CancelsAudio, CleansUpAudio, ServersAudio DEF Environment
<1>3. CASE UNCHANGED vars
  <2>1. /\ stack' = stack /\ buf' = buf /\ heard' = heard /\ budget' = budget /\ svc' = svc
    BY <1>3 DEF vars, serviceVars, taskVars, historyVars
  <2>2. NestInv' /\ PrerollInv' /\ (heard.last \in Nat /\ ~heard.late)'
    BY <2>1 DEF AudioInv, NestInv, PrerollInv, IsAt
  <2>3. SameAudio /\ SameMarks  BY <2>1 DEF SameAudio, SameMarks
  <2>4. Plain  BY <2>1, StandPlain DEF AudioInv
  <2> QED  BY <2>2, <2>3, <2>4, PlainLine, PlainParts DEF AudioInv
<1> QED  BY <1>1, <1>2, <1>3 DEF Next

LEMMA InitAudio == Init => AudioInv
<1> SUFFICES ASSUME Init PROVE AudioInv  OBVIOUS
<1>1. /\ buf.queue = <<>> /\ buf.aggregate = <<>> /\ buf.preroll = <<>>
      /\ budget.frames = 0 /\ heard.last = 0 /\ heard.late = FALSE
  BY DEF Init
<1> DEFINE e == At("idle")
           v == <<e>>
<1>2. e.at = "idle" /\ \A t \in Tasks : stack[t] \in {<<>>, v}  BY AtIs DEF Init
<1> HIDE DEF e
<1>3. /\ v \in Seq({e}) /\ Straight(v) /\ Len(v) = 1 /\ v[1] = e /\ \A i \in DOMAIN v : v[i] \in {e}
  BY <1>2, StraightOne DEF Bent
<1> HIDE DEF v
<1>4. Ground(v)  BY <1>2, <1>3 DEF Ground, Nesting, LoopPlaces
<1>5. NestInv
  <2> SUFFICES ASSUME NEW t \in Tasks PROVE Straight(stack[t]) /\ Ground(stack[t])
    BY DEF NestInv
  <2> QED  BY <1>2, <1>3, <1>4, StraightNone
<1>6. Blank(e)  BY <1>2, BlankFrame DEF InHand
<1>7. ASSUME NEW t \in Tasks, NEW i \in DOMAIN stack[t] PROVE stack[t][i] = e
  <2>1. DOMAIN <<>> = {}  OBVIOUS
  <2> QED  BY <1>2, <1>3, <1>7, <2>1
<1>8. \A P : CarriedAt(P) = {}
  <2> SUFFICES ASSUME NEW P, NEW f \in Coroutines PROVE ToSet(Carried(f)) = {}
    BY DEF CarriedAt
  <2>1. f = e  BY <1>7, ToSetIs DEF Coroutines
  <2> QED  BY <1>6, <2>1, BlankFilled
<1>9. DOMAIN buf.queue = {}  BY <1>1
<1>10. Queued = {}  BY <1>9 DEF Queued
<1>11. InOrder(Line)
  <2> SUFFICES ASSUME NEW m \in 1..9, NEW n \in 1..9, m < n, NEW x \in Line[m], NEW y \in Line[n] PROVE x < y
    BY DEF InOrder, Below
  <2>1. ASSUME NEW l \in 1..9, l \notin {1, 9} PROVE Line[l] = {}
    <3>1. l \in {2, 3, 4, 5, 6, 7, 8}  BY <2>1
    <3> QED  BY <1>1, <1>8, <1>10, <3>1, LineOf, NoneSet
  <2>2. m = 1 /\ n = 9  BY <2>1
  <2>3. x = 0 /\ y = 1  BY <1>1, <2>2, LineOf
  <2> QED  BY <2>3
<1>12. PartsRise /\ ChunksFilled
  <2>1. QueueRises  BY <1>9 DEF QueueRises
  <2>2. \A t \in Tasks : \A i \in DOMAIN stack[t] : Filled(stack[t][i])  BY <1>6, <1>7, BlankFilled
  <2> QED  BY <1>1, <2>1, <2>2, NoneSet, PartsAre
<1>13. PrerollInv  BY <1>1 DEF PrerollInv
<1> QED  BY <1>1, <1>5, <1>11, <1>12, <1>13 DEF AudioInv

LEMMA AudioHolds == Spec => [](svc.config.reconnect \/ AudioInv)
<1> DEFINE I == svc.config.reconnect \/ AudioInv
<1>1. Init => I  BY InitAudio
<1>2. Inv /\ I /\ [Next]_vars => I'  BY ConfigKept, NextAudio
<1> HIDE DEF I
<1>3. Spec => []I  BY <1>1, <1>2, InvHolds, PTL DEF Spec
<1> QED  BY <1>3 DEF I

\* Without a reconnect the servers get audio in the order it was heard, whatever is
\* dropped, cleared, cancelled or lost on the way, and however the loops of two
\* connections overlap: there is one chunk at a time between the queue and a server,
\* and the pre-roll is queued before the first frame of its utterance (_send_loop,
\* _queue_audio_for_send, _flush_aggregate_buffer, _enqueue_chunk).
THEOREM AudioOrderKept == Spec => []LateAudioHasCause
<1>1. (svc.config.reconnect \/ AudioInv) => LateAudioHasCause
  BY DEF AudioInv, LateAudioHasCause, AudioInOrder
<1> QED  BY <1>1, AudioHolds, PTL

-----------------------------------------------------------------------------
(* Who closes what                                                         *)

\* A loop works until it ends, or its connection is gone and it disconnects.
WorkPlaces == {"s_new", "s_loop", "s_get", "s_take", "s_sent", "r_new", "r_loop", "r_recv", "r_push", "r_ponged"}
Works(t) == Inside(t, WorkPlaces) /\ ~Tops(t, {"raise"})

\* A close that awaits tasks, and one that is past that.
WaitPlaces == {"close_tasks", "close_await"}
PastPlaces == {"closing", "disconnected"}
Todo(t) == ToSet(Frame(t).todo)
Current == {svc.sendTask, svc.recvTask} \ {NoTask}

\* A loop is not a call of somebody else.
HomeInv ==
    \A t \in Loops : \A i \in DOMAIN stack[t] :
        stack[t][i].at \notin {"idle", "ended"} /\ (stack[t][i].at = "close" => i = 1)

\* The loops there are, and those a close is about, are of one connection.
EraInv ==
    \E k \in Conns :
        /\ svc.ws \in {0, k}
        /\ svc.sendTask \in {NoTask, SendTask(k)} /\ svc.recvTask \in {NoTask, RecvTask(k)}
        /\ \A t \in Tasks : Tops(t, WaitPlaces) => Todo(t) \subseteq {SendTask(k), RecvTask(k)} \ {t}

\* A close awaits every loop that is left, and has cancelled those that work; past
\* that there is none; two loops that await each other do not both go on.
WaitInv ==
    /\ \A t \in Tasks : Tops(t, WaitPlaces) =>
         /\ \A u \in Current \ {t} : Alive(u) => u \in Todo(t)
         /\ \A u \in Todo(t) : Works(u) => u \in cancelled
    /\ \A t \in Tasks : Tops(t, PastPlaces) => Current = {}
    /\ \A t, u \in Loops :
         Tops(t, WaitPlaces) /\ Tops(u, WaitPlaces) /\ u \in Todo(t) /\ t \in Todo(u)
           => {t, u} \cap cancelled # {}

\* A loop that works and is not cancelled is one of the current connection.
WorkInv == \A u \in Loops : Works(u) /\ u \notin cancelled => u \in Current /\ svc.ws # 0

CloseInv == HomeInv /\ EraInv /\ WaitInv /\ WorkInv
-----------------------------------------------------------------------------
(* Steps of a task                                                         *)

\* The stack of a task has frames at places of P and some it had; if the topmost
\* is one of these, it is the caller of the last.
Proper(t, f, i) == /\ f.at = "close" => f.forGood /\ (t \in Loops => i = 1)
                   /\ f.at = "disconnected" => i > 1
Adds(t, P) ==
    /\ \A u \in Tasks : u # t => stack'[u] = stack[u]
    /\ \A i \in DOMAIN stack'[t] :
         \/ stack'[t][i].at \in P /\ Proper(t, stack'[t][i], i)
         \/ \E j \in DOMAIN stack[t] : j > 1 /\ stack'[t][i] = stack[t][j] /\ (i = 1 => j = 2)

LEMMA AddsOver ==
    ASSUME Inv, NEW t \in Tasks, stack[t] # <<>>, NEW S, NEW w \in Seq(S), NEW P,
           \A i \in DOMAIN w : w[i].at \in P /\ Proper(t, w[i], i),
           stack' = [stack EXCEPT ![t] = w \o Callers(t)]
    PROVE  Adds(t, P)
<1> DEFINE s == Callers(t)
           r == w \o s
<1>1. s \in Seq(Frames) /\ stack[t] \in Seq(Frames)  BY StackTyped DEF Inv
<1>2. w \in Seq(S \cup Frames) /\ s \in Seq(S \cup Frames)  BY <1>1, SeqMonotonic
<1>3. /\ DOMAIN r = 1..(Len(w) + Len(s))
      /\ \A i \in 1..(Len(w) + Len(s)) : r[i] = IF i <= Len(w) THEN w[i] ELSE s[i - Len(w)]
  BY <1>2, ConcatAre
<1>4. Len(w) \in Nat /\ Len(s) \in Nat /\ DOMAIN w = 1..Len(w) /\ \A m \in 1..Len(s) :
          m + 1 \in DOMAIN stack[t] /\ m + 1 > 1 /\ s[m] = stack[t][m + 1]
  BY <1>1 DEF Callers
<1>5. stack'[t] = r /\ \A u \in Tasks : u # t => stack'[u] = stack[u]  BY DEF Inv, Slots, TypeInv
<1> HIDE DEF r, s
<1>6. ASSUME NEW i \in DOMAIN r
      PROVE  \/ r[i].at \in P /\ Proper(t, r[i], i)
             \/ \E j \in DOMAIN stack[t] : j > 1 /\ r[i] = stack[t][j] /\ (i = 1 => j = 2)
  <2>1. CASE i <= Len(w)
    <3>1. i \in DOMAIN w /\ r[i] = w[i]  BY <1>3, <1>4, <2>1
    <3> QED  BY <3>1
  <2>2. CASE ~(i <= Len(w))
    <3> DEFINE m == i - Len(w)
    <3>1. m \in 1..Len(s) /\ (i = 1 => m = 1) /\ i \in 1..(Len(w) + Len(s))  BY <1>3, <1>4, <2>2
    <3>2. r[i] = s[m]  BY <1>3, <2>2, <3>1
    <3> HIDE DEF m
    <3>3. m + 1 \in DOMAIN stack[t] /\ m + 1 > 1 /\ r[i] = stack[t][m + 1] /\ (i = 1 => m + 1 = 2)
      BY <1>4, <3>1, <3>2
    <3> QED  BY <3>3
  <2> QED  BY <2>1, <2>2
<1> QED  BY <1>5, <1>6 DEF Adds

LEMMA AddsGoto ==
    ASSUME Inv, NEW t \in Tasks, NEW l, Wakes(t, l) \/ Runs(t, l), NEW f, Goto(t, f), NEW P, f.at \in P,
           f.at \notin {"close", "disconnected"}
    PROVE  Adds(t, P)
<1> DEFINE w == <<f>>
<1>1. w \in Seq({f}) /\ DOMAIN w = {1} /\ w[1] = f  OBVIOUS
<1>2. stack' = [stack EXCEPT ![t] = w \o Callers(t)]  BY DEF Goto, Becomes
<1> HIDE DEF w
<1>3. \A i \in DOMAIN w : w[i].at \in P /\ Proper(t, w[i], i)  BY <1>1 DEF Proper
<1>4. stack[t] # <<>>  BY Nonempty
<1> QED  BY <1>1, <1>2, <1>3, <1>4, AddsOver

LEMMA AddsCall ==
    ASSUME Inv, NEW t \in Tasks, NEW l, Wakes(t, l) \/ Runs(t, l), NEW g, NEW f, Call(t, g, f), NEW P,
           g.at \in P, f.at \in P, g.at \notin {"close", "disconnected"}, f.at \notin {"close", "disconnected"}
    PROVE  Adds(t, P)
<1> DEFINE w == <<g, f>>
<1>1. w \in Seq({g, f}) /\ DOMAIN w = {1, 2} /\ w[1] = g /\ w[2] = f
  <2>1. DOMAIN w = 1..2  OBVIOUS
  <2> QED  BY <2>1
<1>2. stack' = [stack EXCEPT ![t] = w \o Callers(t)]  BY DEF Call, Becomes
<1> HIDE DEF w
<1>3. \A i \in DOMAIN w : w[i].at \in P /\ Proper(t, w[i], i)  BY <1>1 DEF Proper
<1>4. stack[t] # <<>>  BY Nonempty
<1> QED  BY <1>1, <1>2, <1>3, <1>4, AddsOver

LEMMA AddsReturn ==
    ASSUME Inv, NEW t \in Tasks, NEW l, Wakes(t, l) \/ Runs(t, l), Return(t), NEW P
    PROVE  Adds(t, P)
<1> DEFINE w == <<>>
<1>0. Callers(t) \in Seq(Frames) /\ stack[t] # <<>>  BY Nonempty, StackTyped DEF Inv
<1>1. w \in Seq({}) /\ DOMAIN w = {} /\ w \o Callers(t) = Callers(t)  BY <1>0, ConcatEmptySeq
<1>2. stack' = [stack EXCEPT ![t] = w \o Callers(t)]  BY <1>1 DEF Return, Becomes
<1> HIDE DEF w
<1> QED  BY <1>0, <1>1, <1>2, AddsOver

LEMMA AddsRaise ==
    ASSUME Inv, NEW t \in Tasks, NEW l, Wakes(t, l) \/ Runs(t, l), NEW e, Raise(t, e), NEW P, "raise" \in P
    PROVE  Adds(t, P)
<1> DEFINE f == [at |-> "raise", exc |-> e]
<1>1. f.at = "raise" /\ Goto(t, f)  BY DEF Raise
<1> HIDE DEF f
<1> QED  BY <1>1, AddsGoto

LEMMA AddsEnds ==
    ASSUME Inv, NEW t \in Tasks, NEW r, Ends(t, r), NEW P
    PROVE  Adds(t, P)
<1>1. stack'[t] = <<>> /\ \A u \in Tasks : u # t => stack'[u] = stack[u]  BY DEF Ends, Inv, Slots, TypeInv
<1> QED  BY <1>1 DEF Adds

LEMMA AddsWhole ==
    ASSUME Inv, NEW t \in Tasks, NEW w, Becomes(t, w), NEW P,
           \A i \in DOMAIN w : w[i].at \in P /\ Proper(t, w[i], i)
    PROVE  Adds(t, P)
<1>1. stack' = [stack EXCEPT ![t] = w]  BY DEF Becomes
<1>2. stack'[t] = w /\ \A u \in Tasks : u # t => stack'[u] = stack[u]  BY <1>1 DEF Inv, Slots, TypeInv
<1> QED  BY <1>2 DEF Adds

\* Where a coroutine may be that has called another one.
CallerPlaces ==
    {"audio", "start_connected", "begun", "start_sent", "final_sent", "s_sent", "r_ponged", "cancel_sent", "close",
     "disconnected", "s_gone", "r_end", "final_done", "ended", "idle", "flushed"}

LEMMA Callee ==
    ASSUME Inv, NestInv, NEW t \in Tasks, NEW i \in DOMAIN stack[t], i > 1
    PROVE  /\ i - 1 \in DOMAIN stack[t] /\ <<stack[t][i - 1].at, stack[t][i].at>> \in Nesting
           /\ stack[t][i].at \in CallerPlaces
<1>1. stack[t] \in Seq(Frames) /\ Straight(stack[t])  BY DEF Inv, Slots, TypeInv, NestInv
<1>2. i - 1 \in DOMAIN stack[t] /\ <<stack[t][i - 1].at, stack[t][i].at>> \in Nesting  BY <1>1 DEF Straight
<1>3. stack[t][i].at # "none"
  <2>1. stack[t][i] \in Frames  BY <1>1
  <2> QED  BY <2>1 DEF Frames, QuietFrames, LoopFrames, AudioFrames, FinalFrames, CloseFrames, SendFrames, QuietPlaces,
               SendPlaces, AudioPlaces, FinalPlaces
<1> QED  BY <1>2, <1>3 DEF Nesting, CallerPlaces, LoopPlaces, SendPlaces

LEMMA Bottom ==
    ASSUME Inv, NestInv, NEW t \in Tasks, NEW i \in DOMAIN stack[t], i + 1 \notin DOMAIN stack[t]
    PROVE  stack[t][i].at \in LoopPlaces \cup {"raise"}
<1>1. stack[t] \in Seq(Frames) /\ Ground(stack[t]) /\ i = Len(stack[t]) /\ stack[t] # <<>>
  BY DEF Inv, Slots, TypeInv, NestInv
<1>2. <<stack[t][i].at, "none">> \in Nesting  BY <1>1 DEF Ground
<1> QED  BY <1>2 DEF Nesting

\* A loop that works is innermost, or sends.
LEMMA WorksTop ==
    ASSUME Inv, NestInv, NEW t \in Tasks, Works(t)
    PROVE  /\ stack[t] # <<>>
           /\ \/ Frame(t).at \in WorkPlaces /\ Callers(t) = <<>>
              \/ /\ Frame(t).at \in {"send", "sending"} /\ 2 \in DOMAIN stack[t]
                 /\ stack[t][2].at \in {"s_sent", "r_ponged"} /\ 3 \notin DOMAIN stack[t]
<1>1. PICK i \in DOMAIN stack[t] : stack[t][i].at \in WorkPlaces  BY DEF Works, Inside
<1>2. stack[t] \in Seq(Frames) /\ stack[t] # <<>> /\ Frame(t) = stack[t][1] /\ 1 \in DOMAIN stack[t] /\ i \in Nat /\ i >= 1
  <2>1. stack[t] # <<>>  BY <1>1
  <2> QED  BY <2>1, StackTyped DEF Inv
<1>3. i + 1 \notin DOMAIN stack[t]
  <2> SUFFICES ASSUME i + 1 \in DOMAIN stack[t] PROVE FALSE  OBVIOUS
  <2>1. <<stack[t][i].at, stack[t][i + 1].at>> \in Nesting /\ stack[t][i + 1].at \in CallerPlaces
    <3>1. i + 1 > 1 /\ (i + 1) - 1 = i  BY <1>2
    <3> QED  BY <3>1, Callee
  <2> QED  BY <1>1, <2>1 DEF WorkPlaces, Nesting, CallerPlaces, ConnectPlaces, StartPlaces, ClosePlaces
<1>4. CASE i = 1
  <2>1. Callers(t) = <<>>  BY <1>2, <1>3, <1>4 DEF Callers
  <2> QED  BY <1>1, <1>2, <1>4, <2>1
<1>5. CASE i > 1
  <2>1. i - 1 \in DOMAIN stack[t] /\ <<stack[t][i - 1].at, stack[t][i].at>> \in Nesting /\ stack[t][i].at \in CallerPlaces
    BY <1>5, Callee
  <2>2. stack[t][i].at \in {"s_sent", "r_ponged"}  BY <1>1, <2>1 DEF WorkPlaces, CallerPlaces
  <2>3. stack[t][i - 1].at \in {"send", "sending", "raise"}
    BY <2>1, <2>2 DEF Nesting, LoopPlaces, SendPlaces
  <2>4. i = 2
    <3> SUFFICES ASSUME i # 2 PROVE FALSE  OBVIOUS
    <3>1. i - 1 > 1  BY <1>2, <1>5
    <3>2. stack[t][i - 1].at \in CallerPlaces  BY <2>1, <3>1, Callee
    <3> QED  BY <2>3, <3>2 DEF CallerPlaces
  <2>5. stack[t][1].at # "raise"  BY <1>2 DEF Works, Tops
  <2> QED  BY <1>2, <1>3, <2>2, <2>3, <2>4, <2>5
<1> QED  BY <1>2, <1>4, <1>5

\* Of those inside a close none works.
LEMMA CloserIdle ==
    ASSUME Inv, NestInv, NEW t \in Tasks, Tops(t, ClosePlaces \cup {"disconnected", "s_gone", "r_end", "r_failed"})
    PROVE  ~Works(t)
BY WorksTop DEF Tops, ClosePlaces, WorkPlaces

\* A loop is in none of the coroutines of the pipeline or of the controller.
LEMMA LoopPlain ==
    ASSUME Inv, NestInv, HomeInv, NEW u \in Loops, NEW i \in DOMAIN stack[u]
    PROVE  stack[u][i].at \notin AudioPlaces \cup FinalPlaces \cup StartPlaces \cup ConnectPlaces
                                 \cup {"idle", "ended", "cancel_sent"}
<1>1. u \in Tasks /\ u # Pipeline  BY PlacesApart DEF Tasks, Loops
<1>2. \A j \in DOMAIN stack[u] : stack[u][j].at \notin AudioPlaces \cup FinalPlaces
  BY <1>1 DEF Inv, Slots, TaskInv, Inside
<1>3. \A j \in DOMAIN stack[u] : stack[u][j].at \notin {"idle", "ended"}  BY DEF HomeInv
<1>4. ASSUME NEW j \in DOMAIN stack[u], stack[u][j].at \in StartPlaces \cup ConnectPlaces \cup {"cancel_sent"}
      PROVE  j + 1 \in DOMAIN stack[u] /\ stack[u][j].at \in ConnectPlaces /\ stack[u][j + 1].at = "start_connected"
  <2>0. stack[u] \in Seq(Frames) /\ j \in Nat /\ j >= 1  BY <1>1 DEF Inv, Slots, TypeInv
  <2>1. j + 1 \in DOMAIN stack[u]
    <3>1. stack[u][j].at \notin LoopPlaces \cup {"raise"}
      BY <1>4 DEF StartPlaces, ConnectPlaces, LoopPlaces, SendPlaces
    <3> QED  BY <1>1, <3>1, Bottom
  <2>2. <<stack[u][j].at, stack[u][j + 1].at>> \in Nesting /\ stack[u][j + 1].at \in CallerPlaces
    <3>1. j + 1 > 1 /\ (j + 1) - 1 = j  BY <2>0
    <3> QED  BY <1>1, <2>1, <3>1, Callee
  <2>3. stack[u][j + 1].at \notin AudioPlaces \cup {"idle"}  BY <1>2, <1>3, <2>1
  <2> QED  BY <1>4, <2>1, <2>2, <2>3 DEF Nesting, StartPlaces, ConnectPlaces, AudioPlaces, LoopPlaces, SendPlaces,
             CallerPlaces, ClosePlaces
<1>5. stack[u][i].at \notin StartPlaces \cup ConnectPlaces \cup {"cancel_sent"}
  <2> SUFFICES ASSUME stack[u][i].at \in StartPlaces \cup ConnectPlaces \cup {"cancel_sent"} PROVE FALSE
    OBVIOUS
  <2>1. i + 1 \in DOMAIN stack[u] /\ stack[u][i + 1].at = "start_connected"  BY <1>4
  <2>2. stack[u][i + 1].at \in ConnectPlaces  BY <1>4, <2>1 DEF StartPlaces
  <2> QED  BY <2>1, <2>2 DEF ConnectPlaces
<1> QED  BY <1>2, <1>3, <1>5

\* A loop that does not work is at rest only inside a close.
LEMMA LoopAtRest ==
    ASSUME Inv, NestInv, HomeInv, NEW u \in Loops, running # u, Alive(u), ~Works(u)
    PROVE  Tops(u, {"close_await", "closing"})
<1>1. /\ u \in Tasks /\ stack[u] # <<>> /\ Frame(u) = stack[u][1] /\ 1 \in DOMAIN stack[u]
      /\ stack[u] \in Seq(Frames)
  BY StackTyped DEF Inv, Tasks, Alive
<1>2. Frame(u).at \in Awaits  BY <1>1, PlacesApart DEF Inv, Slots, TaskInv, Frame
<1>3. Frame(u).at # "raise"  BY <1>2 DEF Awaits
<1>4. \A i \in DOMAIN stack[u] : stack[u][i].at \notin WorkPlaces  BY <1>3 DEF Works, Inside, Tops
<1>5. \A i \in DOMAIN stack[u] :
        stack[u][i].at \notin AudioPlaces \cup FinalPlaces \cup StartPlaces \cup ConnectPlaces
                              \cup {"idle", "ended", "cancel_sent"}
  BY LoopPlain
<1>6. Frame(u).at \in {"sending", "close_await", "closing"}
  BY <1>1, <1>2, <1>4, <1>5 DEF Awaits, WorkPlaces, AudioPlaces, FinalPlaces, StartPlaces, ConnectPlaces
<1>7. Frame(u).at # "sending"
  <2> SUFFICES ASSUME Frame(u).at = "sending" PROVE FALSE  OBVIOUS
  <2>1. 2 \in DOMAIN stack[u]
    <3>1. stack[u][1].at \notin LoopPlaces \cup {"raise"}  BY <1>1 DEF LoopPlaces, SendPlaces
    <3> QED  BY <1>1, <3>1, Bottom
  <2>2. <<"sending", stack[u][2].at>> \in Nesting /\ stack[u][2].at \in CallerPlaces
    <3>1. 2 > 1 /\ 2 - 1 = 1  OBVIOUS
    <3> QED  BY <1>1, <2>1, <3>1, Callee
  <2>3. stack[u][2].at # "close"  BY <2>1 DEF HomeInv
  <2>4. stack[u][2].at \notin WorkPlaces /\ stack[u][2].at \notin FinalPlaces \cup StartPlaces \cup {"cancel_sent"}
    BY <1>4, <1>5, <2>1
  <2> QED  BY <2>2, <2>3, <2>4 DEF Nesting, WorkPlaces, FinalPlaces, StartPlaces, LoopPlaces, SendPlaces, CallerPlaces,
             ConnectPlaces, ClosePlaces
<1> QED  BY <1>1, <1>6, <1>7 DEF Tops

\* When a connection is made nobody is inside a close.
LEMMA NobodyCloses ==
    ASSUME Inv, ConnInv, NestInv, CloseInv, running = NoTask, TimePasses, svc.ws = 0, NEW t \in Tasks
    PROVE  ~Tops(t, WaitPlaces \cup PastPlaces)
<1>0. \A x \in Tasks : stack[x] # <<>> => Frame(x).at \in Awaits
  BY PlacesApart DEF Inv, Slots, TaskInv, Frame
<1>1. ASSUME NEW x \in Tasks, Tops(x, {"closing"}) PROVE FALSE
  <2>1. Shuts(Frame(x).conn)  BY <1>1 DEF ConnInv, Placed
  <2>2. conn[Frame(x).conn] = "gone"  BY <2>1 DEF Shuts, Conns
  <2>3. Ready(x)  BY <1>1, <2>2 DEF Ready, IsAt, Tops, Frame
  <2> QED  BY <2>3 DEF TimePasses
<1>2. ASSUME NEW x \in Tasks, Tops(x, {"close_await"})
      PROVE  \E u \in Loops : /\ u \in Todo(x) /\ Head(Frame(x).todo) = u /\ u \notin cancelled
                              /\ Tops(u, {"close_await"})
  <2> DEFINE u == Head(Frame(x).todo)
  <2>1. Frame(x) \in Frames /\ Frame(x).at = "close_await"  BY <1>2, StackTyped DEF Inv, Tops
  <2>2. Frame(x).todo \in Seq(Tasks) /\ Frame(x).todo # <<>>
    BY <2>1 DEF Frames, QuietFrames, LoopFrames, AudioFrames, FinalFrames, CloseFrames, SendFrames, QuietPlaces,
         SendPlaces, AudioPlaces, FinalPlaces
  <2>3. u \in Todo(x)
    <3>1. 1 \in DOMAIN Frame(x).todo /\ u = Frame(x).todo[1]  BY <2>2
    <3> QED  BY <3>1, ToSetIs DEF Todo
  <2>4. Tops(x, WaitPlaces)  BY <1>2 DEF Tops, WaitPlaces
  <2>5. u \in Loops
    <3>1. PICK k \in Conns : Todo(x) \subseteq {SendTask(k), RecvTask(k)} \ {x}  BY <2>4 DEF CloseInv, EraInv
    <3> HIDE DEF u
    <3> QED  BY <2>3, <3>1 DEF Loops
  <2>6. Alive(u)
    <3> SUFFICES ASSUME ~Alive(u) PROVE FALSE  OBVIOUS
    <3>1. Ready(x)  BY <1>2 DEF Ready, IsAt, Tops, Frame
    <3> QED  BY <3>1 DEF TimePasses
  <2>7. u \in Tasks  BY <2>5 DEF Tasks
  <2> HIDE DEF u
  <2>8. u \notin cancelled
    <3> SUFFICES ASSUME u \in cancelled PROVE FALSE  OBVIOUS
    <3>1. Ready(u)  BY <2>6 DEF Ready
    <3> QED  BY <2>7, <3>1 DEF TimePasses
  <2>9. ~Works(u)  BY <2>3, <2>4, <2>8 DEF CloseInv, WaitInv
  <2>10. Tops(u, {"close_await", "closing"})  BY <2>5, <2>6, <2>7, <2>9, LoopAtRest, PlacesApart DEF CloseInv
  <2>11. Tops(u, {"close_await"})  BY <1>1, <2>7, <2>10 DEF Tops
  <2> QED  BY <2>3, <2>5, <2>8, <2>11 DEF u
<1>3. ASSUME Tops(t, {"close_await"}) PROVE FALSE
  <2>1. PICK u \in Loops : u \in Todo(t) /\ u \notin cancelled /\ Tops(u, {"close_await"})  BY <1>2, <1>3
  <2>2. PICK v \in Loops : v \in Todo(u) /\ v \notin cancelled /\ Tops(v, {"close_await"})
    BY <1>2, <2>1 DEF Tasks
  <2>3. PICK x \in Loops : x \in Todo(v) /\ x \notin cancelled /\ Tops(x, {"close_await"})
    BY <1>2, <2>2 DEF Tasks
  <2>4. PICK k \in Conns : \A y \in Tasks : Tops(y, WaitPlaces) => Todo(y) \subseteq {SendTask(k), RecvTask(k)} \ {y}
    BY DEF CloseInv, EraInv
  <2>5. u \in Tasks /\ v \in Tasks /\ Tops(t, WaitPlaces) /\ Tops(u, WaitPlaces) /\ Tops(v, WaitPlaces)
    BY <1>3, <2>1, <2>2 DEF Tasks, Tops, WaitPlaces
  <2>6. u \in {SendTask(k), RecvTask(k)} /\ v \in {SendTask(k), RecvTask(k)} \ {u}
        /\ x \in {SendTask(k), RecvTask(k)} \ {v}
    BY <2>1, <2>2, <2>3, <2>4, <2>5
  <2>7. x = u  BY <2>6
  <2> QED  BY <2>1, <2>2, <2>3, <2>5, <2>7 DEF CloseInv, WaitInv
<1>4. ASSUME Tops(t, WaitPlaces \cup PastPlaces) PROVE FALSE
  <2>1. Frame(t).at \in Awaits /\ stack[t] # <<>>  BY <1>0, <1>4 DEF Tops
  <2>2. Frame(t).at \in {"close_await", "closing"}  BY <1>4, <2>1 DEF Tops, WaitPlaces, PastPlaces, Awaits
  <2> QED  BY <1>1, <1>3, <2>1, <2>2 DEF Tops
<1> QED  BY <1>4

-----------------------------------------------------------------------------
(* Steps of a task that is not inside a close                              *)

HomeFrame(f, i) == f.at \notin {"idle", "ended"} /\ (f.at = "close" => i = 1)
SameLoops(t) ==
    /\ svc'.ws = svc.ws \/ (svc'.ws = 0 /\ Current = {})
    /\ svc'.sendTask = svc.sendTask /\ svc'.recvTask = svc.recvTask
    /\ cancelled' = cancelled \/ (cancelled' = cancelled \ {t} /\ ~Works(t)')
Steady(t) ==
    /\ \A u \in Tasks : u # t => stack'[u] = stack[u]
    /\ ~Tops(t, WaitPlaces \cup PastPlaces)' /\ (Alive(t)' => Alive(t))
    /\ t \in Loops => /\ Works(t)' => Works(t)
                      /\ \A i \in DOMAIN stack'[t] : HomeFrame(stack'[t][i], i)

LEMMA SameStack ==
    ASSUME NEW u, stack'[u] = stack[u]
    PROVE  /\ \A P : Tops(u, P)' = Tops(u, P)
           /\ Works(u)' = Works(u) /\ Alive(u)' = Alive(u) /\ Todo(u)' = Todo(u) /\ Frame(u)' = Frame(u)
<1>1. Frame(u)' = Frame(u)  BY DEF Frame
<1>2. Todo(u)' = Todo(u)  BY <1>1 DEF Todo
<1>3. Tops(u, {"raise"})' = Tops(u, {"raise"}) /\ Inside(u, WorkPlaces)' = Inside(u, WorkPlaces)
  BY <1>1 DEF Tops, Inside, WorkPlaces
<1>4. \A P : Tops(u, P)' = Tops(u, P)  BY <1>1 DEF Tops
<1> QED  BY <1>1, <1>2, <1>3, <1>4 DEF Works, Alive

LEMMA SteadyKeeps ==
    ASSUME Inv, CloseInv, NEW t \in Tasks, Steady(t), SameLoops(t)
    PROVE  CloseInv'
<1>1. \A u \in Tasks : u # t => /\ \A P : Tops(u, P)' = Tops(u, P)
                                /\ Works(u)' = Works(u) /\ Alive(u)' = Alive(u) /\ Todo(u)' = Todo(u)
  BY SameStack DEF Steady
<1>2. /\ ~Tops(t, WaitPlaces)' /\ ~Tops(t, PastPlaces)' /\ (Alive(t)' => Alive(t))
      /\ t \in Loops => (Works(t)' => Works(t))
  BY DEF Steady, Tops
<1>3. Current' = Current  BY DEF SameLoops, Current
<1>4. HomeInv'
  <2> SUFFICES ASSUME NEW u \in Loops, NEW i \in DOMAIN stack'[u]
               PROVE  stack'[u][i].at \notin {"idle", "ended"} /\ (stack'[u][i].at = "close" => i = 1)
    BY DEF HomeInv
  <2>1. u \in Tasks  BY DEF Tasks
  <2> QED  BY <2>1 DEF Steady, CloseInv, HomeInv, HomeFrame
<1>5. EraInv'
  <2>1. PICK k \in Conns :
          /\ svc.ws \in {0, k}
          /\ svc.sendTask \in {NoTask, SendTask(k)} /\ svc.recvTask \in {NoTask, RecvTask(k)}
          /\ \A u \in Tasks : Tops(u, WaitPlaces) => Todo(u) \subseteq {SendTask(k), RecvTask(k)} \ {u}
    BY DEF CloseInv, EraInv
  <2>2. \A u \in Tasks : Tops(u, WaitPlaces)' => Todo(u)' \subseteq {SendTask(k), RecvTask(k)} \ {u}
    BY <1>1, <1>2, <2>1
  <2> QED  BY <2>1, <2>2 DEF SameLoops, EraInv
<1>6. \A u \in Loops : u \in Tasks  BY DEF Tasks
<1>a. /\ \A u \in cancelled : Works(u)' \/ u # t => u \in cancelled'
      /\ \A u : Works(u)' /\ u \notin cancelled' => u \notin cancelled
  BY DEF SameLoops
<1>7. WaitInv'
  <2>1. ASSUME NEW u \in Tasks, Tops(u, WaitPlaces)'
        PROVE  /\ \A v \in Current' \ {u} : Alive(v)' => v \in Todo(u)'
               /\ \A v \in Todo(u)' : Works(v)' => v \in cancelled'
    <3>1. u # t /\ Tops(u, WaitPlaces) /\ Todo(u)' = Todo(u)  BY <1>1, <1>2, <2>1
    <3>2. \A v \in Current \ {u} : v \in Tasks
      BY DEF Current, Inv, Slots, TypeInv, Service
    <3>3. \A v \in Todo(u) : v \in Loops  BY <3>1 DEF CloseInv, EraInv, Loops
    <3>4. \A v \in Current \ {u} : Alive(v)' => Alive(v)  BY <1>1, <1>2, <3>2
    <3>5. \A v \in Todo(u) : Works(v)' => Works(v)  BY <1>1, <1>2, <1>6, <3>3
    <3> QED  BY <1>a, <1>3, <3>1, <3>4, <3>5 DEF CloseInv, WaitInv
  <2>2. \A u \in Tasks : Tops(u, PastPlaces)' => Current' = {}  BY <1>1, <1>2, <1>3 DEF CloseInv, WaitInv
  <2>3. ASSUME NEW u \in Loops, NEW v \in Loops, Tops(u, WaitPlaces)', Tops(v, WaitPlaces)', v \in Todo(u)', u \in Todo(v)'
        PROVE  {u, v} \cap cancelled' # {}
    BY <1>a, <1>1, <1>2, <1>3, <1>6, <2>3 DEF CloseInv, WaitInv
  <2> QED  BY <2>1, <2>2, <2>3 DEF WaitInv
<1>8. WorkInv'  BY <1>a, <1>1, <1>2, <1>3, <1>6 DEF CloseInv, WorkInv, SameLoops
<1> QED  BY <1>4, <1>5, <1>7, <1>8 DEF CloseInv

LEMMA StandsKeep ==
    ASSUME Inv, CloseInv, stack' = stack, svc'.ws = svc.ws, svc'.sendTask = svc.sendTask, svc'.recvTask = svc.recvTask,
           cancelled' = cancelled
    PROVE  CloseInv'
<1>1. \A u : /\ \A P : Tops(u, P)' = Tops(u, P)
             /\ Works(u)' = Works(u) /\ Alive(u)' = Alive(u) /\ Todo(u)' = Todo(u)
  BY SameStack
<1>3. Current' = Current /\ cancelled' = cancelled /\ svc'.ws = svc.ws  BY DEF Current
<1>4. HomeInv'  BY DEF CloseInv, HomeInv
<1>5. EraInv'  BY <1>1 DEF CloseInv, EraInv
<1>6. WaitInv'  BY <1>1, <1>3 DEF CloseInv, WaitInv
<1>7. WorkInv'  BY <1>1, <1>3 DEF CloseInv, WorkInv
<1> QED  BY <1>4, <1>5, <1>6, <1>7 DEF CloseInv

\* Where a coroutine goes that is not inside a close; a loop goes on with its work
\* only from there, and only the others have nothing to do.
OpenPlaces ==
    ConnectPlaces \cup StartPlaces \cup AudioPlaces \cup FinalPlaces
      \cup {"send", "sending", "raise", "close", "disconnected", "s_gone", "r_failed", "r_end", "cancel_sent"}
Open(t) ==
    OpenPlaces \cup (IF t \in Loops THEN IF Works(t) THEN WorkPlaces ELSE {} ELSE {"idle", "ended"})

\* Only a send is above a place where a loop works.
LEMMA DeepIdle ==
    ASSUME Inv, NestInv, NEW t \in Tasks, NEW j \in DOMAIN stack[t], j > 2
    PROVE  stack[t][j].at \notin WorkPlaces
<1>1. stack[t] \in Seq(Frames)  BY DEF Inv, Slots, TypeInv
<1>2. j > 1 /\ j \in Nat  BY <1>1
<1>3. j - 1 \in DOMAIN stack[t] /\ <<stack[t][j - 1].at, stack[t][j].at>> \in Nesting /\ stack[t][j].at \in CallerPlaces
  BY <1>2, Callee
<1>4. stack[t][j - 1].at \in CallerPlaces
  <2>1. j - 1 > 1  BY <1>2
  <2> QED  BY <1>3, <2>1, Callee
<1> SUFFICES ASSUME stack[t][j].at \in WorkPlaces PROVE FALSE
  OBVIOUS
<1>5. stack[t][j].at \in {"s_sent", "r_ponged"}  BY <1>3 DEF WorkPlaces, CallerPlaces
<1>6. stack[t][j - 1].at \in {"send", "sending", "raise"}  BY <1>3, <1>5 DEF Nesting, LoopPlaces, SendPlaces
<1> QED  BY <1>4, <1>6 DEF CallerPlaces

\* The topmost frame of a stack.
LEMMA TopAt ==
    ASSUME Inv', NEW t \in Tasks, stack'[t] # <<>>
    PROVE  1 \in DOMAIN stack'[t] /\ Frame(t)' = stack'[t][1]
<1>1. stack'[t] \in Seq(Frames)  BY DEF Inv, Slots, TypeInv
<1> QED  BY <1>1 DEF Frame

\* Such a step is steady.
LEMMA AddsSteady ==
    ASSUME Inv, Inv', NestInv, HomeInv, NEW t \in Tasks, stack[t] # <<>>, Adds(t, Open(t)),
           Frame(t).at \notin ClosePlaces \cup {"raise"}
    PROVE  Steady(t)
<1>1. stack[t] \in Seq(Frames) /\ Frame(t) = stack[t][1] /\ 1 \in DOMAIN stack[t]  BY StackTyped DEF Inv
<1>2. OpenPlaces \cap (WaitPlaces \cup {"closing"} \cup WorkPlaces \cup {"idle", "ended"}) = {}
  BY DEF OpenPlaces, WaitPlaces, WorkPlaces, ConnectPlaces, StartPlaces, AudioPlaces, FinalPlaces
<1>3. ~Tops(t, WaitPlaces \cup PastPlaces)'
  <2> SUFFICES ASSUME Tops(t, WaitPlaces \cup PastPlaces)' PROVE FALSE  OBVIOUS
  <2>1. 1 \in DOMAIN stack'[t] /\ stack'[t][1].at \in WaitPlaces \cup PastPlaces
    <3>1. stack'[t] # <<>> /\ (Frame(t)').at \in WaitPlaces \cup PastPlaces  BY DEF Tops
    <3> QED  BY <3>1, TopAt
  <2>2. CASE stack'[t][1].at \in Open(t) /\ Proper(t, stack'[t][1], 1)
    <3>1. stack'[t][1].at # "disconnected"  BY <2>2 DEF Proper
    <3> QED  BY <1>2, <2>1, <2>2, <3>1 DEF Open, WaitPlaces, PastPlaces, WorkPlaces
  <2>3. ASSUME 2 \in DOMAIN stack[t], stack'[t][1] = stack[t][2] PROVE FALSE
    <3>1. 2 > 1 /\ 2 - 1 = 1  OBVIOUS
    <3>2. <<stack[t][1].at, stack[t][2].at>> \in Nesting /\ stack[t][2].at \in CallerPlaces
      BY <2>3, <3>1, Callee
    <3>3. stack[t][2].at = "disconnected"
      BY <2>1, <2>3, <3>2 DEF WaitPlaces, PastPlaces, CallerPlaces
    <3>4. stack[t][1].at \in ClosePlaces \cup {"raise"}
      BY <3>2, <3>3 DEF Nesting, ConnectPlaces, StartPlaces, ClosePlaces
    <3> QED  BY <1>1, <3>4
  <2> QED  BY <2>1, <2>2, <2>3 DEF Adds
<1>4. ASSUME t \in Loops
      PROVE  /\ Works(t)' => Works(t)
             /\ \A i \in DOMAIN stack'[t] : HomeFrame(stack'[t][i], i)
  <2>1. ASSUME NEW i \in DOMAIN stack'[t]
        PROVE  /\ HomeFrame(stack'[t][i], i)
               /\ stack'[t][i].at \in WorkPlaces => Works(t)
    <3>1. CASE stack'[t][i].at \in Open(t) /\ Proper(t, stack'[t][i], i)
      BY <1>2, <1>4, <3>1 DEF Open, Proper, HomeFrame, WorkPlaces
    <3>2. ASSUME NEW j \in DOMAIN stack[t], j > 1, stack'[t][i] = stack[t][j]
          PROVE  /\ HomeFrame(stack'[t][i], i)
                 /\ stack'[t][i].at \in WorkPlaces => Works(t)
      <4>1. HomeFrame(stack[t][j], i)  BY <1>4, <3>2 DEF HomeInv, HomeFrame
      <4>2. stack[t][j].at \in WorkPlaces => Works(t)  BY <1>1 DEF Works, Inside, Tops
      <4> QED  BY <3>2, <4>1, <4>2
    <3> QED  BY <3>1, <3>2 DEF Adds
  <2>2. Works(t)' => \E i \in DOMAIN stack'[t] : stack'[t][i].at \in WorkPlaces  BY DEF Works, Inside
  <2> QED  BY <2>1, <2>2
<1>5. Alive(t)  BY PlacesApart DEF Alive
<1> QED  BY <1>3, <1>4, <1>5 DEF Steady, Adds

-----------------------------------------------------------------------------
(* The steps of the coroutines every task may be in                        *)

Stays(t) == Adds(t, Open(t)) /\ Frame(t).at \notin ClosePlaces \cup {"raise"} /\ stack[t] # <<>>

LEMMA StaysKeeps ==
    ASSUME Inv, Inv', NestInv, CloseInv, NEW t \in Tasks, Stays(t), SameLoops(t)
    PROVE  CloseInv'
<1>1. Steady(t)  BY AddsSteady DEF Stays, CloseInv
<1> QED  BY <1>1, SteadyKeeps

LEMMA StaysGoto ==
    ASSUME Inv, NEW t \in Tasks, NEW l, l \notin ClosePlaces \cup {"raise"}, Wakes(t, l) \/ Runs(t, l), NEW f,
           f.at \in Open(t) \ {"close", "disconnected"}, Goto(t, f)
    PROVE  Stays(t)
<1>1. Adds(t, Open(t))  BY AddsGoto
<1> QED  BY <1>1, Nonempty DEF Stays

LEMMA StaysCall ==
    ASSUME Inv, NEW t \in Tasks, NEW l, l \notin ClosePlaces \cup {"raise"}, Wakes(t, l) \/ Runs(t, l), NEW f, NEW g,
           f.at \in Open(t) \ {"close", "disconnected"}, g.at \in Open(t) \ {"close", "disconnected"}, Call(t, g, f)
    PROVE  Stays(t)
<1>1. Adds(t, Open(t))  BY AddsCall
<1> QED  BY <1>1, Nonempty DEF Stays

LEMMA StaysReturn ==
    ASSUME Inv, NEW t \in Tasks, NEW l, l \notin ClosePlaces \cup {"raise"}, Wakes(t, l) \/ Runs(t, l), Return(t)
    PROVE  Stays(t)
<1>1. Adds(t, Open(t))  BY AddsReturn
<1> QED  BY <1>1, Nonempty DEF Stays

LEMMA StaysRaise ==
    ASSUME Inv, NEW t \in Tasks, NEW l, l \notin ClosePlaces \cup {"raise"}, Wakes(t, l) \/ Runs(t, l), NEW e, Raise(t, e)
    PROVE  Stays(t)
<1>1. "raise" \in Open(t)  BY DEF Open, OpenPlaces
<1>2. Adds(t, Open(t))  BY <1>1, AddsRaise
<1> QED  BY <1>2, Nonempty DEF Stays

LEMMA StaysEnds ==
    ASSUME Inv, NEW t \in Tasks, NEW l, l \notin ClosePlaces \cup {"raise"}, Wakes(t, l) \/ Runs(t, l), NEW r, Ends(t, r)
    PROVE  Stays(t)
<1>1. Adds(t, Open(t))  BY AddsEnds
<1> QED  BY <1>1, Nonempty DEF Stays

LEMMA StaysWhole ==
    ASSUME Inv, NEW t \in Tasks, NEW l, l \notin ClosePlaces \cup {"raise"}, Wakes(t, l) \/ Runs(t, l), NEW w, Becomes(t, w),
           \A i \in DOMAIN w : w[i].at \in Open(t) /\ Proper(t, w[i], i)
    PROVE  Stays(t)
<1>1. Adds(t, Open(t))  BY AddsWhole
<1> QED  BY <1>1, Nonempty DEF Stays

LEMMA StaysOver ==
    ASSUME Inv, NEW t \in Tasks, NEW l, l \notin ClosePlaces \cup {"raise"}, Wakes(t, l) \/ Runs(t, l),
           NEW S, NEW w \in Seq(S), Becomes(t, w \o Callers(t)),
           \A i \in DOMAIN w : w[i].at \in Open(t) /\ Proper(t, w[i], i)
    PROVE  Stays(t)
<1>1. stack' = [stack EXCEPT ![t] = w \o Callers(t)]  BY DEF Becomes
<1>2. stack[t] # <<>>  BY Nonempty
<1>3. Adds(t, Open(t))  BY <1>1, <1>2, AddsOver
<1> QED  BY <1>3, Nonempty DEF Stays

\* What a disconnect pushes, with or without the frame it returns to.
LEMMA DisconnectingAre ==
    LET D == Disconnecting
    IN  /\ DOMAIN D = {1, 2} /\ Len(D) = 2 /\ D[1].at = "close" /\ D[1].forGood /\ D[2].at = "disconnected"
        /\ D \in Seq({D[1], D[2]})
        /\ \A t : \A i \in DOMAIN D : D[i].at \in OpenPlaces /\ Proper(t, D[i], i)
<1> DEFINE g == [at |-> "close", forGood |-> TRUE]
           f == At("disconnected")
           w == <<g, f>>
<1>1. Disconnecting = w  BY DEF Disconnecting
<1>2. g.at = "close" /\ g.forGood /\ f.at = "disconnected"  BY AtIs
<1> HIDE DEF g, f
<1>3. DOMAIN w = {1, 2} /\ Len(w) = 2 /\ w[1] = g /\ w[2] = f /\ w \in Seq({g, f})
  <2>1. DOMAIN w = 1..2  OBVIOUS
  <2> QED  BY <2>1
<1> HIDE DEF w
<1>4. \A t : \A i \in DOMAIN w : w[i].at \in OpenPlaces /\ Proper(t, w[i], i)
  BY <1>2, <1>3 DEF OpenPlaces, Proper
<1> QED  BY <1>1, <1>2, <1>3, <1>4

LEMMA DisconnectsThen ==
    ASSUME NEW h, NEW P, OpenPlaces \subseteq P, h.at \in P \ {"close", "disconnected"}
    PROVE  LET w == Disconnecting \o <<h>>
           IN  /\ \E S : w \in Seq(S)
               /\ DOMAIN w = {1, 2, 3} /\ w[1] = Disconnecting[1] /\ w[2] = Disconnecting[2] /\ w[3] = h
               /\ \A t : \A i \in DOMAIN w : w[i].at \in P /\ Proper(t, w[i], i)
<1> DEFINE D == Disconnecting
           v == <<h>>
           w == D \o v
           T == {D[1], D[2], h}
<1>1. /\ DOMAIN D = {1, 2} /\ Len(D) = 2 /\ D \in Seq({D[1], D[2]})
      /\ \A t : \A i \in DOMAIN D : D[i].at \in OpenPlaces /\ Proper(t, D[i], i)
  BY DisconnectingAre
<1>2. v \in Seq({h}) /\ Len(v) = 1 /\ v[1] = h  OBVIOUS
<1> HIDE DEF D, v
<1>3. D \in Seq(T) /\ v \in Seq(T)  BY <1>1, <1>2, SeqMonotonic
<1> HIDE DEF T
<1>4. /\ w \in Seq(T) /\ DOMAIN w = 1..(Len(D) + Len(v))
      /\ \A i \in 1..(Len(D) + Len(v)) : w[i] = IF i <= Len(D) THEN D[i] ELSE v[i - Len(D)]
  BY <1>3, ConcatAre
<1> HIDE DEF w
<1>5. DOMAIN w = {1, 2, 3} /\ w[1] = D[1] /\ w[2] = D[2] /\ w[3] = h
  <2>1. Len(D) + Len(v) = 3  BY <1>1, <1>2
  <2>2. 1..3 = {1, 2, 3}  OBVIOUS
  <2>3. w[1] = D[1] /\ w[2] = D[2]  BY <1>1, <1>4, <2>1
  <2>4. w[3] = v[3 - 2]  BY <1>1, <1>4, <2>1
  <2> QED  BY <1>2, <1>4, <2>1, <2>2, <2>3, <2>4
<1>6. \A t : \A i \in DOMAIN w : w[i].at \in P /\ Proper(t, w[i], i)
  <2>1. \A t : Proper(t, h, 3)  BY DEF Proper
  <2> QED  BY <1>1, <1>5, <2>1
<1> QED  BY <1>4, <1>5, <1>6 DEF D, v, w

LEMMA SameService ==
    ASSUME Inv, NEW t, \/ svc' = svc
                       \/ \E b : svc' = [svc EXCEPT !.active = b] \/ svc' = [svc EXCEPT !.closed = b]
                                 \/ svc' = [svc EXCEPT !.suppress = b],
           cancelled' = cancelled
    PROVE  SameLoops(t)
<1>1. svc \in Service  BY DEF Inv, Slots, TypeInv
<1> QED  BY <1>1 DEF SameLoops, Service

LEMMA ConnectStays ==
    ASSUME Inv, NEW t \in Tasks, Connect(t) \/ ConnectGranted(t) \/ ConnectLocked(t) \/ ConnectFails(t)
    PROVE  Stays(t) /\ SameLoops(t)
<1>1. SameLoops(t)
  <2>1. cancelled' = cancelled  BY DEF Connect, ConnectGranted, ConnectLocked, ConnectFails
  <2>2. svc' = svc \/ svc' = [svc EXCEPT !.closed = FALSE]
    BY DEF Connect, ConnectGranted, ConnectLocked, ConnectFails, serviceVars
  <2> QED  BY <2>1, <2>2, SameService
<1>2. PICK l \in ConnectPlaces : Wakes(t, l) \/ Runs(t, l)
  BY DEF Connect, ConnectGranted, ConnectLocked, ConnectFails, ConnectPlaces
<1>3. (\E m \in ConnectPlaces : Goto(t, At(m))) \/ Return(t) \/ Raise(t, "error")
  BY DEF Connect, ConnectGranted, ConnectLocked, ConnectFails, ConnectPlaces
<1>4. ConnectPlaces \subseteq Open(t) \ ({"close", "disconnected"}) /\ l \notin ClosePlaces \cup {"raise"}
  BY DEF ConnectPlaces, Open, OpenPlaces, ClosePlaces
<1>5. ASSUME NEW m \in ConnectPlaces, Goto(t, At(m)) PROVE Stays(t)
  <2> DEFINE f == At(m)
  <2>1. f.at = m /\ Goto(t, f)  BY <1>5, AtIs
  <2> HIDE DEF f
  <2> QED  BY <1>2, <1>4, <2>1, StaysGoto
<1> QED  BY <1>1, <1>2, <1>3, <1>4, <1>5, StaysReturn, StaysRaise

LEMMA StartStays ==
    ASSUME Inv, NEW t \in Tasks,
           \/ Start(t) \/ StartGranted(t) \/ StartLocked(t) \/ StartConnected(t) \/ StartSent(t)
           \/ StartReady(t) \/ StartTimesOut(t)
    PROVE  Stays(t) /\ SameLoops(t)
<1>1. SameLoops(t)
  <2>1. cancelled' = cancelled
    BY DEF Start, StartGranted, StartLocked, StartConnected, StartSent, StartReady, StartTimesOut
  <2>2. svc' = svc \/ svc' = [svc EXCEPT !.suppress = FALSE] \/ svc' = [svc EXCEPT !.active = TRUE]
    BY DEF Start, StartGranted, StartLocked, StartConnected, StartSent, StartReady, StartTimesOut, serviceVars
  <2> QED  BY <2>1, <2>2, SameService
<1>2. PICK l \in StartPlaces : Wakes(t, l) \/ Runs(t, l)
  BY DEF Start, StartGranted, StartLocked, StartConnected, StartSent, StartReady, StartTimesOut, StartPlaces
<1>3. /\ StartPlaces \cup {"connect", "send"} \subseteq Open(t) \ ({"close", "disconnected"})
      /\ l \notin ClosePlaces \cup {"raise"}
  BY DEF StartPlaces, ConnectPlaces, Open, OpenPlaces, ClosePlaces
<1>4. ASSUME NEW f, f.at \in StartPlaces, Goto(t, f) PROVE Stays(t)  BY <1>2, <1>3, <1>4, StaysGoto
<1>5. ASSUME Return(t) \/ Raise(t, "error") PROVE Stays(t)  BY <1>2, <1>3, <1>5, StaysReturn, StaysRaise
<1>6. CASE Start(t) \/ StartGranted(t)
  <2>1. Return(t) \/ \E m \in StartPlaces : Goto(t, At(m))  BY <1>6 DEF Start, StartGranted, StartPlaces
  <2>2. ASSUME NEW m \in StartPlaces, Goto(t, At(m)) PROVE Stays(t)
    <3> DEFINE f == At(m)
    <3>1. f.at = m /\ Goto(t, f)  BY <2>2, AtIs
    <3> HIDE DEF f
    <3> QED  BY <1>4, <3>1
  <2> QED  BY <1>1, <1>5, <2>1, <2>2
<1>7. CASE StartLocked(t)
  <2> DEFINE c == At("connect")
             f == At("start_connected")
             s == <<f>> \o Callers(t)
  <2>1. c.at = "connect" /\ f.at \in StartPlaces  BY AtIs DEF StartPlaces
  <2>2. Return(t) \/ Becomes(t, s) \/ Becomes(t, <<c>> \o s)  BY <1>7 DEF StartLocked, OnceConnected
  <2>3. CASE Becomes(t, s)
    <3>1. Goto(t, f)  BY <2>3 DEF Goto
    <3> HIDE DEF f
    <3> QED  BY <1>1, <1>4, <2>1, <3>1
  <2>4. CASE Becomes(t, <<c>> \o s)
    <3>0. Callers(t) \in Seq(Frames)  BY <1>2, Nonempty, StackTyped DEF Inv
    <3>1. <<c>> \o s = <<c, f>> \o Callers(t)
      <4> HIDE DEF c, f
      <4>0. c \in {c, f} /\ f \in {c, f}  OBVIOUS
      <4>1. <<c>> \o <<f>> = <<c, f>>  BY <4>0, PairIs
      <4>2. /\ <<c>> \in Seq({c, f} \cup Frames) /\ <<f>> \in Seq({c, f} \cup Frames)
            /\ Callers(t) \in Seq({c, f} \cup Frames)
        BY <3>0, SeqMonotonic
      <4>3. (<<c>> \o <<f>>) \o Callers(t) = <<c>> \o (<<f>> \o Callers(t))  BY <4>2, ConcatAssociative
      <4> QED  BY <4>1, <4>3
    <3>2. Call(t, c, f)  BY <2>4, <3>1 DEF Call
    <3> HIDE DEF c, f
    <3> QED  BY <1>1, <1>2, <1>3, <2>1, <3>2, StaysCall
  <2> QED  BY <1>1, <1>5, <2>2, <2>3, <2>4
<1>8. CASE StartConnected(t)
  <2> DEFINE g == SendCall([type |-> "start", gen |-> svc.gen], TRUE, FALSE)
             f == At("start_sent")
  <2>1. Call(t, g, f)  BY <1>8 DEF StartConnected
  <2>2. g.at = "send" /\ f.at \in StartPlaces  BY AtIs DEF SendCall, StartPlaces
  <2> HIDE DEF g, f
  <2> QED  BY <1>1, <1>2, <1>3, <2>1, <2>2, StaysCall
<1>9. CASE StartSent(t)
  <2> DEFINE f == [at |-> "start_wait", event |-> svc.readyOf]
  <2>1. Goto(t, f) /\ f.at \in StartPlaces  BY <1>9 DEF StartSent, StartPlaces
  <2> HIDE DEF f
  <2> QED  BY <1>1, <1>4, <2>1
<1>10. CASE StartReady(t) \/ StartTimesOut(t)  BY <1>1, <1>5, <1>10 DEF StartReady, StartTimesOut
<1> QED  BY <1>6, <1>7, <1>8, <1>9, <1>10

LEMMA SendStays ==
    ASSUME Inv, NEW t \in Tasks, ~svc.config.reconnect, Send(t) \/ Sent(t)
    PROVE  Stays(t) /\ SameLoops(t)
<1> DEFINE f == [Frame(t) EXCEPT !.at = "sending", !.conn = svc.ws]
<1>1. PICK l \in {"send", "sending"} : Wakes(t, l) \/ Runs(t, l)  BY DEF Send, Sent
<1>2. Frame(t) \in Frames  BY <1>1, Nonempty, StackTyped DEF Inv
<1>3. f.at = "sending"  BY <1>2, MovedAt
<1>4. Goto(t, f) \/ Return(t) \/ Raise(t, "error")  BY DEF Send, Sent, SendFails
<1> HIDE DEF f
<1>5. SameLoops(t)  BY SameService DEF Send, Sent, serviceVars
<1>6. "sending" \in Open(t) /\ l \notin ClosePlaces \cup {"raise"}  BY DEF Open, OpenPlaces, ClosePlaces
<1> QED  BY <1>1, <1>3, <1>4, <1>5, <1>6, StaysGoto, StaysReturn, StaysRaise

\* Whoever disconnects has closed: the connection has no loops any more.
LEMMA DisconnectedStays ==
    ASSUME Inv, CloseInv, NEW t \in Tasks, Disconnected(t) PROVE Stays(t) /\ SameLoops(t)
<1>1. Runs(t, "disconnected") /\ Return(t) /\ cancelled' = cancelled  BY DEF Disconnected
<1>2. svc \in Service  BY DEF Inv, Slots, TypeInv
<1>3. svc'.ws = 0 /\ svc'.sendTask = svc.sendTask /\ svc'.recvTask = svc.recvTask  BY <1>2 DEF Disconnected, Service
<1>4. Current = {}
  <2>1. Tops(t, PastPlaces)  BY <1>1, Nonempty DEF Tops, PastPlaces
  <2> QED  BY <2>1 DEF CloseInv, WaitInv
<1>5. SameLoops(t)  BY <1>1, <1>3, <1>4 DEF SameLoops
<1>6. "disconnected" \notin ClosePlaces \cup {"raise"}  BY DEF ClosePlaces
<1> QED  BY <1>1, <1>5, <1>6, StaysReturn

-----------------------------------------------------------------------------
(* The steps of the loops, the pipeline and the controller                 *)

LEMMA AtWork ==
    ASSUME Inv, NEW t \in Loops, NEW l \in WorkPlaces, Wakes(t, l) \/ Runs(t, l)
    PROVE  WorkPlaces \cup OpenPlaces \subseteq Open(t) /\ l \notin ClosePlaces \cup {"raise"} /\ Works(t)
<1>1. t \in Tasks  BY DEF Tasks
<1>2. stack[t] # <<>> /\ Frame(t).at = l  BY Nonempty
<1>3. Frame(t) = stack[t][1] /\ 1 \in DOMAIN stack[t]  BY <1>1, <1>2, StackTyped DEF Inv
<1>4. l # "raise" /\ l \notin ClosePlaces  BY DEF WorkPlaces, ClosePlaces
<1>5. Works(t)  BY <1>2, <1>3, <1>4 DEF Works, Inside, Tops
<1> QED  BY <1>4, <1>5 DEF Open

LEMMA SenderStays ==
    ASSUME Inv, NEW k \in Conns, SenderStep(k) PROVE Stays(SendTask(k)) /\ SameLoops(SendTask(k))
<1> DEFINE t == SendTask(k)
<1>1. t \in Tasks /\ t \in Loops  BY PlacesApart
<1>2. SameLoops(t)
  <2>1. svc' = svc /\ cancelled' = cancelled
    BY DEF SenderStep, SenderLoops, SenderWakes, SenderTakes, SenderSent, SenderGone, serviceVars
  <2> QED  BY <2>1, SameService
<1>3. ASSUME SenderGone(k) PROVE Stays(t)
  <2>1. Runs(t, "s_gone") /\ Ends(t, "ok") /\ "s_gone" \notin ClosePlaces \cup {"raise"}
    BY <1>3 DEF SenderGone, ClosePlaces
  <2> HIDE DEF t
  <2> QED  BY <1>1, <1>2, <2>1, StaysEnds
<1>4. ASSUME SenderLoops(k) \/ SenderWakes(k) \/ SenderTakes(k) \/ SenderSent(k) PROVE Stays(t)
  <2> DEFINE chunk == Head(buf.queue)
             g == SendCall([type |-> "audio", frames |-> chunk.frames, gen |-> chunk.gen], TRUE, TRUE)
             f == [at |-> "s_sent", chunk |-> chunk]
  <2>1. PICK l \in WorkPlaces : Wakes(t, l) \/ Runs(t, l)
    BY <1>4 DEF SenderLoops, SenderWakes, SenderTakes, SenderSent, WorkPlaces
  <2>2. Ends(t, "ok") \/ (\E m \in {"s_get", "s_take", "s_loop"} : Goto(t, At(m))) \/ Call(t, g, f)
    BY <1>4 DEF SenderLoops, SenderWakes, SenderTakes, SenderSent
  <2>3. g.at = "send" /\ f.at = "s_sent"  BY DEF SendCall
  <2> HIDE DEF g, f, t
  <2>4. /\ {"s_get", "s_take", "s_loop", "send", "s_sent"} \subseteq Open(t) \ ({"close", "disconnected"})
        /\ l \notin ClosePlaces \cup {"raise"}
    <3>1. {"s_get", "s_take", "s_loop", "send", "s_sent"} \subseteq WorkPlaces \cup OpenPlaces
      BY DEF WorkPlaces, OpenPlaces
    <3> QED  BY <1>1, <2>1, <3>1, AtWork
  <2>5. ASSUME NEW m \in {"s_get", "s_take", "s_loop"}, Goto(t, At(m)) PROVE Stays(t)
    <3> DEFINE h == At(m)
    <3>1. h.at = m /\ Goto(t, h)  BY <2>5, AtIs
    <3> HIDE DEF h
    <3> QED  BY <1>1, <2>1, <2>4, <3>1, StaysGoto
  <2> QED  BY <1>1, <1>2, <2>1, <2>2, <2>3, <2>4, <2>5, StaysEnds, StaysCall
<1> QED  BY <1>2, <1>3, <1>4 DEF SenderStep

LEMMA ReceiverStays ==
    ASSUME Inv, NEW k \in Conns, ~svc.config.reconnect, ReceiverStep(k)
    PROVE  Stays(RecvTask(k)) /\ SameLoops(RecvTask(k))
<1> DEFINE t == RecvTask(k)
<1>1. t \in Tasks /\ t \in Loops  BY PlacesApart DEF Loops
<1>2. SameLoops(t)
  <2>1. cancelled' = cancelled
    BY DEF ReceiverStep, ReceiverLoops, ReceivesPing, ReceivesReady, ReceivesTranscript, ReceiverPushes,
           ReceivesEnd, ReceiverLosesConnection, ReceiverFailed, ReceiverEnds, Receives
  <2>2. svc' = svc \/ \E b : svc' = [svc EXCEPT !.active = b]
    <3>1. CASE ReceiverPushes(k)  BY <3>1 DEF ReceiverPushes
    <3>2. CASE ~ReceiverPushes(k)
      BY <3>2 DEF ReceiverStep, ReceiverLoops, ReceivesPing, ReceivesReady, ReceivesTranscript,
         ReceivesEnd, ReceiverLosesConnection, ReceiverFailed, ReceiverEnds, Receives, serviceVars
    <3> QED  BY <3>1, <3>2
  <2> QED  BY <2>1, <2>2, SameService
<1>3. ASSUME NEW l \in WorkPlaces, Wakes(t, l) \/ Runs(t, l), NEW f, f.at \in WorkPlaces \cup {"r_failed"}, Goto(t, f)
      PROVE  Stays(t)
  <2>1. "r_failed" \in OpenPlaces /\ {"close", "disconnected"} \cap WorkPlaces = {}
    BY DEF OpenPlaces, WorkPlaces
  <2>2. f.at \in Open(t) \ ({"close", "disconnected"}) /\ l \notin ClosePlaces \cup {"raise"}
    BY <1>1, <1>3, <2>1, AtWork
  <2> HIDE DEF t
  <2> QED  BY <1>1, <1>3, <2>2, StaysGoto
<1>4. ASSUME NEW l \in WorkPlaces, Wakes(t, l) \/ Runs(t, l), NEW m \in {"r_loop", "r_failed"}, Goto(t, At(m))
      PROVE  Stays(t)
  <2> DEFINE f == At(m)
  <2>1. f.at = m /\ Goto(t, f)  BY <1>4, AtIs
  <2>2. m \in WorkPlaces \cup {"r_failed"}  BY DEF WorkPlaces
  <2> HIDE DEF f, t
  <2> QED  BY <1>3, <1>4, <2>1, <2>2
<1>5. ASSUME ReceiverLoops(k) PROVE Stays(t)
  <2> DEFINE f == [at |-> "r_recv", conn |-> svc.ws]
  <2>1. PICK l \in WorkPlaces : Wakes(t, l) \/ Runs(t, l)  BY <1>5 DEF ReceiverLoops, WorkPlaces
  <2>2. (Ends(t, "ok") \/ Goto(t, f)) /\ f.at \in WorkPlaces  BY <1>5 DEF ReceiverLoops, WorkPlaces
  <2> HIDE DEF f
  <2>3. l \notin ClosePlaces \cup {"raise"}  BY <1>1, <2>1, AtWork
  <2>4. CASE Ends(t, "ok")
    <3> HIDE DEF t
    <3> QED  BY <1>1, <1>2, <2>1, <2>3, <2>4, StaysEnds
  <2> QED  BY <1>2, <1>3, <2>1, <2>2, <2>4
<1>6. ASSUME ReceiverPushes(k) \/ ReceiverLosesConnection(k) PROVE Stays(t)
  <2>1. \E l \in WorkPlaces, m \in {"r_loop", "r_failed"} : Wakes(t, l) /\ Goto(t, At(m))
    BY <1>6 DEF ReceiverPushes, ReceiverLosesConnection, WorkPlaces
  <2> QED  BY <1>2, <1>4, <2>1
<1>7. ASSUME ReceivesReady(k) \/ ReceivesTranscript(k) \/ ReceivesEnd(k) PROVE Stays(t)
  <2>1. PICK m : /\ Receives(k, m)
                 /\ Goto(t, At("r_loop")) \/ Goto(t, [at |-> "r_push", msg |-> m])
    BY <1>7 DEF ReceivesReady, ReceivesTranscript, ReceivesEnd
  <2> DEFINE f == [at |-> "r_push", msg |-> m]
  <2>2. f.at \in WorkPlaces /\ Wakes(t, "r_recv") /\ "r_recv" \in WorkPlaces  BY <2>1 DEF Receives, WorkPlaces
  <2>3. Goto(t, At("r_loop")) \/ Goto(t, f)  BY <2>1
  <2> HIDE DEF f
  <2> QED  BY <1>2, <1>3, <1>4, <2>2, <2>3
<1>8. ASSUME ReceivesPing(k) PROVE Stays(t)
  <2> DEFINE p == [type |-> "pong"]
             g == SendCall(p, TRUE, TRUE)
             f == At("r_ponged")
  <2>1. Wakes(t, "r_recv") /\ Call(t, g, f) /\ "r_recv" \in WorkPlaces
    BY <1>8 DEF ReceivesPing, Receives, WorkPlaces
  <2>2. g.at = "send" /\ f.at = "r_ponged"  BY AtIs DEF SendCall
  <2>3. {"send", "r_ponged"} \subseteq Open(t) \ ({"close", "disconnected"}) /\ "r_recv" \notin ClosePlaces \cup {"raise"}
    <3>1. {"send", "r_ponged"} \subseteq WorkPlaces \cup OpenPlaces  BY DEF WorkPlaces, OpenPlaces
    <3> QED  BY <1>1, <2>1, <3>1, AtWork
  <2> HIDE DEF g, f, p, t
  <2> QED  BY <1>1, <1>2, <2>1, <2>2, <2>3, StaysCall
<1>9. ASSUME ReceiverFailed(k) PROVE Stays(t)
  <2> DEFINE h == At("r_end")
             w == Disconnecting \o <<h>>
  <2>1. Runs(t, "r_failed") /\ Becomes(t, w)  BY <1>9 DEF ReceiverFailed
  <2>2. h.at = "r_end"  BY AtIs
  <2> HIDE DEF h, t
  <2>3. OpenPlaces \subseteq Open(t) /\ "r_end" \in OpenPlaces  BY DEF Open, OpenPlaces
  <2>4. \A i \in DOMAIN w : w[i].at \in Open(t) /\ Proper(t, w[i], i)  BY <2>2, <2>3, DisconnectsThen
  <2> HIDE DEF w
  <2>5. "r_failed" \notin ClosePlaces \cup {"raise"}  BY DEF ClosePlaces
  <2> QED  BY <1>1, <1>2, <2>1, <2>4, <2>5, StaysWhole
<1>10. ASSUME ReceiverEnds(k) PROVE Stays(t)
  <2>1. Runs(t, "r_end") /\ Ends(t, "ok") /\ "r_end" \notin ClosePlaces \cup {"raise"}
    BY <1>10 DEF ReceiverEnds, ClosePlaces
  <2> HIDE DEF t
  <2> QED  BY <1>1, <1>2, <2>1, StaysEnds
<1> QED  BY <1>2, <1>5, <1>6, <1>7, <1>8, <1>9, <1>10 DEF ReceiverStep

LEMMA NotLoop ==
    /\ \A t \in {Pipeline, Controller} : t \in Tasks /\ t \notin Loops /\ Open(t) = OpenPlaces \cup {"idle", "ended"}
    /\ {"close", "disconnected"} \cap (AudioPlaces \cup FinalPlaces) = {}
    /\ (AudioPlaces \cup FinalPlaces) \cap (ClosePlaces \cup {"raise"}) = {}
<1>1. Pipeline \notin Loops /\ Controller \notin Loops  BY DEF Loops, Pipeline, Controller, SendTask, RecvTask
<1>2. /\ {"close", "disconnected"} \cap (AudioPlaces \cup FinalPlaces) = {}
      /\ (AudioPlaces \cup FinalPlaces) \cap (ClosePlaces \cup {"raise"}) = {}
  BY DEF AudioPlaces, FinalPlaces, ClosePlaces
<1> QED  BY <1>1, <1>2, PlacesApart DEF Open

LEMMA PipelineStays ==
    ASSUME Inv, PipelineStep PROVE Stays(Pipeline) /\ SameLoops(Pipeline)
<1> DEFINE t == Pipeline
           Here == AudioPlaces \cup FinalPlaces
<1>1. t \in Tasks /\ Here \subseteq Open(t) \ ({"close", "disconnected"})
      /\ \A l \in Here : l \notin ClosePlaces \cup {"raise"}
  BY NotLoop DEF OpenPlaces
<1>2. SameLoops(t)
  <2>1. cancelled' = cancelled
    BY DEF PipelineStep, HandlesAudio, QueuesAudio, Flushes, Enqueues, Sleeps, SpeechBegun, Joins, Joined,
           SendsFinalize, FinalizeSent, FinalArrives, FinalTimesOut, FinalDone
  <2>2. svc' = svc \/ svc' = [svc EXCEPT !.active = FALSE]
    BY DEF PipelineStep, HandlesAudio, QueuesAudio, Flushes, Enqueues, Sleeps, SpeechBegun, Joins, Joined,
           SendsFinalize, FinalizeSent, FinalArrives, FinalTimesOut, FinalDone, serviceVars
  <2> QED  BY <2>1, <2>2, SameService
<1>3. PICK l \in Here : Wakes(t, l) \/ Runs(t, l)
  BY DEF PipelineStep, HandlesAudio, QueuesAudio, Flushes, Enqueues, Sleeps, SpeechBegun, Joins, Joined,
         SendsFinalize, FinalizeSent, FinalArrives, FinalTimesOut, FinalDone, AudioPlaces, FinalPlaces
<1>4. Frame(t) \in Frames  BY <1>1, <1>3, Nonempty, StackTyped DEF Inv
<1>5. ASSUME NEW f, f.at \in Here, Goto(t, f) PROVE Stays(t)
  <2> HIDE DEF t, Here
  <2> QED  BY <1>1, <1>3, <1>5, StaysGoto
<1>6. ASSUME Return(t) \/ Raise(t, "error") PROVE Stays(t)
  <2> HIDE DEF t, Here
  <2> QED  BY <1>1, <1>3, <1>6, StaysReturn, StaysRaise
<1>7. ASSUME NEW x \in Here, Goto(t, [Frame(t) EXCEPT !.at = x]) PROVE Stays(t)
  <2> DEFINE f == [Frame(t) EXCEPT !.at = x]
  <2>1. f.at = x /\ Goto(t, f)  BY <1>4, <1>7, MovedAt
  <2> HIDE DEF f
  <2> QED  BY <1>5, <2>1
<1>8. ASSUME HandlesAudio \/ SpeechBegun \/ QueuesAudio \/ Flushes \/ Enqueues PROVE Stays(t)
  <2>1. PICK f : f.at \in Here /\ (Goto(t, f) \/ Return(t) \/ Raise(t, "error"))
    <3> DEFINE a == [at |-> "queue", frames |-> <<Frame(Pipeline).frame>>]
               b == [at |-> "queue", frames |-> buf.preroll]
               c == At("flush")
               d == [at |-> "enqueue", chunk |-> [frames |-> buf.aggregate, gen |-> svc.gen]]
               e == [at |-> "sleep", chunk |-> Frame(Pipeline).chunk]
    <3>1. \/ Goto(t, a) \/ Goto(t, b) \/ Goto(t, c) \/ Goto(t, d) \/ Goto(t, e)
          \/ Return(t) \/ Raise(t, "error")
      BY <1>8 DEF HandlesAudio, SpeechBegun, QueuesAudio, Flushes, Enqueues
    <3>2. a.at \in Here /\ b.at \in Here /\ c.at \in Here /\ d.at \in Here /\ e.at \in Here
      BY AtIs DEF AudioPlaces
    <3> HIDE DEF a, b, c, d, e, t, Here
    <3> QED  BY <3>1, <3>2
  <2> QED  BY <1>5, <1>6, <2>1
<1>9. ASSUME Sleeps \/ Joins \/ Joined \/ FinalizeSent \/ FinalArrives PROVE Stays(t)
  <2>1. \E x \in Here : Goto(t, [Frame(t) EXCEPT !.at = x])
    BY <1>9 DEF Sleeps, Joins, Joined, FinalizeSent, FinalArrives, AudioPlaces, FinalPlaces
  <2> QED  BY <1>7, <2>1
<1>10. ASSUME SendsFinalize PROVE Stays(t)
  <2> DEFINE g == SendCall([type |-> "finalize"], FALSE, FALSE)
             f == [at |-> "final_sent", gen |-> Frame(t).gen]
  <2>1. Call(t, g, f) \/ Return(t)  BY <1>10 DEF SendsFinalize, Call
  <2>2. g.at = "send" /\ f.at \in Here  BY DEF SendCall, FinalPlaces
  <2>3. "send" \in Open(t)  BY DEF Open, OpenPlaces
  <2> HIDE DEF g, f, t, Here
  <2> QED  BY <1>1, <1>3, <1>6, <2>1, <2>2, <2>3, StaysCall
<1>11. ASSUME FinalTimesOut PROVE Stays(t)
  <2> DEFINE h == [Frame(t) EXCEPT !.at = "final_done"]
             w == Disconnecting \o <<h>>
  <2>1. Becomes(t, w \o Callers(t))  BY <1>11 DEF FinalTimesOut
  <2>2. h.at = "final_done"  BY <1>4, MovedAt
  <2>3. OpenPlaces \subseteq Open(t) /\ "final_done" \in OpenPlaces  BY DEF Open, OpenPlaces, FinalPlaces
  <2> HIDE DEF h, t
  <2>4. (\E S : w \in Seq(S)) /\ \A i \in DOMAIN w : w[i].at \in Open(t) /\ Proper(t, w[i], i)
    BY <2>2, <2>3, DisconnectsThen
  <2> HIDE DEF w, Here
  <2> QED  BY <1>1, <1>3, <2>1, <2>4, StaysOver
<1>12. ASSUME FinalDone PROVE Stays(t)  BY <1>6, <1>12 DEF FinalDone
<1> QED  BY <1>2, <1>8, <1>9, <1>10, <1>11, <1>12 DEF PipelineStep

LEMMA CancelSentStays == ASSUME Inv, CancelSent PROVE Stays(Controller) /\ SameLoops(Controller)
<1> DEFINE t == Controller
<1>1. t \in Tasks /\ Runs(t, "cancel_sent") /\ OpenPlaces \subseteq Open(t) /\ "cancel_sent" \notin ClosePlaces \cup {"raise"}
  BY NotLoop DEF CancelSent, ClosePlaces
<1>2. SameLoops(t)  BY SameService DEF CancelSent, serviceVars
<1>3. Return(t) \/ Becomes(t, Disconnecting \o Callers(t))  BY DEF CancelSent
<1>4. /\ \E S : Disconnecting \in Seq(S)
      /\ \A i \in DOMAIN Disconnecting : Disconnecting[i].at \in Open(t) /\ Proper(t, Disconnecting[i], i)
  BY <1>1, DisconnectingAre
<1> HIDE DEF t
<1>5. Stays(t)  BY <1>1, <1>3, <1>4, StaysReturn, StaysOver
<1> QED  BY <1>2, <1>5 DEF t

LEMMA SpeechStays == ASSUME Inv, SpeechStarts \/ SpeechEnds PROVE Stays(Pipeline) /\ SameLoops(Pipeline)
<1> DEFINE t == Pipeline
<1>1. t \in Tasks /\ Wakes(t, "idle") /\ "idle" \notin ClosePlaces \cup {"raise"}
  BY NotLoop DEF SpeechStarts, SpeechEnds, ClosePlaces
<1>2. SameLoops(t)
  <2>1. svc \in Service  BY DEF Inv, Slots, TypeInv
  <2>2. svc'.ws = svc.ws /\ svc'.sendTask = svc.sendTask /\ svc'.recvTask = svc.recvTask /\ cancelled' = cancelled
    BY <2>1 DEF Service, SpeechStarts, SpeechEnds, serviceVars
  <2> QED  BY <2>2 DEF SameLoops
<1>3. PICK a, b : Becomes(t, <<a, b, At("idle")>>) /\ a.at \in {"start", "flush"} /\ b.at \in {"begun", "flushed"}
  <2>1. CASE SpeechStarts  BY <2>1, AtIs DEF SpeechStarts
  <2>2. CASE SpeechEnds
    <3> DEFINE f == [at |-> "flushed", gen |-> svc.gen]
    <3>1. f.at = "flushed" /\ Becomes(Pipeline, <<At("flush"), f, At("idle")>>)  BY <2>2 DEF SpeechEnds
    <3> HIDE DEF f
    <3> QED  BY <3>1, AtIs
  <2> QED  BY <2>1, <2>2
<1> DEFINE e == At("idle")
           w == <<a, b, e>>
<1>4. e.at = "idle"  BY AtIs
<1> HIDE DEF e
<1>5. DOMAIN w = {1, 2, 3} /\ w[1] = a /\ w[2] = b /\ w[3] = e
  <2>1. DOMAIN w = 1..3  OBVIOUS
  <2> QED  BY <2>1
<1>6. Becomes(t, w)  BY <1>3 DEF e
<1> HIDE DEF w
<1>7. {"start", "flush", "begun", "flushed", "idle"} \subseteq Open(t)
  BY NotLoop DEF OpenPlaces, StartPlaces, AudioPlaces, FinalPlaces
<1>8. \A i \in DOMAIN w : w[i].at \in Open(t) /\ Proper(t, w[i], i)  BY <1>3, <1>4, <1>5, <1>7 DEF Proper
<1> HIDE DEF t
<1>9. Stays(t)  BY <1>1, <1>6, <1>8, StaysWhole
<1> QED  BY <1>2, <1>9 DEF t

LEMMA HearsAudioStays == ASSUME Inv, HearsAudio PROVE Stays(Pipeline) /\ SameLoops(Pipeline)
<1> DEFINE t == Pipeline
           c == At("connect")
           a == [at |-> "audio", frame |-> budget.frames + 1]
           e == At("idle")
           s == <<a, e>>
           w == <<c>> \o s
<1>1. t \in Tasks /\ Wakes(t, "idle") /\ "idle" \notin ClosePlaces \cup {"raise"}
  BY NotLoop DEF HearsAudio, ClosePlaces
<1>2. SameLoops(t)  BY SameService DEF HearsAudio, serviceVars
<1>3. Becomes(t, s) \/ Becomes(t, w)  BY OnceIs DEF HearsAudio
<1>4. c.at = "connect" /\ a.at = "audio" /\ e.at = "idle"  BY AtIs
<1>5. {"connect", "audio", "idle"} \subseteq Open(t)
  BY NotLoop DEF OpenPlaces, ConnectPlaces, AudioPlaces
<1> HIDE DEF c, a, e, t
<1>6. DOMAIN s = {1, 2} /\ s[1] = a /\ s[2] = e
  <2>1. DOMAIN s = 1..2  OBVIOUS
  <2> QED  BY <2>1
<1>7. DOMAIN w = {1, 2, 3} /\ w[1] = c /\ w[2] = a /\ w[3] = e
  <2>0. c \in {c, a, e} /\ a \in {c, a, e} /\ e \in {c, a, e}  OBVIOUS
  <2>1. w = <<c, a, e>>  BY <2>0, TripleIs
  <2>2. DOMAIN <<c, a, e>> = 1..3  OBVIOUS
  <2> QED  BY <2>1, <2>2
<1> HIDE DEF s, w
<1>8. \A i \in DOMAIN s : s[i].at \in Open(t) /\ Proper(t, s[i], i)  BY <1>4, <1>5, <1>6 DEF Proper
<1>9. \A i \in DOMAIN w : w[i].at \in Open(t) /\ Proper(t, w[i], i)  BY <1>4, <1>5, <1>7 DEF Proper
<1>10. Stays(t)  BY <1>1, <1>3, <1>8, <1>9, StaysWhole
<1> QED  BY <1>2, <1>10 DEF t

LEMMA EndsAre ==
    ASSUME NEW t \in {Pipeline, Controller}, NEW h, h.at = "ended"
    PROVE  LET w == Disconnecting \o <<h>>
           IN  /\ \E S : w \in Seq(S)
               /\ \A i \in DOMAIN w : w[i].at \in Open(t) /\ Proper(t, w[i], i)
<1> DEFINE P == Open(t)
           w == Disconnecting \o <<h>>
<1>1. OpenPlaces \subseteq P /\ "ended" \in P  BY NotLoop
<1> HIDE DEF P
<1>2. h.at \in P \ ({"close", "disconnected"})  BY <1>1
<1>3. (\E S : w \in Seq(S)) /\ \A x : \A i \in DOMAIN w : w[i].at \in P /\ Proper(x, w[i], i)
  BY <1>1, <1>2, DisconnectsThen
<1> HIDE DEF w
<1>4. \A i \in DOMAIN w : w[i].at \in P /\ Proper(t, w[i], i)  BY <1>3
<1> QED  BY <1>3, <1>4 DEF P, w

LEMMA StopsStays == ASSUME Inv, Stops PROVE Stays(Pipeline) /\ SameLoops(Pipeline)
<1> DEFINE t == Pipeline
           c == SendCall([type |-> "close"], TRUE, TRUE)
           h == At("ended")
           D == Disconnecting
           u == D \o <<h>>
           w == <<c>> \o u
<1>1. t \in Tasks /\ t \notin Loops /\ Wakes(t, "idle") /\ "idle" \notin ClosePlaces \cup {"raise"}
      /\ "send" \in Open(t)
  BY NotLoop DEF Stops, ClosePlaces, OpenPlaces
<1>2. SameLoops(t)  BY SameService DEF Stops, serviceVars
<1>3. c.at = "send" /\ h.at = "ended"  BY AtIs DEF SendCall
<1>4. Becomes(t, <<>> \o D \o <<h>>) \/ Becomes(t, <<c>> \o D \o <<h>>)  BY DEF Stops
<1> HIDE DEF c, h
<1>5. PICK S : u \in Seq(S)  BY <1>1, <1>3, EndsAre
<1>6. \A i \in DOMAIN u : u[i].at \in Open(t) /\ Proper(t, u[i], i)  BY <1>3, EndsAre
<1> DEFINE U == S \cup {D[1], D[2], c, h}
<1>7. D \in Seq(U) /\ <<h>> \in Seq(U) /\ <<c>> \in Seq(U) /\ u \in Seq(U)
  <2>1. <<h>> \in Seq(U) /\ <<c>> \in Seq(U)  OBVIOUS
  <2>2. D \in Seq({D[1], D[2]})  BY DisconnectingAre
  <2> QED  BY <1>5, <2>1, <2>2, SeqMonotonic
<1> HIDE DEF U, D, t
<1>8. <<>> \o D = D /\ (<<c>> \o D) \o <<h>> = w  BY <1>7, ConcatEmptySeq, ConcatAssociative
<1> HIDE DEF u
<1>9. Becomes(t, u) \/ Becomes(t, w)  BY <1>4, <1>8 DEF u
<1>10. \A i \in DOMAIN w : w[i].at \in Open(t) /\ Proper(t, w[i], i)
  <2> DEFINE v == <<c>>
  <2>1. v \in Seq(U) /\ Len(v) = 1 /\ v[1] = c /\ Len(u) \in Nat /\ DOMAIN u = 1..Len(u)  BY <1>7
  <2> HIDE DEF v
  <2>2. /\ DOMAIN (v \o u) = 1..(Len(v) + Len(u))
        /\ \A i \in 1..(Len(v) + Len(u)) : (v \o u)[i] = IF i <= Len(v) THEN v[i] ELSE u[i - Len(v)]
    BY <1>7, <2>1, ConcatAre
  <2> SUFFICES ASSUME NEW i \in DOMAIN (v \o u) PROVE (v \o u)[i].at \in Open(t) /\ Proper(t, (v \o u)[i], i)
    BY DEF v
  <2>3. CASE i = 1
    <3>1. (v \o u)[i] = c  BY <2>1, <2>2, <2>3
    <3> QED  BY <1>1, <1>3, <3>1 DEF Proper
  <2>4. CASE i # 1
    <3>1. i - 1 \in DOMAIN u /\ (v \o u)[i] = u[i - 1] /\ i > 1  BY <2>1, <2>2, <2>4
    <3>2. u[i - 1].at \in Open(t) /\ Proper(t, u[i - 1], i - 1)  BY <1>6, <3>1
    <3> QED  BY <1>1, <3>1, <3>2 DEF Proper
  <2> QED  BY <2>3, <2>4
<1> HIDE DEF w
<1>11. Stays(t)  BY <1>1, <1>6, <1>9, <1>10, StaysWhole
<1> QED  BY <1>2, <1>11 DEF t

LEMMA CleansUpStays == ASSUME Inv, CleansUp PROVE Stays(Controller) /\ SameLoops(Controller)
<1> DEFINE t == Controller
           h == At("ended")
           w == Disconnecting \o <<h>>
<1>1. t \in Tasks /\ Wakes(t, "idle") /\ "idle" \notin ClosePlaces \cup {"raise"} /\ Becomes(t, w)
  BY NotLoop DEF CleansUp, ClosePlaces
<1>2. SameLoops(t)  BY SameService DEF CleansUp, serviceVars
<1>3. h.at = "ended"  BY AtIs
<1> HIDE DEF h
<1>4. \A i \in DOMAIN w : w[i].at \in Open(t) /\ Proper(t, w[i], i)  BY <1>3, EndsAre
<1> HIDE DEF w, t
<1>5. Stays(t)  BY <1>1, <1>4, StaysWhole
<1> QED  BY <1>2, <1>5 DEF t

LEMMA CancelsClose == ASSUME Inv, Inv', NestInv, CloseInv, Cancels PROVE CloseInv'
<1> DEFINE t == Controller
           g == SendCall([type |-> "cancel"], FALSE, FALSE)
           f == [at |-> "cancel_sent", conn |-> svc.ws]
           e == At("idle")
           w == <<g, f, e>>
<1>1. t \in Tasks /\ Wakes(t, "idle") /\ "idle" \notin ClosePlaces \cup {"raise"}
  BY NotLoop DEF Cancels, ClosePlaces
<1>2. svc \in Service  BY DEF Inv, Slots, TypeInv
<1>3. svc'.ws = svc.ws /\ svc'.sendTask = svc.sendTask /\ svc'.recvTask = svc.recvTask /\ cancelled' = cancelled
  BY <1>2 DEF Service, Cancels
<1>4. stack' = stack \/ Becomes(t, w)  BY DEF Cancels
<1>5. g.at = "send" /\ f.at = "cancel_sent" /\ e.at = "idle"  BY AtIs DEF SendCall
<1>6. {"send", "cancel_sent", "idle"} \subseteq Open(t)  BY NotLoop DEF OpenPlaces
<1> HIDE DEF g, f, e, t
<1>7. DOMAIN w = {1, 2, 3} /\ w[1] = g /\ w[2] = f /\ w[3] = e
  <2>1. DOMAIN w = 1..3  OBVIOUS
  <2> QED  BY <2>1
<1> HIDE DEF w
<1>8. \A i \in DOMAIN w : w[i].at \in Open(t) /\ Proper(t, w[i], i)  BY <1>5, <1>6, <1>7 DEF Proper
<1>9. SameLoops(t)  BY <1>3 DEF SameLoops
<1>10. CASE Becomes(t, w)
  <2>1. Stays(t)  BY <1>1, <1>8, <1>10, StaysWhole
  <2> QED  BY <1>1, <1>9, <2>1, StaysKeeps
<1> QED  BY <1>3, <1>4, <1>10, StandsKeep

LEMMA ServersClose ==
    ASSUME Inv, CloseInv, NEW w \in Conns,
           HangsUp(w) \/ Breaks(w) \/ \E type \in {"partial", "ping"} : ServerChats(w, type)
    PROVE  CloseInv'
<1>1. stack' = stack /\ svc' = svc /\ cancelled' = cancelled
  BY DEF HangsUp, Breaks, ServerChats, serviceVars, taskVars
<1> QED  BY <1>1, StandsKeep

-----------------------------------------------------------------------------
(* Exceptions and cancellation                                             *)

\* An exception that is not the end of its task: the frame it raises in gives way.
Cuts(t) ==
    /\ \A u \in Tasks : u # t => stack'[u] = stack[u]
    /\ \A i \in DOMAIN stack'[t] :
         \/ stack'[t][i].at \in OpenPlaces /\ Proper(t, stack'[t][i], i)
         \/ \E j \in DOMAIN stack[t] : i > 1 /\ j > 2 /\ stack'[t][i] = stack[t][j]

LEMMA CutsOver ==
    ASSUME Inv, NEW t \in Tasks, stack[t] # <<>>, Callers(t) # <<>>, NEW S, NEW w \in Seq(S), w # <<>>,
           \A i \in DOMAIN w : w[i].at \in OpenPlaces /\ Proper(t, w[i], i),
           Becomes(t, w \o Tail(Callers(t)))
    PROVE  Cuts(t)
<1> DEFINE s == Tail(Callers(t))
           r == w \o s
<1>1. stack[t] \in Seq(Frames) /\ Callers(t) = Tail(stack[t]) /\ Tail(stack[t]) \in Seq(Frames)
  BY StackTyped DEF Inv, Callers
<1>2. /\ s \in Seq(Frames) /\ Len(s) \in Nat
      /\ \A m \in 1..Len(s) : m + 2 \in DOMAIN stack[t] /\ s[m] = stack[t][m + 2]
  <2> DEFINE c == Callers(t)
  <2>1. c \in Seq(Frames) /\ c # <<>> /\ Len(c) = Len(stack[t]) - 1 /\ Len(stack[t]) \in Nat
        /\ \A m \in 1..Len(c) : c[m] = stack[t][m + 1]
    BY <1>1
  <2> HIDE DEF c
  <2>2. Tail(c) \in Seq(Frames) /\ Len(Tail(c)) = Len(c) - 1 /\ \A m \in 1..Len(Tail(c)) : Tail(c)[m] = c[m + 1]
    BY <2>1
  <2>3. ASSUME NEW m \in 1..Len(Tail(c)) PROVE m + 2 \in DOMAIN stack[t] /\ Tail(c)[m] = stack[t][m + 2]
    <3>1. m \in Nat /\ m + 1 \in 1..Len(c) /\ (m + 1) + 1 = m + 2 /\ m + 2 \in 1..Len(stack[t])
      BY <2>1, <2>2
    <3>2. Tail(c)[m] = c[m + 1]  BY <2>2
    <3> QED  BY <1>1, <2>1, <3>1, <3>2
  <2>4. Len(Tail(c)) \in Nat  BY <2>2
  <2> QED  BY <2>2, <2>3, <2>4 DEF c
<1>3. stack'[t] = r /\ \A u \in Tasks : u # t => stack'[u] = stack[u]  BY DEF Becomes, Inv, Slots, TypeInv
<1> HIDE DEF s
<1>4. w \in Seq(S \cup Frames) /\ s \in Seq(S \cup Frames)  BY <1>2, SeqMonotonic
<1>5. /\ DOMAIN r = 1..(Len(w) + Len(s))
      /\ \A i \in 1..(Len(w) + Len(s)) : r[i] = IF i <= Len(w) THEN w[i] ELSE s[i - Len(w)]
  BY <1>4, ConcatAre
<1>6. Len(w) \in Nat /\ Len(w) > 0 /\ DOMAIN w = 1..Len(w)  OBVIOUS
<1> HIDE DEF r
<1>7. ASSUME NEW i \in DOMAIN r
      PROVE  \/ r[i].at \in OpenPlaces /\ Proper(t, r[i], i)
             \/ \E j \in DOMAIN stack[t] : i > 1 /\ j > 2 /\ r[i] = stack[t][j]
  <2>1. CASE i <= Len(w)
    <3>1. i \in DOMAIN w /\ r[i] = w[i]  BY <1>5, <1>6, <2>1
    <3> QED  BY <3>1
  <2>2. CASE ~(i <= Len(w))
    <3> DEFINE m == i - Len(w)
    <3>1. m \in 1..Len(s) /\ i > 1 /\ i \in 1..(Len(w) + Len(s)) /\ m + 2 > 2  BY <1>2, <1>5, <1>6, <2>2
    <3>2. r[i] = s[m]  BY <1>5, <2>2, <3>1
    <3> HIDE DEF m
    <3>3. m + 2 \in DOMAIN stack[t] /\ r[i] = stack[t][m + 2]  BY <1>2, <3>1, <3>2
    <3> QED  BY <3>1, <3>3
  <2> QED  BY <2>1, <2>2
<1> QED  BY <1>3, <1>7 DEF Cuts

LEMMA CutsSteady ==
    ASSUME Inv, Inv', NestInv, HomeInv, NEW t \in Tasks, stack[t] # <<>>, Cuts(t)
    PROVE  Steady(t)
<1>1. OpenPlaces \cap (WaitPlaces \cup {"closing"} \cup WorkPlaces \cup {"idle", "ended"}) = {}
  BY DEF OpenPlaces, WaitPlaces, WorkPlaces, ConnectPlaces, StartPlaces, AudioPlaces, FinalPlaces
<1>2. ~Tops(t, WaitPlaces \cup PastPlaces)'
  <2> SUFFICES ASSUME Tops(t, WaitPlaces \cup PastPlaces)' PROVE FALSE  OBVIOUS
  <2>1. 1 \in DOMAIN stack'[t] /\ stack'[t][1].at \in WaitPlaces \cup PastPlaces
    <3>1. stack'[t] # <<>> /\ (Frame(t)').at \in WaitPlaces \cup PastPlaces  BY DEF Tops
    <3> QED  BY <3>1, TopAt
  <2>2. stack'[t][1].at \in OpenPlaces /\ Proper(t, stack'[t][1], 1)
    <3>1. ~(1 > 1)  OBVIOUS
    <3> QED  BY <2>1, <3>1 DEF Cuts
  <2>3. stack'[t][1].at # "disconnected"  BY <2>2 DEF Proper
  <2> QED  BY <1>1, <2>1, <2>2, <2>3 DEF PastPlaces
<1>3. ASSUME t \in Loops
      PROVE  ~Works(t)' /\ \A i \in DOMAIN stack'[t] : HomeFrame(stack'[t][i], i)
  <2>1. ASSUME NEW i \in DOMAIN stack'[t]
        PROVE  HomeFrame(stack'[t][i], i) /\ stack'[t][i].at \notin WorkPlaces
    <3>1. CASE stack'[t][i].at \in OpenPlaces /\ Proper(t, stack'[t][i], i)
      BY <1>1, <1>3, <3>1 DEF Proper, HomeFrame
    <3>2. ASSUME NEW j \in DOMAIN stack[t], j > 2, stack'[t][i] = stack[t][j]
          PROVE  HomeFrame(stack'[t][i], i) /\ stack'[t][i].at \notin WorkPlaces
      <4>1. j # 1
        <5>1. stack[t] \in Seq(Frames)  BY DEF Inv, Slots, TypeInv
        <5> QED  BY <3>2, <5>1
      <4>2. HomeFrame(stack[t][j], i)  BY <1>3, <4>1 DEF HomeInv, HomeFrame
      <4>3. stack[t][j].at \notin WorkPlaces  BY <3>2, DeepIdle
      <4> QED  BY <3>2, <4>2, <4>3
    <3> QED  BY <3>1, <3>2 DEF Cuts
  <2>2. Works(t)' => \E i \in DOMAIN stack'[t] : stack'[t][i].at \in WorkPlaces  BY DEF Works, Inside
  <2> QED  BY <2>1, <2>2
<1>4. Alive(t)  BY PlacesApart DEF Alive
<1> QED  BY <1>2, <1>3, <1>4 DEF Steady, Cuts

LEMMA UnwindsAre ==
    ASSUME Inv, NestInv, HomeInv, NEW t \in Tasks, Unwinds(t)
    PROVE  /\ Runs(t, "raise")
           /\ \/ Callers(t) = <<>> /\ Ends(t, Frame(t).exc)
              \/ /\ Callers(t) # <<>> /\ Head(Callers(t)).at \in {"idle", "ended"} /\ t \notin Loops /\ Return(t)
              \/ Callers(t) # <<>> /\ Cuts(t)
<1> DEFINE c == Head(Callers(t))
<1>1. Runs(t, "raise") /\ stack[t] # <<>>  BY Nonempty DEF Unwinds
<1>2. CASE Callers(t) = <<>>
  <2>1. Ends(t, Frame(t).exc)  BY <1>2 DEF Unwinds, At
  <2> QED  BY <1>1, <1>2, <2>1
<1>3. CASE Callers(t) # <<>>
  <2>1. c.at # "none" /\ c \in Frames /\ Frame(t).at = "raise" /\ stack[t][2] = c /\ 2 \in DOMAIN stack[t]
    <3>1. \A f \in Frames : f.at # "none"
      BY DEF Frames, QuietFrames, QuietPlaces, LoopFrames, AudioFrames, FinalFrames, SendPlaces,
             FinalPlaces, CloseFrames, SendFrames
    <3>2. /\ stack[t] \in Seq(Frames) /\ Len(stack[t]) \in Nat /\ Len(stack[t]) >= 2 /\ stack[t][2] = c /\ c \in Frames
          /\ Frame(t).at = "raise"
      BY <1>1, <1>3, CallerIs
    <3>3. 2 \in DOMAIN stack[t]  BY <3>2
    <3> QED  BY <3>1, <3>2, <3>3
  <2>2. CASE c.at = "idle" \/ c.at = "ended"
    <3>1. Return(t)  BY <1>3, <2>1, <2>2 DEF Unwinds
    <3>2. t \notin Loops  BY <2>1, <2>2 DEF HomeInv
    <3> QED  BY <1>1, <1>3, <2>2, <3>1, <3>2
  <2>3. ASSUME NEW f, f.at \in {"raise", "r_failed"}, Becomes(t, <<f>> \o Tail(Callers(t))) PROVE Cuts(t)
    <3> DEFINE w == <<f>>
    <3>1. w \in Seq({f}) /\ w # <<>> /\ DOMAIN w = {1} /\ w[1] = f  OBVIOUS
    <3>2. Becomes(t, w \o Tail(Callers(t)))  BY <2>3
    <3> HIDE DEF w
    <3>3. \A i \in DOMAIN w : w[i].at \in OpenPlaces /\ Proper(t, w[i], i)  BY <2>3, <3>1 DEF Proper, OpenPlaces
    <3> QED  BY <1>1, <1>3, <3>1, <3>2, <3>3, CutsOver
  <2>4. CASE c.at = "s_sent" /\ Frame(t).exc = "error"
    <3> DEFINE h == [c EXCEPT !.at = "s_gone"]
               w == Disconnecting \o <<h>>
    <3>1. Becomes(t, w \o Tail(Callers(t)))  BY <1>3, <2>1, <2>4 DEF Unwinds
    <3>2. h.at = "s_gone"  BY <2>1, MovedAt
    <3>3. "s_gone" \in OpenPlaces  BY DEF OpenPlaces
    <3> HIDE DEF h
    <3>4. /\ \E S : w \in Seq(S)
          /\ DOMAIN w = {1, 2, 3} /\ \A i \in DOMAIN w : w[i].at \in OpenPlaces /\ Proper(t, w[i], i)
      BY <3>2, <3>3, DisconnectsThen
    <3> HIDE DEF w
    <3>5. w # <<>>
      <4>1. PICK S : w \in Seq(S)  BY <3>4
      <4>2. 1 \in DOMAIN w  BY <3>4
      <4> QED  BY <4>1, <4>2
    <3>6. Cuts(t)  BY <1>1, <1>3, <3>1, <3>4, <3>5, CutsOver
    <3> QED  BY <1>1, <1>3, <3>6
  <2>5. CASE c.at = "r_ponged" /\ Frame(t).exc = "error"
    <3> DEFINE f == At("r_failed")
    <3>1. Becomes(t, <<f>> \o Tail(Callers(t))) /\ f.at = "r_failed"  BY <1>3, <2>1, <2>5, AtIs DEF Unwinds
    <3> HIDE DEF f
    <3> QED  BY <1>1, <1>3, <2>3, <3>1
  <2>6. CASE /\ ~(c.at = "idle" \/ c.at = "ended")
             /\ ~(c.at = "s_sent" /\ Frame(t).exc = "error")
             /\ ~(c.at = "r_ponged" /\ Frame(t).exc = "error")
    <3>1. Becomes(t, <<Frame(t)>> \o Tail(Callers(t)))  BY <1>3, <2>1, <2>6 DEF Unwinds
    <3> QED  BY <1>1, <1>3, <2>1, <2>3, <3>1
  <2> QED  BY <2>2, <2>4, <2>5, <2>6
<1> QED  BY <1>2, <1>3

LEMMA UnwindsClose == ASSUME Inv, Inv', NestInv, CloseInv, NEW t \in Tasks, Unwinds(t) PROVE CloseInv'
<1>1. SameLoops(t)
  <2>1. svc' = svc /\ cancelled' = cancelled  BY DEF Unwinds
  <2> QED  BY <2>1, SameService
<1>2. stack[t] # <<>> /\ Alive(t)  BY Nonempty, PlacesApart DEF Unwinds, Alive
<1>3. CASE Ends(t, Frame(t).exc)
  <2>1. stack'[t] = <<>> /\ \A u \in Tasks : u # t => stack'[u] = stack[u]
    BY <1>3 DEF Ends, Inv, Slots, TypeInv
  <2>2. DOMAIN stack'[t] = {}  BY <2>1
  <2>3. Steady(t)  BY <1>2, <2>1, <2>2 DEF Steady, Tops, Works, Inside
  <2> QED  BY <1>1, <2>3, SteadyKeeps
<1>4. CASE Callers(t) # <<>> /\ Head(Callers(t)).at \in {"idle", "ended"} /\ t \notin Loops /\ Return(t)
  <2>1. stack'[t] = Callers(t) /\ \A u \in Tasks : u # t => stack'[u] = stack[u]
    BY <1>4 DEF Return, Becomes, Inv, Slots, TypeInv
  <2>2. Frame(t)' = Head(Callers(t))  BY <2>1 DEF Frame
  <2>3. Steady(t)  BY <1>2, <1>4, <2>1, <2>2 DEF Steady, Tops, WaitPlaces, PastPlaces
  <2> QED  BY <1>1, <2>3, SteadyKeeps
<1>5. CASE Cuts(t)
  <2>1. Steady(t)  BY <1>2, <1>5, CutsSteady DEF CloseInv
  <2> QED  BY <1>1, <2>1, SteadyKeeps
<1> QED  BY <1>3, <1>4, <1>5, UnwindsAre DEF CloseInv

LEMMA CancelDeliveredClose ==
    ASSUME Inv, Inv', NestInv, CloseInv, NEW t \in Tasks, CancelDelivered(t) PROVE CloseInv'
<1> DEFINE f == [at |-> "raise", exc |-> "cancelled"]
           w == <<f>>
<1>1. stack[t] # <<>> /\ Becomes(t, w \o Callers(t)) /\ Alive(t)
  BY DEF CancelDelivered, Alive, Raise, Goto
<1>2. f.at = "raise"  OBVIOUS
<1> HIDE DEF f
<1>3. w \in Seq({f}) /\ DOMAIN w = {1} /\ w[1] = f /\ Len(w) = 1  OBVIOUS
<1> HIDE DEF w
<1>4. stack' = [stack EXCEPT ![t] = w \o Callers(t)]  BY <1>1 DEF Becomes
<1>5. \A i \in DOMAIN w : w[i].at \in {"raise"} /\ Proper(t, w[i], i)  BY <1>2, <1>3 DEF Proper
<1>6. Adds(t, {"raise"})  BY <1>1, <1>3, <1>4, <1>5, AddsOver
<1>7. Callers(t) \in Seq(Frames)  BY <1>1, StackTyped DEF Inv
<1>8. stack'[t] # <<>> /\ (Frame(t)').at = "raise"
  <2> DEFINE s == Callers(t)
  <2>1. w \in Seq({f} \cup Frames) /\ s \in Seq({f} \cup Frames)  BY <1>3, <1>7, SeqMonotonic
  <2>2. stack'[t] = w \o s  BY <1>4 DEF Inv, Slots, TypeInv
  <2> HIDE DEF s
  <2>3. /\ w \o s \in Seq({f} \cup Frames) /\ DOMAIN (w \o s) = 1..(Len(w) + Len(s))
        /\ \A i \in 1..(Len(w) + Len(s)) : (w \o s)[i] = IF i <= Len(w) THEN w[i] ELSE s[i - Len(w)]
    BY <2>1, ConcatAre
  <2>4. Len(w) = 1 /\ Len(s) \in Nat  BY <1>3, <2>1
  <2>5. 1 \in 1..(Len(w) + Len(s)) /\ 1 <= Len(w)  BY <2>4
  <2>6. 1 \in DOMAIN (w \o s) /\ (w \o s)[1] = f  BY <1>3, <2>3, <2>5
  <2>7. w \o s # <<>>  BY <2>6
  <2>8. Frame(t)' = stack'[t][1]  BY <2>2, <2>7, TopAt
  <2> QED  BY <1>2, <2>2, <2>6, <2>7, <2>8
<1>9. ~Works(t)' /\ ~Tops(t, WaitPlaces \cup PastPlaces)'
  BY <1>8 DEF Works, Tops, WaitPlaces, PastPlaces
<1>10. ASSUME t \in Loops, NEW i \in DOMAIN stack'[t] PROVE HomeFrame(stack'[t][i], i)
  <2>1. CASE stack'[t][i].at = "raise"  BY <2>1 DEF HomeFrame
  <2>2. ASSUME NEW j \in DOMAIN stack[t], j > 1, stack'[t][i] = stack[t][j] PROVE HomeFrame(stack'[t][i], i)
    <3>1. HomeFrame(stack[t][j], i)  BY <1>10, <2>2 DEF CloseInv, HomeInv, HomeFrame
    <3> QED  BY <2>2, <3>1
  <2> QED  BY <1>6, <2>1, <2>2 DEF Adds
<1>11. Steady(t)  BY <1>1, <1>6, <1>9, <1>10 DEF Steady, Adds
<1>12. svc' = svc /\ cancelled' = cancelled \ {t}  BY DEF CancelDelivered
<1>13. SameLoops(t)  BY <1>9, <1>12 DEF SameLoops
<1> QED  BY <1>11, <1>13, SteadyKeeps
-----------------------------------------------------------------------------
(* Whom a cancellation reaches                                             *)

Follows(g, n) ==
    g = [depth \in 0..n |->
            [t \in Tasks |->
                IF ~Alive(t) THEN {}
                ELSE IF IsAt(t, "close_await") /\ depth > 0
                     THEN g[depth - 1][Head(Frame(t).todo)]
                     ELSE {t}]]

LEMMA FollowsExists == \A n \in Nat : \E g : Follows(g, n)
<1> DEFINE T == {n \in Nat : ~\E g : Follows(g, n)}
<1> SUFFICES ASSUME T # {} PROVE FALSE  OBVIOUS
<1>1. PICK n \in T : \A m \in T : n <= m  BY LeastNat
<1>2. CASE n = 0
  <2> DEFINE g == [depth \in 0..0 |-> [t \in Tasks |-> IF ~Alive(t) THEN {} ELSE {t}]]
  <2>1. \A depth \in 0..0 : ~(depth > 0)  OBVIOUS
  <2>2. Follows(g, 0)  BY <2>1 DEF Follows
  <2> QED  BY <2>2, <1>2
<1>3. CASE n # 0
  <2>1. n \in Nat /\ n - 1 \in Nat /\ n - 1 \notin T /\ n > 0  BY <1>1, <1>3
  <2>2. PICK g : Follows(g, n - 1)  BY <2>1
  <2> DEFINE top == [t \in Tasks |->
                        IF ~Alive(t) THEN {}
                        ELSE IF IsAt(t, "close_await") THEN g[n - 1][Head(Frame(t).todo)] ELSE {t}]
             h == [depth \in 0..n |-> IF depth = n THEN top ELSE g[depth]]
  <2>3. ASSUME NEW depth \in 0..n
        PROVE  h[depth] = [t \in Tasks |->
                              IF ~Alive(t) THEN {}
                              ELSE IF IsAt(t, "close_await") /\ depth > 0
                                   THEN h[depth - 1][Head(Frame(t).todo)]
                                   ELSE {t}]
    <3>1. CASE depth = n
      <4>1. h[n - 1] = g[n - 1] /\ h[depth] = top  BY <2>1, <3>1
      <4> HIDE DEF h
      <4> QED  BY <2>1, <3>1, <4>1
    <3>2. CASE depth # n
      <4>1. depth \in 0..(n - 1) /\ h[depth] = g[depth]  BY <2>1, <3>2
      <4>2. depth > 0 => h[depth - 1] = g[depth - 1]
        <5>1. depth > 0 => depth - 1 \in 0..n /\ depth - 1 # n  BY <2>1
        <5> QED  BY <5>1
      <4>3. g[depth] = [t \in Tasks |->
                           IF ~Alive(t) THEN {}
                           ELSE IF IsAt(t, "close_await") /\ depth > 0
                                THEN g[depth - 1][Head(Frame(t).todo)]
                                ELSE {t}]
        BY <2>2, <4>1 DEF Follows
      <4> HIDE DEF h
      <4> QED  BY <4>1, <4>2, <4>3
    <3> QED  BY <3>1, <3>2
  <2>4. h = [depth \in 0..n |-> h[depth]]  OBVIOUS
  <2> HIDE DEF h
  <2>5. Follows(h, n)  BY <2>3, <2>4 DEF Follows
  <2> QED  BY <2>5
<1> QED  BY <1>2, <1>3

LEMMA LoopsFinite == Cardinality(Loops) \in Nat /\ Cardinality(Loops) > 0
<1>1. IsFiniteSet(Conns)  BY ServiceAssumption, FS_Interval DEF Conns
<1>2. IsFiniteSet({"send", "recv"})
  <2>1. IsFiniteSet({"send"} \cup {"recv"})  BY FS_Singleton, FS_Union
  <2>2. {"send", "recv"} = {"send"} \cup {"recv"}  OBVIOUS
  <2> QED  BY ONLY <2>1, <2>2
<1>3. IsFiniteSet({"send", "recv"} \X Conns)  BY <1>1, <1>2, FS_Product
<1>4. Loops \subseteq {"send", "recv"} \X Conns  BY DEF Loops, SendTask, RecvTask
<1>5. IsFiniteSet(Loops)  BY <1>3, <1>4, FS_Subset
<1>6. SendTask(1) \in Loops
  <2>1. 1 \in Conns  BY ServiceAssumption DEF Conns
  <2> QED  BY <2>1, PlacesApart
<1> QED  BY <1>5, <1>6, FS_CardinalityType, FS_EmptySet

\* A task that awaits no other one is cancelled itself, one that does is not but
\* whom it awaits.
LEMMA TargetIs ==
    ASSUME NEW u \in Tasks, Alive(u)
    PROVE  /\ ~IsAt(u, "close_await") => CancelTarget(u) = {u}
           /\ \A v \in Tasks : IsAt(u, "close_await") /\ v = Head(Frame(u).todo) =>
                /\ Alive(v) /\ ~IsAt(v, "close_await") => CancelTarget(u) = {v}
                /\ ~Alive(v) => CancelTarget(u) = {}
<1> DEFINE n == Cardinality(Loops)
           g == CHOOSE f : Follows(f, n)
<1>1. n \in Nat /\ n > 0  BY LoopsFinite
<1> HIDE DEF n
<1>2. Follows(g, n)  BY <1>1, FollowsExists
<1>3. CancelTarget(u) = g[n][u]  BY DEF CancelTarget, Follows, n
<1> HIDE DEF g
<1>4. n \in 0..n /\ n - 1 \in 0..n  BY <1>1
<1>5. \A v \in Tasks : (~Alive(v) => g[n - 1][v] = {}) /\ (Alive(v) /\ ~IsAt(v, "close_await") => g[n - 1][v] = {v})
  BY <1>2, <1>4 DEF Follows
<1>6. ~IsAt(u, "close_await") => g[n][u] = {u}  BY <1>2, <1>4 DEF Follows
<1>7. IsAt(u, "close_await") => g[n][u] = g[n - 1][Head(Frame(u).todo)]  BY <1>1, <1>2, <1>4 DEF Follows
<1> QED  BY <1>3, <1>5, <1>6, <1>7
-----------------------------------------------------------------------------
(* The steps of a close                                                    *)

\* Whoever is inside a close does not work after the step either.
LEMMA ShutsIdle ==
    ASSUME Inv, NestInv, HomeInv, NEW t \in Tasks, Tops(t, ClosePlaces), NEW P, Adds(t, P),
           P \subseteq (ClosePlaces \ {"close"}) \cup {"raise"}
    PROVE  /\ \A u \in Tasks : u # t => stack'[u] = stack[u]
           /\ HomeInv' /\ ~Works(t)' /\ ~Works(t) /\ Alive(t)
<1>1. /\ stack[t] \in Seq(Frames) /\ Frame(t).at \in ClosePlaces /\ stack[t] # <<>>
      /\ \A j \in DOMAIN stack[t] : j > 1 => j # 1
  <2>1. stack[t] \in Seq(Frames)  BY DEF Inv, Slots, TypeInv
  <2> QED  BY <2>1 DEF Tops
<1>2. ~Works(t)
  <2>1. Tops(t, ClosePlaces \cup {"disconnected", "s_gone", "r_end", "r_failed"})  BY DEF Tops
  <2> QED  BY <2>1, CloserIdle
<1>3. \A j \in DOMAIN stack[t] : stack[t][j].at \notin WorkPlaces
  <2>1. ~Tops(t, {"raise"})  BY <1>1 DEF Tops, ClosePlaces
  <2> QED  BY <1>2, <2>1 DEF Works, Inside
<1>4. P \cap (WorkPlaces \cup {"idle", "ended", "close"}) = {}  BY DEF ClosePlaces, WorkPlaces
<1>5. ASSUME NEW i \in DOMAIN stack'[t]
      PROVE  /\ stack'[t][i].at \notin WorkPlaces
             /\ t \in Loops => stack'[t][i].at \notin {"idle", "ended", "close"}
  <2>1. CASE stack'[t][i].at \in P  BY <1>4, <2>1
  <2>2. ASSUME NEW j \in DOMAIN stack[t], j > 1, stack'[t][i] = stack[t][j]
        PROVE  /\ stack'[t][i].at \notin WorkPlaces
               /\ t \in Loops => stack'[t][i].at \notin {"idle", "ended", "close"}
    BY <1>1, <1>3, <2>2 DEF HomeInv
  <2> QED  BY <2>1, <2>2 DEF Adds
<1>6. ~Works(t)'
  <2>1. Works(t)' => \E i \in DOMAIN stack'[t] : stack'[t][i].at \in WorkPlaces  BY DEF Works, Inside
  <2> QED  BY <1>5, <2>1
<1>7. HomeInv'
  <2> SUFFICES ASSUME NEW u \in Loops, NEW i \in DOMAIN stack'[u]
               PROVE  stack'[u][i].at \notin {"idle", "ended"} /\ (stack'[u][i].at = "close" => i = 1)
    BY DEF HomeInv
  <2>1. u \in Tasks  BY DEF Tasks
  <2>2. CASE u = t  BY <1>5, <2>2
  <2>3. CASE u # t  BY <2>1, <2>3 DEF Adds, HomeInv
  <2> QED  BY <2>2, <2>3
<1>8. Alive(t)  BY <1>1, PlacesApart DEF Alive
<1> QED  BY <1>2, <1>6, <1>7, <1>8 DEF Adds

\* A step inside a close that leaves the loops as they are.
LEMMA ShutKeeps ==
    ASSUME Inv, CloseInv, NEW t \in Tasks, \A u \in Tasks : u # t => stack'[u] = stack[u],
           HomeInv', ~Works(t)', Alive(t), ~Tops(t, PastPlaces)',
           svc'.ws = svc.ws, svc'.sendTask = svc.sendTask, svc'.recvTask = svc.recvTask, cancelled \subseteq cancelled',
           Tops(t, WaitPlaces)' =>
             /\ t \notin Todo(t)' /\ (Todo(t)' \subseteq Current \/ (Tops(t, WaitPlaces) /\ Todo(t)' \subseteq Todo(t)))
             /\ \A u \in Current \ {t} : Alive(u) => u \in Todo(t)'
             /\ \A u \in Todo(t)' : Works(u) => u \in cancelled'
             /\ \A u \in Loops \ {t} : t \in Loops /\ Tops(u, WaitPlaces) /\ u \in Todo(t)' /\ t \in Todo(u)
                                       => {t, u} \cap cancelled' # {}
    PROVE  CloseInv'
<1>1. \A u \in Tasks : u # t => /\ \A P : Tops(u, P)' = Tops(u, P)
                                /\ Works(u)' = Works(u) /\ Alive(u)' = Alive(u) /\ Todo(u)' = Todo(u)
  BY SameStack
<1>2. Current' = Current /\ svc'.ws = svc.ws  BY DEF Current
<1>3. \A u \in Loops : u \in Tasks  BY DEF Tasks
<1>4. \A v \in Current : v \in Tasks  BY DEF Current, Inv, Slots, TypeInv, Service
<1>5. EraInv'
  <2>1. PICK k \in Conns :
          /\ svc.ws \in {0, k}
          /\ svc.sendTask \in {NoTask, SendTask(k)} /\ svc.recvTask \in {NoTask, RecvTask(k)}
          /\ \A u \in Tasks : Tops(u, WaitPlaces) => Todo(u) \subseteq {SendTask(k), RecvTask(k)} \ {u}
    BY DEF CloseInv, EraInv
  <2>2. Current \subseteq {SendTask(k), RecvTask(k)}  BY <2>1 DEF Current
  <2>3. ASSUME NEW u \in Tasks, Tops(u, WaitPlaces)' PROVE Todo(u)' \subseteq {SendTask(k), RecvTask(k)} \ {u}
    <3>1. CASE u = t  BY <2>1, <2>2, <2>3, <3>1
    <3>2. CASE u # t  BY <1>1, <2>1, <2>3, <3>2
    <3> QED  BY <3>1, <3>2
  <2> QED  BY <2>1, <2>3 DEF EraInv
<1>6. \A u \in Tasks : Tops(u, WaitPlaces) => Todo(u) \subseteq Loops /\ u \notin Todo(u)
  BY DEF CloseInv, EraInv, Loops
<1>7. Tops(t, WaitPlaces)' => Todo(t)' \subseteq Tasks  BY <1>3, <1>4, <1>6
<1>8. \A v \in Tasks : (Works(v)' => Works(v) /\ v # t) /\ (Alive(v)' => Alive(v))  BY <1>1
<1>9. WaitInv'
  <2>1. ASSUME NEW u \in Tasks, Tops(u, WaitPlaces)'
        PROVE  /\ \A v \in Current' \ {u} : Alive(v)' => v \in Todo(u)'
               /\ \A v \in Todo(u)' : Works(v)' => v \in cancelled'
    <3>1. CASE u = t  BY <1>2, <1>4, <1>7, <1>8, <2>1, <3>1
    <3>2. CASE u # t
      <4>1. Tops(u, WaitPlaces) /\ Todo(u)' = Todo(u)  BY <1>1, <2>1, <3>2
      <4>2. /\ \A v \in Current \ {u} : Alive(v) => v \in Todo(u)
            /\ \A v \in Todo(u) : Works(v) => v \in cancelled
        BY <4>1 DEF CloseInv, WaitInv
      <4>3. \A v \in Todo(u) : v \in Tasks  BY <1>3, <1>6, <4>1
      <4> QED  BY <1>2, <1>4, <1>8, <4>1, <4>2, <4>3
    <3> QED  BY <3>1, <3>2
  <2>2. \A u \in Tasks : Tops(u, PastPlaces)' => Current' = {}  BY <1>1, <1>2 DEF CloseInv, WaitInv
  <2>3. ASSUME NEW u \in Loops, NEW v \in Loops, Tops(u, WaitPlaces)', Tops(v, WaitPlaces)', v \in Todo(u)', u \in Todo(v)'
        PROVE  {u, v} \cap cancelled' # {}
    <3>0. u \in Tasks /\ v \in Tasks  BY <1>3
    <3>1. CASE u # t /\ v # t
      <4>1. {u, v} \cap cancelled # {}  BY <1>1, <2>3, <3>0, <3>1 DEF CloseInv, WaitInv
      <4> QED  BY <4>1
    <3>2. CASE u = t /\ v # t  BY <1>1, <2>3, <3>0, <3>2
    <3>3. CASE u # t /\ v = t  BY <1>1, <2>3, <3>0, <3>3
    <3> QED  BY <2>3, <3>1, <3>2, <3>3
  <2> QED  BY <2>1, <2>2, <2>3 DEF WaitInv
<1>10. WorkInv'
  <2>1. \A u \in Loops : Works(u)' /\ u \notin cancelled' => Works(u) /\ u \notin cancelled  BY <1>3, <1>8
  <2> QED  BY <1>2, <2>1 DEF CloseInv, WorkInv
<1> QED  BY <1>5, <1>9, <1>10 DEF CloseInv

\* A step inside a close after which there are no loops.
LEMMA EmptyKeeps ==
    ASSUME Inv, CloseInv, NEW t \in Tasks, \A u \in Tasks : u # t => stack'[u] = stack[u],
           HomeInv', ~Works(t)', ~Tops(t, WaitPlaces)',
           svc'.ws = svc.ws, svc'.sendTask = NoTask, svc'.recvTask = NoTask, cancelled' = cancelled,
           \A u \in Loops : Works(u) => u \in cancelled
    PROVE  CloseInv'
<1>1. \A u \in Tasks : u # t => /\ \A P : Tops(u, P)' = Tops(u, P)
                                /\ Works(u)' = Works(u) /\ Alive(u)' = Alive(u) /\ Todo(u)' = Todo(u)
  BY SameStack
<1>2. Current' = {}  BY DEF Current
<1>3. \A u \in Loops : u \in Tasks  BY DEF Tasks
<1>4. EraInv'
  <2>1. PICK k \in Conns :
          /\ svc.ws \in {0, k}
          /\ \A u \in Tasks : Tops(u, WaitPlaces) => Todo(u) \subseteq {SendTask(k), RecvTask(k)} \ {u}
    BY DEF CloseInv, EraInv
  <2>2. \A u \in Tasks : Tops(u, WaitPlaces)' => Todo(u)' \subseteq {SendTask(k), RecvTask(k)} \ {u}
    BY <1>1, <2>1
  <2> QED  BY <2>1, <2>2 DEF EraInv
<1>5. \A v \in Loops : Works(v)' => v \in cancelled'  BY <1>1, <1>3
<1>6. WaitInv'
  <2>1. ASSUME NEW u \in Tasks, Tops(u, WaitPlaces)' PROVE \A v \in Todo(u)' : Works(v)' => v \in cancelled'
    <3>1. u # t /\ Tops(u, WaitPlaces) /\ Todo(u)' = Todo(u)  BY <1>1, <2>1
    <3>2. Todo(u) \subseteq Loops  BY <3>1 DEF CloseInv, EraInv, Loops
    <3> QED  BY <1>5, <3>1, <3>2
  <2>2. ASSUME NEW u \in Loops, NEW v \in Loops, Tops(u, WaitPlaces)', Tops(v, WaitPlaces)', v \in Todo(u)', u \in Todo(v)'
        PROVE  {u, v} \cap cancelled' # {}
    <3>1. u # t /\ v # t  BY <2>2
    <3> QED  BY <1>1, <1>3, <2>2, <3>1 DEF CloseInv, WaitInv
  <2> QED  BY <1>2, <2>1, <2>2 DEF WaitInv
<1>7. WorkInv'  BY <1>5 DEF WorkInv
<1> QED  BY <1>4, <1>6, <1>7 DEF CloseInv

LEMMA GotoTop ==
    ASSUME Inv, NEW t \in Tasks, NEW l, Wakes(t, l) \/ Runs(t, l), NEW f, Goto(t, f)
    PROVE  stack'[t] # <<>> /\ Frame(t)' = f
<1> DEFINE w == <<f>>
<1>1. w \in Seq({f}) /\ w # <<>> /\ Head(w) = f  OBVIOUS
<1>2. stack' = [stack EXCEPT ![t] = w \o Callers(t)]  BY DEF Goto, Becomes
<1> HIDE DEF w
<1>3. stack'[t] = w \o Callers(t)  BY <1>2 DEF Inv, Slots, TypeInv
<1>4. Callers(t) \in Seq(Frames)  BY Nonempty, StackTyped DEF Inv
<1> QED  BY <1>1, <1>3, <1>4, HeadOver DEF Frame

\* What a close that begins awaits.
LEMMA OthersAre ==
    ASSUME Inv, NEW t \in Tasks
    PROVE  ToSet(Other(t, svc.sendTask) \o Other(t, svc.recvTask)) = Current \ {t}
<1> DEFINE a == svc.sendTask
           b == svc.recvTask
           x == Other(t, a)
           y == Other(t, b)
           z == x \o y
<1>1. a \in Tasks \cup {NoTask} /\ b \in Tasks \cup {NoTask}  BY DEF Inv, Slots, TypeInv, Service
<1>2. /\ (x = <<>> /\ a \in {t, NoTask}) \/ (x = <<a>> /\ a \notin {t, NoTask})
      /\ (y = <<>> /\ b \in {t, NoTask}) \/ (y = <<b>> /\ b \notin {t, NoTask})
  BY DEF Other
<1>3. Current \ {t} = {a, b} \ {t, NoTask}  BY DEF Current
<1> SUFFICES ToSet(z) = {a, b} \ {t, NoTask}  BY <1>3
<1> HIDE DEF a, b, x, y
<1>4. CASE x = <<>>
  <2>1. y \in Seq({b})
    <3>1. <<>> \in Seq({b}) /\ <<b>> \in Seq({b})  OBVIOUS
    <3> QED  BY <1>2, <3>1
  <2>2. z = y  BY <1>4, <2>1, ConcatEmptySeq
  <2>3. CASE y = <<>>
    <3>1. ToSet(z) = {}  BY <2>2, <2>3, NoneSet
    <3> QED  BY <1>2, <1>3, <1>4, <2>3, <3>1
  <2>4. CASE y = <<b>> /\ b \notin {t, NoTask}
    <3>1. DOMAIN z = {1} /\ z[1] = b  BY <2>2, <2>4
    <3> HIDE DEF z
    <3>2. ToSet(z) = {b}  BY <3>1, ToSetIs
    <3> QED  BY <1>2, <1>3, <1>4, <2>4, <3>2
  <2> QED  BY <1>2, <2>3, <2>4
<1>5. CASE x = <<a>> /\ a \notin {t, NoTask}
  <2>1. CASE y = <<>>
    <3>1. x \in Seq({a})  BY <1>5
    <3>2. z = x  BY <2>1, <3>1, ConcatEmptySeq
    <3>3. DOMAIN z = {1} /\ z[1] = a  BY <1>5, <3>2
    <3> HIDE DEF z
    <3>4. ToSet(z) = {a}  BY <3>3, ToSetIs
    <3> QED  BY <1>2, <1>3, <1>5, <2>1, <3>4
  <2>2. CASE y = <<b>> /\ b \notin {t, NoTask}
    <3>0. a \in {a, b} /\ b \in {a, b}  OBVIOUS
    <3>1. z = <<a, b>>  BY <1>5, <2>2, <3>0, PairIs
    <3>2. DOMAIN <<a, b>> = 1..2 /\ <<a, b>>[1] = a /\ <<a, b>>[2] = b  OBVIOUS
    <3>3. DOMAIN z = {1, 2} /\ z[1] = a /\ z[2] = b  BY <3>1, <3>2
    <3> HIDE DEF z
    <3>4. ToSet(z) = {a, b}  BY <3>3, ToSetIs
    <3> QED  BY <1>3, <1>5, <2>2, <3>4
  <2> QED  BY <1>2, <2>1, <2>2
<1> QED  BY <1>2, <1>4, <1>5

LEMMA CloseClose == ASSUME Inv, NestInv, CloseInv, NEW t \in Tasks, Close(t) PROVE CloseInv'
<1> DEFINE others == Other(t, svc.sendTask) \o Other(t, svc.recvTask)
           f == [at |-> "close_tasks", todo |-> others, forGood |-> Frame(t).forGood]
<1>1. /\ Runs(t, "close") /\ Goto(t, f) /\ f.at = "close_tasks" /\ ToSet(f.todo) = Current \ {t}
      /\ cancelled' = cancelled \cup UNION {CancelTarget(u) : u \in Current \ {t}}
  BY OthersAre DEF Close
<1> HIDE DEF f
<1>2. stack[t] # <<>> /\ Frame(t).at = "close" /\ running = t  BY <1>1, Nonempty DEF Runs
<1>3. Tops(t, ClosePlaces)  BY <1>2 DEF Tops, ClosePlaces
<1>4. Adds(t, {"close_tasks"})
  <2>1. f.at \in {"close_tasks"} /\ f.at \notin {"close", "disconnected"}  BY <1>1
  <2> QED  BY <1>1, <2>1, AddsGoto
<1>5. /\ \A u \in Tasks : u # t => stack'[u] = stack[u]
      /\ HomeInv' /\ ~Works(t)' /\ Alive(t)
  <2>1. {"close_tasks"} \subseteq (ClosePlaces \ {"close"}) \cup {"raise"}  BY DEF ClosePlaces
  <2> QED  BY <1>3, <1>4, <2>1, ShutsIdle DEF CloseInv
<1>6. stack'[t] # <<>> /\ Frame(t)' = f  BY <1>1, GotoTop
<1>7. ~Tops(t, PastPlaces)'  BY <1>1, <1>6 DEF Tops, PastPlaces
<1>8. svc'.ws = svc.ws /\ svc'.sendTask = svc.sendTask /\ svc'.recvTask = svc.recvTask
  <2>1. svc \in Service  BY DEF Inv, Slots, TypeInv
  <2> QED  BY <2>1 DEF Close, Service
<1>9. Todo(t)' = Current \ {t}  BY <1>1, <1>6 DEF Todo
<1>10. Current \subseteq Tasks  BY DEF Current, Inv, Slots, TypeInv, Service
<1>11. ASSUME NEW u \in Current \ {t}, Works(u) PROVE u \in cancelled'
  <2>1. stack[u] # <<>> /\ Frame(u).at \in WorkPlaces \cup {"send", "sending"}  BY <1>10, <1>11, WorksTop
  <2>2. u \in Tasks /\ Alive(u) /\ ~IsAt(u, "close_await")
    BY <1>10, <2>1, PlacesApart DEF Alive, IsAt, Frame, WorkPlaces
  <2>3. CancelTarget(u) = {u}  BY <2>2, TargetIs
  <2> QED  BY <1>1, <1>11, <2>3
<1>12. ASSUME NEW u \in Loops \ {t}, t \in Loops, Tops(u, WaitPlaces), u \in Current, t \in Todo(u)
       PROVE  t \in cancelled'
  <2>1. u \in Tasks /\ stack[u] # <<>> /\ Frame(u).at \in WaitPlaces  BY <1>12 DEF Tasks, Tops
  <2>2. Frame(u).at = "close_await"
    <3>1. Frame(u).at = "close_tasks" => running = u
      BY <2>1 DEF Inv, Slots, TaskInv, Frame, Awaits
    <3> QED  BY <1>2, <1>12, <2>1, <3>1 DEF WaitPlaces
  <2>3. PICK k \in Conns :
          /\ svc.sendTask \in {NoTask, SendTask(k)} /\ svc.recvTask \in {NoTask, RecvTask(k)}
          /\ Todo(u) \subseteq {SendTask(k), RecvTask(k)} \ {u}
    BY <1>12, <2>1 DEF CloseInv, EraInv
  <2>4. u \in {SendTask(k), RecvTask(k)}  BY <1>12, <2>3 DEF Current
  <2>5. Todo(u) \subseteq {t}  BY <1>12, <2>3, <2>4
  <2>6. Head(Frame(u).todo) = t
    <3> DEFINE s == Frame(u).todo
    <3>1. s \in Seq(Tasks) /\ s # <<>>  BY <2>1, <2>2, StackTyped, CloseFields DEF Inv
    <3>2. 1 \in DOMAIN s /\ Head(s) = s[1] /\ Todo(u) = ToSet(s)  BY <3>1 DEF Todo
    <3> HIDE DEF s
    <3>3. Head(s) \in Todo(u)  BY <3>2, ToSetIs
    <3> QED  BY <2>5, <3>3 DEF s
  <2>7. Alive(u) /\ IsAt(u, "close_await") /\ ~IsAt(t, "close_await")
    BY <1>2, <2>1, <2>2, PlacesApart DEF Alive, IsAt, Frame
  <2>8. CancelTarget(u) = {t}  BY <1>5, <2>1, <2>6, <2>7, TargetIs
  <2> QED  BY <1>1, <1>12, <2>8
<1>13. cancelled \subseteq cancelled'  BY <1>1
<1> QED  BY <1>5, <1>7, <1>8, <1>9, <1>11, <1>12, <1>13, ShutKeeps

LEMMA DropsHead ==
    ASSUME NEW s \in Seq(Tasks), s # <<>>
    PROVE  Head(s) \in ToSet(s) /\ ToSet(Tail(s)) \subseteq ToSet(s) /\ ToSet(s) \subseteq {Head(s)} \cup ToSet(Tail(s))
<1> DEFINE r == Tail(s)
<1>1. Len(s) \in Nat /\ Len(s) > 0 /\ DOMAIN s = 1..Len(s) /\ Head(s) = s[1]  OBVIOUS
<1>2. DOMAIN r = 1..(Len(s) - 1) /\ \A i \in 1..(Len(s) - 1) : r[i] = s[i + 1]  BY <1>1
<1> HIDE DEF r
<1>3. ASSUME NEW i \in DOMAIN r PROVE i + 1 \in DOMAIN s /\ r[i] = s[i + 1]  BY <1>1, <1>2
<1>4. ASSUME NEW i \in DOMAIN s, i # 1 PROVE i - 1 \in DOMAIN r /\ s[i] = r[i - 1]
  <2>1. i - 1 \in 1..(Len(s) - 1) /\ (i - 1) + 1 = i  BY <1>1, <1>4
  <2> QED  BY <1>2, <2>1
<1>5. Head(s) \in ToSet(s)  BY <1>1, ToSetIs
<1>6. ToSet(r) \subseteq ToSet(s)  BY <1>3, ToSetIs
<1>7. ToSet(s) \subseteq {Head(s)} \cup ToSet(r)  BY <1>1, <1>4, ToSetIs
<1> QED  BY <1>5, <1>6, <1>7 DEF r

\* One task less is awaited, or the same ones.
LEMMA AwaitKeeps ==
    ASSUME Inv, NestInv, CloseInv, NEW t \in Tasks, NEW l \in WaitPlaces, Wakes(t, l) \/ Runs(t, l),
           svc' = svc, cancelled' = cancelled, NEW f, Goto(t, f), f.at \in WaitPlaces \cup {"raise"},
           f.at \in WaitPlaces => /\ ToSet(f.todo) \subseteq Todo(t)
                                  /\ \A u \in Todo(t) : Alive(u) => u \in ToSet(f.todo)
    PROVE  CloseInv'
<1>1. stack[t] # <<>> /\ Frame(t).at = l  BY Nonempty
<1>2. Tops(t, ClosePlaces) /\ Tops(t, WaitPlaces)  BY <1>1 DEF Tops, ClosePlaces, WaitPlaces
<1>3. /\ \A u \in Tasks : u # t => stack'[u] = stack[u]
      /\ HomeInv' /\ ~Works(t)' /\ Alive(t)
  <2> DEFINE P == WaitPlaces \cup {"raise"}
  <2>1. f.at \notin {"close", "disconnected"} /\ P \subseteq (ClosePlaces \ {"close"}) \cup {"raise"}
    BY DEF WaitPlaces, ClosePlaces
  <2> HIDE DEF P
  <2>2. f.at \in P  BY DEF P
  <2>3. Adds(t, P)  BY <2>1, <2>2, AddsGoto
  <2> QED  BY <1>2, <2>1, <2>3, ShutsIdle DEF CloseInv
<1>4. stack'[t] # <<>> /\ Frame(t)' = f  BY GotoTop
<1>5. ~Tops(t, PastPlaces)'  BY <1>4 DEF Tops, PastPlaces, WaitPlaces
<1>6. Todo(t)' = ToSet(f.todo)  BY <1>4 DEF Todo
<1>7. Tops(t, WaitPlaces)' =>
        /\ t \notin Todo(t)' /\ Todo(t)' \subseteq Todo(t)
        /\ \A u \in Current \ {t} : Alive(u) => u \in Todo(t)'
        /\ \A u \in Todo(t)' : Works(u) => u \in cancelled'
        /\ \A u \in Loops \ {t} : t \in Loops /\ Tops(u, WaitPlaces) /\ u \in Todo(t)' /\ t \in Todo(u)
                                  => {t, u} \cap cancelled' # {}
  <2> SUFFICES ASSUME Tops(t, WaitPlaces)'
               PROVE  /\ t \notin Todo(t)' /\ Todo(t)' \subseteq Todo(t)
                      /\ \A u \in Current \ {t} : Alive(u) => u \in Todo(t)'
                      /\ \A u \in Todo(t)' : Works(u) => u \in cancelled'
                      /\ \A u \in Loops \ {t} : t \in Loops /\ Tops(u, WaitPlaces) /\ u \in Todo(t)' /\ t \in Todo(u)
                                                => {t, u} \cap cancelled' # {}
    OBVIOUS
  <2>1. f.at \in WaitPlaces  BY <1>4 DEF Tops
  <2>2. t \notin Todo(t)  BY <1>2 DEF CloseInv, EraInv
  <2>3. /\ \A u \in Current \ {t} : Alive(u) => u \in Todo(t)
        /\ \A u \in Todo(t) : Works(u) => u \in cancelled
        /\ \A u \in Loops : t \in Loops /\ Tops(u, WaitPlaces) /\ u \in Todo(t) /\ t \in Todo(u)
                            => {t, u} \cap cancelled # {}
    BY <1>2 DEF CloseInv, WaitInv
  <2> QED  BY <1>6, <2>1, <2>2, <2>3
<1>8. svc'.ws = svc.ws /\ svc'.sendTask = svc.sendTask /\ svc'.recvTask = svc.recvTask /\ cancelled \subseteq cancelled'
  OBVIOUS
<1> QED  BY <1>2, <1>3, <1>5, <1>7, <1>8, ShutKeeps

LEMMA AwaitsClose ==
    ASSUME Inv, NestInv, CloseInv, NEW t \in Tasks, CloseAwaits(t) \/ CloseAwaited(t) PROVE CloseInv'
<1> DEFINE s == Frame(t).todo
           a == [Frame(t) EXCEPT !.at = "close_await"]
           b == [Frame(t) EXCEPT !.todo = Tail(@)]
           c == [Frame(t) EXCEPT !.at = "close_tasks", !.todo = Tail(@)]
           r == [at |-> "raise", exc |-> "error"]
<1>1. PICK l \in WaitPlaces : (Wakes(t, l) \/ Runs(t, l)) /\ (CloseAwaits(t) => l = "close_tasks")
  BY DEF CloseAwaits, CloseAwaited, WaitPlaces
<1>2. svc' = svc /\ cancelled' = cancelled  BY DEF CloseAwaits, CloseAwaited, serviceVars
<1>3. \/ Goto(t, a) \/ Goto(t, r)
      \/ ~Alive(Head(s)) /\ CloseAwaits(t) /\ Goto(t, b)
      \/ ~Alive(Head(s)) /\ Goto(t, c)
  BY DEF CloseAwaits, CloseAwaited, Raise
<1>4. /\ Frame(t) \in [at : {"close_tasks", "close_await"}, todo : Seq(Tasks), forGood : BOOLEAN]
      /\ s # <<>> /\ Frame(t).at = l
  <2>1. Frame(t) \in Frames /\ Frame(t).at = l  BY <1>1, Nonempty, StackTyped DEF Inv
  <2>2. CASE CloseAwaits(t)  BY <1>1, <2>1, <2>2, CloseFields DEF CloseAwaits, WaitPlaces
  <2>3. CASE CloseAwaited(t)
    <3>1. Frame(t).at = "close_await"  BY <2>3, Nonempty DEF CloseAwaited
    <3> QED  BY <2>1, <3>1, CloseFields
  <2> QED  BY <2>2, <2>3
<1>5. /\ a.at = "close_await" /\ a.todo = s
      /\ b.at = Frame(t).at /\ b.todo = Tail(s)
      /\ c.at = "close_tasks" /\ c.todo = Tail(s)
      /\ r.at = "raise" /\ s \in Seq(Tasks) /\ Todo(t) = ToSet(s)
  BY <1>4 DEF Todo
<1>6. {"close_await", "close_tasks"} = WaitPlaces /\ "raise" \notin WaitPlaces  BY DEF WaitPlaces
<1> HIDE DEF s, a, b, c, r
<1>7. CASE Goto(t, a)
  <2>1. a.at \in WaitPlaces /\ ToSet(a.todo) = Todo(t)  BY <1>5, <1>6
  <2> QED  BY <1>1, <1>2, <1>7, <2>1, AwaitKeeps
<1>8. CASE Goto(t, r)  BY <1>1, <1>2, <1>5, <1>6, <1>8, AwaitKeeps
<1>9. ASSUME ~Alive(Head(s)), NEW f \in {b, c}, Goto(t, f), f.at \in WaitPlaces PROVE CloseInv'
  <2>1. f.todo = Tail(s)  BY <1>5, <1>9
  <2>2. ToSet(f.todo) \subseteq Todo(t) /\ \A u \in Todo(t) : Alive(u) => u \in ToSet(f.todo)
    BY <1>4, <1>5, <1>9, <2>1, DropsHead
  <2> QED  BY <1>1, <1>2, <1>9, <2>2, AwaitKeeps
<1> QED  BY <1>1, <1>3, <1>4, <1>5, <1>6, <1>7, <1>8, <1>9

\* A return leads out of the close.
LEMMA ReturnTop ==
    ASSUME Inv, NestInv, NEW t \in Tasks, NEW l, Wakes(t, l) \/ Runs(t, l), Return(t)
    PROVE  stack'[t] # <<>> =>
               /\ 2 \in DOMAIN stack[t] /\ Frame(t)' = stack[t][2]
               /\ <<l, stack[t][2].at>> \in Nesting /\ stack[t][2].at \in CallerPlaces
<1>1. stack[t] # <<>> /\ Frame(t).at = l  BY Nonempty
<1>2. stack[t] \in Seq(Frames) /\ Frame(t) = stack[t][1]  BY <1>1, StackTyped DEF Inv
<1>3. stack'[t] = Tail(stack[t])  BY DEF Return, Becomes, Callers, Inv, Slots, TypeInv
<1> SUFFICES ASSUME stack'[t] # <<>>
             PROVE  /\ 2 \in DOMAIN stack[t] /\ Frame(t)' = stack[t][2]
                    /\ <<l, stack[t][2].at>> \in Nesting /\ stack[t][2].at \in CallerPlaces
  OBVIOUS
<1>4. 2 \in DOMAIN stack[t] /\ Head(Tail(stack[t])) = stack[t][2]  BY <1>1, <1>2, <1>3
<1>5. Frame(t)' = stack[t][2]  BY <1>3, <1>4 DEF Frame
<1>6. 2 > 1 /\ 2 - 1 = 1  OBVIOUS
<1>7. <<stack[t][1].at, stack[t][2].at>> \in Nesting /\ stack[t][2].at \in CallerPlaces  BY <1>4, <1>6, Callee
<1> QED  BY <1>1, <1>2, <1>4, <1>5, <1>7

\* When a close has awaited all the loops, none works that is not cancelled.
LEMMA NoneWorks ==
    ASSUME Inv, NestInv, CloseInv, NEW t \in Tasks,
           \/ Tops(t, WaitPlaces) /\ Frame(t).todo = <<>>
           \/ Tops(t, PastPlaces)
    PROVE  \A u \in Loops : Works(u) => u \in cancelled
<1> SUFFICES ASSUME NEW u \in Loops, Works(u), u \notin cancelled PROVE FALSE  OBVIOUS
<1>1. u \in Current /\ u \in Tasks  BY DEF CloseInv, WorkInv, Tasks
<1>2. Alive(u)  BY <1>1, WorksTop, PlacesApart DEF Alive
<1>3. CASE Tops(t, WaitPlaces) /\ Frame(t).todo = <<>>
  <2>1. Todo(t) = {}  BY <1>3, NoneSet DEF Todo
  <2>2. Tops(t, ClosePlaces \cup {"disconnected", "s_gone", "r_end", "r_failed"})
    BY <1>3 DEF Tops, WaitPlaces, ClosePlaces
  <2>3. u # t  BY <2>2, CloserIdle
  <2> QED  BY <1>1, <1>2, <1>3, <2>1, <2>3 DEF CloseInv, WaitInv
<1>4. CASE Tops(t, PastPlaces)  BY <1>1, <1>4 DEF CloseInv, WaitInv
<1> QED  BY <1>3, <1>4

\* The socket of a close.
LEMMA SocketClose ==
    ASSUME Inv, NestInv, CloseInv, NEW t \in Tasks, CloseSocket(t) \/ Closed(t) PROVE CloseInv'
<1> DEFINE f == [at |-> "closing", conn |-> svc.ws, forGood |-> Frame(t).forGood]
<1>1. PICK l \in {"close_tasks", "closing"} :
        /\ Wakes(t, l) \/ Runs(t, l)
        /\ l = "close_tasks" => Frame(t).todo = <<>>
        /\ l = "closing" => Closed(t)
  BY DEF CloseSocket, Closed
<1>2. stack[t] # <<>> /\ Frame(t).at = l  BY <1>1, Nonempty
<1>3. Tops(t, ClosePlaces) /\ (l = "close_tasks" => Tops(t, WaitPlaces)) /\ (l = "closing" => Tops(t, PastPlaces))
  BY <1>2 DEF Tops, ClosePlaces, WaitPlaces, PastPlaces
<1>4. \A u \in Loops : Works(u) => u \in cancelled  BY <1>1, <1>3, NoneWorks
<1>5. Goto(t, f) \/ Return(t)  BY DEF CloseSocket, Closed
<1>6. f.at = "closing"  OBVIOUS
<1> HIDE DEF f
<1>7. Adds(t, {"closing"})
  <2>1. f.at \in {"closing"} /\ f.at \notin {"close", "disconnected"}  BY <1>6
  <2> QED  BY <1>1, <1>5, <2>1, AddsGoto, AddsReturn
<1>8. /\ \A u \in Tasks : u # t => stack'[u] = stack[u]
      /\ HomeInv' /\ ~Works(t)'
  <2>1. {"closing"} \subseteq (ClosePlaces \ {"close"}) \cup {"raise"}  BY DEF ClosePlaces
  <2> QED  BY <1>3, <1>7, <2>1, ShutsIdle DEF CloseInv
<1>9. ~Tops(t, WaitPlaces)'
  <2>1. CASE Goto(t, f)
    <3>1. Frame(t)' = f  BY <1>1, <2>1, GotoTop
    <3> QED  BY <1>6, <3>1 DEF Tops, WaitPlaces
  <2>2. CASE Return(t)
    <3>1. stack'[t] # <<>> => (Frame(t)').at \in CallerPlaces  BY <1>1, <2>2, ReturnTop
    <3> QED  BY <3>1 DEF Tops, WaitPlaces, CallerPlaces
  <2> QED  BY <1>5, <2>1, <2>2
<1>10. svc \in Service  BY DEF Inv, Slots, TypeInv
<1>11. cancelled' = cancelled /\ svc'.ws = svc.ws  BY <1>10 DEF CloseSocket, Closed, Service
<1>12. svc'.sendTask = NoTask /\ svc'.recvTask = NoTask
  <2>1. CASE CloseSocket(t)  BY <1>10, <2>1 DEF CloseSocket, Service
  <2>2. CASE Closed(t)
    <3>1. Wakes(t, "closing")  BY <2>2 DEF Closed
    <3>2. Tops(t, PastPlaces)  BY <3>1, Nonempty DEF Tops, PastPlaces
    <3>3. svc.sendTask = NoTask /\ svc.recvTask = NoTask  BY <3>2 DEF CloseInv, WaitInv, Current
    <3>4. svc'.sendTask = svc.sendTask /\ svc'.recvTask = svc.recvTask  BY <1>10, <2>2 DEF Closed, Service
    <3> QED  BY <3>3, <3>4
  <2> QED  BY <2>1, <2>2
<1> QED  BY <1>4, <1>8, <1>9, <1>11, <1>12, EmptyKeeps

\* A connection is made when nobody is inside a close.
LEMMA ConnectedClose ==
    ASSUME Inv, ConnInv, NestInv, CloseInv, NEW t \in Tasks, Connected(t) PROVE CloseInv'
<1>1. PICK w \in Conns :
        /\ Wakes(t, "connecting") /\ TimePasses /\ conn[w] = "none" /\ cancelled' = cancelled
        /\ svc' = [svc EXCEPT !.ws = w, !.readyOf = w, !.sendTask = SendTask(w), !.recvTask = RecvTask(w)]
        /\ stack' = [stack EXCEPT ![t] = Callers(t), ![SendTask(w)] = <<At("s_new")>>,
                                  ![RecvTask(w)] = <<At("r_new")>>]
  BY DEF Connected
<1> DEFINE s == SendTask(w)
           r == RecvTask(w)
           x == At("s_new")
           y == At("r_new")
<1>2. running = NoTask /\ stack[t] # <<>> /\ Frame(t).at = "connecting" /\ 1 \in DOMAIN stack[t] /\ Frame(t) = stack[t][1]
  <2>1. running = NoTask /\ stack[t] # <<>> /\ Frame(t).at = "connecting"  BY <1>1, Nonempty DEF Wakes
  <2> QED  BY <2>1, StackTyped DEF Inv
<1>3. svc.ws = 0
  <2>1. Tops(t, {"connecting"})  BY <1>2 DEF Tops
  <2> QED  BY <2>1 DEF ConnInv, Placed
<1>4. \A u \in Tasks : ~Tops(u, WaitPlaces \cup PastPlaces)  BY <1>1, <1>2, <1>3, NobodyCloses
<1>5. t \notin Loops  BY <1>2, LoopPlain DEF ConnectPlaces, CloseInv
<1>6. s \in Tasks /\ r \in Tasks /\ s # r /\ s \in Loops /\ r \in Loops /\ s # NoTask /\ r # NoTask
  BY PlacesApart DEF Loops
<1>7. x.at = "s_new" /\ y.at = "r_new"  BY AtIs
<1> HIDE DEF x, y
<1>8. /\ stack'[t] = Callers(t) /\ stack'[s] = <<x>> /\ stack'[r] = <<y>>
      /\ \A u \in Tasks \ {t, s, r} : stack'[u] = stack[u]
  <2>1. stack' = [stack EXCEPT ![t] = Callers(t), ![s] = <<x>>, ![r] = <<y>>]  BY <1>1 DEF x, y
  <2>2. s # t /\ r # t  BY <1>5, <1>6
  <2>3. DOMAIN stack = Tasks  BY DEF Inv, Slots, TypeInv
  <2> HIDE DEF s, r
  <2> QED  BY <1>6, <2>1, <2>2, <2>3
<1>9. svc'.ws = w /\ svc'.sendTask = s /\ svc'.recvTask = r
  <2>1. svc \in Service  BY DEF Inv, Slots, TypeInv
  <2> QED  BY <1>1, <2>1 DEF Service
<1> HIDE DEF s, r
<1>10. /\ DOMAIN <<x>> = {1} /\ <<x>>[1] = x /\ Head(<<x>>) = x
       /\ DOMAIN <<y>> = {1} /\ <<y>>[1] = y /\ Head(<<y>>) = y
  OBVIOUS
<1>11. ASSUME NEW u \in Tasks, Tops(u, WaitPlaces \cup PastPlaces)' PROVE FALSE
  <2>1. stack'[u] # <<>> /\ (Frame(u)').at \in WaitPlaces \cup PastPlaces  BY <1>11 DEF Tops
  <2>2. CASE u = t
    <3>1. Callers(t) # <<>>  BY <1>8, <2>1, <2>2
    <3>2. stack[t] \in Seq(Frames)  BY DEF Inv, Slots, TypeInv
    <3>3. 2 \in DOMAIN stack[t] /\ Head(Callers(t)) = stack[t][2]  BY <1>2, <3>1, <3>2 DEF Callers
    <3>4. 2 > 1 /\ 2 - 1 = 1  OBVIOUS
    <3>5. <<"connecting", stack[t][2].at>> \in Nesting  BY <1>2, <3>3, <3>4, Callee
    <3>6. stack[t][2].at \notin WaitPlaces \cup PastPlaces
      BY <3>5 DEF Nesting, WaitPlaces, PastPlaces, ConnectPlaces, StartPlaces, ClosePlaces, LoopPlaces, SendPlaces
    <3>7. Frame(u)' = stack[t][2]  BY <1>8, <2>2, <3>3 DEF Frame
    <3> QED  BY <2>1, <3>6, <3>7
  <2>3. CASE u = s  BY <1>7, <1>8, <1>10, <2>1, <2>3 DEF Frame, WaitPlaces, PastPlaces
  <2>4. CASE u = r  BY <1>7, <1>8, <1>10, <2>1, <2>4 DEF Frame, WaitPlaces, PastPlaces
  <2>5. CASE u \in Tasks \ {t, s, r}
    <3>1. stack'[u] = stack[u]  BY <1>8, <2>5
    <3>2. Frame(u)' = Frame(u)  BY <3>1 DEF Frame
    <3> QED  BY <1>4, <2>1, <3>1, <3>2 DEF Tops
  <2> QED  BY <2>2, <2>3, <2>4, <2>5
<1>12. \A u \in Tasks : ~Tops(u, WaitPlaces)' /\ ~Tops(u, PastPlaces)'  BY <1>11 DEF Tops
<1>13. HomeInv'
  <2> SUFFICES ASSUME NEW u \in Loops, NEW i \in DOMAIN stack'[u]
               PROVE  stack'[u][i].at \notin {"idle", "ended"} /\ (stack'[u][i].at = "close" => i = 1)
    BY DEF HomeInv
  <2>1. u \in Tasks /\ u # t  BY <1>5 DEF Tasks
  <2>2. CASE u = s  BY <1>7, <1>8, <1>10, <2>2
  <2>3. CASE u = r  BY <1>7, <1>8, <1>10, <2>3
  <2>4. CASE u \notin {s, r}
    <3>1. stack'[u] = stack[u]  BY <1>8, <2>1, <2>4
    <3> QED  BY <3>1 DEF CloseInv, HomeInv
  <2> QED  BY <2>2, <2>3, <2>4
<1>14. EraInv'
  <2>1. \A u \in Tasks : Tops(u, WaitPlaces)' => Todo(u)' \subseteq {SendTask(w), RecvTask(w)} \ {u}  BY <1>12
  <2> QED  BY <1>9, <2>1 DEF EraInv, s, r
<1>15. WaitInv'
  <2>1. \A u \in Loops : ~Tops(u, WaitPlaces)'  BY <1>12 DEF Tasks
  <2> QED  BY <1>12, <2>1 DEF WaitInv
<1>16. WorkInv'
  <2>1. {s, r} \subseteq Current'  BY <1>6, <1>9 DEF Current
  <2>2. w # 0  BY DEF Conns
  <2>3. ASSUME NEW u \in Loops, Works(u)', u \notin cancelled' PROVE u \in {s, r}
    <3>1. u \in Tasks /\ u # t  BY <1>5 DEF Tasks
    <3> SUFFICES ASSUME u \notin {s, r} PROVE FALSE  OBVIOUS
    <3>2. stack'[u] = stack[u]  BY <1>8, <3>1
    <3>3. Works(u)  BY <2>3, <3>2, SameStack
    <3> QED  BY <1>1, <1>3, <2>3, <3>3 DEF CloseInv, WorkInv
  <2> QED  BY <1>9, <2>1, <2>2, <2>3 DEF WorkInv
<1> QED  BY <1>13, <1>14, <1>15, <1>16 DEF CloseInv

-----------------------------------------------------------------------------
(* All steps                                                               *)

LEMMA CoroutineClose ==
    ASSUME Inv, Inv', ConnInv, NestInv, CloseInv, NEW t \in Tasks, ~svc.config.reconnect, CoroutineStep(t)
    PROVE  CloseInv'
<1>1. ASSUME ReconnectClosed(t) \/ SendAgain(t) PROVE FALSE
  <2>1. PICK l \in Bent : Runs(t, l)  BY <1>1 DEF ReconnectClosed, SendAgain, Bent
  <2>2. stack[t] # <<>> /\ Frame(t).at = l  BY <2>1, Nonempty
  <2>3. Frame(t) = stack[t][1] /\ 1 \in DOMAIN stack[t]  BY <2>2, StackTyped DEF Inv
  <2> QED  BY <2>1, <2>2, <2>3 DEF NestInv, Straight, Bent
<1>2. CASE \/ Connect(t) \/ ConnectGranted(t) \/ ConnectLocked(t) \/ ConnectFails(t)
           \/ Start(t) \/ StartGranted(t) \/ StartLocked(t) \/ StartConnected(t) \/ StartSent(t)
           \/ StartReady(t) \/ StartTimesOut(t) \/ Send(t) \/ Sent(t) \/ Disconnected(t)
  <2>1. Stays(t) /\ SameLoops(t)  BY <1>2, ConnectStays, StartStays, SendStays, DisconnectedStays
  <2> QED  BY <2>1, StaysKeeps
<1>3. CASE Close(t) \/ CloseAwaits(t) \/ CloseAwaited(t) \/ CloseSocket(t) \/ Closed(t)
  BY <1>3, CloseClose, AwaitsClose, SocketClose
<1>4. CASE Connected(t) \/ CancelDelivered(t) \/ Unwinds(t)
  BY <1>4, ConnectedClose, CancelDeliveredClose, UnwindsClose
<1> QED  BY <1>1, <1>2, <1>3, <1>4 DEF CoroutineStep

LEMMA NextClose ==
    ASSUME Inv, Inv', ConnInv, NestInv, CloseInv, ~svc.config.reconnect, [Next]_vars PROVE CloseInv'
<1>0. /\ Pipeline \in Tasks /\ Controller \in Tasks
      /\ \A k \in Conns : SendTask(k) \in Tasks /\ RecvTask(k) \in Tasks
  BY PlacesApart
<1>1. ASSUME NEW t \in Tasks, TaskStep(t) PROVE CloseInv'
  <2>1. CASE CoroutineStep(t)  BY <2>1, CoroutineClose
  <2>2. CASE PipelineStep  BY <1>0, <2>2, PipelineStays, StaysKeeps
  <2>3. CASE CancelSent  BY <1>0, <2>3, CancelSentStays, StaysKeeps
  <2>4. ASSUME NEW k \in Conns, SenderStep(k) PROVE CloseInv'  BY <1>0, <2>4, SenderStays, StaysKeeps
  <2>5. ASSUME NEW k \in Conns, ReceiverStep(k) PROVE CloseInv'  BY <1>0, <2>5, ReceiverStays, StaysKeeps
  <2> QED  BY <1>1, <2>1, <2>2, <2>3, <2>4, <2>5 DEF TaskStep
<1>2. CASE Environment
  <2>1. CASE HearsAudio \/ SpeechStarts \/ SpeechEnds \/ Stops
    BY <1>0, <2>1, HearsAudioStays, SpeechStays, StopsStays, StaysKeeps
  <2>2. CASE CleansUp  BY <1>0, <2>2, CleansUpStays, StaysKeeps
  <2>3. CASE Cancels  BY <2>3, CancelsClose
  <2>4. ASSUME NEW w \in Conns,
               HangsUp(w) \/ Breaks(w) \/ \E type \in {"partial", "ping"} : ServerChats(w, type)
        PROVE  CloseInv'
    BY <2>4, ServersClose
  <2> QED  BY <1>2, <2>1, <2>2, <2>3, <2>4 DEF Environment
<1>3. CASE UNCHANGED vars
  <2>1. stack' = stack /\ svc' = svc /\ cancelled' = cancelled  BY <1>3 DEF vars, serviceVars, taskVars
  <2> QED  BY <2>1, StandsKeep
<1> QED  BY <1>1, <1>2, <1>3 DEF Next

LEMMA InitClose == Init => CloseInv
<1> SUFFICES ASSUME Init PROVE CloseInv  OBVIOUS
<1>1. svc.ws = 0 /\ svc.sendTask = NoTask /\ svc.recvTask = NoTask  BY DEF Init
<1>2. \A u \in Loops : stack[u] = <<>>  BY DEF Init, Tasks
<1>3. \A u \in Loops : DOMAIN stack[u] = {} /\ ~Works(u)  BY <1>2 DEF Works, Inside
<1>4. ASSUME NEW t \in Tasks PROVE ~Tops(t, WaitPlaces) /\ ~Tops(t, PastPlaces)
  <2> DEFINE f == At("idle")
             v == <<f>>
  <2>1. stack[t] \in {<<>>, v}  BY DEF Init
  <2>2. f.at = "idle"  BY AtIs
  <2> HIDE DEF f
  <2>3. Head(v) = f  OBVIOUS
  <2> HIDE DEF v
  <2> QED  BY <2>1, <2>2, <2>3 DEF Tops, Frame, WaitPlaces, PastPlaces
<1>5. HomeInv  BY <1>3 DEF HomeInv
<1>6. EraInv
  <2>1. 1 \in Conns  BY ServiceAssumption DEF Conns
  <2> QED  BY <1>1, <1>4, <2>1 DEF EraInv
<1>7. WaitInv  BY <1>4 DEF WaitInv, Tasks
<1>8. WorkInv  BY <1>3 DEF WorkInv
<1> QED  BY <1>5, <1>6, <1>7, <1>8 DEF CloseInv

LEMMA CloseHolds == Spec => [](svc.config.reconnect \/ CloseInv)
<1> DEFINE I == svc.config.reconnect \/ CloseInv
           J == svc.config.reconnect \/ AudioInv
<1>1. Init => I  BY InitClose
<1>2. Inv /\ Inv' /\ ConnInv /\ J /\ I /\ [Next]_vars => I'  BY ConfigKept, NextClose DEF AudioInv
<1>3. Spec => []J  BY AudioHolds
<1> HIDE DEF I, J
<1>4. Spec => []I  BY <1>1, <1>2, <1>3, InvHolds, ConnHolds, PTL DEF Spec
<1> QED  BY <1>4 DEF I

\* Without a reconnect no two receive loops read the same connection: a loop that
\* works and has not been cancelled is that of the current connection, since a close
\* cancels and awaits all loops there are, and no connection is made while a task is
\* inside a close (_close_socket_and_tasks, _ensure_connection, _receive_loop).
THEOREM OneReaderKept == Spec => []SecondReaderHasCause
<1>1. Inv /\ CloseInv => OneReader
  <2> SUFFICES ASSUME Inv, CloseInv, NEW j \in Conns, NEW k \in Conns,
                      IsAt(RecvTask(j), "r_recv"), IsAt(RecvTask(k), "r_recv"),
                      {RecvTask(j), RecvTask(k)} \cap cancelled = {}
               PROVE  j = k
    BY DEF OneReader
  <2>1. ASSUME NEW i \in Conns, IsAt(RecvTask(i), "r_recv"), RecvTask(i) \notin cancelled
        PROVE  RecvTask(i) = svc.recvTask
    <3> DEFINE t == RecvTask(i)
    <3>1. t \in Tasks /\ t \in Loops  BY PlacesApart DEF Loops
    <3>2. stack[t] # <<>> /\ Frame(t).at = "r_recv"  BY <2>1 DEF IsAt, Frame
    <3>3. Frame(t) = stack[t][1] /\ 1 \in DOMAIN stack[t]  BY <3>1, <3>2, StackTyped DEF Inv
    <3>4. Works(t)  BY <3>2, <3>3 DEF Works, Inside, Tops, WorkPlaces
    <3>5. t \in Current  BY <2>1, <3>1, <3>4 DEF CloseInv, WorkInv
    <3>6. \A n \in Conns : t # SendTask(n)  BY PlacesApart
    <3>7. PICK n \in Conns : svc.sendTask \in {NoTask, SendTask(n)}  BY DEF CloseInv, EraInv
    <3> HIDE DEF t
    <3>8. t = svc.recvTask  BY <3>5, <3>6, <3>7 DEF Current
    <3> QED  BY <3>8 DEF t
  <2>2. RecvTask(j) = RecvTask(k)  BY <2>1
  <2> QED  BY <2>2, PlacesApart
<1> DEFINE I == svc.config.reconnect \/ CloseInv
           J == SecondReaderHasCause
<1>2. Inv /\ I => J  BY <1>1 DEF SecondReaderHasCause
<1>3. Spec => []I  BY CloseHolds
<1> HIDE DEF I, J
<1>4. Spec => []J  BY <1>2, <1>3, InvHolds, PTL
<1> QED  BY <1>4 DEF J

-----------------------------------------------------------------------------
(* What becomes of the queue                                               *)

\* A task inside a close, or about to disconnect; a loop that is on its way there.
Leaves(t) == Tops(t, ClosePlaces \cup {"disconnected"})
Errs(t) == Tops(t, {"raise"}) /\ Frame(t).exc # "cancelled"
Breaking(t) == Tops(t, {"close", "r_failed"}) \/ Errs(t)

\* Only loops that work are cancelled, and not the one that runs.
CancelInv == \A t \in cancelled : t \in Loops /\ Works(t) /\ running # t

\* No loop ends with an error: one that raises it was sending, and handles it.
ErrorInv ==
    /\ DOMAIN result = Tasks
    /\ \A t \in Loops : result[t] # "error"
    /\ \A t \in Loops : Errs(t) => 2 \in DOMAIN stack[t] /\ stack[t][2].at \in {"s_sent", "r_ponged"}

\* Nobody awaits a loop that is on its way to a close.
AloneInv == \A t \in Loops, u \in Tasks : Breaking(t) /\ Tops(u, WaitPlaces) => t \notin Todo(u)

\* Once the service is closed no loop goes on, except to find that out.
EndInv == svc.closed => \A t \in Loops : Works(t) /\ t \notin cancelled => Tops(t, {"s_new", "r_new"})

EndingInv == CancelInv /\ ErrorInv /\ AloneInv /\ EndInv

\* The step of a loop: it goes on, it ends since the service is closed or has no
\* connection, it is on its way to a close, or it ends after one.
LoopStep(t) ==
    /\ t \notin cancelled /\ ~Leaves(t)
    /\ \/ Works(t) /\ Works(t)' /\ ~svc.closed
       \/ Works(t) /\ stack'[t] = <<>> /\ (svc.closed \/ svc.ws = 0)
       \/ (Works(t) \/ Breaking(t)) /\ Breaking(t)' /\ ~Works(t)'
          /\ (Errs(t)' => 2 \in DOMAIN stack'[t] /\ stack'[t][2].at \in {"s_sent", "r_ponged"})
       \/ ~Works(t) /\ ~Breaking(t) /\ ~Works(t)' /\ ~Breaking(t)'

\* What a step of task t does to the others.
Alone(t) ==
    /\ \A u \in Tasks : u # t => stack'[u] = stack[u]
    /\ running' \in {t, NoTask} /\ cancelled' = cancelled \ {t}
    /\ result' = result \/ \E r : result' = [result EXCEPT ![t] = r] /\ (t \in Loops => r # "error")
    /\ svc'.closed => svc.closed

\* A loop that works is neither inside a close nor on its way there.
LEMMA WorkApart == Inv /\ NestInv => \A t \in Tasks : Works(t) => ~Breaking(t) /\ ~Leaves(t)
<1> SUFFICES ASSUME Inv, NestInv, NEW t \in Tasks, Works(t) PROVE ~Breaking(t) /\ ~Leaves(t)  OBVIOUS
<1>1. ~Tops(t, ClosePlaces \cup {"disconnected", "s_gone", "r_end", "r_failed"})  BY CloserIdle
<1>2. ~Tops(t, {"raise"})  BY DEF Works
<1> QED  BY <1>1, <1>2 DEF Breaking, Leaves, Errs, Tops, ClosePlaces

LEMMA WorkApartNext == Inv' /\ NestInv' => (\A t \in Tasks : Works(t) => ~Breaking(t) /\ ~Leaves(t))'
BY WorkApart, PTL

LEMMA SameBreaking ==
    ASSUME NEW u, stack'[u] = stack[u]
    PROVE  Breaking(u)' = Breaking(u) /\ Errs(u)' = Errs(u) /\ Leaves(u)' = Leaves(u)
<1>1. (\A P : Tops(u, P)' = Tops(u, P)) /\ Frame(u)' = Frame(u)  BY SameStack
<1>2. /\ Tops(u, {"raise"})' = Tops(u, {"raise"}) /\ Tops(u, {"close", "r_failed"})' = Tops(u, {"close", "r_failed"})
      /\ Tops(u, ClosePlaces \cup {"disconnected"})' = Tops(u, ClosePlaces \cup {"disconnected"})
  BY <1>1 DEF Tops, ClosePlaces
<1>3. Errs(u)' = Errs(u)  BY <1>1, <1>2 DEF Errs
<1> QED  BY <1>2, <1>3 DEF Breaking, Leaves

\* A task that is over does nothing.
LEMMA OverIs ==
    ASSUME NEW t, stack'[t] = <<>>
    PROVE  ~Works(t)' /\ ~Errs(t)' /\ ~Breaking(t)' /\ ~Leaves(t)' /\ \A P : ~Tops(t, P)'
<1>1. DOMAIN stack'[t] = {}  OBVIOUS
<1> QED  BY <1>1 DEF Works, Inside, Errs, Breaking, Leaves, Tops

LEMMA EndingKept ==
    ASSUME EndingInv, NEW t \in Tasks, Alone(t),
           Tops(t, WaitPlaces)' => Tops(t, WaitPlaces) /\ Todo(t)' \subseteq Todo(t),
           t \in Loops => /\ ~(Works(t)' /\ svc.closed)
                          /\ Errs(t)' => 2 \in DOMAIN stack'[t] /\ stack'[t][2].at \in {"s_sent", "r_ponged"}
                          /\ Breaking(t)' => \A u \in Tasks : Tops(u, WaitPlaces) => t \notin Todo(u)
    PROVE  EndingInv'
<1>1. \A u \in Tasks : u # t => /\ \A P : Tops(u, P)' = Tops(u, P)
                                /\ Works(u)' = Works(u) /\ Todo(u)' = Todo(u)
                                /\ Breaking(u)' = Breaking(u) /\ Errs(u)' = Errs(u)
  BY SameStack, SameBreaking DEF Alone
<1>2. \A u \in Loops : u \in Tasks  BY DEF Tasks
<1>3. CancelInv'
  <2> SUFFICES ASSUME NEW u \in cancelled, u # t PROVE u \in Loops /\ Works(u)' /\ running' # u  BY DEF CancelInv, Alone
  <2>1. u \in Loops /\ Works(u) /\ u # t  BY DEF EndingInv, CancelInv
  <2>2. u # NoTask  BY <1>2, <2>1, PlacesApart
  <2> QED  BY <1>1, <1>2, <2>1, <2>2 DEF Alone
<1>4. ErrorInv'
  <2>1. DOMAIN result' = Tasks /\ \A u \in Loops : result'[u] # "error"
    BY <1>2 DEF EndingInv, ErrorInv, Alone
  <2>2. ASSUME NEW u \in Loops, Errs(u)'
        PROVE  2 \in DOMAIN stack'[u] /\ stack'[u][2].at \in {"s_sent", "r_ponged"}
    <3>1. CASE u = t  BY <2>2, <3>1
    <3>2. CASE u # t
      <4>1. Errs(u) /\ stack'[u] = stack[u]  BY <1>1, <1>2, <2>2, <3>2 DEF Alone
      <4> QED  BY <4>1 DEF EndingInv, ErrorInv
    <3> QED  BY <3>1, <3>2
  <2> QED  BY <2>1, <2>2 DEF ErrorInv
<1>5. AloneInv'
  <2> SUFFICES ASSUME NEW x \in Loops, NEW u \in Tasks, Breaking(x)', Tops(u, WaitPlaces)' PROVE x \notin Todo(u)'
    BY DEF AloneInv
  <2>1. Tops(u, WaitPlaces) /\ Todo(u)' \subseteq Todo(u)  BY <1>1
  <2>2. x \notin Todo(u)
    <3>1. CASE x = t  BY <2>1, <3>1
    <3>2. CASE x # t
      <4>1. Breaking(x)  BY <1>1, <1>2, <3>2
      <4> QED  BY <2>1, <4>1 DEF EndingInv, AloneInv
    <3> QED  BY <3>1, <3>2
  <2> QED  BY <2>1, <2>2
<1>6. EndInv'
  <2> SUFFICES ASSUME svc'.closed, NEW u \in Loops, Works(u)', u \notin cancelled' PROVE Tops(u, {"s_new", "r_new"})'
    BY DEF EndInv
  <2>1. svc.closed /\ u # t /\ u \in Tasks /\ u \notin cancelled  BY <1>2 DEF Alone
  <2>2. Works(u) /\ Tops(u, {"s_new", "r_new"})' = Tops(u, {"s_new", "r_new"})  BY <1>1, <2>1
  <2> QED  BY <2>1, <2>2 DEF EndingInv, EndInv
<1> QED  BY <1>3, <1>4, <1>5, <1>6 DEF EndingInv

\* The step of a loop.
LEMMA LoopEnding ==
    ASSUME Inv, Inv', NestInv', CloseInv, EndingInv, NEW t \in Loops, Steady(t), Alone(t), LoopStep(t)
    PROVE  EndingInv'
<1>0. t \in Tasks  BY DEF Tasks
<1>1. ~Tops(t, WaitPlaces)'  BY DEF Steady, Tops
<1>2. t \notin cancelled  BY DEF LoopStep
<1>3. ASSUME Breaking(t), NEW u \in Tasks, Tops(u, WaitPlaces) PROVE t \notin Todo(u)
  BY <1>3 DEF EndingInv, AloneInv
<1>4. ASSUME Works(t), NEW u \in Tasks, Tops(u, WaitPlaces) PROVE t \notin Todo(u)
  BY <1>2, <1>4 DEF CloseInv, WaitInv
<1>5. stack'[t] = <<>> => ~Works(t)' /\ ~Errs(t)' /\ ~Breaking(t)'  BY OverIs
<1>6. Works(t)' => ~Breaking(t)' /\ ~Errs(t)'
  <2>1. Works(t)' => ~Breaking(t)'  BY <1>0, WorkApartNext
  <2> QED  BY <2>1 DEF Breaking
<1>7. /\ ~(Works(t)' /\ svc.closed)
      /\ Errs(t)' => 2 \in DOMAIN stack'[t] /\ stack'[t][2].at \in {"s_sent", "r_ponged"}
      /\ Breaking(t)' => Works(t) \/ Breaking(t)
  BY <1>5, <1>6 DEF LoopStep, Breaking
<1>8. Breaking(t)' => \A u \in Tasks : Tops(u, WaitPlaces) => t \notin Todo(u)  BY <1>3, <1>4, <1>7
<1> QED  BY <1>0, <1>1, <1>7, <1>8, EndingKept

\* The step of another task.
LEMMA OtherEnding ==
    ASSUME EndingInv, NEW t \in Tasks, t \notin Loops, Steady(t), Alone(t) PROVE EndingInv'
<1>1. ~Tops(t, WaitPlaces)'  BY DEF Steady, Tops
<1> QED  BY <1>1, EndingKept

LEMMA StandsEnding ==
    ASSUME EndingInv, stack' = stack, running' = running, result' = result, cancelled' = cancelled,
           svc'.closed = svc.closed
    PROVE  EndingInv'
<1>1. \A u : /\ \A P : Tops(u, P)' = Tops(u, P)
             /\ Works(u)' = Works(u) /\ Todo(u)' = Todo(u)
             /\ Breaking(u)' = Breaking(u) /\ Errs(u)' = Errs(u)
  BY SameStack, SameBreaking
<1>2. CancelInv'  BY <1>1 DEF EndingInv, CancelInv
<1>3. ErrorInv'  BY <1>1 DEF EndingInv, ErrorInv
<1>4. AloneInv'  BY <1>1 DEF EndingInv, AloneInv
<1>5. EndInv'  BY <1>1 DEF EndingInv, EndInv
<1> QED  BY <1>2, <1>3, <1>4, <1>5 DEF EndingInv

-----------------------------------------------------------------------------
(* The steps of a loop                                                     *)

LEMMA AloneStep ==
    ASSUME NEW t, \A u \in Tasks : u # t => stack'[u] = stack[u],
           \/ \E w : Becomes(t, w)
           \/ \E r : Ends(t, r) /\ (t \in Loops => r # "error"),
           cancelled' = cancelled \ {t}, svc'.closed => svc.closed
    PROVE  Alone(t)
<1>1. running' \in {t, NoTask}  BY DEF Becomes, Ends
<1>2. result' = result \/ \E r : result' = [result EXCEPT ![t] = r] /\ (t \in Loops => r # "error")
  BY DEF Becomes, Ends
<1> QED  BY <1>1, <1>2 DEF Alone

\* A loop that sends is at work.
LEMMA LoopSends ==
    ASSUME Inv, NestInv, HomeInv, NEW t \in Loops, Tops(t, {"send", "sending"})
    PROVE  Works(t) /\ 2 \in DOMAIN stack[t] /\ stack[t][2].at \in {"s_sent", "r_ponged"}
<1>1. /\ t \in Tasks /\ stack[t] # <<>> /\ Frame(t) = stack[t][1] /\ 1 \in DOMAIN stack[t]
      /\ Frame(t).at \in {"send", "sending"}
  BY StackTyped DEF Inv, Tasks, Tops
<1>2. 2 \in DOMAIN stack[t]
  <2>1. stack[t][1].at \notin LoopPlaces \cup {"raise"}  BY <1>1 DEF LoopPlaces, SendPlaces
  <2> QED  BY <1>1, <2>1, Bottom
<1>3. <<stack[t][1].at, stack[t][2].at>> \in Nesting /\ stack[t][2].at \in CallerPlaces
  <2>1. 2 > 1 /\ 2 - 1 = 1  OBVIOUS
  <2> QED  BY <1>1, <1>2, <2>1, Callee
<1>4. stack[t][2].at # "close"  BY <1>2 DEF HomeInv
<1>5. stack[t][2].at \notin FinalPlaces \cup StartPlaces \cup {"cancel_sent"}  BY <1>2, LoopPlain
<1>6. stack[t][2].at \in {"s_sent", "r_ponged"}
  BY <1>1, <1>3, <1>4, <1>5 DEF Nesting, FinalPlaces, StartPlaces, LoopPlaces, SendPlaces, CallerPlaces,
     ConnectPlaces, ClosePlaces
<1>7. Works(t)  BY <1>1, <1>2, <1>6 DEF Works, Inside, Tops, WorkPlaces
<1> QED  BY <1>2, <1>6, <1>7

\* Where a loop goes by a Goto.
LEMMA WorkGoto ==
    ASSUME Inv, Inv', NEW t \in Tasks, NEW l, Wakes(t, l) \/ Runs(t, l), NEW f, Goto(t, f)
    PROVE  /\ f.at \in WorkPlaces => Works(t)'
           /\ f.at = "r_failed" => Breaking(t)' /\ ~Errs(t)'
<1>1. stack'[t] # <<>> /\ Frame(t)' = f  BY GotoTop
<1>2. 1 \in DOMAIN stack'[t] /\ stack'[t][1] = f  BY <1>1, TopAt
<1>3. f.at \in WorkPlaces => Works(t)'  BY <1>1, <1>2 DEF Works, Inside, Tops, WorkPlaces
<1>4. f.at = "r_failed" => Breaking(t)' /\ ~Errs(t)'  BY <1>1 DEF Breaking, Errs, Tops
<1> QED  BY <1>3, <1>4

\* A Goto replaces the innermost frame only.
LEMMA GotoDeep ==
    ASSUME Inv, NEW t \in Tasks, NEW l, Wakes(t, l) \/ Runs(t, l), NEW f, Goto(t, f)
    PROVE  DOMAIN stack'[t] = DOMAIN stack[t] /\ \A i \in DOMAIN stack[t] : i > 1 => stack'[t][i] = stack[t][i]
<1> DEFINE w == <<f>>
           s == Callers(t)
           r == w \o s
<1>1. w \in Seq({f}) /\ Len(w) = 1  OBVIOUS
<1>2. stack[t] # <<>> /\ stack[t] \in Seq(Frames) /\ s \in Seq(Frames)  BY Nonempty, StackTyped DEF Inv
<1>3. s = Tail(stack[t]) /\ Len(s) = Len(stack[t]) - 1 /\ Len(stack[t]) \in Nat /\ Len(s) \in Nat
  BY <1>2 DEF Callers
<1>4. \A i \in 1..Len(s) : s[i] = stack[t][i + 1]  BY <1>2, <1>3
<1>5. stack' = [stack EXCEPT ![t] = r]  BY DEF Goto, Becomes
<1>6. stack'[t] = r  BY <1>5 DEF Inv, Slots, TypeInv
<1> HIDE DEF w, s
<1>7. w \in Seq({f} \cup Frames) /\ s \in Seq({f} \cup Frames)  BY <1>1, <1>2, SeqMonotonic
<1>8. /\ DOMAIN r = 1..(Len(w) + Len(s))
      /\ \A i \in 1..(Len(w) + Len(s)) : r[i] = IF i <= Len(w) THEN w[i] ELSE s[i - Len(w)]
  BY <1>7, ConcatAre
<1> HIDE DEF r
<1>9. DOMAIN stack[t] = 1..Len(stack[t]) /\ Len(w) + Len(s) = Len(stack[t])  BY <1>1, <1>2, <1>3
<1>10. ASSUME NEW i \in DOMAIN stack[t], i > 1 PROVE r[i] = stack[t][i]
  <2>1. i \in 1..(Len(w) + Len(s)) /\ ~(i <= Len(w)) /\ i - 1 \in 1..Len(s) /\ (i - 1) + 1 = i
    BY <1>1, <1>3, <1>9, <1>10
  <2>2. r[i] = s[i - 1]  BY <1>1, <1>8, <2>1
  <2> QED  BY <1>4, <2>1, <2>2
<1> QED  BY <1>6, <1>8, <1>9, <1>10

LEMMA NotCancelled ==
    ASSUME EndingInv, NEW t, NEW l, Wakes(t, l) \/ Runs(t, l) PROVE t \notin cancelled /\ cancelled = cancelled \ {t}
BY DEF Wakes, Runs, EndingInv, CancelInv

\* A loop that works goes on only while the service is not closed.
LEMMA Onward ==
    ASSUME EndingInv, NEW t \in Loops, Works(t), NEW l, Wakes(t, l) \/ Runs(t, l), l \notin {"s_new", "r_new"}
    PROVE  ~svc.closed
<1>1. t \notin cancelled /\ ~Tops(t, {"s_new", "r_new"})  BY NotCancelled, Nonempty DEF Tops
<1> QED  BY <1>1 DEF EndingInv, EndInv

\* The three kinds of steps of a loop that works.
LEMMA GoesOn ==
    ASSUME Inv, NestInv, EndingInv, NEW t \in Loops, Works(t), NEW l, Wakes(t, l) \/ Runs(t, l), ~svc.closed, Works(t)'
    PROVE  LoopStep(t)
<1>1. ~Leaves(t)  BY WorkApart DEF Tasks
<1> QED  BY <1>1, NotCancelled DEF LoopStep

LEMMA ComesToEnd ==
    ASSUME Inv, NestInv, EndingInv, NEW t \in Loops, Works(t), NEW l, Wakes(t, l) \/ Runs(t, l),
           svc.closed \/ svc.ws = 0, NEW r, Ends(t, r)
    PROVE  LoopStep(t)
<1>1. ~Leaves(t)  BY WorkApart DEF Tasks
<1>2. stack'[t] = <<>>  BY DEF Ends, Inv, Slots, TypeInv, Tasks
<1> QED  BY <1>1, <1>2, NotCancelled DEF LoopStep

LEMMA BreaksOff ==
    ASSUME Inv, Inv', NestInv, NestInv', EndingInv, NEW t \in Loops, Works(t) \/ (Breaking(t) /\ ~Leaves(t)),
           NEW l, Wakes(t, l) \/ Runs(t, l), Breaking(t)',
           Errs(t)' => 2 \in DOMAIN stack'[t] /\ stack'[t][2].at \in {"s_sent", "r_ponged"}
    PROVE  LoopStep(t)
<1>1. t \in Tasks  BY DEF Tasks
<1>2. ~Leaves(t)  BY <1>1, WorkApart
<1>3. ~Works(t)'  BY <1>1, WorkApartNext
<1> QED  BY <1>2, <1>3, NotCancelled DEF LoopStep

LEMMA SendBreaks ==
    ASSUME Inv, Inv', NestInv, NestInv', HomeInv, EndingInv, NEW t \in Loops, NEW l \in {"send", "sending"},
           Wakes(t, l) \/ Runs(t, l), Raise(t, "error")
    PROVE  LoopStep(t)
<1> DEFINE f == [at |-> "raise", exc |-> "error"]
<1>1. Goto(t, f) /\ f.at = "raise" /\ f.exc # "cancelled"  BY DEF Raise
<1> HIDE DEF f
<1>2. t \in Tasks  BY DEF Tasks
<1>3. Works(t) /\ 2 \in DOMAIN stack[t] /\ stack[t][2].at \in {"s_sent", "r_ponged"}
  <2>1. Tops(t, {"send", "sending"})  BY Nonempty DEF Tops
  <2> QED  BY <2>1, LoopSends
<1>4. stack'[t] # <<>> /\ Frame(t)' = f  BY <1>1, <1>2, GotoTop
<1>5. Breaking(t)'  BY <1>1, <1>4 DEF Breaking, Errs, Tops
<1>6. 2 \in DOMAIN stack'[t] /\ stack'[t][2] = stack[t][2]
  <2>1. 2 > 1  OBVIOUS
  <2> QED  BY <1>1, <1>2, <1>3, <2>1, GotoDeep
<1> QED  BY <1>3, <1>5, <1>6, BreaksOff

LEMMA SendLoops ==
    ASSUME Inv, Inv', NestInv, NestInv', HomeInv, EndingInv, NEW t \in Loops, ~svc.config.reconnect, Send(t) \/ Sent(t)
    PROVE  LoopStep(t)
<1> DEFINE f == [Frame(t) EXCEPT !.at = "sending", !.conn = svc.ws]
<1>1. PICK l \in {"send", "sending"} : Wakes(t, l) \/ Runs(t, l)  BY DEF Send, Sent
<1>2. t \in Tasks /\ Frame(t) \in Frames  BY <1>1, Nonempty, StackTyped DEF Inv, Tasks
<1>3. f.at = "sending"  BY <1>2, MovedAt
<1>4. Goto(t, f) \/ Return(t) \/ Raise(t, "error")  BY DEF Send, Sent, SendFails
<1> HIDE DEF f
<1>5. Works(t) /\ 2 \in DOMAIN stack[t] /\ stack[t][2].at \in {"s_sent", "r_ponged"} /\ ~svc.closed
  <2>1. Tops(t, {"send", "sending"})  BY <1>1, Nonempty DEF Tops
  <2>2. Works(t)  BY <2>1, LoopSends
  <2> QED  BY <1>1, <2>1, <2>2, LoopSends, Onward
<1>6. CASE Goto(t, f)
  <2>1. 2 \in DOMAIN stack'[t] /\ stack'[t][2] = stack[t][2]
    <3>1. 2 > 1  OBVIOUS
    <3> QED  BY <1>1, <1>2, <1>5, <1>6, <3>1, GotoDeep
  <2>2. Frame(t)' = f  BY <1>1, <1>2, <1>6, GotoTop
  <2>3. Works(t)'  BY <1>3, <1>5, <2>1, <2>2 DEF Works, Inside, Tops, WorkPlaces
  <2> QED  BY <1>1, <1>5, <2>3, GoesOn
<1>7. CASE Return(t)
  <2>1. stack'[t] = Tail(stack[t]) /\ stack[t] # <<>> /\ stack[t] \in Seq(Frames)
    BY <1>1, <1>2, <1>7, Nonempty DEF Return, Becomes, Callers, Inv, Slots, TypeInv
  <2>2. stack'[t] # <<>>
    <3>1. Len(stack[t]) \in Nat /\ Len(stack[t]) >= 2  BY <1>5, <2>1
    <3> DEFINE r == Tail(stack[t])
    <3>2. DOMAIN r = 1..(Len(stack[t]) - 1)  BY <2>1
    <3> HIDE DEF r
    <3>3. 1 \in DOMAIN r  BY <3>1, <3>2
    <3>4. r # <<>>  BY <3>3
    <3> QED  BY <2>1, <3>4 DEF r
  <2>3. Frame(t)' = stack[t][2]  BY <1>1, <1>2, <1>7, <2>2, ReturnTop
  <2>4. 1 \in DOMAIN stack'[t] /\ stack'[t][1] = stack[t][2]  BY <1>2, <2>2, <2>3, TopAt
  <2>5. Works(t)'  BY <1>5, <2>2, <2>3, <2>4 DEF Works, Inside, Tops, WorkPlaces
  <2> QED  BY <1>1, <1>5, <2>5, GoesOn
<1> QED  BY <1>1, <1>4, <1>6, <1>7, SendBreaks

\* The current send loop is a send loop, and the current receive loop a receive loop.
LEMMA CurrentSender ==
    ASSUME CloseInv, NEW k \in Conns, SendTask(k) \in Current PROVE SendTask(k) = svc.sendTask
<1>1. PICK n \in Conns : svc.recvTask \in {NoTask, RecvTask(n)}  BY DEF CloseInv, EraInv
<1>2. SendTask(k) # RecvTask(n)  BY DEF SendTask, RecvTask
<1> QED  BY <1>1, <1>2 DEF Current

LEMMA SenderGoes ==
    ASSUME Inv, Inv', NestInv, NestInv', CloseInv, EndingInv, NEW k \in Conns, SenderStep(k)
    PROVE  Alone(SendTask(k)) /\ LoopStep(SendTask(k))
<1> DEFINE t == SendTask(k)
<1>1. t \in Tasks /\ t \in Loops  BY PlacesApart
<1>2. \A u \in Tasks : u # t => stack'[u] = stack[u]
  <2>1. Stays(t)  BY SenderStays
  <2> QED  BY <2>1 DEF Stays, Adds
<1>3. PICK l : Wakes(t, l) \/ Runs(t, l)
  BY DEF SenderStep, SenderLoops, SenderWakes, SenderTakes, SenderSent, SenderGone
<1>4. cancelled' = cancelled \ {t}
  <2>1. cancelled' = cancelled
    BY DEF SenderStep, SenderLoops, SenderWakes, SenderTakes, SenderSent, SenderGone
  <2> HIDE DEF t
  <2> QED  BY <1>3, <2>1, NotCancelled
<1>5. svc' = svc
  BY DEF SenderStep, SenderLoops, SenderWakes, SenderTakes, SenderSent, SenderGone, serviceVars
<1>6. (\E w : Becomes(t, w)) \/ Ends(t, "ok")
  BY DEF SenderStep, SenderLoops, SenderWakes, SenderTakes, SenderSent, SenderGone, Goto, Call
<1>7. Alone(t)
  <2>1. (\E w : Becomes(t, w)) \/ (\E r : Ends(t, r) /\ (t \in Loops => r # "error"))
    <3> HIDE DEF t
    <3> QED  BY <1>6
  <2> HIDE DEF t
  <2> QED  BY <1>2, <1>4, <1>5, <2>1, AloneStep
<1>8. ASSUME NEW m \in WorkPlaces, Wakes(t, m) \/ Runs(t, m), ~svc.closed, NEW n \in WorkPlaces, Goto(t, At(n))
      PROVE  LoopStep(t)
  <2> DEFINE f == At(n)
  <2>1. f.at = n /\ Goto(t, f)  BY <1>8, AtIs
  <2> HIDE DEF f, t
  <2>2. Works(t)  BY <1>1, <1>8, AtWork
  <2>3. Works(t)'  BY <1>1, <1>8, <2>1, WorkGoto
  <2> QED  BY <1>1, <1>8, <2>2, <2>3, GoesOn
<1>9. ASSUME NEW m \in WorkPlaces \ {"s_new", "r_new"}, Wakes(t, m) \/ Runs(t, m) PROVE ~svc.closed
  <2> HIDE DEF t
  <2> QED  BY <1>1, <1>9, AtWork, Onward
<1>10. ASSUME SenderLoops(k) PROVE LoopStep(t)
  <2>1. PICK m \in {"s_new", "s_loop"} : Wakes(t, m) \/ Runs(t, m)  BY <1>10 DEF SenderLoops
  <2>2. m \in WorkPlaces  BY DEF WorkPlaces
  <2>3. CASE svc.closed
    <3>1. Ends(t, "ok")  BY <1>10, <2>3 DEF SenderLoops
    <3> HIDE DEF t
    <3>2. Works(t)  BY <1>1, <2>1, <2>2, AtWork
    <3> QED  BY <1>1, <2>1, <2>3, <3>1, <3>2, ComesToEnd
  <2>4. CASE ~svc.closed
    <3>1. \E n \in WorkPlaces : Goto(t, At(n))  BY <1>10, <2>4 DEF SenderLoops, WorkPlaces
    <3> QED  BY <1>8, <2>1, <2>2, <2>4, <3>1
  <2> QED  BY <2>3, <2>4
<1>11. ASSUME SenderWakes(k) PROVE LoopStep(t)
  <2>1. Wakes(t, "s_get") /\ Goto(t, At("s_take"))  BY <1>11 DEF SenderWakes
  <2>2. "s_get" \in WorkPlaces \ {"s_new", "r_new"} /\ "s_take" \in WorkPlaces  BY DEF WorkPlaces
  <2> QED  BY <1>8, <1>9, <2>1, <2>2
<1>12. ASSUME SenderTakes(k) PROVE LoopStep(t)
  <2>1. Runs(t, "s_take") /\ "s_take" \in WorkPlaces \ {"s_new", "r_new"} /\ "s_loop" \in WorkPlaces
    BY <1>12 DEF SenderTakes, WorkPlaces
  <2>2. CASE Goto(t, At("s_loop"))  BY <1>8, <1>9, <2>1, <2>2
  <2>3. CASE ~Goto(t, At("s_loop"))
    <3> DEFINE chunk == Head(buf.queue)
               g == SendCall([type |-> "audio", frames |-> chunk.frames, gen |-> chunk.gen], TRUE, TRUE)
               f == [at |-> "s_sent", chunk |-> chunk]
               w == <<g, f>>
    <3>1. Call(t, g, f)  BY <1>12, <2>3 DEF SenderTakes
    <3>2. g.at = "send" /\ f.at = "s_sent"  BY DEF SendCall
    <3> HIDE DEF g, f
    <3>3. Callers(t) = <<>>
      <4>1. Works(t) /\ Frame(t).at = "s_take"
        <5> HIDE DEF t
        <5> QED  BY <1>1, <2>1, AtWork, Nonempty
      <4> HIDE DEF t
      <4> QED  BY <1>1, <4>1, WorksTop
    <3>4. w \in Seq({g, f}) /\ DOMAIN w = 1..2 /\ w[1] = g /\ w[2] = f /\ Head(w) = g  OBVIOUS
    <3>5. stack' = [stack EXCEPT ![t] = w \o Callers(t)]  BY <3>1 DEF Call, Becomes
    <3> HIDE DEF w, t
    <3>6. stack'[t] = w
      <4>1. w \o <<>> = w  BY <3>4, ConcatEmptySeq
      <4> QED  BY <1>1, <3>3, <3>5, <4>1 DEF Inv, Slots, TypeInv
    <3>7. Works(t)'  BY <3>2, <3>4, <3>6 DEF Works, Inside, Tops, Frame, WorkPlaces
    <3>8. Works(t) /\ ~svc.closed  BY <1>1, <1>9, <2>1, AtWork DEF t
    <3> QED  BY <1>1, <2>1, <3>7, <3>8, GoesOn
  <2> QED  BY <2>2, <2>3
<1>13. ASSUME SenderSent(k) PROVE LoopStep(t)
  <2>1. Runs(t, "s_sent") /\ "s_sent" \in WorkPlaces \ {"s_new", "r_new"} /\ "s_loop" \in WorkPlaces
    BY <1>13 DEF SenderSent, WorkPlaces
  <2>2. svc.sendTask = t
    <3>1. Works(t) /\ t \notin cancelled
      <4> HIDE DEF t
      <4> QED  BY <1>1, <2>1, AtWork, NotCancelled
    <3>2. t \in Current
      <4> HIDE DEF t
      <4> QED  BY <1>1, <3>1 DEF CloseInv, WorkInv
    <3> QED  BY <3>2, CurrentSender
  <2>3. Goto(t, At("s_loop"))  BY <1>13, <2>2 DEF SenderSent
  <2> QED  BY <1>8, <1>9, <2>1, <2>3
<1>14. ASSUME SenderGone(k) PROVE LoopStep(t)
  <2>1. Runs(t, "s_gone") /\ Ends(t, "ok")  BY <1>14 DEF SenderGone
  <2> HIDE DEF t
  <2>2. stack[t] # <<>> /\ Frame(t).at = "s_gone"  BY <2>1, Nonempty
  <2>3. ~Works(t) /\ ~Breaking(t) /\ ~Leaves(t)
    <3>1. Tops(t, ClosePlaces \cup {"disconnected", "s_gone", "r_end", "r_failed"})  BY <2>2 DEF Tops
    <3>2. ~Works(t)  BY <1>1, <3>1, CloserIdle
    <3> QED  BY <2>2, <3>2 DEF Breaking, Errs, Leaves, Tops, ClosePlaces
  <2>4. stack'[t] = <<>>  BY <1>1, <2>1 DEF Ends, Inv, Slots, TypeInv
  <2>5. ~Works(t)' /\ ~Breaking(t)'  BY <2>4, OverIs
  <2>6. t \notin cancelled  BY <2>1, NotCancelled
  <2> QED  BY <2>3, <2>5, <2>6 DEF LoopStep
<1>15. LoopStep(t)  BY <1>10, <1>11, <1>12, <1>13, <1>14 DEF SenderStep
<1> QED  BY <1>7, <1>15

\* A call of a loop that works.
LEMMA WorkCalls ==
    ASSUME Inv, NestInv, EndingInv, NEW t \in Loops, Works(t), Frame(t).at \in WorkPlaces, NEW l, Wakes(t, l) \/ Runs(t, l),
           ~svc.closed, NEW g, NEW f, Call(t, g, f), g.at = "send", f.at \in WorkPlaces
    PROVE  LoopStep(t)
<1> DEFINE w == <<g, f>>
<1>1. t \in Tasks  BY DEF Tasks
<1>2. Callers(t) = <<>>
  <2>1. Frame(t).at \notin {"send", "sending"}  BY DEF WorkPlaces
  <2> QED  BY <1>1, <2>1, WorksTop
<1>3. w \in Seq({g, f}) /\ DOMAIN w = 1..2 /\ w[1] = g /\ w[2] = f /\ Head(w) = g  OBVIOUS
<1>4. stack' = [stack EXCEPT ![t] = w \o Callers(t)]  BY DEF Call, Becomes
<1> HIDE DEF w
<1>5. stack'[t] = w
  <2>1. w \o <<>> = w  BY <1>3, ConcatEmptySeq
  <2> QED  BY <1>1, <1>2, <1>4, <2>1 DEF Inv, Slots, TypeInv
<1>6. Works(t)'  BY <1>3, <1>5 DEF Works, Inside, Tops, Frame
<1> QED  BY <1>6, GoesOn

\* A loop whose disconnect is over, ends.
LEMMA EndsAfter ==
    ASSUME Inv, NestInv, EndingInv, NEW t \in Loops, NEW l \in {"s_gone", "r_end"}, Wakes(t, l) \/ Runs(t, l), NEW r, Ends(t, r)
    PROVE  LoopStep(t)
<1>1. t \in Tasks /\ stack[t] # <<>> /\ Frame(t).at = l  BY Nonempty DEF Tasks
<1>2. ~Works(t) /\ ~Breaking(t) /\ ~Leaves(t)
  <2>1. Tops(t, ClosePlaces \cup {"disconnected", "s_gone", "r_end", "r_failed"})  BY <1>1 DEF Tops
  <2>2. ~Works(t)  BY <1>1, <2>1, CloserIdle
  <2> QED  BY <1>1, <2>2 DEF Breaking, Errs, Leaves, Tops, ClosePlaces
<1>3. stack'[t] = <<>>  BY <1>1 DEF Ends, Inv, Slots, TypeInv
<1>4. ~Works(t)' /\ ~Breaking(t)'  BY <1>3, OverIs
<1> QED  BY <1>2, <1>4, NotCancelled DEF LoopStep

LEMMA ReceiverGoes ==
    ASSUME Inv, Inv', NestInv, NestInv', CloseInv, EndingInv, NEW k \in Conns, ~svc.config.reconnect, ReceiverStep(k)
    PROVE  Alone(RecvTask(k)) /\ LoopStep(RecvTask(k))
<1> DEFINE t == RecvTask(k)
<1>1. t \in Tasks /\ t \in Loops  BY PlacesApart DEF Loops
<1>2. \A u \in Tasks : u # t => stack'[u] = stack[u]
  <2>1. Stays(t)  BY ReceiverStays
  <2> QED  BY <2>1 DEF Stays, Adds
<1>3. PICK l : Wakes(t, l) \/ Runs(t, l)
  BY DEF ReceiverStep, ReceiverLoops, ReceivesPing, ReceivesReady, ReceivesTranscript, ReceiverPushes,
         ReceivesEnd, ReceiverLosesConnection, ReceiverFailed, ReceiverEnds, Receives
<1>4. cancelled' = cancelled \ {t}
  <2>1. cancelled' = cancelled
    BY DEF ReceiverStep, ReceiverLoops, ReceivesPing, ReceivesReady, ReceivesTranscript, ReceiverPushes,
           ReceivesEnd, ReceiverLosesConnection, ReceiverFailed, ReceiverEnds, Receives
  <2> HIDE DEF t
  <2> QED  BY <1>3, <2>1, NotCancelled
<1>5. svc'.closed = svc.closed
  <2>1. svc \in Service  BY DEF Inv, Slots, TypeInv
  <2>2. CASE ReceiverPushes(k)  BY <2>1, <2>2 DEF ReceiverPushes, Service
  <2>3. CASE ~ReceiverPushes(k)
    BY <2>3 DEF ReceiverStep, ReceiverLoops, ReceivesPing, ReceivesReady, ReceivesTranscript,
       ReceivesEnd, ReceiverLosesConnection, ReceiverFailed, ReceiverEnds, Receives, serviceVars
  <2> QED  BY <2>2, <2>3
<1>6. (\E w : Becomes(t, w)) \/ Ends(t, "ok")
  BY DEF ReceiverStep, ReceiverLoops, ReceivesPing, ReceivesReady, ReceivesTranscript, ReceiverPushes,
         ReceivesEnd, ReceiverLosesConnection, ReceiverFailed, ReceiverEnds, Receives, Goto, Call
<1>7. Alone(t)
  <2>1. (\E w : Becomes(t, w)) \/ (\E r : Ends(t, r) /\ (t \in Loops => r # "error"))
    <3> HIDE DEF t
    <3> QED  BY <1>6
  <2> HIDE DEF t
  <2> QED  BY <1>2, <1>4, <1>5, <2>1, AloneStep
<1>8. ASSUME NEW m \in WorkPlaces, Wakes(t, m) \/ Runs(t, m), ~svc.closed, NEW f, f.at \in WorkPlaces, Goto(t, f)
      PROVE  LoopStep(t)
  <2> HIDE DEF t
  <2>1. Works(t)  BY <1>1, <1>8, AtWork
  <2>2. Works(t)'  BY <1>1, <1>8, WorkGoto
  <2> QED  BY <1>1, <1>8, <2>1, <2>2, GoesOn
<1>9. ASSUME NEW m \in WorkPlaces \ {"s_new", "r_new"}, Wakes(t, m) \/ Runs(t, m) PROVE ~svc.closed /\ Works(t)
  <2> HIDE DEF t
  <2> QED  BY <1>1, <1>9, AtWork, Onward
<1>10. ASSUME ReceiverLoops(k) PROVE LoopStep(t)
  <2>1. PICK m \in WorkPlaces : Wakes(t, m) \/ Runs(t, m)  BY <1>10 DEF ReceiverLoops, WorkPlaces
  <2>2. CASE svc.closed \/ svc.ws = 0
    <3>1. Ends(t, "ok")  BY <1>10, <2>2 DEF ReceiverLoops
    <3> HIDE DEF t
    <3>2. Works(t)  BY <1>1, <2>1, AtWork
    <3> QED  BY <1>1, <2>1, <2>2, <3>1, <3>2, ComesToEnd
  <2>3. CASE ~svc.closed /\ svc.ws # 0
    <3> DEFINE f == [at |-> "r_recv", conn |-> svc.ws]
    <3>1. Goto(t, f)  BY <1>10, <2>3 DEF ReceiverLoops
    <3>2. f.at \in WorkPlaces  BY DEF WorkPlaces
    <3> HIDE DEF f
    <3> QED  BY <1>8, <2>1, <2>3, <3>1, <3>2
  <2> QED  BY <2>2, <2>3
<1>11. ASSUME NEW m \in WorkPlaces \ {"s_new", "r_new"}, Wakes(t, m) \/ Runs(t, m), Goto(t, At("r_loop")) PROVE LoopStep(t)
  <2> DEFINE f == At("r_loop")
  <2>1. f.at \in WorkPlaces /\ Goto(t, f)  BY <1>11, AtIs DEF WorkPlaces
  <2> HIDE DEF f
  <2> QED  BY <1>8, <1>9, <1>11, <2>1
<1>12. ASSUME ReceiverPushes(k) PROVE LoopStep(t)
  <2>1. Wakes(t, "r_push") /\ Goto(t, At("r_loop")) /\ "r_push" \in WorkPlaces \ {"s_new", "r_new"}
    BY <1>12 DEF ReceiverPushes, WorkPlaces
  <2> QED  BY <1>11, <2>1
<1>13. ASSUME ReceivesReady(k) \/ ReceivesTranscript(k) \/ ReceivesEnd(k) PROVE LoopStep(t)
  <2>1. PICK m : /\ Receives(k, m)
                 /\ Goto(t, At("r_loop")) \/ Goto(t, [at |-> "r_push", msg |-> m])
    BY <1>13 DEF ReceivesReady, ReceivesTranscript, ReceivesEnd
  <2> DEFINE f == [at |-> "r_push", msg |-> m]
  <2>2. f.at \in WorkPlaces /\ Wakes(t, "r_recv") /\ "r_recv" \in WorkPlaces \ {"s_new", "r_new"}
    BY <2>1 DEF Receives, WorkPlaces
  <2>3. Goto(t, At("r_loop")) \/ Goto(t, f)  BY <2>1
  <2> HIDE DEF f
  <2> QED  BY <1>8, <1>9, <1>11, <2>2, <2>3
<1>14. ASSUME ReceivesPing(k) PROVE LoopStep(t)
  <2> DEFINE p == [type |-> "pong"]
             g == SendCall(p, TRUE, TRUE)
             f == At("r_ponged")
  <2>1. Wakes(t, "r_recv") /\ Call(t, g, f) /\ "r_recv" \in WorkPlaces \ {"s_new", "r_new"}
    BY <1>14 DEF ReceivesPing, Receives, WorkPlaces
  <2>2. g.at = "send" /\ f.at \in WorkPlaces  BY AtIs DEF SendCall, WorkPlaces
  <2>3. ~svc.closed /\ Works(t)  BY <1>9, <2>1
  <2> HIDE DEF g, f, p, t
  <2>4. Frame(t).at \in WorkPlaces  BY <2>1, Nonempty
  <2> QED  BY <1>1, <2>1, <2>2, <2>3, <2>4, WorkCalls
<1>15. ASSUME ReceiverLosesConnection(k) PROVE LoopStep(t)
  <2> DEFINE f == At("r_failed")
  <2>1. Wakes(t, "r_recv") /\ Goto(t, f) /\ "r_recv" \in WorkPlaces \ {"s_new", "r_new"} /\ f.at = "r_failed"
    BY <1>15, AtIs DEF ReceiverLosesConnection, WorkPlaces
  <2>2. Works(t)  BY <1>9, <2>1
  <2> HIDE DEF t, f
  <2>3. Breaking(t)' /\ ~Errs(t)'  BY <1>1, <2>1, WorkGoto
  <2> QED  BY <1>1, <2>1, <2>2, <2>3, BreaksOff
<1>16. ASSUME ReceiverFailed(k) PROVE LoopStep(t)
  <2> DEFINE h == At("r_end")
             w == Disconnecting \o <<h>>
  <2>1. Runs(t, "r_failed") /\ Becomes(t, w)  BY <1>16 DEF ReceiverFailed
  <2>2. h.at = "r_end"  BY AtIs
  <2> HIDE DEF h, t
  <2>3. /\ \E S : w \in Seq(S)
        /\ DOMAIN w = {1, 2, 3} /\ w[1] = Disconnecting[1]
    <3>1. "r_end" \in OpenPlaces  BY DEF OpenPlaces
    <3> QED  BY <2>2, <3>1, DisconnectsThen
  <2>4. w[1].at = "close"  BY <2>3, DisconnectingAre
  <2> HIDE DEF w
  <2>5. w # <<>> /\ Head(w) = w[1]
    <3>1. PICK S : w \in Seq(S)  BY <2>3
    <3>2. 1 \in DOMAIN w  BY <2>3
    <3> QED  BY <3>1, <3>2
  <2>6. stack'[t] = w  BY <1>1, <2>1 DEF Becomes, Inv, Slots, TypeInv
  <2>7. Breaking(t)' /\ ~Errs(t)'  BY <2>4, <2>5, <2>6 DEF Breaking, Errs, Tops, Frame
  <2>8. Breaking(t) /\ ~Leaves(t)
    <3>1. stack[t] # <<>> /\ Frame(t).at = "r_failed"  BY <2>1, Nonempty
    <3> QED  BY <3>1 DEF Breaking, Leaves, Tops, ClosePlaces
  <2> QED  BY <1>1, <2>1, <2>7, <2>8, BreaksOff
<1>17. ASSUME ReceiverEnds(k) PROVE LoopStep(t)
  <2>1. Runs(t, "r_end") /\ Ends(t, "ok")  BY <1>17 DEF ReceiverEnds
  <2> HIDE DEF t
  <2> QED  BY <1>1, <2>1, EndsAfter
<1>18. LoopStep(t)  BY <1>10, <1>12, <1>13, <1>14, <1>15, <1>16, <1>17 DEF ReceiverStep
<1> QED  BY <1>7, <1>18

-----------------------------------------------------------------------------
(* The steps of the others                                                 *)

LEMMA OtherGoes ==
    ASSUME Inv, Inv', NestInv, CloseInv, EndingInv, NEW t \in Tasks, t \notin Loops, Stays(t),
           (\E w : Becomes(t, w)) \/ (\E r : Ends(t, r)), cancelled' = cancelled, NEW l, Wakes(t, l) \/ Runs(t, l),
           svc'.closed => svc.closed
    PROVE  EndingInv'
<1>1. Steady(t)  BY AddsSteady DEF Stays, CloseInv
<1>2. cancelled' = cancelled \ {t}  BY NotCancelled
<1>3. \A u \in Tasks : u # t => stack'[u] = stack[u]  BY DEF Stays, Adds
<1>4. Alone(t)  BY <1>2, <1>3, AloneStep
<1> QED  BY <1>1, <1>4, OtherEnding

LEMMA LoopGoes ==
    ASSUME Inv, Inv', NestInv, NestInv', CloseInv, EndingInv, NEW t \in Loops, Stays(t), Alone(t), LoopStep(t)
    PROVE  EndingInv'
<1>1. t \in Tasks  BY DEF Tasks
<1>2. Steady(t)  BY <1>1, AddsSteady DEF Stays, CloseInv
<1> QED  BY <1>2, LoopEnding

LEMMA ConnectEnding ==
    ASSUME Inv, Inv', NestInv, CloseInv, EndingInv, NEW t \in Tasks,
           \/ Connect(t) \/ ConnectGranted(t) \/ ConnectLocked(t) \/ ConnectFails(t)
           \/ Start(t) \/ StartGranted(t) \/ StartLocked(t) \/ StartConnected(t) \/ StartSent(t)
           \/ StartReady(t) \/ StartTimesOut(t)
    PROVE  EndingInv'
<1>1. Stays(t)  BY ConnectStays, StartStays
<1>2. PICK l \in ConnectPlaces \cup StartPlaces : Wakes(t, l) \/ Runs(t, l)
  BY DEF Connect, ConnectGranted, ConnectLocked, ConnectFails, ConnectPlaces,
         Start, StartGranted, StartLocked, StartConnected, StartSent, StartReady, StartTimesOut, StartPlaces
<1>3. t \notin Loops
  <2>1. stack[t] # <<>> /\ Frame(t).at = l  BY <1>2, Nonempty
  <2>2. Frame(t) = stack[t][1] /\ 1 \in DOMAIN stack[t]  BY <2>1, StackTyped DEF Inv
  <2> QED  BY <1>2, <2>1, <2>2, LoopPlain DEF CloseInv
<1>4. \E w : Becomes(t, w)
  BY DEF Connect, ConnectGranted, ConnectLocked, ConnectFails, Goto, Return, Raise, Call,
         Start, StartGranted, StartLocked, StartConnected, StartSent, StartReady, StartTimesOut
<1>5. cancelled' = cancelled
  BY DEF Connect, ConnectGranted, ConnectLocked, ConnectFails,
         Start, StartGranted, StartLocked, StartConnected, StartSent, StartReady, StartTimesOut
<1>6. svc'.closed => svc.closed
  <2>1. \/ svc' = svc \/ svc' = [svc EXCEPT !.closed = FALSE] \/ svc' = [svc EXCEPT !.suppress = FALSE]
        \/ svc' = [svc EXCEPT !.active = TRUE]
    BY DEF Connect, ConnectGranted, ConnectLocked, ConnectFails, serviceVars,
           Start, StartGranted, StartLocked, StartConnected, StartSent, StartReady, StartTimesOut
  <2>2. svc \in Service  BY DEF Inv, Slots, TypeInv
  <2> QED  BY <2>1, <2>2 DEF Service
<1> QED  BY <1>1, <1>2, <1>3, <1>4, <1>5, <1>6, OtherGoes

LEMMA SendEnding ==
    ASSUME Inv, Inv', NestInv, NestInv', CloseInv, EndingInv, NEW t \in Tasks, ~svc.config.reconnect, Send(t) \/ Sent(t)
    PROVE  EndingInv'
<1>1. Stays(t)  BY SendStays
<1>2. PICK l \in {"send", "sending"} : Wakes(t, l) \/ Runs(t, l)  BY DEF Send, Sent
<1>3. \E w : Becomes(t, w)  BY DEF Send, Sent, SendFails, Goto, Return, Raise
<1>4. cancelled' = cancelled /\ svc' = svc  BY DEF Send, Sent, serviceVars
<1>5. CASE t \in Loops
  <2>1. LoopStep(t)  BY <1>5, SendLoops DEF CloseInv
  <2>2. \A u \in Tasks : u # t => stack'[u] = stack[u]  BY <1>1 DEF Stays, Adds
  <2>3. cancelled' = cancelled \ {t}  BY <1>2, <1>4, NotCancelled
  <2>4. Alone(t)  BY <1>3, <1>4, <2>2, <2>3, AloneStep
  <2> QED  BY <1>1, <1>5, <2>1, <2>4, LoopGoes
<1>6. CASE t \notin Loops  BY <1>1, <1>2, <1>3, <1>4, <1>6, OtherGoes
<1> QED  BY <1>5, <1>6

LEMMA LoopsEnding ==
    ASSUME Inv, Inv', NestInv, NestInv', CloseInv, EndingInv, ~svc.config.reconnect,
           NEW k \in Conns, SenderStep(k) \/ ReceiverStep(k)
    PROVE  EndingInv'
<1>1. SendTask(k) \in Loops /\ RecvTask(k) \in Loops  BY DEF Loops
<1>2. CASE SenderStep(k)  BY <1>1, <1>2, SenderStays, SenderGoes, LoopGoes
<1>3. CASE ReceiverStep(k)  BY <1>1, <1>3, ReceiverStays, ReceiverGoes, LoopGoes
<1> QED  BY <1>2, <1>3

LEMMA PipelineEnding == ASSUME Inv, Inv', NestInv, CloseInv, EndingInv, PipelineStep PROVE EndingInv'
<1> DEFINE t == Pipeline
<1>1. t \in Tasks /\ t \notin Loops /\ Stays(t)  BY NotLoop, PipelineStays
<1>2. PICK l : Wakes(t, l) \/ Runs(t, l)
  BY DEF PipelineStep, HandlesAudio, QueuesAudio, Flushes, Enqueues, Sleeps, SpeechBegun, Joins, Joined,
         SendsFinalize, FinalizeSent, FinalArrives, FinalTimesOut, FinalDone
<1>3. \E w : Becomes(t, w)
  BY DEF PipelineStep, HandlesAudio, QueuesAudio, Flushes, Enqueues, Sleeps, SpeechBegun, Joins, Joined,
         SendsFinalize, FinalizeSent, FinalArrives, FinalTimesOut, FinalDone, Goto, Return, Raise
<1>4. cancelled' = cancelled /\ svc'.closed = svc.closed
  <2>1. svc \in Service  BY DEF Inv, Slots, TypeInv
  <2>2. cancelled' = cancelled /\ (svc' = svc \/ svc' = [svc EXCEPT !.active = FALSE])
    BY DEF PipelineStep, HandlesAudio, QueuesAudio, Flushes, Enqueues, Sleeps, SpeechBegun, Joins, Joined,
           SendsFinalize, FinalizeSent, FinalArrives, FinalTimesOut, FinalDone, serviceVars
  <2> QED  BY <2>1, <2>2 DEF Service
<1> HIDE DEF t
<1> QED  BY <1>1, <1>2, <1>3, <1>4, OtherGoes

LEMMA CallsEnding ==
    ASSUME Inv, Inv', NestInv, CloseInv, EndingInv,
           CancelSent \/ SpeechStarts \/ SpeechEnds \/ HearsAudio \/ Stops \/ CleansUp
    PROVE  EndingInv'
<1>1. PICK t \in {Pipeline, Controller} :
        /\ Stays(t)
        /\ Runs(t, "cancel_sent") \/ Wakes(t, "idle")
        /\ \E w : Becomes(t, w)
  <2>1. CASE CancelSent  BY <2>1, CancelSentStays DEF CancelSent, Return
  <2>2. CASE SpeechStarts \/ SpeechEnds  BY <2>2, SpeechStays DEF SpeechStarts, SpeechEnds
  <2>3. CASE HearsAudio  BY <2>3, HearsAudioStays DEF HearsAudio
  <2>4. CASE Stops  BY <2>4, StopsStays DEF Stops
  <2>5. CASE CleansUp  BY <2>5, CleansUpStays DEF CleansUp
  <2> QED  BY <2>1, <2>2, <2>3, <2>4, <2>5
<1>2. t \in Tasks /\ t \notin Loops  BY NotLoop
<1>3. cancelled' = cancelled /\ svc'.closed = svc.closed
  <2>1. svc \in Service  BY DEF Inv, Slots, TypeInv
  <2>2. cancelled' = cancelled /\ (svc' = svc \/ SpeechStarts)
    BY DEF CancelSent, SpeechStarts, SpeechEnds, HearsAudio, Stops, CleansUp, serviceVars
  <2> QED  BY <2>1, <2>2 DEF Service, SpeechStarts
<1> QED  BY <1>1, <1>2, <1>3, OtherGoes

LEMMA CancelsEnding == ASSUME Inv, Inv', NestInv, CloseInv, EndingInv, Cancels PROVE EndingInv'
<1> DEFINE t == Controller
           g == SendCall([type |-> "cancel"], FALSE, FALSE)
           f == [at |-> "cancel_sent", conn |-> svc.ws]
           e == At("idle")
           w == <<g, f, e>>
<1>1. t \in Tasks /\ t \notin Loops /\ Wakes(t, "idle") /\ "idle" \notin ClosePlaces \cup {"raise"}
  BY NotLoop DEF Cancels, ClosePlaces
<1>2. cancelled' = cancelled /\ svc'.closed = svc.closed
  <2>1. svc \in Service  BY DEF Inv, Slots, TypeInv
  <2> QED  BY <2>1 DEF Service, Cancels
<1>3. (stack' = stack /\ result' = result /\ running' = running) \/ Becomes(t, w)  BY DEF Cancels
<1>4. g.at = "send" /\ f.at = "cancel_sent" /\ e.at = "idle"  BY AtIs DEF SendCall
<1>5. {"send", "cancel_sent", "idle"} \subseteq Open(t)  BY NotLoop DEF OpenPlaces
<1> HIDE DEF g, f, e, t
<1>6. DOMAIN w = {1, 2, 3} /\ w[1] = g /\ w[2] = f /\ w[3] = e
  <2>1. DOMAIN w = 1..3  OBVIOUS
  <2> QED  BY <2>1
<1> HIDE DEF w
<1>7. \A i \in DOMAIN w : w[i].at \in Open(t) /\ Proper(t, w[i], i)  BY <1>4, <1>5, <1>6 DEF Proper
<1>8. CASE Becomes(t, w)
  <2>1. Stays(t)  BY <1>1, <1>7, <1>8, StaysWhole
  <2> QED  BY <1>1, <1>2, <1>8, <2>1, OtherGoes
<1> QED  BY <1>2, <1>3, <1>8, StandsEnding

LEMMA ServersEnding ==
    ASSUME Inv, EndingInv, NEW w \in Conns,
           HangsUp(w) \/ Breaks(w) \/ \E type \in {"partial", "ping"} : ServerChats(w, type)
    PROVE  EndingInv'
<1>1. stack' = stack /\ svc' = svc /\ cancelled' = cancelled /\ result' = result /\ running' = running
  BY DEF HangsUp, Breaks, ServerChats, serviceVars, taskVars
<1> QED  BY <1>1, StandsEnding

-----------------------------------------------------------------------------
(* The steps of a close                                                    *)

\* A task that is not at work, nor on its way to a close, after its step.
LEMMA IdleEnding ==
    ASSUME EndingInv, NEW t \in Tasks, \A u \in Tasks : u # t => stack'[u] = stack[u],
           \/ \E w : Becomes(t, w)
           \/ \E r : Ends(t, r) /\ (t \in Loops => r # "error"),
           cancelled' = cancelled \ {t}, svc'.closed => svc.closed,
           t \in Loops => ~Works(t)' /\ ~Breaking(t)',
           Tops(t, WaitPlaces)' => Tops(t, WaitPlaces) /\ Todo(t)' \subseteq Todo(t)
    PROVE  EndingInv'
<1>1. Alone(t)  BY AloneStep
<1>2. t \in Loops => ~Errs(t)'  BY DEF Breaking
<1> QED  BY <1>1, <1>2, EndingKept

LEMMA DisconnectedEnding ==
    ASSUME Inv, Inv', NestInv, CloseInv, EndingInv, NEW t \in Tasks, Disconnected(t) PROVE EndingInv'
<1>1. Runs(t, "disconnected") /\ Return(t) /\ cancelled' = cancelled  BY DEF Disconnected
<1>2. Stays(t) /\ stack[t] # <<>> /\ Frame(t).at = "disconnected"  BY <1>1, DisconnectedStays, Nonempty
<1>3. Steady(t)  BY <1>2, AddsSteady DEF Stays, CloseInv
<1>4. svc'.closed = svc.closed
  <2>1. svc \in Service  BY DEF Inv, Slots, TypeInv
  <2> QED  BY <2>1 DEF Disconnected, Service
<1>5. t \in Loops => ~Works(t)'
  <2>1. Tops(t, ClosePlaces \cup {"disconnected", "s_gone", "r_end", "r_failed"})  BY <1>2 DEF Tops
  <2>2. ~Works(t)  BY <2>1, CloserIdle
  <2> QED  BY <1>3, <2>2 DEF Steady
<1>6. ~Breaking(t)'
  <2>1. CASE stack'[t] = <<>>  BY <2>1, OverIs
  <2>2. CASE stack'[t] # <<>>
    <3>1. /\ Frame(t)' = stack[t][2] /\ <<"disconnected", stack[t][2].at>> \in Nesting
          /\ stack[t][2].at \in CallerPlaces
      BY <1>1, <2>2, ReturnTop
    <3>2. stack[t][2].at \notin {"close", "r_failed", "raise"}
      BY <3>1 DEF Nesting, CallerPlaces, ConnectPlaces, StartPlaces, ClosePlaces, LoopPlaces, SendPlaces
    <3> QED  BY <3>1, <3>2 DEF Breaking, Errs, Tops
  <2> QED  BY <2>1, <2>2
<1>7. cancelled' = cancelled \ {t}  BY <1>1, NotCancelled
<1>8. ~Tops(t, WaitPlaces)'  BY <1>3 DEF Steady, Tops
<1> QED  BY <1>1, <1>3, <1>4, <1>5, <1>6, <1>7, <1>8, IdleEnding DEF Return, Steady

LEMMA AwaitsEnding ==
    ASSUME Inv, Inv', NestInv, CloseInv, EndingInv, NEW t \in Tasks, CloseAwaits(t) \/ CloseAwaited(t)
    PROVE  EndingInv'
<1> DEFINE s == Frame(t).todo
           a == [Frame(t) EXCEPT !.at = "close_await"]
           b == [Frame(t) EXCEPT !.todo = Tail(@)]
           c == [Frame(t) EXCEPT !.at = "close_tasks", !.todo = Tail(@)]
<1>1. PICK l \in WaitPlaces : (Wakes(t, l) \/ Runs(t, l)) /\ (CloseAwaits(t) => l = "close_tasks")
  BY DEF CloseAwaits, CloseAwaited, WaitPlaces
<1>2. svc' = svc /\ cancelled' = cancelled  BY DEF CloseAwaits, CloseAwaited, serviceVars
<1>3. /\ Frame(t) \in [at : {"close_tasks", "close_await"}, todo : Seq(Tasks), forGood : BOOLEAN]
      /\ s # <<>> /\ Frame(t).at = l /\ stack[t] # <<>>
  <2>1. Frame(t) \in Frames /\ Frame(t).at = l /\ stack[t] # <<>>  BY <1>1, Nonempty, StackTyped DEF Inv
  <2>2. CASE CloseAwaits(t)  BY <1>1, <2>1, <2>2, CloseFields DEF CloseAwaits, WaitPlaces
  <2>3. CASE CloseAwaited(t)
    <3>1. Frame(t).at = "close_await"  BY <2>3, Nonempty DEF CloseAwaited
    <3> QED  BY <2>1, <3>1, CloseFields
  <2> QED  BY <2>2, <2>3
<1>4. Tops(t, WaitPlaces) /\ Tops(t, ClosePlaces)  BY <1>3 DEF Tops, WaitPlaces, ClosePlaces
<1>5. result[Head(s)] # "error"
  <2>1. Head(s) \in Todo(t)  BY <1>3, DropsHead DEF Todo
  <2>2. Todo(t) \subseteq Loops  BY <1>4 DEF CloseInv, EraInv, Loops
  <2> QED  BY <2>1, <2>2 DEF EndingInv, ErrorInv
<1>6. Goto(t, a) \/ Goto(t, b) \/ Goto(t, c)  BY <1>5 DEF CloseAwaits, CloseAwaited
<1>7. /\ a.at = "close_await" /\ a.todo = s
      /\ b.at = Frame(t).at /\ b.todo = Tail(s)
      /\ c.at = "close_tasks" /\ c.todo = Tail(s)
      /\ s \in Seq(Tasks) /\ Todo(t) = ToSet(s)
  BY <1>3 DEF Todo
<1> HIDE DEF s, a, b, c
<1>8. PICK f : Goto(t, f) /\ f.at \in WaitPlaces /\ f.todo \in {s, Tail(s)}
  BY <1>3, <1>6, <1>7 DEF WaitPlaces
<1>9. ToSet(f.todo) \subseteq Todo(t)  BY <1>3, <1>7, <1>8, DropsHead
<1>10. stack'[t] # <<>> /\ Frame(t)' = f  BY <1>1, <1>8, GotoTop
<1>11. Todo(t)' \subseteq Todo(t)  BY <1>9, <1>10 DEF Todo
<1>12. ~Breaking(t)'  BY <1>8, <1>10 DEF Breaking, Errs, Tops, WaitPlaces
<1>13. (\A u \in Tasks : u # t => stack'[u] = stack[u]) /\ ~Works(t)'
  <2>1. f.at \notin {"close", "disconnected"} /\ WaitPlaces \subseteq (ClosePlaces \ {"close"}) \cup {"raise"}
    BY <1>8 DEF WaitPlaces, ClosePlaces
  <2>2. Adds(t, WaitPlaces)  BY <1>1, <1>8, <2>1, AddsGoto
  <2> QED  BY <1>4, <2>1, <2>2, ShutsIdle DEF CloseInv
<1>14. cancelled' = cancelled \ {t} /\ \E w : Becomes(t, w)  BY <1>1, <1>2, <1>8, NotCancelled DEF Goto
<1> QED  BY <1>2, <1>4, <1>11, <1>12, <1>13, <1>14, IdleEnding

LEMMA SocketEnding ==
    ASSUME Inv, Inv', NestInv, CloseInv, EndingInv, NEW t \in Tasks, CloseSocket(t) \/ Closed(t) PROVE EndingInv'
<1> DEFINE f == [at |-> "closing", conn |-> svc.ws, forGood |-> Frame(t).forGood]
<1>1. PICK l \in {"close_tasks", "closing"} : Wakes(t, l) \/ Runs(t, l)
  BY DEF CloseSocket, Closed
<1>2. stack[t] # <<>> /\ Frame(t).at = l /\ Tops(t, ClosePlaces)  BY <1>1, Nonempty DEF Tops, ClosePlaces
<1>3. Goto(t, f) \/ Return(t)  BY DEF CloseSocket, Closed
<1>4. f.at = "closing"  OBVIOUS
<1> HIDE DEF f
<1>5. Adds(t, {"closing"})
  <2>1. f.at \in {"closing"} /\ f.at \notin {"close", "disconnected"}  BY <1>4
  <2> QED  BY <1>1, <1>3, <2>1, AddsGoto, AddsReturn
<1>6. (\A u \in Tasks : u # t => stack'[u] = stack[u]) /\ ~Works(t)'
  <2>1. {"closing"} \subseteq (ClosePlaces \ {"close"}) \cup {"raise"}  BY DEF ClosePlaces
  <2> QED  BY <1>2, <1>5, <2>1, ShutsIdle DEF CloseInv
<1>7. ~Tops(t, WaitPlaces)' /\ ~Breaking(t)'
  <2>1. CASE Goto(t, f)
    <3>1. Frame(t)' = f  BY <1>1, <2>1, GotoTop
    <3> QED  BY <1>4, <3>1 DEF Tops, WaitPlaces, Breaking, Errs
  <2>2. CASE Return(t)
    <3>1. CASE stack'[t] = <<>>  BY <3>1, OverIs
    <3>2. CASE stack'[t] # <<>>
      <4>1. Frame(t)' = stack[t][2] /\ <<l, stack[t][2].at>> \in Nesting /\ stack[t][2].at \in CallerPlaces
        BY <1>1, <2>2, <3>2, ReturnTop
      <4>2. stack[t][2].at = "disconnected"
        BY <4>1 DEF Nesting, CallerPlaces, ConnectPlaces, StartPlaces, ClosePlaces, LoopPlaces, SendPlaces
      <4> QED  BY <4>1, <4>2 DEF Tops, WaitPlaces, Breaking, Errs
    <3> QED  BY <3>1, <3>2
  <2> QED  BY <1>3, <2>1, <2>2
<1>8. cancelled' = cancelled /\ (svc'.closed => svc.closed)
  <2>1. svc \in Service  BY DEF Inv, Slots, TypeInv
  <2> QED  BY <2>1 DEF CloseSocket, Closed, Service
<1>9. cancelled' = cancelled \ {t} /\ \E w : Becomes(t, w)  BY <1>1, <1>3, <1>8, NotCancelled DEF Goto, Return
<1> QED  BY <1>6, <1>7, <1>8, <1>9, IdleEnding

-----------------------------------------------------------------------------
(* Exceptions, cancellation and the close that begins                      *)

LEMMA BecomesTop ==
    ASSUME Inv, NEW t \in Tasks, NEW S, NEW w \in Seq(S), w # <<>>, NEW s \in Seq(Frames), Becomes(t, w \o s)
    PROVE  stack'[t] # <<>> /\ Frame(t)' = Head(w)
<1>1. stack'[t] = w \o s  BY DEF Becomes, Inv, Slots, TypeInv
<1> QED  BY <1>1, HeadOver DEF Frame

\* The exception of a loop: it ends, or the frame above gives way to a handler.
LEMMA LoopUnwinds ==
    ASSUME Inv, NestInv, CloseInv, EndingInv, NEW t \in Loops, Unwinds(t)
    PROVE  /\ Breaking(t)' => Breaking(t)
           /\ ~Errs(t)'
           /\ \/ \E w : Becomes(t, w)
              \/ Ends(t, "cancelled")
<1> DEFINE c == Head(Callers(t))
<1>1. t \in Tasks /\ Runs(t, "raise") /\ stack[t] # <<>> /\ Frame(t).at = "raise" /\ Tops(t, {"raise"})
  BY Nonempty DEF Unwinds, Tasks, Tops
<1>2. Errs(t) => Breaking(t)  BY DEF Breaking
<1>3. Frame(t).exc \in {"error", "cancelled"} /\ (Frame(t).exc = "error" => Errs(t))
  <2>1. Frame(t).exc \in {"error", "cancelled"}  BY <1>1, StackTyped, RaiseFields DEF Inv
  <2> QED  BY <1>1, <2>1 DEF Errs
<1>4. CASE Callers(t) = <<>>
  <2>1. Ends(t, Frame(t).exc)  BY <1>4 DEF Unwinds, At
  <2>2. 2 \notin DOMAIN stack[t]
    <3>1. stack[t] \in Seq(Frames) /\ Tail(stack[t]) = <<>>  BY <1>1, <1>4, StackTyped DEF Inv, Callers
    <3>2. Len(stack[t]) = 1  BY <1>1, <3>1, TailLast
    <3> QED  BY <3>1, <3>2
  <2>3. Frame(t).exc = "cancelled"  BY <1>3, <2>2 DEF EndingInv, ErrorInv
  <2>4. stack'[t] = <<>>  BY <1>1, <2>1 DEF Ends, Inv, Slots, TypeInv
  <2> QED  BY <2>1, <2>3, <2>4, OverIs
<1>5. CASE Callers(t) # <<>>
  <2>1. /\ c \in Frames /\ stack[t][2] = c /\ 2 \in DOMAIN stack[t] /\ Callers(t) \in Seq(Frames)
        /\ Tail(Callers(t)) \in Seq(Frames)
    <3>1. /\ stack[t] \in Seq(Frames) /\ Len(stack[t]) \in Nat /\ Len(stack[t]) >= 2 /\ stack[t][2] = c /\ c \in Frames
      BY <1>1, <1>5, CallerIs
    <3>2. Callers(t) \in Seq(Frames)  BY <1>1, StackTyped DEF Inv
    <3>3. Tail(Callers(t)) \in Seq(Frames)  BY <1>5, <3>2
    <3> QED  BY <3>1, <3>2, <3>3
  <2>2. c.at \notin {"none", "idle", "ended"}
    <3>1. c.at # "none"
      BY <2>1 DEF Frames, QuietFrames, QuietPlaces, LoopFrames, AudioFrames, FinalFrames, SendPlaces,
             FinalPlaces, CloseFrames, SendFrames
    <3>2. c.at \notin {"idle", "ended"}  BY <2>1 DEF CloseInv, HomeInv
    <3> QED  BY <3>1, <3>2
  <2>3. ASSUME NEW f, Becomes(t, <<f>> \o Tail(Callers(t))) PROVE Frame(t)' = f /\ \E w : Becomes(t, w)
    <3> DEFINE w == <<f>>
    <3>1. w \in Seq({f}) /\ w # <<>> /\ Head(w) = f /\ Becomes(t, w \o Tail(Callers(t)))  BY <2>3
    <3> HIDE DEF w
    <3> QED  BY <1>1, <2>1, <3>1, BecomesTop
  <2>4. CASE c.at = "s_sent" /\ Frame(t).exc = "error"
    <3> DEFINE h == [c EXCEPT !.at = "s_gone"]
               w == Disconnecting \o <<h>>
    <3>1. Becomes(t, w \o Tail(Callers(t)))  BY <1>5, <2>1, <2>4 DEF Unwinds
    <3>2. h.at = "s_gone"  BY <2>1, MovedAt
    <3>3. "s_gone" \in OpenPlaces  BY DEF OpenPlaces
    <3> HIDE DEF h
    <3>4. (\E S : w \in Seq(S)) /\ DOMAIN w = {1, 2, 3} /\ w[1] = Disconnecting[1]  BY <3>2, <3>3, DisconnectsThen
    <3>5. w[1].at = "close"  BY <3>4, DisconnectingAre
    <3> HIDE DEF w
    <3>6. w # <<>> /\ Head(w) = w[1]
      <4>1. PICK S : w \in Seq(S)  BY <3>4
      <4>2. 1 \in DOMAIN w  BY <3>4
      <4> QED  BY <4>1, <4>2
    <3>7. (Frame(t)').at = "close"  BY <1>1, <2>1, <3>1, <3>4, <3>5, <3>6, BecomesTop
    <3>8. ~Errs(t)'  BY <3>7 DEF Errs, Tops
    <3> QED  BY <1>2, <1>3, <2>4, <3>1, <3>8
  <2>5. CASE c.at = "r_ponged" /\ Frame(t).exc = "error"
    <3> DEFINE f == At("r_failed")
    <3>1. Becomes(t, <<f>> \o Tail(Callers(t))) /\ f.at = "r_failed"  BY <1>5, <2>1, <2>5, AtIs DEF Unwinds
    <3> HIDE DEF f
    <3>2. (Frame(t)').at = "r_failed" /\ \E w : Becomes(t, w)  BY <2>3, <3>1
    <3>3. ~Errs(t)'  BY <3>2 DEF Errs, Tops
    <3> QED  BY <1>2, <1>3, <2>5, <3>2, <3>3
  <2>6. CASE ~(c.at \in {"s_sent", "r_ponged"} /\ Frame(t).exc = "error")
    <3>1. Becomes(t, <<Frame(t)>> \o Tail(Callers(t)))  BY <1>5, <2>2, <2>6 DEF Unwinds
    <3>2. Frame(t)' = Frame(t) /\ \E w : Becomes(t, w)  BY <2>3, <3>1
    <3>3. Frame(t).exc = "cancelled"  BY <1>3, <2>1, <2>6 DEF EndingInv, ErrorInv
    <3>4. ~Errs(t)' /\ ~Breaking(t)'  BY <1>1, <3>2, <3>3 DEF Breaking, Errs, Tops
    <3> QED  BY <3>2, <3>4
  <2> QED  BY <2>4, <2>5, <2>6
<1> QED  BY <1>4, <1>5

LEMMA UnwindsEnding ==
    ASSUME Inv, Inv', NestInv, CloseInv, EndingInv, NEW t \in Tasks, Unwinds(t) PROVE EndingInv'
<1>1. Runs(t, "raise") /\ stack[t] # <<>> /\ Tops(t, {"raise"})  BY Nonempty DEF Unwinds, Tops
<1>2. svc' = svc /\ cancelled' = cancelled \ {t}  BY <1>1, NotCancelled DEF Unwinds
<1>3. /\ \A u \in Tasks : u # t => stack'[u] = stack[u]
      /\ ~Tops(t, WaitPlaces)' /\ (t \in Loops => ~Works(t)')
  <2>1. CASE Callers(t) = <<>> /\ Ends(t, Frame(t).exc)
    <3>1. stack'[t] = <<>> /\ \A u \in Tasks : u # t => stack'[u] = stack[u]
      BY <2>1 DEF Ends, Inv, Slots, TypeInv
    <3> QED  BY <3>1, OverIs
  <2>2. CASE Callers(t) # <<>> /\ Head(Callers(t)).at \in {"idle", "ended"} /\ t \notin Loops /\ Return(t)
    <3>1. stack'[t] = Callers(t) /\ \A u \in Tasks : u # t => stack'[u] = stack[u]
      BY <2>2 DEF Return, Becomes, Inv, Slots, TypeInv
    <3>2. Frame(t)' = Head(Callers(t))  BY <3>1 DEF Frame
    <3> QED  BY <2>2, <3>1, <3>2 DEF Tops, WaitPlaces
  <2>3. CASE Callers(t) # <<>> /\ Cuts(t)
    <3>1. Steady(t)  BY <1>1, <2>3, CutsSteady DEF CloseInv
    <3>2. ~Works(t)  BY <1>1 DEF Works
    <3> QED  BY <3>1, <3>2 DEF Steady, Tops
  <2> QED  BY <2>1, <2>2, <2>3, UnwindsAre DEF CloseInv
<1>4. CASE t \in Loops
  <2>1. /\ Breaking(t)' => Breaking(t)
        /\ ~Errs(t)'
        /\ (\E w : Becomes(t, w)) \/ Ends(t, "cancelled")
    BY <1>4, LoopUnwinds
  <2>2. Alone(t)  BY <1>2, <1>3, <2>1, AloneStep
  <2>3. Breaking(t)' => \A u \in Tasks : Tops(u, WaitPlaces) => t \notin Todo(u)
    BY <1>4, <2>1 DEF EndingInv, AloneInv
  <2> QED  BY <1>3, <1>4, <2>1, <2>2, <2>3, EndingKept
<1>5. CASE t \notin Loops
  <2>1. (\E w : Becomes(t, w)) \/ (\E r : Ends(t, r))
    BY UnwindsAre DEF Unwinds, Return
  <2> QED  BY <1>2, <1>3, <1>5, <2>1, IdleEnding
<1> QED  BY <1>4, <1>5

LEMMA CancelDeliveredEnding ==
    ASSUME Inv, Inv', NestInv, CloseInv, EndingInv, NEW t \in Tasks, CancelDelivered(t) PROVE EndingInv'
<1> DEFINE f == [at |-> "raise", exc |-> "cancelled"]
           w == <<f>>
<1>1. stack[t] # <<>> /\ Becomes(t, w \o Callers(t))  BY DEF CancelDelivered, Alive, Raise, Goto
<1>2. f.at = "raise" /\ f.exc = "cancelled" /\ w \in Seq({f}) /\ w # <<>> /\ Head(w) = f  OBVIOUS
<1> HIDE DEF f, w
<1>3. Callers(t) \in Seq(Frames)  BY <1>1, StackTyped DEF Inv
<1>4. Frame(t)' = f /\ stack'[t] # <<>>  BY <1>1, <1>2, <1>3, BecomesTop
<1>5. ~Works(t)' /\ ~Breaking(t)' /\ ~Tops(t, WaitPlaces)'
  BY <1>2, <1>4 DEF Works, Breaking, Errs, Tops, WaitPlaces
<1>6. \A u \in Tasks : u # t => stack'[u] = stack[u]  BY <1>1 DEF Becomes, Inv, Slots, TypeInv
<1>7. svc' = svc /\ cancelled' = cancelled \ {t}  BY DEF CancelDelivered
<1> QED  BY <1>1, <1>5, <1>6, <1>7, IdleEnding

\* The loops of a new connection work, and nobody awaits them.
LEMMA ConnectedEnding ==
    ASSUME Inv, NestInv, CloseInv, EndingInv, NEW t \in Tasks, Connected(t) PROVE EndingInv'
<1>1. PICK w \in Conns :
        /\ Wakes(t, "connecting") /\ cancelled' = cancelled /\ result' = result /\ running' \in {t, NoTask}
        /\ svc' = [svc EXCEPT !.ws = w, !.readyOf = w, !.sendTask = SendTask(w), !.recvTask = RecvTask(w)]
        /\ stack' = [stack EXCEPT ![t] = Callers(t), ![SendTask(w)] = <<At("s_new")>>,
                                  ![RecvTask(w)] = <<At("r_new")>>]
  BY DEF Connected
<1> DEFINE s == SendTask(w)
           r == RecvTask(w)
           x == At("s_new")
           y == At("r_new")
<1>2. stack[t] # <<>> /\ Frame(t).at = "connecting" /\ 1 \in DOMAIN stack[t] /\ Frame(t) = stack[t][1]
  <2>1. stack[t] # <<>> /\ Frame(t).at = "connecting"  BY <1>1, Nonempty
  <2> QED  BY <2>1, StackTyped DEF Inv
<1>3. t \notin Loops  BY <1>2, LoopPlain DEF ConnectPlaces, CloseInv
<1>4. s \in Tasks /\ r \in Tasks /\ s # r /\ s \in Loops /\ r \in Loops
  BY PlacesApart DEF Loops
<1>5. x.at = "s_new" /\ y.at = "r_new"  BY AtIs
<1> HIDE DEF x, y
<1>6. /\ stack'[t] = Callers(t) /\ stack'[s] = <<x>> /\ stack'[r] = <<y>>
      /\ \A u \in Tasks \ {t, s, r} : stack'[u] = stack[u]
  <2>1. stack' = [stack EXCEPT ![t] = Callers(t), ![s] = <<x>>, ![r] = <<y>>]  BY <1>1 DEF x, y
  <2>2. s # t /\ r # t  BY <1>3, <1>4
  <2>3. DOMAIN stack = Tasks  BY DEF Inv, Slots, TypeInv
  <2> HIDE DEF s, r
  <2> QED  BY <1>4, <2>1, <2>2, <2>3
<1>7. svc'.closed = svc.closed
  <2>1. svc \in Service  BY DEF Inv, Slots, TypeInv
  <2> QED  BY <1>1, <2>1 DEF Service
<1> HIDE DEF s, r
<1>8. /\ DOMAIN <<x>> = {1} /\ <<x>>[1] = x /\ Head(<<x>>) = x /\ <<x>> # <<>>
      /\ DOMAIN <<y>> = {1} /\ <<y>>[1] = y /\ Head(<<y>>) = y /\ <<y>> # <<>>
  OBVIOUS
<1>9. \A u \in {s, r} : /\ Works(u)' /\ Tops(u, {"s_new", "r_new"})' /\ ~Tops(u, WaitPlaces)'
                        /\ ~Breaking(u)' /\ ~Errs(u)'
  <2>1. \A u \in {s, r} : stack'[u] # <<>> /\ (Frame(u)').at \in {"s_new", "r_new"}
                          /\ 1 \in DOMAIN stack'[u] /\ stack'[u][1] = Frame(u)'
    BY <1>5, <1>6, <1>8 DEF Frame
  <2> QED  BY <2>1 DEF Works, Inside, Tops, WaitPlaces, WorkPlaces, Breaking, Errs
<1>10. \A u \in Tasks \ {t, s, r} :
         /\ \A P : Tops(u, P)' = Tops(u, P)
         /\ Works(u)' = Works(u) /\ Todo(u)' = Todo(u) /\ Breaking(u)' = Breaking(u) /\ Errs(u)' = Errs(u)
  BY <1>6, SameStack, SameBreaking
<1>11. ~Tops(t, WaitPlaces)'
  <2> SUFFICES ASSUME Tops(t, WaitPlaces)' PROVE FALSE  OBVIOUS
  <2>1. stack'[t] # <<>> /\ (Frame(t)').at \in WaitPlaces  BY DEF Tops
  <2>2. Callers(t) # <<>> /\ stack[t] \in Seq(Frames)  BY <1>6, <2>1 DEF Inv, Slots, TypeInv
  <2>3. 2 \in DOMAIN stack[t] /\ Head(Callers(t)) = stack[t][2]  BY <1>2, <2>2 DEF Callers
  <2>4. 2 > 1 /\ 2 - 1 = 1  OBVIOUS
  <2>5. stack[t][2].at \in CallerPlaces  BY <2>3, <2>4, Callee
  <2>6. Frame(t)' = stack[t][2]  BY <1>6, <2>3 DEF Frame
  <2> QED  BY <2>1, <2>5, <2>6 DEF CallerPlaces, WaitPlaces
<1>12. \A u \in Loops : u \in Tasks /\ u # t /\ u # NoTask  BY <1>3, PlacesApart DEF Tasks
<1>13. CancelInv'
  <2> SUFFICES ASSUME NEW u \in cancelled PROVE u \in Loops /\ Works(u)' /\ running' # u  BY <1>1 DEF CancelInv
  <2>1. u \in Loops /\ Works(u)  BY DEF EndingInv, CancelInv
  <2>2. running' # u  BY <1>1, <1>12, <2>1
  <2> QED  BY <1>9, <1>10, <1>12, <2>1, <2>2
<1>14. ErrorInv'
  <2>1. ASSUME NEW u \in Loops, Errs(u)' PROVE 2 \in DOMAIN stack'[u] /\ stack'[u][2].at \in {"s_sent", "r_ponged"}
    <3>1. u \in Tasks \ {t, s, r}  BY <1>9, <1>12, <2>1
    <3>2. Errs(u) /\ stack'[u] = stack[u]  BY <1>6, <1>10, <2>1, <3>1
    <3> QED  BY <3>2 DEF EndingInv, ErrorInv
  <2> QED  BY <1>1, <2>1 DEF EndingInv, ErrorInv
<1>15. AloneInv'
  <2> SUFFICES ASSUME NEW v \in Loops, NEW u \in Tasks, Breaking(v)', Tops(u, WaitPlaces)' PROVE v \notin Todo(u)'
    BY DEF AloneInv
  <2>1. u \in Tasks \ {t, s, r} /\ v \in Tasks \ {t, s, r}  BY <1>9, <1>11, <1>12
  <2> QED  BY <1>10, <2>1 DEF EndingInv, AloneInv
<1>16. EndInv'
  <2> SUFFICES ASSUME svc.closed, NEW u \in Loops, Works(u)', u \notin cancelled PROVE Tops(u, {"s_new", "r_new"})'
    BY <1>1, <1>7 DEF EndInv
  <2> QED  BY <1>9, <1>10, <1>12 DEF EndingInv, EndInv
<1> QED  BY <1>13, <1>14, <1>15, <1>16 DEF EndingInv

\* A cancellation is lost on a task that is over.
LEMMA DeadTarget == ASSUME NEW u \in Tasks, ~Alive(u) PROVE CancelTarget(u) = {}
<1> DEFINE n == Cardinality(Loops)
           g == CHOOSE f : Follows(f, n)
<1>1. n \in Nat  BY LoopsFinite
<1> HIDE DEF n
<1>2. Follows(g, n)  BY <1>1, FollowsExists
<1>3. CancelTarget(u) = g[n][u]  BY DEF CancelTarget, Follows, n
<1> HIDE DEF g
<1>4. n \in 0..n  BY <1>1
<1>5. g[n][u] = {}  BY <1>2, <1>4 DEF Follows
<1> QED  BY <1>3, <1>5

\* Those a close cancels are at work.
LEMMA TargetsWork ==
    ASSUME Inv, NestInv, CloseInv, EndingInv, NEW t \in Tasks, Runs(t, "close"), NEW u \in Current \ {t},
           NEW x \in CancelTarget(u)
    PROVE  x \in Loops /\ x # t /\ Works(x)
<1>1. stack[t] # <<>> /\ Frame(t).at = "close" /\ running = t  BY Nonempty DEF Runs
<1>2. PICK k \in Conns :
        /\ svc.sendTask \in {NoTask, SendTask(k)} /\ svc.recvTask \in {NoTask, RecvTask(k)}
        /\ \A z \in Tasks : Tops(z, WaitPlaces) => Todo(z) \subseteq {SendTask(k), RecvTask(k)} \ {z}
  BY DEF CloseInv, EraInv
<1>3. {SendTask(k), RecvTask(k)} \subseteq Loops /\ u \in {SendTask(k), RecvTask(k)} /\ Loops \subseteq Tasks
  BY <1>2 DEF Current, Loops, Tasks
<1>4. Alive(u)  BY <1>3, DeadTarget
<1>5. ASSUME NEW z \in Loops, z # t, Alive(z), ~Works(z)
      PROVE  /\ IsAt(z, "close_await") /\ Tops(z, WaitPlaces)
             /\ Head(Frame(z).todo) \in Todo(z)
  <2>1. Tops(z, {"close_await", "closing"})  BY <1>1, <1>5, LoopAtRest DEF CloseInv
  <2>2. ~Tops(z, PastPlaces)  BY <1>3, <1>5 DEF CloseInv, WaitInv
  <2>3. stack[z] # <<>> /\ Frame(z).at = "close_await"  BY <2>1, <2>2 DEF Tops, PastPlaces
  <2>4. Frame(z).todo \in Seq(Tasks) /\ Frame(z).todo # <<>>
    BY <1>3, <1>5, <2>3, StackTyped, CloseFields DEF Inv
  <2> QED  BY <2>3, <2>4, DropsHead DEF IsAt, Tops, Frame, Todo, WaitPlaces
<1>6. CASE Works(u)
  <2>1. stack[u] # <<>> /\ Frame(u).at \in WorkPlaces \cup {"send", "sending"}  BY <1>3, <1>6, WorksTop
  <2>2. ~IsAt(u, "close_await")  BY <2>1 DEF IsAt, Frame, WorkPlaces
  <2>3. CancelTarget(u) = {u}  BY <1>3, <1>4, <2>2, TargetIs
  <2> QED  BY <1>3, <1>6, <2>3
<1>7. CASE ~Works(u)
  <2> DEFINE v == Head(Frame(u).todo)
  <2>1. IsAt(u, "close_await") /\ Tops(u, WaitPlaces) /\ v \in Todo(u)  BY <1>3, <1>4, <1>5, <1>7
  <2>2. v \in {SendTask(k), RecvTask(k)} \ {u} /\ v \in Loops /\ v \in Tasks  BY <1>2, <1>3, <2>1
  <2>3. v # t
    <3>1. t \in Loops => Breaking(t)  BY <1>1 DEF Breaking, Tops
    <3> QED  BY <1>3, <2>1, <2>2, <3>1 DEF EndingInv, AloneInv
  <2>4. Alive(v)
    <3> SUFFICES ASSUME ~Alive(v) PROVE FALSE  OBVIOUS
    <3>1. CancelTarget(u) = {}  BY <1>3, <1>4, <2>1, <2>2, TargetIs
    <3> QED  BY <3>1
  <2> HIDE DEF v
  <2>5. Works(v)
    <3> SUFFICES ASSUME ~Works(v) PROVE FALSE  OBVIOUS
    <3>1. Tops(v, WaitPlaces) /\ Head(Frame(v).todo) \in Todo(v)  BY <1>5, <2>2, <2>3, <2>4
    <3>2. Todo(v) \subseteq {SendTask(k), RecvTask(k)} \ {v}  BY <1>2, <2>2, <3>1
    <3>3. u \in Todo(v)  BY <1>3, <2>2, <3>1, <3>2
    <3>4. {u, v} \cap cancelled # {}  BY <1>3, <2>1, <2>2, <3>1, <3>3 DEF CloseInv, WaitInv
    <3> QED  BY <1>7, <3>4 DEF EndingInv, CancelInv
  <2>6. ~IsAt(v, "close_await")
    <3>1. stack[v] # <<>> /\ Frame(v).at \in WorkPlaces \cup {"send", "sending"}  BY <2>2, <2>5, WorksTop
    <3> QED  BY <3>1 DEF IsAt, Frame, WorkPlaces
  <2>7. CancelTarget(u) = {v}  BY <1>3, <1>4, <2>1, <2>2, <2>4, <2>6, TargetIs DEF v
  <2> QED  BY <2>2, <2>3, <2>5, <2>7
<1> QED  BY <1>6, <1>7

\* A close cancels all loops that go on.
LEMMA CloseEnding ==
    ASSUME Inv, Inv', NestInv, CloseInv, EndingInv, NEW t \in Tasks, Close(t) PROVE EndingInv'
<1> DEFINE f == [at |-> "close_tasks", todo |-> Other(t, svc.sendTask) \o Other(t, svc.recvTask),
                 forGood |-> Frame(t).forGood]
<1>1. /\ Runs(t, "close") /\ Goto(t, f) /\ f.at = "close_tasks"
      /\ cancelled' = cancelled \cup UNION {CancelTarget(u) : u \in Current \ {t}}
  BY OthersAre DEF Close
<1> HIDE DEF f
<1>2. stack[t] # <<>> /\ Frame(t).at = "close" /\ running = t /\ Tops(t, ClosePlaces)
  BY <1>1, Nonempty DEF Runs, Tops, ClosePlaces
<1>3. stack'[t] # <<>> /\ Frame(t)' = f  BY <1>1, GotoTop
<1>4. /\ \A u \in Tasks : u # t => stack'[u] = stack[u]
      /\ ~Works(t)'
  <2>1. Adds(t, {"close_tasks"})
    <3>1. f.at \in {"close_tasks"} /\ f.at \notin {"close", "disconnected"}  BY <1>1
    <3> QED  BY <1>1, <3>1, AddsGoto
  <2>2. {"close_tasks"} \subseteq (ClosePlaces \ {"close"}) \cup {"raise"}  BY DEF ClosePlaces
  <2> QED  BY <1>2, <2>1, <2>2, ShutsIdle DEF CloseInv
<1>5. ~Breaking(t)' /\ ~Errs(t)'  BY <1>1, <1>3 DEF Breaking, Errs, Tops
<1>6. running' \in {t, NoTask} /\ result' = result  BY <1>1 DEF Goto, Becomes
<1>7. \A u \in Tasks : u # t => /\ \A P : Tops(u, P)' = Tops(u, P)
                                /\ Works(u)' = Works(u) /\ Todo(u)' = Todo(u)
                                /\ Breaking(u)' = Breaking(u) /\ Errs(u)' = Errs(u)
  BY <1>4, SameStack, SameBreaking
<1>8. \A u \in Loops : u \in Tasks /\ u # NoTask  BY PlacesApart DEF Tasks
<1>9. \A u \in cancelled' : u \in Loops /\ u # t /\ Works(u)
  <2>1. \A u \in cancelled : u \in Loops /\ u # t /\ Works(u)  BY <1>2 DEF EndingInv, CancelInv
  <2>2. \A u \in Current \ {t} : \A x \in CancelTarget(u) : x \in Loops /\ x # t /\ Works(x)
    BY <1>1, TargetsWork
  <2> QED  BY <1>1, <2>1, <2>2
<1>10. CancelInv'  BY <1>6, <1>7, <1>8, <1>9 DEF CancelInv
<1>11. ErrorInv'
  <2>1. ASSUME NEW u \in Loops, Errs(u)' PROVE 2 \in DOMAIN stack'[u] /\ stack'[u][2].at \in {"s_sent", "r_ponged"}
    <3>1. u \in Tasks /\ u # t  BY <1>5, <1>8, <2>1
    <3>2. Errs(u) /\ stack'[u] = stack[u]  BY <1>4, <1>7, <2>1, <3>1
    <3> QED  BY <3>2 DEF EndingInv, ErrorInv
  <2> QED  BY <1>6, <2>1 DEF EndingInv, ErrorInv
<1>12. AloneInv'
  <2> SUFFICES ASSUME NEW x \in Loops, NEW u \in Tasks, Breaking(x)' PROVE FALSE
    BY DEF AloneInv
  <2>1. x # t /\ x \in Tasks /\ Breaking(x)  BY <1>5, <1>7, <1>8
  <2>2. stack[x] # <<>> /\ Frame(x).at \notin Awaits  BY <2>1 DEF Breaking, Errs, Tops, Awaits
  <2> QED  BY <1>2, <2>1, <2>2 DEF Inv, Slots, TaskInv, Frame
<1>13. EndInv'
  <2> SUFFICES ASSUME NEW u \in Loops, Works(u)', u \notin cancelled' PROVE FALSE
    BY DEF EndInv
  <2>1. u # t /\ u \in Tasks /\ Works(u) /\ u \notin cancelled  BY <1>1, <1>4, <1>7, <1>8
  <2>2. u \in Current \ {t}  BY <2>1 DEF CloseInv, WorkInv
  <2>3. stack[u] # <<>> /\ Frame(u).at \in WorkPlaces \cup {"send", "sending"}  BY <2>1, WorksTop
  <2>4. Alive(u) /\ ~IsAt(u, "close_await")  BY <1>8, <2>3 DEF Alive, IsAt, Frame, WorkPlaces
  <2>5. CancelTarget(u) = {u}  BY <2>1, <2>4, TargetIs
  <2> QED  BY <1>1, <2>2, <2>5
<1> QED  BY <1>10, <1>11, <1>12, <1>13 DEF EndingInv

LEMMA NextEnding ==
    ASSUME Inv, Inv', NestInv, NestInv', CloseInv, EndingInv, ~svc.config.reconnect, [Next]_vars PROVE EndingInv'
<1>1. ASSUME NEW t \in Tasks, CoroutineStep(t) PROVE EndingInv'
  <2>1. ASSUME ReconnectClosed(t) \/ SendAgain(t) PROVE FALSE
    <3>1. PICK l \in Bent : Runs(t, l)  BY <2>1 DEF ReconnectClosed, SendAgain, Bent
    <3>2. stack[t] # <<>> /\ Frame(t).at = l  BY <3>1, Nonempty
    <3>3. Frame(t) = stack[t][1] /\ 1 \in DOMAIN stack[t]  BY <3>2, StackTyped DEF Inv
    <3> QED  BY <3>1, <3>2, <3>3 DEF NestInv, Straight, Bent
  <2>2. CASE \/ Connect(t) \/ ConnectGranted(t) \/ ConnectLocked(t) \/ ConnectFails(t)
             \/ Start(t) \/ StartGranted(t) \/ StartLocked(t) \/ StartConnected(t) \/ StartSent(t)
             \/ StartReady(t) \/ StartTimesOut(t) \/ Send(t) \/ Sent(t)
    BY <2>2, ConnectEnding, SendEnding
  <2>3. CASE Close(t) \/ CloseAwaits(t) \/ CloseAwaited(t) \/ CloseSocket(t) \/ Closed(t) \/ Disconnected(t)
    BY <2>3, CloseEnding, AwaitsEnding, SocketEnding, DisconnectedEnding
  <2>4. CASE Connected(t) \/ CancelDelivered(t) \/ Unwinds(t)
    BY <2>4, ConnectedEnding, CancelDeliveredEnding, UnwindsEnding
  <2> QED  BY <1>1, <2>1, <2>2, <2>3, <2>4 DEF CoroutineStep
<1>2. ASSUME NEW t \in Tasks, TaskStep(t) PROVE EndingInv'
  BY <1>1, <1>2, PipelineEnding, CallsEnding, LoopsEnding DEF TaskStep
<1>3. CASE Environment
  <2>1. CASE HearsAudio \/ SpeechStarts \/ SpeechEnds \/ Stops \/ CleansUp  BY <2>1, CallsEnding
  <2>2. CASE Cancels  BY <2>2, CancelsEnding
  <2>3. ASSUME NEW w \in Conns,
               HangsUp(w) \/ Breaks(w) \/ \E type \in {"partial", "ping"} : ServerChats(w, type)
        PROVE  EndingInv'
    BY <2>3, ServersEnding
  <2> QED  BY <1>3, <2>1, <2>2, <2>3 DEF Environment
<1>4. CASE UNCHANGED vars
  <2>1. stack' = stack /\ svc' = svc /\ cancelled' = cancelled /\ result' = result /\ running' = running
    BY <1>4 DEF vars, serviceVars, taskVars
  <2> QED  BY <2>1, StandsEnding
<1> QED  BY <1>2, <1>3, <1>4 DEF Next

LEMMA InitEnding == Init => EndingInv
<1> SUFFICES ASSUME Init PROVE EndingInv  OBVIOUS
<1>1. \A u \in Loops : u \in Tasks /\ stack[u] = <<>>  BY DEF Init, Tasks
<1>2. \A u \in Loops : ~Works(u) /\ ~Errs(u) /\ ~Breaking(u)
  <2>1. \A u \in Loops : DOMAIN stack[u] = {}  BY <1>1
  <2> QED  BY <1>1, <2>1 DEF Works, Inside, Errs, Breaking, Tops
<1>3. cancelled = {} /\ DOMAIN result = Tasks /\ \A u \in Tasks : result[u] = "none"  BY DEF Init
<1> QED  BY <1>1, <1>2, <1>3 DEF EndingInv, CancelInv, ErrorInv, AloneInv, EndInv

-----------------------------------------------------------------------------
(* Who is left to drain the queue or to clear it                           *)

\* The ready event is that of the connection, which was opened; once it is closed
\* it has no loops.
LinkInv ==
    svc.ws # 0 => /\ svc.readyOf = svc.ws /\ conn[svc.ws] # "none"
                  /\ conn[svc.ws] \in {"closed", "gone"} => Current = {}
SetInv == readySet \subseteq {w \in Conns : conn[w] # "none"}

\* Without a connection there is neither an utterance nor audio that is queued.
EmptyInv == svc.ws = 0 => ~svc.active /\ buf.queue = <<>>

\* The pipeline queues audio of an utterance only, and does not sleep; it waits for
\* the ready event of the connection, and finds it set only while that lasts.
ActPlaces == {"begun", "queue", "flush", "enqueue"}
ActInv == (Tops(Pipeline, ActPlaces) => svc.active) /\ ~Tops(Pipeline, {"sleep"})
StartInv ==
    /\ Tops(Pipeline, {"start_sent"}) => ~Dead
    /\ Tops(Pipeline, {"start_wait"}) => /\ Frame(Pipeline).event = svc.readyOf
                                         /\ svc.readyOf \in readySet => ~Dead
    /\ Tops(Pipeline, {"sending"}) => Frame(Pipeline).conn \in Conns
PlaceInv == ActInv /\ StartInv

ReadyInv == LinkInv /\ SetInv /\ EmptyInv /\ PlaceInv

\* There is something to be lost, and a task that will see to it: a loop that works
\* or is on its way to a close, or any task inside one.
Busy == svc.ws # 0 /\ (svc.readyOf \in readySet \/ svc.active \/ buf.queue # <<>>)
Minds(t) == Leaves(t) \/ (t \in Loops /\ ((Works(t) /\ t \notin cancelled) \/ Breaking(t)))
MindInv == Busy => \E t \in Tasks : Minds(t)
LeaveInv == svc.closed /\ Busy => \E t \in Tasks : Leaves(t)
HopeInv == MindInv /\ LeaveInv

\* A step that neither connects nor disconnects, and begins nothing.
Gentle ==
    /\ svc'.ws = svc.ws /\ svc'.readyOf = svc.readyOf
    /\ svc'.sendTask = svc.sendTask /\ svc'.recvTask = svc.recvTask
    /\ (svc'.active => svc.active) /\ readySet' \subseteq readySet
    /\ buf.queue = <<>> => buf'.queue = <<>>
    /\ \A w \in Conns : conn'[w] = conn[w] \/ (conn[w] = "open" /\ conn'[w] = "broken")

LEMMA GentleKeeps ==
    ASSUME CurrentInv, Gentle, LinkInv, SetInv, EmptyInv
    PROVE  LinkInv' /\ SetInv' /\ EmptyInv' /\ (Busy' => Busy) /\ Dead' = Dead
<1>1. svc.ws # 0 => svc.ws \in Conns  BY DEF CurrentInv
<1>2. Current' = Current  BY DEF Gentle, Current
<1>3. Dead' = Dead  BY <1>1 DEF Gentle, Dead
<1>4. LinkInv'
  <2> SUFFICES ASSUME svc.ws # 0 PROVE /\ svc.readyOf = svc.ws /\ conn'[svc.ws] # "none"
                                       /\ conn'[svc.ws] \in {"closed", "gone"} => Current = {}
    BY <1>2 DEF LinkInv, Gentle
  <2> QED  BY <1>1 DEF LinkInv, Gentle
<1>5. SetInv'  BY DEF SetInv, Gentle
<1>6. EmptyInv' /\ (Busy' => Busy)  BY DEF EmptyInv, Busy, Gentle
<1> QED  BY <1>3, <1>4, <1>5, <1>6

LEMMA Unmarked ==
    ASSUME ~Tops(Pipeline, ActPlaces \cup {"sleep", "start_sent", "start_wait", "sending"})' PROVE PlaceInv'
BY DEF PlaceInv, ActInv, StartInv, Tops, ActPlaces

\* The step of another task leaves the pipeline where it is.
LEMMA PipelineStands ==
    ASSUME Inv, PlaceInv, NEW t, t # Pipeline, running \in {t, NoTask}, stack'[Pipeline] = stack[Pipeline],
           svc'.readyOf = svc.readyOf,
           Tops(Pipeline, {"start_wait"}) /\ svc.readyOf \in readySet' => ~Dead'
    PROVE  PlaceInv'
<1>1. (\A P : Tops(Pipeline, P)' = Tops(Pipeline, P)) /\ Frame(Pipeline)' = Frame(Pipeline)  BY SameStack
<1>2. ~Tops(Pipeline, ActPlaces) /\ ~Tops(Pipeline, {"start_sent"})
  <2> SUFFICES ASSUME Tops(Pipeline, ActPlaces) \/ Tops(Pipeline, {"start_sent"}) PROVE FALSE  OBVIOUS
  <2>1. stack[Pipeline] # <<>> /\ Head(stack[Pipeline]).at \notin Awaits
    BY DEF Tops, Frame, ActPlaces, Awaits
  <2>2. running = Pipeline  BY <2>1, PlacesApart DEF Inv, Slots, TaskInv
  <2> QED  BY <2>2, PlacesApart
<1>3. ActInv'
  <2>1. Tops(Pipeline, ActPlaces)' = Tops(Pipeline, ActPlaces) /\ Tops(Pipeline, {"sleep"})' = Tops(Pipeline, {"sleep"})
    BY <1>1 DEF ActPlaces
  <2> QED  BY <1>2, <2>1 DEF PlaceInv, ActInv
<1>4. StartInv'
  <2>1. Tops(Pipeline, {"start_sent"})' = Tops(Pipeline, {"start_sent"})  BY <1>1
  <2>2. Tops(Pipeline, {"start_wait"})' = Tops(Pipeline, {"start_wait"})  BY <1>1
  <2>3. Tops(Pipeline, {"sending"})' = Tops(Pipeline, {"sending"})  BY <1>1
  <2> QED  BY <1>1, <1>2, <2>1, <2>2, <2>3 DEF PlaceInv, StartInv
<1> QED  BY <1>3, <1>4 DEF PlaceInv

\* The step of task t loses nothing.
LEMMA HopeKept ==
    ASSUME HopeInv, NEW t \in Tasks, \A u \in Tasks : u # t => stack'[u] = stack[u], cancelled' \subseteq cancelled,
           Busy' => Busy, svc'.closed => svc.closed, Leaves(t) => Leaves(t)',
           Minds(t) => Minds(t)' \/ svc.closed \/ ~Busy
    PROVE  HopeInv'
<1>1. \A u \in Tasks : u # t => /\ Leaves(u)' = Leaves(u)
                                /\ Minds(u) => Minds(u)'
  <2> SUFFICES ASSUME NEW u \in Tasks, u # t PROVE Leaves(u)' = Leaves(u) /\ (Minds(u) => Minds(u)')  OBVIOUS
  <2>1. Breaking(u)' = Breaking(u) /\ Leaves(u)' = Leaves(u)  BY SameBreaking
  <2>2. Works(u)' = Works(u)  BY SameStack
  <2> QED  BY <2>1, <2>2 DEF Minds
<1>2. ASSUME Busy', svc.closed PROVE \E u \in Tasks : Leaves(u)'
  <2>1. PICK u \in Tasks : Leaves(u)  BY <1>2 DEF HopeInv, LeaveInv
  <2>2. Leaves(u)'  BY <1>1, <2>1
  <2> QED  BY <2>2
<1>3. LeaveInv'  BY <1>2 DEF LeaveInv
<1>4. \A u \in Tasks : Leaves(u)' => Minds(u)'  BY DEF Minds
<1>5. MindInv'
  <2> SUFFICES ASSUME Busy' PROVE \E u \in Tasks : Minds(u)'  BY DEF MindInv
  <2>1. CASE svc.closed  BY <1>2, <1>4, <2>1
  <2>2. CASE ~svc.closed
    <3>1. PICK u \in Tasks : Minds(u)  BY DEF HopeInv, MindInv
    <3>2. Minds(u)'  BY <1>1, <2>2, <3>1
    <3> QED  BY <3>2
  <2> QED  BY <2>1, <2>2
<1> QED  BY <1>3, <1>5 DEF HopeInv

\* A task that leaves after its step sees to everything.
LEMMA LeavesHope == ASSUME NEW t \in Tasks, Leaves(t)' PROVE HopeInv'
<1>1. Minds(t)'  BY DEF Minds
<1> QED  BY <1>1 DEF HopeInv, MindInv, LeaveInv

\* With nothing to lose there is nothing to see to.
LEMMA IdleHope == ASSUME ~Busy' PROVE HopeInv'
BY DEF HopeInv, MindInv, LeaveInv

-----------------------------------------------------------------------------
(* Gentle steps                                                            *)

LEMMA GentleReady ==
    ASSUME Inv, ConnInv, ReadyInv, Gentle, NEW t \in Tasks, \A u \in Tasks : u # t => stack'[u] = stack[u],
           running \in {t, NoTask}, t = Pipeline => PlaceInv'
    PROVE  ReadyInv' /\ (Busy' => Busy)
<1>1. LinkInv' /\ SetInv' /\ EmptyInv' /\ (Busy' => Busy) /\ Dead' = Dead
  BY GentleKeeps DEF ConnInv, ReadyInv
<1>2. ASSUME t # Pipeline PROVE PlaceInv'
  <2>1. stack'[Pipeline] = stack[Pipeline] /\ svc'.readyOf = svc.readyOf  BY <1>2, PlacesApart DEF Gentle
  <2>2. Tops(Pipeline, {"start_wait"}) /\ svc.readyOf \in readySet' => ~Dead'
    BY <1>1 DEF Gentle, ReadyInv, PlaceInv, StartInv
  <2> QED  BY <1>2, <2>1, <2>2, PipelineStands DEF ReadyInv
<1> QED  BY <1>1, <1>2 DEF ReadyInv

\* The step of a task that is neither a loop nor inside a close.
LEMMA GentleOther ==
    ASSUME Inv, ConnInv, ReadyInv, HopeInv, Gentle, NEW t \in Tasks, t \notin Loops, ~Leaves(t),
           \A u \in Tasks : u # t => stack'[u] = stack[u], running \in {t, NoTask}, cancelled' = cancelled,
           svc'.closed => svc.closed, t = Pipeline => PlaceInv'
    PROVE  ReadyInv' /\ HopeInv'
<1>1. ReadyInv' /\ (Busy' => Busy)  BY GentleReady
<1>2. ~Minds(t)  BY DEF Minds
<1> QED  BY <1>1, <1>2, HopeKept

\* A loop that stops working does so because nothing is to be lost, or to leave.
LEMMA LoopHope ==
    ASSUME Inv, HopeInv, NEW t \in Loops, Alone(t), LoopStep(t), Busy' => Busy PROVE HopeInv'
<1>1. t \in Tasks /\ ~Leaves(t)  BY DEF LoopStep, Tasks
<1>2. cancelled' \subseteq cancelled /\ (svc'.closed => svc.closed) /\ \A u \in Tasks : u # t => stack'[u] = stack[u]
  BY DEF Alone
<1>3. Minds(t) => Minds(t)' \/ svc.closed \/ ~Busy
  BY <1>1, <1>2 DEF Minds, LoopStep, Busy
<1> QED  BY <1>1, <1>2, <1>3, HopeKept

LEMMA GentleLoop ==
    ASSUME Inv, ConnInv, ReadyInv, HopeInv, Gentle, NEW t \in Loops, Alone(t), LoopStep(t), running \in {t, NoTask}
    PROVE  ReadyInv' /\ HopeInv'
<1>1. t \in Tasks /\ t # Pipeline  BY PlacesApart DEF Loops, Tasks
<1>2. ReadyInv' /\ (Busy' => Busy)  BY <1>1, GentleReady DEF Alone
<1> QED  BY <1>2, LoopHope

-----------------------------------------------------------------------------
(* Where the pipeline goes                                                 *)

Marked == ActPlaces \cup {"sleep", "start_sent", "start_wait", "sending"}

LEMMA TopUnmarked ==
    ASSUME stack'[Pipeline] # <<>> => (Frame(Pipeline)').at \notin Marked PROVE PlaceInv'
BY Unmarked DEF Tops, Marked

LEMMA TopActs ==
    ASSUME svc'.active, (Frame(Pipeline)').at \in ActPlaces PROVE PlaceInv'
BY DEF PlaceInv, ActInv, StartInv, Tops, ActPlaces

LEMMA TopSent ==
    ASSUME ~Dead', (Frame(Pipeline)').at = "start_sent" PROVE PlaceInv'
BY DEF PlaceInv, ActInv, StartInv, Tops, ActPlaces

LEMMA GotoUnmarked ==
    ASSUME Inv, NEW l, Wakes(Pipeline, l) \/ Runs(Pipeline, l), NEW f, Goto(Pipeline, f), f.at \notin Marked
    PROVE  PlaceInv'
<1>1. Frame(Pipeline)' = f  BY GotoTop, PlacesApart
<1> QED  BY <1>1, TopUnmarked

LEMMA GotoActs ==
    ASSUME Inv, NEW l, Wakes(Pipeline, l) \/ Runs(Pipeline, l), NEW f, Goto(Pipeline, f), f.at \in ActPlaces,
           svc'.active
    PROVE  PlaceInv'
<1>1. Frame(Pipeline)' = f  BY GotoTop, PlacesApart
<1> QED  BY <1>1, TopActs

LEMMA RaiseUnmarked ==
    ASSUME Inv, NEW l, Wakes(Pipeline, l) \/ Runs(Pipeline, l), NEW e, Raise(Pipeline, e)
    PROVE  PlaceInv'
<1> DEFINE f == [at |-> "raise", exc |-> e]
<1>1. Goto(Pipeline, f) /\ f.at \notin Marked  BY DEF Raise, Marked, ActPlaces
<1> HIDE DEF f
<1> QED  BY <1>1, GotoUnmarked

LEMMA ReturnUnmarked ==
    ASSUME Inv, NestInv, NEW l, Wakes(Pipeline, l) \/ Runs(Pipeline, l), Return(Pipeline),
           l \notin StartPlaces \cup {"send", "sending", "raise"}
    PROVE  PlaceInv'
<1> SUFFICES ASSUME stack'[Pipeline] # <<>> PROVE (Frame(Pipeline)').at \notin Marked  BY TopUnmarked
<1>1. /\ Frame(Pipeline)' = stack[Pipeline][2]
      /\ <<l, stack[Pipeline][2].at>> \in Nesting /\ stack[Pipeline][2].at \in CallerPlaces
  BY ReturnTop, PlacesApart
<1>2. stack[Pipeline][2].at \notin {"begun", "start_sent"}
  BY <1>1 DEF Nesting, CallerPlaces, LoopPlaces, SendPlaces
<1> QED  BY <1>1, <1>2 DEF Marked, ActPlaces, CallerPlaces

LEMMA ReturnActs ==
    ASSUME Inv, NestInv, NEW l \in StartPlaces, Wakes(Pipeline, l) \/ Runs(Pipeline, l), Return(Pipeline), svc'.active
    PROVE  PlaceInv'
<1>1. CASE stack'[Pipeline] = <<>>  BY <1>1, TopUnmarked
<1>2. CASE stack'[Pipeline] # <<>>
  <2>1. /\ Frame(Pipeline)' = stack[Pipeline][2]
        /\ <<l, stack[Pipeline][2].at>> \in Nesting /\ stack[Pipeline][2].at \in CallerPlaces
    BY <1>2, ReturnTop, PlacesApart
  <2>2. stack[Pipeline][2].at = "begun"
    BY <2>1 DEF Nesting, CallerPlaces, StartPlaces, ConnectPlaces, ClosePlaces, LoopPlaces, SendPlaces
  <2> QED  BY <2>1, <2>2, TopActs DEF ActPlaces
<1> QED  BY <1>1, <1>2

LEMMA ReturnSent ==
    ASSUME Inv, NestInv, NEW l \in {"send", "sending"}, Wakes(Pipeline, l) \/ Runs(Pipeline, l), Return(Pipeline), ~Dead'
    PROVE  PlaceInv'
<1>1. CASE stack'[Pipeline] = <<>>  BY <1>1, TopUnmarked
<1>2. CASE stack'[Pipeline] # <<>>
  <2>1. /\ Frame(Pipeline)' = stack[Pipeline][2]
        /\ <<l, stack[Pipeline][2].at>> \in Nesting /\ stack[Pipeline][2].at \in CallerPlaces
    BY <1>2, ReturnTop, PlacesApart
  <2>2. stack[Pipeline][2].at \notin Marked \ {"start_sent"}
    BY <2>1 DEF Nesting, CallerPlaces, StartPlaces, ConnectPlaces, ClosePlaces, LoopPlaces, SendPlaces, Marked, ActPlaces
  <2> QED  BY <2>1, <2>2, TopSent, TopUnmarked
<1> QED  BY <1>1, <1>2

\* Its stack becomes w on top of what was there, or of nothing.
LEMMA BecomesUnmarked ==
    ASSUME Inv, NEW S, NEW w \in Seq(S), w # <<>>, NEW s \in Seq(Frames), Becomes(Pipeline, w \o s), Head(w).at \notin Marked
    PROVE  PlaceInv'
<1>1. Frame(Pipeline)' = Head(w)  BY BecomesTop, PlacesApart
<1> QED  BY <1>1, TopUnmarked

LEMMA CallUnmarked ==
    ASSUME Inv, NEW l, Wakes(Pipeline, l) \/ Runs(Pipeline, l), NEW g, NEW f, Call(Pipeline, g, f), g.at \notin Marked
    PROVE  PlaceInv'
<1> DEFINE w == <<g, f>>
<1>1. w \in Seq({g, f}) /\ w # <<>> /\ Head(w) = g  OBVIOUS
<1>2. Becomes(Pipeline, w \o Callers(Pipeline))  BY DEF Call
<1> HIDE DEF w
<1>3. Callers(Pipeline) \in Seq(Frames)  BY Nonempty, StackTyped, PlacesApart DEF Inv
<1> QED  BY <1>1, <1>2, <1>3, BecomesUnmarked

-----------------------------------------------------------------------------
(* The start of an utterance                                               *)

\* Only the pipeline connects and starts.
LEMMA StarterIs ==
    ASSUME Inv, NestInv, NEW t \in Tasks, Tops(t, StartPlaces \cup ConnectPlaces)
    PROVE  t = Pipeline /\ t \notin Loops /\ ~Leaves(t)
<1>1. stack[t] # <<>> /\ Frame(t) = stack[t][1] /\ 1 \in DOMAIN stack[t]
      /\ Frame(t).at \in StartPlaces \cup ConnectPlaces
  BY StackTyped DEF Inv, Tops
<1>2. 2 \in DOMAIN stack[t]
  <2>1. stack[t][1].at \notin LoopPlaces \cup {"raise"}
    BY <1>1 DEF LoopPlaces, SendPlaces, StartPlaces, ConnectPlaces
  <2> QED  BY <1>1, <2>1, Bottom
<1>3. <<stack[t][1].at, stack[t][2].at>> \in Nesting /\ stack[t][2].at \in CallerPlaces
  <2>1. 2 > 1 /\ 2 - 1 = 1  OBVIOUS
  <2> QED  BY <1>1, <1>2, <2>1, Callee
<1>4. stack[t][2].at \in {"audio", "begun", "start_connected"}
  BY <1>1, <1>3 DEF Nesting, StartPlaces, LoopPlaces, SendPlaces, CallerPlaces, ConnectPlaces, ClosePlaces
<1>5. ASSUME stack[t][2].at = "start_connected" PROVE 3 \in DOMAIN stack[t] /\ stack[t][3].at = "begun"
  <2>1. stack[t][2].at \notin LoopPlaces \cup {"raise"}  BY <1>5 DEF LoopPlaces, SendPlaces
  <2>2. 2 + 1 = 3 /\ 3 > 1 /\ 3 - 1 = 2  OBVIOUS
  <2>3. 3 \in DOMAIN stack[t]  BY <1>2, <2>1, <2>2, Bottom
  <2>4. <<stack[t][2].at, stack[t][3].at>> \in Nesting /\ stack[t][3].at \in CallerPlaces
    BY <2>2, <2>3, Callee
  <2> QED  BY <1>5, <2>3, <2>4 DEF Nesting, StartPlaces, LoopPlaces, SendPlaces, CallerPlaces, ConnectPlaces, ClosePlaces
<1>6. Inside(t, AudioPlaces)  BY <1>2, <1>4, <1>5 DEF Inside, AudioPlaces
<1>7. t = Pipeline  BY <1>6 DEF Inv, Slots, TaskInv, Inside
<1>8. t \notin Loops  BY <1>7, NotLoop
<1> QED  BY <1>1, <1>7, <1>8 DEF Leaves, Tops, ClosePlaces, StartPlaces, ConnectPlaces

LEMMA StartsUnmarked ==
    ASSUME Inv, NestInv, ReadyInv, StartLocked(Pipeline) PROVE PlaceInv'
<1> DEFINE t == Pipeline
           f == At("start_connected")
           s == Callers(t)
           w == <<f>>
           g == At("connect")
           r == w \o s
<1>1. Runs(t, "start_locked") /\ "start_locked" \in StartPlaces  BY DEF StartLocked, StartPlaces
<1>2. CASE svc.active
  <2>1. Return(t) /\ svc'.active  BY <1>2 DEF StartLocked
  <2> QED  BY <1>1, <2>1, ReturnActs
<1>3. CASE ~svc.active
  <2>1. Becomes(t, r) \/ Becomes(t, <<g>> \o r)  BY <1>3, OnceIs DEF StartLocked
  <2>2. f.at = "start_connected" /\ g.at = "connect"  BY AtIs
  <2>3. s \in Seq(Frames)  BY <1>1, Nonempty, StackTyped, PlacesApart DEF Inv
  <2>4. f \in Frames  BY QuietAt, QuietIsQuiet DEF QuietPlaces
  <2> HIDE DEF f, g, s
  <2>5. w \in Seq({f}) /\ w \in Seq(Frames) /\ w # <<>> /\ Head(w) = f  BY <2>4
  <2>6. r \in Seq(Frames)  BY <2>3, <2>5, ConcatAre
  <2> HIDE DEF w, r
  <2>7. CASE Becomes(t, r)
    <3>1. Becomes(t, w \o s) /\ Head(w).at \notin Marked  BY <2>2, <2>5, <2>7 DEF r, Marked, ActPlaces
    <3> QED  BY <2>3, <2>5, <3>1, BecomesUnmarked
  <2>8. CASE Becomes(t, <<g>> \o r)
    <3> DEFINE v == <<g>>
    <3>1. v \in Seq({g}) /\ v # <<>> /\ Head(v) = g /\ Becomes(t, v \o r)  BY <2>8
    <3> HIDE DEF v
    <3>2. Head(v).at \notin Marked  BY <2>2, <3>1 DEF Marked, ActPlaces
    <3> QED  BY <2>6, <3>1, <3>2, BecomesUnmarked
  <2> QED  BY <2>1, <2>7, <2>8
<1> QED  BY <1>2, <1>3

LEMMA SentWaits == ASSUME Inv, ReadyInv, StartSent(Pipeline) PROVE PlaceInv'
<1> DEFINE t == Pipeline
           f == [at |-> "start_wait", event |-> svc.readyOf]
<1>1. Runs(t, "start_sent") /\ Goto(t, f)  BY DEF StartSent
<1>2. f.at = "start_wait" /\ f.event = svc.readyOf  OBVIOUS
<1> HIDE DEF f
<1>3. Frame(t)' = f  BY <1>1, GotoTop, PlacesApart
<1>4. ~Dead
  <2>1. Tops(t, {"start_sent"})  BY <1>1, TopIs
  <2> QED  BY <2>1 DEF ReadyInv, PlaceInv, StartInv
<1>5. ~Dead' /\ svc' = svc /\ readySet' = readySet
  <2>1. svc' = svc /\ readySet' = readySet /\ conn' = conn
    BY DEF StartSent, serviceVars, syncVars, eventVars, outsideVars, wireVars
  <2> QED  BY <1>4, <2>1 DEF Dead
<1>6. ActInv' /\ ~Tops(t, {"start_sent"})' /\ ~Tops(t, {"sending"})'  BY <1>2, <1>3 DEF ActInv, Tops, ActPlaces
<1>7. StartInv'  BY <1>2, <1>3, <1>5, <1>6 DEF StartInv
<1> QED  BY <1>6, <1>7 DEF PlaceInv

LEMMA ConnectPlaced ==
    ASSUME Inv, NestInv, ReadyInv,
           \/ Connect(Pipeline) \/ ConnectGranted(Pipeline) \/ ConnectLocked(Pipeline) \/ ConnectFails(Pipeline)
           \/ Start(Pipeline) \/ StartGranted(Pipeline) \/ StartLocked(Pipeline) \/ StartConnected(Pipeline)
           \/ StartSent(Pipeline) \/ StartTimesOut(Pipeline)
    PROVE  PlaceInv'
<1> DEFINE t == Pipeline
<1>1. ASSUME NEW l, Wakes(t, l) \/ Runs(t, l),
             NEW m \in {"connect_locked", "connect_lock", "connecting", "start_locked", "start_lock"}, Goto(t, At(m))
      PROVE  PlaceInv'
  <2> DEFINE f == At(m)
  <2>1. Goto(t, f) /\ f.at \notin Marked  BY <1>1, AtIs DEF Marked, ActPlaces
  <2> HIDE DEF f
  <2> QED  BY <1>1, <2>1, GotoUnmarked
<1>2. CASE Connect(t)  BY <1>1, <1>2 DEF Connect
<1>3. CASE ConnectGranted(t)  BY <1>1, <1>3 DEF ConnectGranted
<1>4. CASE ConnectLocked(t)
  <2>1. Runs(t, "connect_locked") /\ (Return(t) \/ Goto(t, At("connecting")))  BY <1>4 DEF ConnectLocked
  <2>2. "connect_locked" \notin StartPlaces \cup {"send", "sending", "raise"}  BY DEF StartPlaces
  <2> QED  BY <1>1, <2>1, <2>2, ReturnUnmarked
<1>5. CASE ConnectFails(t)  BY <1>5, RaiseUnmarked DEF ConnectFails
<1>6. CASE Start(t)
  <2>1. Runs(t, "start") /\ "start" \in StartPlaces /\ svc' = svc  BY <1>6 DEF Start, StartPlaces
  <2>2. CASE svc.active  BY <1>6, <2>1, <2>2, ReturnActs DEF Start
  <2>3. CASE ~svc.active  BY <1>1, <1>6, <2>3 DEF Start
  <2> QED  BY <2>2, <2>3
<1>7. CASE StartGranted(t)  BY <1>1, <1>7 DEF StartGranted
<1>8. CASE StartConnected(t)
  <2> DEFINE m == [type |-> "start", gen |-> svc.gen]
             g == SendCall(m, TRUE, FALSE)
             f == At("start_sent")
  <2>1. Runs(t, "start_connected") /\ Call(t, g, f)  BY <1>8 DEF StartConnected
  <2>2. g.at \notin Marked  BY DEF SendCall, Marked, ActPlaces
  <2> HIDE DEF g, f, m
  <2> QED  BY <2>1, <2>2, CallUnmarked
<1>9. CASE StartTimesOut(t)  BY <1>9, RaiseUnmarked DEF StartTimesOut
<1> QED  BY <1>2, <1>3, <1>4, <1>5, <1>6, <1>7, <1>8, <1>9, StartsUnmarked, SentWaits

LEMMA ConnectHopes ==
    ASSUME Inv, ConnInv, NestInv, CloseInv, EndingInv, ReadyInv, HopeInv, NEW t \in Tasks,
           \/ Connect(t) \/ ConnectGranted(t) \/ ConnectLocked(t) \/ ConnectFails(t)
           \/ Start(t) \/ StartGranted(t) \/ StartLocked(t) \/ StartConnected(t) \/ StartSent(t) \/ StartTimesOut(t)
    PROVE  ReadyInv' /\ HopeInv'
<1>1. PICK l \in ConnectPlaces \cup StartPlaces : Wakes(t, l) \/ Runs(t, l)
  BY DEF Connect, ConnectGranted, ConnectLocked, ConnectFails, ConnectPlaces,
         Start, StartGranted, StartLocked, StartConnected, StartSent, StartTimesOut, StartPlaces
<1>2. t = Pipeline /\ t \notin Loops /\ ~Leaves(t)
  <2>1. Tops(t, StartPlaces \cup ConnectPlaces)  BY <1>1, TopIs
  <2> QED  BY <2>1, StarterIs
<1>3. (\A u \in Tasks : u # t => stack'[u] = stack[u]) /\ running \in {t, NoTask}
  <2>1. Stays(t)  BY ConnectStays, StartStays
  <2> QED  BY <1>1, <2>1, Nonempty DEF Stays, Adds
<1>4. /\ svc' = svc \/ svc' = [svc EXCEPT !.closed = FALSE] \/ svc' = [svc EXCEPT !.suppress = FALSE]
      /\ buf' = buf /\ conn' = conn /\ cancelled' = cancelled /\ readySet' \subseteq readySet
  BY DEF Connect, ConnectGranted, ConnectLocked, ConnectFails, serviceVars, syncVars, eventVars, outsideVars, wireVars,
         Start, StartGranted, StartLocked, StartConnected, StartSent, StartTimesOut
<1>5. Gentle /\ (svc'.closed => svc.closed)
  <2>1. svc \in Service  BY DEF Inv, Slots, TypeInv
  <2> QED  BY <1>4, <2>1 DEF Service, Gentle
<1>6. PlaceInv'  BY <1>2, ConnectPlaced
<1> QED  BY <1>2, <1>3, <1>4, <1>5, <1>6, GentleOther

LEMMA StartReadyHopes ==
    ASSUME Inv, ConnInv, NestInv, CloseInv, EndingInv, ReadyInv, HopeInv, NEW t \in Tasks, StartReady(t)
    PROVE  ReadyInv' /\ HopeInv'
<1>1. Wakes(t, "start_wait") /\ "start_wait" \in StartPlaces /\ Return(t)  BY DEF StartReady, StartPlaces
<1>2. t = Pipeline /\ t \notin Loops /\ ~Leaves(t)
  <2>1. Tops(t, StartPlaces \cup ConnectPlaces)  BY <1>1, TopIs
  <2> QED  BY <2>1, StarterIs
<1>3. (\A u \in Tasks : u # t => stack'[u] = stack[u]) /\ running \in {t, NoTask}
  <2>1. Stays(t)  BY StartStays
  <2> QED  BY <1>1, <2>1, Nonempty DEF Stays, Adds
<1>4. svc.readyOf \in readySet /\ ~Dead
  <2>1. Tops(Pipeline, {"start_wait"})  BY <1>1, <1>2, TopIs
  <2>2. Frame(t).event = svc.readyOf  BY <1>2, <2>1 DEF ReadyInv, PlaceInv, StartInv
  <2>3. svc.readyOf \in readySet  BY <2>2 DEF StartReady
  <2> QED  BY <2>1, <2>3 DEF ReadyInv, PlaceInv, StartInv
<1>5. Busy /\ svc.ws # 0  BY <1>4 DEF Busy, Dead
<1>6. /\ svc'.ws = svc.ws /\ svc'.readyOf = svc.readyOf /\ Current' = Current /\ svc'.active /\ svc'.closed = svc.closed
      /\ conn' = conn /\ readySet' = readySet /\ cancelled' = cancelled
  <2>1. svc \in Service  BY DEF Inv, Slots, TypeInv
  <2> QED  BY <2>1 DEF StartReady, Service, Current, eventVars, outsideVars, wireVars
<1>7. LinkInv' /\ SetInv' /\ EmptyInv'  BY <1>5, <1>6 DEF ReadyInv, LinkInv, SetInv, EmptyInv
<1>8. PlaceInv'  BY <1>1, <1>2, <1>6, ReturnActs
<1>9. ~Minds(t)  BY <1>2 DEF Minds
<1>10. HopeInv'  BY <1>2, <1>3, <1>5, <1>6, <1>9, HopeKept
<1> QED  BY <1>7, <1>8, <1>10 DEF ReadyInv

-----------------------------------------------------------------------------
(* Sends                                                                   *)

LEMMA SendPlaced ==
    ASSUME Inv, ConnInv, NestInv, ReadyInv, ~svc.config.reconnect, Send(Pipeline) \/ Sent(Pipeline) PROVE PlaceInv'
<1> DEFINE t == Pipeline
           f == [Frame(t) EXCEPT !.at = "sending", !.conn = svc.ws]
<1>1. PICK l \in {"send", "sending"} : (Wakes(t, l) \/ Runs(t, l)) /\ (Sent(t) => l = "sending") /\ (Send(t) => l = "send")
  <2>1. CASE Send(t)
    <3>1. Runs(t, "send")  BY <2>1 DEF Send
    <3>2. ~Sent(t)  BY <3>1, PlacesApart DEF Sent, Wakes, Runs
    <3> QED  BY <3>1, <3>2
  <2>2. CASE Sent(t)
    <3>1. Wakes(t, "sending")  BY <2>2 DEF Sent
    <3>2. ~Send(t)  BY <3>1, PlacesApart DEF Send, Wakes, Runs
    <3> QED  BY <3>1, <3>2
  <2> QED  BY <2>1, <2>2
<1>2. t \in Tasks /\ stack[t] # <<>> /\ Frame(t).at = l /\ Frame(t) \in Frames
  BY <1>1, Nonempty, StackTyped, PlacesApart DEF Inv
<1>3. svc' = svc /\ conn' = conn  BY DEF Send, Sent, serviceVars, outsideVars, wireVars
<1>4. CASE Raise(t, "error")  BY <1>1, <1>4, RaiseUnmarked
<1>5. CASE Goto(t, f) /\ svc.ws # 0
  <2>1. f.at = "sending" /\ f.conn = svc.ws
    <3>1. Send(t) \/ l = "sending"  BY <1>1
    <3>2. Frame(t) \in SendFrames  BY <1>2, SendFields
    <3> QED  BY <1>2, <3>2, MovedAt DEF SendFrames
  <2> HIDE DEF f
  <2>2. Frame(t)' = f  BY <1>1, <1>2, <1>5, GotoTop
  <2>3. svc.ws \in Conns  BY <1>5 DEF ConnInv, CurrentInv
  <2> QED  BY <2>1, <2>2, <2>3 DEF PlaceInv, ActInv, StartInv, Tops, ActPlaces
<1>6. CASE Return(t) /\ conn[Frame(t).conn] = "open" /\ l = "sending"
  <2>1. Frame(t).conn \in Conns  BY <1>2, <1>6 DEF ReadyInv, PlaceInv, StartInv, Tops
  <2>2. svc.ws = Frame(t).conn  BY <1>6, <2>1 DEF ConnInv, CurrentInv
  <2>3. ~Dead'  BY <1>3, <1>6, <2>1, <2>2 DEF Dead, Conns
  <2> QED  BY <1>1, <1>6, <2>3, ReturnSent
<1>7. CASE Send(t)  BY <1>1, <1>4, <1>5, <1>7 DEF Send, SendFails
<1>8. CASE Sent(t)  BY <1>1, <1>4, <1>6, <1>8 DEF Sent, SendFails
<1> QED  BY <1>7, <1>8

LEMMA SendHopes ==
    ASSUME Inv, Inv', ConnInv, NestInv, NestInv', CloseInv, EndingInv, ReadyInv, HopeInv, NEW t \in Tasks,
           ~svc.config.reconnect, Send(t) \/ Sent(t)
    PROVE  ReadyInv' /\ HopeInv'
<1>1. PICK l \in {"send", "sending"} : Wakes(t, l) \/ Runs(t, l)  BY DEF Send, Sent
<1>2. (\A u \in Tasks : u # t => stack'[u] = stack[u]) /\ running \in {t, NoTask} /\ ~Leaves(t)
  <2>1. Stays(t)  BY SendStays
  <2>2. stack[t] # <<>> /\ Frame(t).at = l /\ running \in {t, NoTask}  BY <1>1, Nonempty
  <2> QED  BY <2>1, <2>2 DEF Stays, Adds, Leaves, Tops, ClosePlaces
<1>3. svc' = svc /\ buf' = buf /\ readySet' = readySet /\ conn' = conn /\ cancelled' = cancelled
  BY DEF Send, Sent, serviceVars, syncVars, eventVars, outsideVars, wireVars
<1>4. Gentle  BY <1>3 DEF Gentle
<1>5. CASE t \in Loops
  <2>1. LoopStep(t)  BY <1>5, SendLoops DEF CloseInv
  <2>2. \E w : Becomes(t, w)  BY DEF Send, Sent, SendFails, Goto, Return, Raise
  <2>3. cancelled' = cancelled \ {t}  BY <1>1, <1>3, NotCancelled
  <2>4. Alone(t)  BY <1>2, <1>3, <2>2, <2>3, AloneStep
  <2> QED  BY <1>2, <1>4, <1>5, <2>1, <2>4, GentleLoop
<1>6. CASE t \notin Loops
  <2>1. t = Pipeline => PlaceInv'  BY SendPlaced
  <2> QED  BY <1>2, <1>3, <1>4, <1>6, <2>1, GentleOther
<1> QED  BY <1>5, <1>6

LEMMA LoopsHope ==
    ASSUME Inv, Inv', ConnInv, NestInv, NestInv', CloseInv, EndingInv, ReadyInv, HopeInv, ~svc.config.reconnect,
           NEW k \in Conns, SenderStep(k) \/ (ReceiverStep(k) /\ ~ReceivesReady(k))
    PROVE  ReadyInv' /\ HopeInv'
<1>1. CASE SenderStep(k)
  <2> DEFINE t == SendTask(k)
  <2>1. Alone(t) /\ LoopStep(t) /\ t \in Loops  BY <1>1, SenderGoes, PlacesApart
  <2>2. running \in {t, NoTask}
    BY <1>1 DEF SenderStep, SenderLoops, SenderWakes, SenderTakes, SenderSent, SenderGone, Wakes, Runs
  <2>3. /\ svc' = svc /\ readySet' = readySet /\ conn' = conn
        /\ buf' = buf \/ SenderTakes(k) \/ buf' = [buf EXCEPT !.unfinished = @ - 1]
    BY <1>1 DEF SenderStep, SenderLoops, SenderWakes, SenderTakes, SenderSent, SenderGone,
                serviceVars, syncVars, eventVars, outsideVars, wireVars
  <2>4. buf.queue = <<>> => buf'.queue = <<>>
    <3>1. buf \in Buffers  BY DEF Inv, Slots, TypeInv
    <3>2. ASSUME SenderTakes(k) PROVE buf.queue # <<>>
      <4>1. Runs(t, "s_take")  BY <3>2 DEF SenderTakes
      <4> HIDE DEF t
      <4>2. t \in Tasks  BY <2>1 DEF Tasks
      <4>3. 1 \in DOMAIN stack[t] /\ stack[t][1].at = "s_take"
        <5>1. stack[t] # <<>> /\ Frame(t).at = "s_take"  BY <4>1, Nonempty
        <5> QED  BY <4>2, <5>1, StackTyped DEF Inv
      <4> QED  BY <4>2, <4>3 DEF Inv, TakeInv
    <3> QED  BY <2>3, <3>1, <3>2 DEF Buffers
  <2>5. Gentle  BY <2>3, <2>4 DEF Gentle
  <2> HIDE DEF t
  <2> QED  BY <2>1, <2>2, <2>5, GentleLoop
<1>2. CASE ReceiverStep(k) /\ ~ReceivesReady(k)
  <2> DEFINE t == RecvTask(k)
  <2>1. Alone(t) /\ LoopStep(t) /\ t \in Loops  BY <1>2, ReceiverGoes, PlacesApart DEF Loops
  <2>2. running \in {t, NoTask}
    BY <1>2 DEF ReceiverStep, ReceiverLoops, ReceivesPing, ReceivesReady, ReceivesTranscript, ReceiverPushes,
       ReceivesEnd, ReceiverLosesConnection, ReceiverFailed, ReceiverEnds, Receives, Wakes, Runs
  <2>3. /\ svc' = svc \/ \E b : svc' = [svc EXCEPT !.active = @ /\ b]
        /\ readySet' = readySet /\ conn' = conn /\ buf' = buf
    BY <1>2 DEF ReceiverStep, ReceiverLoops, ReceivesPing, ReceivesTranscript, ReceiverPushes,
       ReceivesEnd, ReceiverLosesConnection, ReceiverFailed, ReceiverEnds, Receives,
       serviceVars, syncVars, eventVars, outsideVars, wireVars
  <2>4. Gentle
    <3>1. svc \in Service  BY DEF Inv, Slots, TypeInv
    <3> QED  BY <2>3, <3>1 DEF Gentle, Service
  <2> HIDE DEF t
  <2> QED  BY <2>1, <2>2, <2>4, GentleLoop
<1> QED  BY <1>1, <1>2

\* The event of ready is set for a loop that goes on.
LEMMA ReceivesReadyHopes ==
    ASSUME Inv, Inv', ConnInv, NestInv, NestInv', CloseInv, EndingInv, ReadyInv, HopeInv, NEW k \in Conns, ReceivesReady(k)
    PROVE  ReadyInv' /\ HopeInv'
<1> DEFINE t == RecvTask(k)
           f == At("r_loop")
<1>1. t \in Loops /\ t \in Tasks /\ t # Pipeline  BY PlacesApart DEF Loops
<1>2. Wakes(t, "r_recv") /\ Goto(t, f) /\ "r_recv" \in WorkPlaces  BY DEF ReceivesReady, Receives, WorkPlaces
<1>3. /\ svc' = svc /\ buf' = buf /\ conn' = conn /\ cancelled' = cancelled
      /\ readySet' \subseteq readySet \cup {svc.readyOf}
  BY DEF ReceivesReady, Receives
<1>4. stack' = [stack EXCEPT ![t] = <<f>> \o Callers(t)]  BY <1>2 DEF Goto, Becomes
<1>5. f.at \in WorkPlaces  BY AtIs DEF WorkPlaces
<1> HIDE DEF t, f
<1>6. t \notin cancelled /\ running \in {t, NoTask} /\ Works(t)
  <2>1. t \notin cancelled  BY <1>2, NotCancelled
  <2>2. Works(t)  BY <1>1, <1>2, AtWork
  <2> QED  BY <1>2, <2>1, <2>2, Nonempty
<1>7. ~svc.closed /\ t \in Current /\ svc.ws # 0
  <2>1. "r_recv" \notin {"s_new", "r_new"}  OBVIOUS
  <2> QED  BY <1>1, <1>2, <1>6, <2>1, Onward DEF CloseInv, WorkInv
<1>8. svc.readyOf = svc.ws /\ svc.ws \in Conns /\ conn[svc.ws] \notin {"none", "closed", "gone"}
  BY <1>7 DEF ReadyInv, LinkInv, ConnInv, CurrentInv
<1>9. LinkInv' /\ EmptyInv' /\ SetInv'
  <2>1. Current' = Current  BY <1>3 DEF Current
  <2>2. LinkInv' /\ EmptyInv'  BY <1>3, <2>1 DEF ReadyInv, LinkInv, EmptyInv
  <2>3. SetInv'  BY <1>3, <1>8 DEF ReadyInv, SetInv
  <2> QED  BY <2>2, <2>3
<1>10. PlaceInv'
  <2>1. stack'[Pipeline] = stack[Pipeline]  BY <1>1, <1>4, PlacesApart DEF Inv, Slots, TypeInv
  <2>2. ~Dead'  BY <1>3, <1>7, <1>8 DEF Dead
  <2> QED  BY <1>1, <1>3, <1>6, <2>1, <2>2, PipelineStands DEF ReadyInv
<1>11. HopeInv'
  <2>1. Works(t)'  BY <1>1, <1>2, <1>5, WorkGoto
  <2>2. Minds(t)' /\ ~svc'.closed  BY <1>1, <1>3, <1>6, <1>7, <2>1 DEF Minds
  <2> QED  BY <1>1, <2>2 DEF HopeInv, MindInv, LeaveInv
<1> QED  BY <1>9, <1>10, <1>11 DEF ReadyInv

-----------------------------------------------------------------------------
(* The pipeline                                                            *)

LEMMA AudioPlaced ==
    ASSUME Inv, NestInv, ReadyInv, svc.config.policy # "block",
           HandlesAudio \/ QueuesAudio \/ Flushes \/ Enqueues \/ Sleeps \/ SpeechBegun
    PROVE  PlaceInv' /\ ~Sleeps
<1> DEFINE t == Pipeline
<1>1. ASSUME NEW l \in ActPlaces, Runs(t, l) PROVE svc.active
  <2>1. Tops(t, ActPlaces)  BY <1>1, TopIs
  <2> QED  BY <2>1 DEF ReadyInv, PlaceInv, ActInv
<1>2. ASSUME NEW l, Runs(t, l), NEW f, Goto(t, f), f.at \in ActPlaces, svc' = svc, svc.active PROVE PlaceInv'
  BY <1>2, GotoActs
<1>3. AudioPlaces \cap (StartPlaces \cup {"send", "sending", "raise"}) = {}  BY DEF AudioPlaces, StartPlaces
<1>4. ASSUME NEW l \in AudioPlaces, Runs(t, l), Return(t) PROVE PlaceInv'
  BY <1>3, <1>4, ReturnUnmarked
<1>5. ~Sleeps
  <2> SUFFICES ASSUME Sleeps PROVE FALSE  OBVIOUS
  <2>1. Wakes(t, "sleep")  BY DEF Sleeps
  <2>2. Tops(t, {"sleep"})  BY <2>1, TopIs
  <2> QED  BY <2>2 DEF ReadyInv, PlaceInv, ActInv
<1>6. CASE HandlesAudio
  <2> DEFINE f == [at |-> "queue", frames |-> <<Frame(Pipeline).frame>>]
  <2>1. Runs(t, "audio") /\ svc' = svc /\ ((Goto(t, f) /\ svc.active) \/ Return(t))  BY <1>6 DEF HandlesAudio
  <2>2. f.at \in ActPlaces /\ "audio" \in AudioPlaces  BY DEF ActPlaces, AudioPlaces
  <2> HIDE DEF f
  <2> QED  BY <1>2, <1>4, <1>5, <2>1, <2>2
<1>7. CASE QueuesAudio
  <2> DEFINE f == At("flush")
  <2>1. Runs(t, "queue") /\ svc' = svc /\ (Goto(t, f) \/ Return(t))  BY <1>7 DEF QueuesAudio
  <2>2. f.at \in ActPlaces /\ "queue" \in AudioPlaces /\ "queue" \in ActPlaces  BY AtIs DEF ActPlaces, AudioPlaces
  <2> HIDE DEF f
  <2> QED  BY <1>1, <1>2, <1>4, <1>5, <2>1, <2>2
<1>8. CASE Flushes
  <2> DEFINE f == [at |-> "enqueue", chunk |-> [frames |-> buf.aggregate, gen |-> svc.gen]]
  <2>1. Runs(t, "flush") /\ svc' = svc /\ (Goto(t, f) \/ Return(t))  BY <1>8 DEF Flushes
  <2>2. f.at \in ActPlaces /\ "flush" \in AudioPlaces /\ "flush" \in ActPlaces  BY DEF ActPlaces, AudioPlaces
  <2> HIDE DEF f
  <2> QED  BY <1>1, <1>2, <1>4, <1>5, <2>1, <2>2
<1>9. CASE Enqueues
  <2>1. Runs(t, "enqueue") /\ (Return(t) \/ Raise(t, "error"))  BY <1>9 DEF Enqueues
  <2>2. "enqueue" \in AudioPlaces  BY DEF AudioPlaces
  <2> QED  BY <1>4, <1>5, <2>1, <2>2, RaiseUnmarked
<1>10. CASE SpeechBegun
  <2> DEFINE f == [at |-> "queue", frames |-> buf.preroll]
  <2>1. Runs(t, "begun") /\ svc' = svc /\ (Goto(t, f) \/ Return(t))  BY <1>10 DEF SpeechBegun
  <2>2. f.at \in ActPlaces /\ "begun" \in AudioPlaces /\ "begun" \in ActPlaces  BY DEF ActPlaces, AudioPlaces
  <2> HIDE DEF f
  <2> QED  BY <1>1, <1>2, <1>4, <1>5, <2>1, <2>2
<1> QED  BY <1>5, <1>6, <1>7, <1>8, <1>9, <1>10

LEMMA FinalPlaced ==
    ASSUME Inv, NestInv,
           \/ Joins \/ Joined \/ SendsFinalize \/ FinalizeSent \/ FinalArrives \/ FinalTimesOut \/ FinalDone
    PROVE  PlaceInv'
<1> DEFINE t == Pipeline
<1>1. FinalPlaces \cap (Marked \cup StartPlaces \cup {"send", "sending", "raise"}) = {}
  BY DEF FinalPlaces, StartPlaces, Marked, ActPlaces
<1>2. ASSUME NEW l \in FinalPlaces, Runs(t, l) \/ Wakes(t, l), NEW m \in FinalPlaces, Goto(t, [Frame(t) EXCEPT !.at = m])
      PROVE  PlaceInv'
  <2> DEFINE f == [Frame(t) EXCEPT !.at = m]
  <2>1. Frame(t) \in Frames  BY <1>2, PipelineFrame
  <2>2. f.at = m /\ Goto(t, f)  BY <1>2, <2>1, MovedAt
  <2> HIDE DEF f
  <2> QED  BY <1>1, <1>2, <2>2, GotoUnmarked
<1>3. ASSUME NEW l \in FinalPlaces, Runs(t, l), Return(t) PROVE PlaceInv'
  BY <1>1, <1>3, ReturnUnmarked
<1>4. CASE Joins
  <2>1. PICK m \in {"joined", "join"} : Goto(t, [Frame(t) EXCEPT !.at = m])  BY <1>4 DEF Joins
  <2>2. Runs(t, "flushed") /\ "flushed" \in FinalPlaces /\ m \in FinalPlaces  BY <1>4 DEF Joins, FinalPlaces
  <2> QED  BY <1>2, <2>1, <2>2
<1>5. CASE Joined \/ FinalizeSent \/ FinalArrives
  <2>1. PICK l \in FinalPlaces, m \in FinalPlaces : /\ Runs(t, l) \/ Wakes(t, l)
                                                    /\ Goto(t, [Frame(t) EXCEPT !.at = m])
    BY <1>5 DEF Joined, FinalizeSent, FinalArrives, FinalPlaces
  <2> QED  BY <1>2, <2>1
<1>6. CASE SendsFinalize
  <2> DEFINE m == [type |-> "finalize"]
             g == SendCall(m, FALSE, FALSE)
             f == [at |-> "final_sent", gen |-> Frame(t).gen]
             w == <<g, f>>
  <2>1. Runs(t, "joined") /\ "joined" \in FinalPlaces /\ (Becomes(t, w \o Callers(t)) \/ Return(t))
    BY <1>6 DEF SendsFinalize, FinalPlaces
  <2>2. g.at \notin Marked /\ w \in Seq({g, f}) /\ w # <<>> /\ Head(w) = g  BY DEF SendCall, Marked, ActPlaces
  <2>3. Callers(t) \in Seq(Frames)  BY <2>1, PipelineFrame, StackTyped DEF Inv
  <2> HIDE DEF m, g, f, w
  <2> QED  BY <1>3, <2>1, <2>2, <2>3, BecomesUnmarked
<1>7. CASE FinalTimesOut
  <2> DEFINE h == [Frame(t) EXCEPT !.at = "final_done"]
             w == Disconnecting \o <<h>>
  <2>1. Wakes(t, "final_wait") /\ Becomes(t, w \o Callers(t))  BY <1>7 DEF FinalTimesOut
  <2>2. h.at = "final_done"  BY <2>1, PipelineFrame, MovedAt
  <2>3. Callers(t) \in Seq(Frames)  BY <2>1, PipelineFrame, StackTyped DEF Inv
  <2>4. "final_done" \in OpenPlaces  BY DEF OpenPlaces, FinalPlaces
  <2> HIDE DEF h
  <2>5. (\E S : w \in Seq(S)) /\ DOMAIN w = {1, 2, 3} /\ w[1] = Disconnecting[1]  BY <2>2, <2>4, DisconnectsThen
  <2>6. w[1].at = "close"  BY <2>5, DisconnectingAre
  <2> HIDE DEF w
  <2>7. PICK S : w \in Seq(S)  BY <2>5
  <2>8. 1 \in DOMAIN w  BY <2>5
  <2>9. w # <<>> /\ Head(w) = w[1]  BY <2>7, <2>8
  <2>10. Head(w).at \notin Marked  BY <2>6, <2>9 DEF Marked, ActPlaces
  <2> QED  BY <2>1, <2>3, <2>7, <2>9, <2>10, BecomesUnmarked
<1>8. CASE FinalDone  BY <1>3, <1>8 DEF FinalDone, FinalPlaces
<1> QED  BY <1>4, <1>5, <1>6, <1>7, <1>8

LEMMA PipelineHopes ==
    ASSUME Inv, ConnInv, NestInv, ReadyInv, HopeInv, svc.config.policy # "block", PipelineStep
    PROVE  ReadyInv' /\ HopeInv'
<1> DEFINE t == Pipeline
<1>1. t \in Tasks /\ t \notin Loops /\ Stays(t)  BY NotLoop, PipelineStays
<1>2. PICK l \in AudioPlaces \cup FinalPlaces : Wakes(t, l) \/ Runs(t, l)
  BY DEF PipelineStep, HandlesAudio, QueuesAudio, Flushes, Enqueues, Sleeps, SpeechBegun, Joins, Joined,
         SendsFinalize, FinalizeSent, FinalArrives, FinalTimesOut, FinalDone, AudioPlaces, FinalPlaces
<1>3. ~Leaves(t) /\ running \in {t, NoTask} /\ \A u \in Tasks : u # t => stack'[u] = stack[u]
  <2>1. stack[t] # <<>> /\ Frame(t).at = l /\ running \in {t, NoTask}  BY <1>2, Nonempty
  <2> QED  BY <1>1, <2>1 DEF Stays, Adds, Leaves, Tops, ClosePlaces, AudioPlaces, FinalPlaces
<1>4. PlaceInv' /\ ~Sleeps  
  <2>1. CASE HandlesAudio \/ QueuesAudio \/ Flushes \/ Enqueues \/ Sleeps \/ SpeechBegun  BY <2>1, AudioPlaced
  <2>2. CASE ~(HandlesAudio \/ QueuesAudio \/ Flushes \/ Enqueues \/ Sleeps \/ SpeechBegun)
    BY <2>2, FinalPlaced DEF PipelineStep
  <2> QED  BY <2>1, <2>2
<1>5. /\ svc' = svc \/ svc' = [svc EXCEPT !.active = FALSE]
      /\ conn' = conn /\ readySet' = readySet /\ cancelled' = cancelled
  BY DEF PipelineStep, HandlesAudio, QueuesAudio, Flushes, Enqueues, Sleeps, SpeechBegun, Joins, Joined,
         SendsFinalize, FinalizeSent, FinalArrives, FinalTimesOut, FinalDone,
         serviceVars, syncVars, eventVars, outsideVars, wireVars
<1>6. /\ svc'.ws = svc.ws /\ svc'.readyOf = svc.readyOf /\ svc'.closed = svc.closed /\ (svc'.active => svc.active)
      /\ svc'.sendTask = svc.sendTask /\ svc'.recvTask = svc.recvTask
  <2>1. svc \in Service  BY DEF Inv, Slots, TypeInv
  <2> QED  BY <1>5, <2>1 DEF Service
<1>7. CASE Enqueues
  <2>1. svc.active /\ svc.ws # 0
    <3>1. Runs(t, "enqueue")  BY <1>7 DEF Enqueues
    <3>2. Tops(t, ActPlaces)  BY <3>1, TopIs DEF ActPlaces
    <3> QED  BY <3>2 DEF ReadyInv, PlaceInv, ActInv, EmptyInv
  <2>2. Busy  BY <2>1 DEF Busy
  <2>3. LinkInv' /\ SetInv' /\ EmptyInv'
    <3>1. Current' = Current  BY <1>6 DEF Current
    <3> QED  BY <1>5, <1>6, <2>1, <3>1 DEF ReadyInv, LinkInv, SetInv, EmptyInv
  <2>4. ~Minds(t)  BY <1>1, <1>3 DEF Minds
  <2> HIDE DEF t
  <2>5. HopeInv'  BY <1>1, <1>3, <1>5, <1>6, <2>2, <2>4, HopeKept
  <2> QED  BY <1>4, <2>3, <2>5 DEF ReadyInv
<1>8. CASE ~Enqueues
  <2>1. buf \in Buffers  BY DEF Inv, Slots, TypeInv
  <2>2. \/ buf' = buf \/ \E x : buf' = [buf EXCEPT !.preroll = x] \/ buf' = [buf EXCEPT !.aggregate = x]
    BY <1>4, <1>8 DEF PipelineStep, HandlesAudio, QueuesAudio, Flushes, SpeechBegun, Joins, Joined,
         SendsFinalize, FinalizeSent, FinalArrives, FinalTimesOut, FinalDone, serviceVars
  <2>3. buf'.queue = buf.queue  BY <2>1, <2>2 DEF Buffers
  <2>4. Gentle  BY <1>5, <1>6, <2>3 DEF Gentle
  <2> HIDE DEF t
  <2> QED  BY <1>1, <1>3, <1>4, <1>5, <1>6, <2>4, GentleOther
<1> QED  BY <1>7, <1>8

\* The pipeline's stack becomes w.
LEMMA WholeUnmarked ==
    ASSUME Inv, NEW w, Becomes(Pipeline, w), Head(w).at \notin Marked PROVE PlaceInv'
<1>1. stack'[Pipeline] = w  BY NotLoop DEF Becomes, Inv, Slots, TypeInv
<1>2. Frame(Pipeline)' = Head(w)  BY <1>1 DEF Frame
<1> QED  BY <1>2, TopUnmarked

\* Only the environment or a server moves.
LEMMA StandsHope ==
    ASSUME Inv, ConnInv, ReadyInv, HopeInv, Gentle, stack' = stack, cancelled' = cancelled,
           svc'.active = svc.active, svc'.closed = svc.closed
    PROVE  ReadyInv' /\ HopeInv'
<1>1. LinkInv' /\ SetInv' /\ EmptyInv' /\ (Busy' => Busy) /\ Dead' = Dead
  BY GentleKeeps DEF ConnInv, ReadyInv
<1>2. \A u : (\A P : Tops(u, P)' = Tops(u, P)) /\ Frame(u)' = Frame(u) /\ Works(u)' = Works(u)
             /\ Breaking(u)' = Breaking(u) /\ Leaves(u)' = Leaves(u)
  BY SameStack, SameBreaking
<1>3. ActInv'
  <2>1. Tops(Pipeline, ActPlaces)' = Tops(Pipeline, ActPlaces) /\ Tops(Pipeline, {"sleep"})' = Tops(Pipeline, {"sleep"})
    BY <1>2 DEF ActPlaces
  <2> QED  BY <2>1 DEF ReadyInv, PlaceInv, ActInv
<1>4. StartInv'
  <2>1. Tops(Pipeline, {"start_sent"})' = Tops(Pipeline, {"start_sent"})  BY <1>2
  <2>2. Tops(Pipeline, {"start_wait"})' = Tops(Pipeline, {"start_wait"})  BY <1>2
  <2>3. Tops(Pipeline, {"sending"})' = Tops(Pipeline, {"sending"})  BY <1>2
  <2>4. svc'.readyOf = svc.readyOf /\ (svc.readyOf \in readySet' => svc.readyOf \in readySet)  BY DEF Gentle
  <2> QED  BY <1>1, <1>2, <2>1, <2>2, <2>3, <2>4 DEF ReadyInv, PlaceInv, StartInv
<1>5. \A u : Minds(u)' = Minds(u)  BY <1>2 DEF Minds
<1>6. HopeInv'  BY <1>1, <1>2, <1>5 DEF HopeInv, MindInv, LeaveInv
<1> QED  BY <1>1, <1>3, <1>4, <1>6 DEF ReadyInv, PlaceInv

LEMMA SpeechPlaced == ASSUME Inv, SpeechStarts \/ SpeechEnds PROVE PlaceInv'
<1> DEFINE t == Pipeline
<1>1. CASE SpeechStarts
  <2> DEFINE a == At("start")
             w == <<a, At("begun"), At("idle")>>
  <2>1. Becomes(t, w) /\ Head(w) = a /\ a.at = "start"  BY <1>1, AtIs DEF SpeechStarts
  <2> HIDE DEF w, a
  <2>2. Head(w).at \notin Marked  BY <2>1 DEF Marked, ActPlaces
  <2> QED  BY <2>1, <2>2, WholeUnmarked
<1>2. CASE SpeechEnds
  <2> DEFINE a == At("flush")
             w == <<a, [at |-> "flushed", gen |-> svc.gen], At("idle")>>
  <2>1. Becomes(t, w) /\ Head(w) = a /\ a.at = "flush" /\ svc.active /\ svc' = svc
    BY <1>2, AtIs DEF SpeechEnds, serviceVars
  <2> HIDE DEF w, a
  <2>2. stack'[t] = w  BY <2>1, NotLoop DEF Becomes, Inv, Slots, TypeInv
  <2>3. Frame(t)' = a  BY <2>1, <2>2 DEF Frame
  <2>4. (Frame(t)').at \in ActPlaces /\ svc'.active  BY <2>1, <2>3 DEF ActPlaces
  <2> QED  BY <2>4, TopActs
<1> QED  BY <1>1, <1>2

LEMMA HearsPlaced == ASSUME Inv, HearsAudio PROVE PlaceInv'
<1> DEFINE t == Pipeline
           c == At("connect")
           v == <<c>>
           a == [at |-> "audio", frame |-> budget.frames + 1]
           e == At("idle")
           s == <<a, e>>
           w == v \o s
<1>1. Becomes(t, s) \/ Becomes(t, w)  BY OnceIs DEF HearsAudio
<1>2. c.at = "connect" /\ a.at = "audio"  BY AtIs
<1> HIDE DEF c, a, e
<1>3. v \in Seq({c}) /\ v # <<>> /\ Head(v) = c /\ s \in Seq({a, e}) /\ Head(s) = a  OBVIOUS
<1> HIDE DEF v, s
<1>4. Head(w) = c  BY <1>3, HeadOver
<1> HIDE DEF w, t
<1>5. Head(s).at \notin Marked /\ Head(w).at \notin Marked  BY <1>2, <1>3, <1>4 DEF Marked, ActPlaces
<1> QED  BY <1>1, <1>5, WholeUnmarked DEF t

LEMMA StopsPlaced == ASSUME Inv, Stops PROVE PlaceInv'
<1> DEFINE t == Pipeline
           c == SendCall([type |-> "close"], TRUE, TRUE)
           h == At("ended")
           D == Disconnecting
           u == D \o <<h>>
           v == <<c>>
           w == v \o u
<1>1. c.at = "send" /\ h.at = "ended"  BY AtIs DEF SendCall
<1>2. Becomes(t, <<>> \o D \o <<h>>) \/ Becomes(t, <<c>> \o D \o <<h>>)  BY DEF Stops
<1> HIDE DEF c, h
<1>3. PICK S : u \in Seq(S)  BY <1>1, EndsAre
<1> DEFINE U == S \cup {D[1], D[2], c, h}
<1>4. D \in Seq(U) /\ <<h>> \in Seq(U) /\ <<c>> \in Seq(U) /\ u \in Seq(U) /\ D # <<>> /\ Head(D).at = "close"
      /\ v \in Seq(U) /\ v # <<>> /\ Head(v) = c
  <2>1. <<h>> \in Seq(U) /\ <<c>> \in Seq(U) /\ v \in Seq(U) /\ v # <<>> /\ Head(v) = c  OBVIOUS
  <2>2. D \in Seq({D[1], D[2]}) /\ DOMAIN D = {1, 2} /\ D[1].at = "close"  BY DisconnectingAre
  <2>3. D # <<>> /\ Head(D) = D[1]
    <3>1. 1 \in DOMAIN D  BY <2>2
    <3> HIDE DEF D
    <3> QED  BY <2>2, <3>1
  <2> QED  BY <1>3, <2>1, <2>2, <2>3, SeqMonotonic
<1> HIDE DEF U, D, t
<1>5. <<>> \o D = D /\ (<<c>> \o D) \o <<h>> = w  BY <1>4, ConcatEmptySeq, ConcatAssociative
<1>6. Head(u) = Head(D)  BY <1>4, HeadOver
<1> HIDE DEF u, v
<1>7. Head(w) = c  BY <1>4, HeadOver
<1> HIDE DEF w
<1>8. Becomes(t, u) \/ Becomes(t, w)  BY <1>2, <1>5 DEF u
<1>9. Head(u).at \notin Marked /\ Head(w).at \notin Marked  BY <1>1, <1>4, <1>6, <1>7 DEF Marked, ActPlaces
<1> QED  BY <1>8, <1>9, WholeUnmarked DEF t

LEMMA CallsHope ==
    ASSUME Inv, ConnInv, NestInv, ReadyInv, HopeInv,
           CancelSent \/ SpeechStarts \/ SpeechEnds \/ HearsAudio \/ Stops \/ CleansUp \/ Cancels
    PROVE  ReadyInv' /\ HopeInv'
<1>1. PICK t \in {Pipeline, Controller} :
        /\ \A u \in Tasks : u # t => stack'[u] = stack[u]
        /\ Runs(t, "cancel_sent") \/ Wakes(t, "idle")
        /\ t = Pipeline => SpeechStarts \/ SpeechEnds \/ HearsAudio \/ Stops
  <2>1. CASE CancelSent  BY <2>1, CancelSentStays, PlacesApart DEF CancelSent, Stays, Adds
  <2>2. CASE SpeechStarts \/ SpeechEnds  BY <2>2, SpeechStays DEF SpeechStarts, SpeechEnds, Stays, Adds
  <2>3. CASE HearsAudio  BY <2>3, HearsAudioStays DEF HearsAudio, Stays, Adds
  <2>4. CASE Stops  BY <2>4, StopsStays DEF Stops, Stays, Adds
  <2>5. CASE CleansUp  BY <2>5, CleansUpStays, PlacesApart DEF CleansUp, Stays, Adds
  <2>6. CASE Cancels
    <3>1. \A u \in Tasks : u # Controller => stack'[u] = stack[u]
      BY <2>6 DEF Cancels, Becomes, Inv, Slots, TypeInv
    <3> QED  BY <2>6, <3>1, PlacesApart DEF Cancels
  <2> QED  BY <2>1, <2>2, <2>3, <2>4, <2>5, <2>6
<1>2. t \in Tasks /\ t \notin Loops  BY NotLoop
<1>3. running \in {t, NoTask} /\ ~Leaves(t)
  <2>1. stack[t] # <<>> /\ Frame(t).at \in {"cancel_sent", "idle"} /\ running \in {t, NoTask}  BY <1>1, Nonempty
  <2> QED  BY <2>1 DEF Leaves, Tops, ClosePlaces
<1>4. /\ cancelled' = cancelled /\ conn' = conn /\ readySet' = readySet
      /\ svc'.ws = svc.ws /\ svc'.readyOf = svc.readyOf /\ svc'.closed = svc.closed /\ (svc'.active => svc.active)
      /\ svc'.sendTask = svc.sendTask /\ svc'.recvTask = svc.recvTask
  <2>1. svc \in Service  BY DEF Inv, Slots, TypeInv
  <2>2. cancelled' = cancelled /\ conn' = conn /\ readySet' = readySet /\ (svc' = svc \/ SpeechStarts \/ Cancels)
    BY DEF CancelSent, SpeechStarts, SpeechEnds, HearsAudio, Stops, CleansUp, Cancels, serviceVars, syncVars, eventVars,
           outsideVars, wireVars
  <2> QED  BY <2>1, <2>2 DEF Service, SpeechStarts, Cancels
<1>5. buf'.queue \in {buf.queue, <<>>}
  <2>1. buf \in Buffers  BY DEF Inv, Slots, TypeInv
  <2>2. buf' = buf \/ buf' = Emptied(buf)
    BY DEF CancelSent, SpeechStarts, SpeechEnds, HearsAudio, Stops, CleansUp, Cancels, serviceVars, Emptied
  <2> QED  BY <2>1, <2>2 DEF Emptied, Cleared, Buffers
<1>6. Gentle  BY <1>4, <1>5 DEF Gentle
<1>7. t = Pipeline => PlaceInv'  BY <1>1, SpeechPlaced, HearsPlaced, StopsPlaced
<1> QED  BY <1>1, <1>2, <1>3, <1>4, <1>6, <1>7, GentleOther

LEMMA ServersHope ==
    ASSUME Inv, ConnInv, ReadyInv, HopeInv, NEW w \in Conns,
           HangsUp(w) \/ Breaks(w) \/ \E type \in {"partial", "ping"} : ServerChats(w, type)
    PROVE  ReadyInv' /\ HopeInv'
<1>1. /\ stack' = stack /\ svc' = svc /\ cancelled' = cancelled /\ buf' = buf /\ readySet' = readySet
      /\ conn' = conn \/ (conn[w] = "open" /\ conn' = [conn EXCEPT ![w] = "broken"])
  BY DEF HangsUp, Breaks, ServerChats, serviceVars, syncVars, eventVars, taskVars
<1>2. Gentle
  <2>1. DOMAIN conn = Conns  BY DEF Inv, Slots, TypeInv
  <2> QED  BY <1>1, <2>1 DEF Gentle
<1> QED  BY <1>1, <1>2, StandsHope

-----------------------------------------------------------------------------
(* Connections come and go                                                 *)

\* A new connection has a ready event of its own, which nobody has set.
LEMMA ConnectedHopes ==
    ASSUME Inv, ConnInv, NestInv, CloseInv, ReadyInv, NEW t \in Tasks, Connected(t) PROVE ReadyInv' /\ HopeInv'
<1>1. PICK w \in Conns :
        /\ Wakes(t, "connecting") /\ conn[w] = "none" /\ conn' = [conn EXCEPT ![w] = "open"]
        /\ svc' = [svc EXCEPT !.ws = w, !.readyOf = w, !.sendTask = SendTask(w), !.recvTask = RecvTask(w)]
        /\ stack' = [stack EXCEPT ![t] = Callers(t), ![SendTask(w)] = <<At("s_new")>>,
                                  ![RecvTask(w)] = <<At("r_new")>>]
        /\ buf' = buf /\ readySet' = readySet
  BY DEF Connected, eventVars
<1> DEFINE s == SendTask(w)
           r == RecvTask(w)
           x == <<At("s_new")>>
           y == <<At("r_new")>>
<1>2. t = Pipeline /\ t \notin Loops
  <2>1. Tops(t, StartPlaces \cup ConnectPlaces)  BY <1>1, TopIs DEF ConnectPlaces
  <2> QED  BY <2>1, StarterIs
<1>3. svc.ws = 0 /\ stack[t] # <<>> /\ Frame(t).at = "connecting"
  <2>1. Tops(t, {"connecting"})  BY <1>1, TopIs
  <2> QED  BY <1>1, <2>1, Nonempty DEF ConnInv, Placed
<1>4. w \notin readySet /\ w # 0 /\ ~svc.active /\ buf.queue = <<>>  BY <1>1, <1>3 DEF ReadyInv, SetInv, EmptyInv, Conns
<1>5. svc'.ws = w /\ svc'.readyOf = w /\ svc'.active = svc.active
  <2>1. svc \in Service  BY DEF Inv, Slots, TypeInv
  <2> QED  BY <1>1, <2>1 DEF Service
<1>6. conn'[w] = "open" /\ \A v \in Conns : conn[v] # "none" => conn'[v] # "none"
  BY <1>1 DEF Inv, Slots, TypeInv
<1>7. LinkInv' /\ EmptyInv'  BY <1>4, <1>5, <1>6 DEF LinkInv, EmptyInv
<1>8. SetInv'  BY <1>1, <1>6 DEF ReadyInv, SetInv
<1>9. ~Busy'  BY <1>1, <1>4, <1>5 DEF Busy
<1>10. HopeInv'  BY <1>9, IdleHope
<1>11. stack'[t] = Callers(t)
  <2>1. stack' = [stack EXCEPT ![t] = Callers(t), ![s] = x, ![r] = y]  BY <1>1
  <2>2. s \in Tasks /\ r \in Tasks /\ s # t /\ r # t  BY <1>2, PlacesApart DEF Loops
  <2>3. DOMAIN stack = Tasks  BY DEF Inv, Slots, TypeInv
  <2> HIDE DEF s, r, x, y
  <2> QED  BY <2>1, <2>2, <2>3
<1>12. PlaceInv'
  <2> SUFFICES ASSUME stack'[Pipeline] # <<>> PROVE (Frame(Pipeline)').at \notin Marked  BY TopUnmarked
  <2>1. stack[t] \in Seq(Frames) /\ Frame(t) = stack[t][1] /\ Callers(t) # <<>>
    BY <1>2, <1>3, <1>11, StackTyped DEF Inv
  <2>2. 2 \in DOMAIN stack[t] /\ Head(Callers(t)) = stack[t][2]  BY <1>3, <2>1 DEF Callers
  <2>3. 2 > 1 /\ 2 - 1 = 1  OBVIOUS
  <2>4. <<"connecting", stack[t][2].at>> \in Nesting /\ stack[t][2].at \in CallerPlaces
    BY <1>3, <2>1, <2>2, <2>3, Callee
  <2>5. stack[t][2].at \in {"audio", "start_connected"}
    BY <2>4 DEF Nesting, ConnectPlaces, StartPlaces, ClosePlaces, LoopPlaces, SendPlaces, CallerPlaces
  <2>6. Frame(Pipeline)' = stack[t][2]  BY <1>2, <1>11, <2>2 DEF Frame
  <2> QED  BY <2>5, <2>6 DEF Marked, ActPlaces
<1> QED  BY <1>7, <1>8, <1>10, <1>12 DEF ReadyInv

\* A disconnect leaves nothing to be lost.
LEMMA DisconnectedHopes ==
    ASSUME Inv, ConnInv, NestInv, CloseInv, ReadyInv, NEW t \in Tasks, Disconnected(t) PROVE ReadyInv' /\ HopeInv'
<1>1. Runs(t, "disconnected") /\ Return(t) /\ conn' = conn /\ readySet' = readySet /\ buf' = Emptied(buf)
  BY DEF Disconnected, Emptied, outsideVars, wireVars
<1>2. svc'.ws = 0 /\ svc'.active = FALSE /\ svc'.readyOf = svc.readyOf
  <2>1. svc \in Service  BY DEF Inv, Slots, TypeInv
  <2> QED  BY <2>1 DEF Disconnected, Service
<1>3. buf'.queue = <<>>
  <2>1. buf \in Buffers  BY DEF Inv, Slots, TypeInv
  <2> QED  BY <1>1, <2>1 DEF Emptied, Cleared, Buffers
<1>4. LinkInv' /\ SetInv' /\ EmptyInv'  BY <1>1, <1>2, <1>3 DEF ReadyInv, LinkInv, SetInv, EmptyInv
<1>5. ~Busy'  BY <1>2 DEF Busy
<1>6. HopeInv'  BY <1>5, IdleHope
<1>7. CASE t = Pipeline
  <2>1. "disconnected" \notin StartPlaces \cup {"send", "sending", "raise"}  BY DEF StartPlaces
  <2>2. PlaceInv'  BY <1>1, <1>7, <2>1, ReturnUnmarked
  <2> QED  BY <1>4, <1>6, <2>2 DEF ReadyInv
<1>8. CASE t # Pipeline
  <2>1. Dead
    <3>1. Tops(t, Cut)  BY <1>1, TopIs DEF Cut
    <3> QED  BY <3>1 DEF ConnInv, Placed
  <2>2. stack'[Pipeline] = stack[Pipeline] /\ running \in {t, NoTask}
    BY <1>1, <1>8, Nonempty, NotLoop DEF Return, Becomes, Inv, Slots, TypeInv
  <2>3. Tops(Pipeline, {"start_wait"}) /\ svc.readyOf \in readySet' => ~Dead'
    BY <1>1, <2>1 DEF ReadyInv, PlaceInv, StartInv
  <2>4. PlaceInv'  BY <1>2, <1>8, <2>2, <2>3, PipelineStands DEF ReadyInv
  <2> QED  BY <1>4, <1>6, <2>4 DEF ReadyInv
<1> QED  BY <1>7, <1>8

-----------------------------------------------------------------------------
(* Closes                                                                  *)

\* After a close a task disconnects.
LEMMA CloseReturns ==
    ASSUME Inv, NestInv, NEW t \in Tasks, NEW l \in ClosePlaces, Wakes(t, l) \/ Runs(t, l), Return(t)
    PROVE  Leaves(t)' /\ (t = Pipeline => PlaceInv')
<1>1. /\ stack[t] # <<>> /\ Frame(t).at = l /\ Frame(t) = stack[t][1] /\ 1 \in DOMAIN stack[t]
      /\ stack[t] \in Seq(Frames)
  <2>1. stack[t] # <<>> /\ Frame(t).at = l  BY Nonempty
  <2> QED  BY <2>1, StackTyped DEF Inv
<1>2. 2 \in DOMAIN stack[t]
  <2>1. stack[t][1].at \notin LoopPlaces \cup {"raise"}  BY <1>1 DEF LoopPlaces, SendPlaces, ClosePlaces
  <2> QED  BY <1>1, <2>1, Bottom
<1>3. stack'[t] # <<>>
  <2> DEFINE r == Tail(stack[t])
  <2>1. stack'[t] = r  BY DEF Return, Becomes, Callers, Inv, Slots, TypeInv
  <2>2. Len(stack[t]) \in Nat /\ Len(stack[t]) >= 2  BY <1>1, <1>2
  <2>3. DOMAIN r = 1..(Len(stack[t]) - 1)  BY <1>1
  <2> HIDE DEF r
  <2>4. 1 \in DOMAIN r  BY <2>2, <2>3
  <2>5. r # <<>>  BY <2>4
  <2> QED  BY <2>1, <2>5
<1>4. Frame(t)' = stack[t][2] /\ <<l, stack[t][2].at>> \in Nesting /\ stack[t][2].at \in CallerPlaces
  BY <1>3, ReturnTop
<1>5. stack[t][2].at = "disconnected"
  BY <1>4 DEF Nesting, CallerPlaces, ConnectPlaces, StartPlaces, ClosePlaces, LoopPlaces, SendPlaces
<1>6. t = Pipeline => PlaceInv'  BY <1>4, <1>5, TopUnmarked DEF Marked, ActPlaces
<1> QED  BY <1>3, <1>4, <1>5, <1>6 DEF Leaves, Tops

LEMMA AwaitsHope ==
    ASSUME Inv, ConnInv, NestInv, CloseInv, EndingInv, ReadyInv, NEW t \in Tasks,
           Close(t) \/ CloseAwaits(t) \/ CloseAwaited(t)
    PROVE  ReadyInv' /\ HopeInv'
<1>0. PICK l \in ClosePlaces : (Wakes(t, l) \/ Runs(t, l)) /\ \E f : Goto(t, f) /\ f.at \in ClosePlaces
  <2>1. CASE Close(t)
    <3> DEFINE f == [at |-> "close_tasks", todo |-> Other(t, svc.sendTask) \o Other(t, svc.recvTask),
                     forGood |-> Frame(t).forGood]
    <3>1. Runs(t, "close") /\ Goto(t, f) /\ f.at = "close_tasks"  BY <2>1 DEF Close
    <3> HIDE DEF f
    <3> QED  BY <3>1 DEF ClosePlaces
  <2>2. CASE CloseAwaits(t) \/ CloseAwaited(t)
    <3> DEFINE s == Frame(t).todo
               a == [Frame(t) EXCEPT !.at = "close_await"]
               b == [Frame(t) EXCEPT !.todo = Tail(@)]
               c == [Frame(t) EXCEPT !.at = "close_tasks", !.todo = Tail(@)]
    <3>1. PICK l \in WaitPlaces : (Wakes(t, l) \/ Runs(t, l)) /\ (CloseAwaits(t) => l = "close_tasks")
      BY <2>2 DEF CloseAwaits, CloseAwaited, WaitPlaces
    <3>2. /\ Frame(t) \in [at : {"close_tasks", "close_await"}, todo : Seq(Tasks), forGood : BOOLEAN]
          /\ s # <<>> /\ Frame(t).at = l /\ stack[t] # <<>>
      <4>1. Frame(t) \in Frames /\ Frame(t).at = l /\ stack[t] # <<>>  BY <3>1, Nonempty, StackTyped DEF Inv
      <4>2. CASE CloseAwaits(t)  BY <3>1, <4>1, <4>2, CloseFields DEF CloseAwaits, WaitPlaces
      <4>3. CASE CloseAwaited(t)
        <5>1. Frame(t).at = "close_await"  BY <4>3, Nonempty DEF CloseAwaited
        <5> QED  BY <4>1, <5>1, CloseFields
      <4> QED  BY <2>2, <4>2, <4>3
    <3>3. result[Head(s)] # "error"
      <4>1. Head(s) \in Todo(t)  BY <3>2, DropsHead DEF Todo
      <4>2. Tops(t, WaitPlaces)  BY <3>2 DEF Tops
      <4>3. Todo(t) \subseteq Loops  BY <4>2 DEF CloseInv, EraInv, Loops
      <4> QED  BY <4>1, <4>3 DEF EndingInv, ErrorInv
    <3>4. Goto(t, a) \/ Goto(t, b) \/ Goto(t, c)  BY <2>2, <3>3 DEF CloseAwaits, CloseAwaited
    <3>5. a.at = "close_await" /\ b.at = Frame(t).at /\ c.at = "close_tasks"  BY <3>2
    <3> HIDE DEF s, a, b, c
    <3> QED  BY <3>1, <3>2, <3>4, <3>5 DEF WaitPlaces, ClosePlaces
  <2> QED  BY <2>1, <2>2
<1>1. PICK f : Goto(t, f) /\ f.at \in ClosePlaces  BY <1>0
<1>2. stack'[t] # <<>> /\ Frame(t)' = f  BY <1>0, <1>1, GotoTop
<1>3. Leaves(t)'  BY <1>1, <1>2 DEF Leaves, Tops
<1>4. HopeInv'  BY <1>3, LeavesHope
<1>5. svc' = [svc EXCEPT !.closed = TRUE] \/ svc' = svc
  BY DEF Close, CloseAwaits, CloseAwaited, serviceVars
<1>6. buf' = buf /\ conn' = conn /\ readySet' = readySet
  BY DEF Close, CloseAwaits, CloseAwaited, serviceVars, syncVars, eventVars, outsideVars, wireVars
<1>7. Gentle
  <2>1. svc \in Service  BY DEF Inv, Slots, TypeInv
  <2> QED  BY <1>5, <1>6, <2>1 DEF Service, Gentle
<1>8. (\A u \in Tasks : u # t => stack'[u] = stack[u]) /\ running \in {t, NoTask}
  BY <1>0, <1>1, Nonempty DEF Goto, Becomes, Inv, Slots, TypeInv
<1>9. t = Pipeline => PlaceInv'
  <2>1. f.at \notin Marked  BY <1>1 DEF ClosePlaces, Marked, ActPlaces
  <2> QED  BY <1>0, <1>1, <2>1, GotoUnmarked
<1>10. ReadyInv'  BY <1>7, <1>8, <1>9, GentleReady
<1> QED  BY <1>4, <1>10

LEMMA CloseSocketHopes ==
    ASSUME Inv, ConnInv, NestInv, CloseInv, ReadyInv, NEW t \in Tasks, CloseSocket(t)
    PROVE  ReadyInv' /\ HopeInv'
<1> DEFINE f == [at |-> "closing", conn |-> svc.ws, forGood |-> Frame(t).forGood]
<1>1. Runs(t, "close_tasks") /\ "close_tasks" \in ClosePlaces /\ running = t /\ buf' = buf /\ readySet' = readySet
  BY DEF CloseSocket, Runs, ClosePlaces, syncVars, eventVars
<1>2. svc.ws \in {0} \cup Conns /\ 0 \notin Conns  BY DEF ConnInv, CurrentInv, Conns
<1>3. /\ svc'.ws = svc.ws /\ svc'.readyOf = svc.readyOf /\ svc'.active = svc.active
      /\ svc'.sendTask = NoTask /\ svc'.recvTask = NoTask
  <2>1. svc \in Service  BY DEF Inv, Slots, TypeInv
  <2> QED  BY <2>1 DEF CloseSocket, Service
<1>4. /\ \A w \in Conns : conn[w] # "none" => conn'[w] # "none"
      /\ svc.ws # 0 => (conn'[svc.ws] = "gone") = (conn[svc.ws] = "gone")
  <2>1. DOMAIN conn = Conns  BY DEF Inv, Slots, TypeInv
  <2>2. CASE svc.ws = 0
    <3>1. conn' = conn  BY <2>2 DEF CloseSocket, wireVars
    <3> QED  BY <2>2, <3>1
  <2>3. CASE svc.ws # 0
    <3>1. conn' = [conn EXCEPT ![svc.ws] = IF conn[svc.ws] = "gone" THEN conn[svc.ws] ELSE "closed"]
      BY <2>3 DEF CloseSocket
    <3> QED  BY <1>2, <2>1, <2>3, <3>1
  <2> QED  BY <2>2, <2>3
<1>5. Dead' = Dead  BY <1>3, <1>4 DEF Dead
<1>6. LinkInv' /\ SetInv' /\ EmptyInv'
  <2>1. Current' = {}  BY <1>3 DEF Current
  <2> QED  BY <1>1, <1>2, <1>3, <1>4, <2>1 DEF ReadyInv, LinkInv, SetInv, EmptyInv
<1>7. Goto(t, f) \/ Return(t)  BY DEF CloseSocket
<1>8. f.at = "closing"  OBVIOUS
<1> HIDE DEF f
<1>9. Leaves(t)' /\ (t = Pipeline => PlaceInv')
  <2>1. CASE Goto(t, f)
    <3>1. stack'[t] # <<>> /\ Frame(t)' = f  BY <1>1, <2>1, GotoTop
    <3>2. f.at \notin Marked /\ f.at \in ClosePlaces  BY <1>8 DEF Marked, ActPlaces, ClosePlaces
    <3> QED  BY <1>1, <2>1, <3>1, <3>2, GotoUnmarked DEF Leaves, Tops
  <2>2. CASE Return(t)  BY <1>1, <2>2, CloseReturns
  <2> QED  BY <1>7, <2>1, <2>2
<1>10. HopeInv'  BY <1>9, LeavesHope
<1>11. ASSUME t # Pipeline PROVE PlaceInv'
  <2>1. stack'[Pipeline] = stack[Pipeline]
    BY <1>7, <1>11, NotLoop DEF Goto, Return, Becomes, Inv, Slots, TypeInv
  <2>2. Tops(Pipeline, {"start_wait"}) /\ svc.readyOf \in readySet' => ~Dead'
    BY <1>1, <1>5 DEF ReadyInv, PlaceInv, StartInv
  <2> QED  BY <1>1, <1>3, <1>11, <2>1, <2>2, PipelineStands DEF ReadyInv
<1> QED  BY <1>6, <1>9, <1>10, <1>11 DEF ReadyInv

LEMMA ClosedHopes ==
    ASSUME Inv, ConnInv, NestInv, CloseInv, ReadyInv, NEW t \in Tasks, Closed(t)
    PROVE  ReadyInv' /\ HopeInv'
<1> DEFINE w == Frame(t).conn
<1>1. Wakes(t, "closing") /\ Return(t) /\ "closing" \in ClosePlaces /\ buf' = buf /\ readySet' = readySet
      /\ running = NoTask /\ conn' = [conn EXCEPT ![w] = "gone"] /\ (conn[w] = "gone" \/ TimePasses)
  BY DEF Closed, Wakes, ClosePlaces, syncVars, eventVars
<1>2. stack[t] # <<>> /\ Frame(t).at = "closing"  BY <1>1, Nonempty
<1>3. w \in Conns /\ conn[w] # "none" /\ svc.ws \in {0, w} /\ Current = {}
  <2>1. Tops(t, {"closing"}) /\ Tops(t, PastPlaces)  BY <1>2 DEF Tops, PastPlaces
  <2>2. Shuts(w)  BY <2>1 DEF ConnInv, Placed
  <2>3. Current = {}  BY <2>1 DEF CloseInv, WaitInv
  <2> QED  BY <2>2, <2>3 DEF Shuts
<1> HIDE DEF w
<1>4. /\ svc'.ws = svc.ws /\ svc'.readyOf = svc.readyOf /\ svc'.active = svc.active
      /\ svc'.sendTask = svc.sendTask /\ svc'.recvTask = svc.recvTask
  <2>1. svc \in Service  BY DEF Inv, Slots, TypeInv
  <2> QED  BY <2>1 DEF Closed, Service
<1>5. conn'[w] = "gone" /\ \A v \in Conns : v # w => conn'[v] = conn[v]
  BY <1>1, <1>3 DEF Inv, Slots, TypeInv
<1>6. LinkInv' /\ SetInv' /\ EmptyInv'
  <2>1. Current' = {}  BY <1>3, <1>4 DEF Current
  <2>2. LinkInv'  BY <1>3, <1>4, <1>5, <2>1 DEF ReadyInv, LinkInv
  <2> QED  BY <1>1, <1>3, <1>4, <1>5, <2>2 DEF ReadyInv, SetInv, EmptyInv
<1>7. Leaves(t)' /\ (t = Pipeline => PlaceInv')  BY <1>1, CloseReturns
<1>8. HopeInv'  BY <1>7, LeavesHope
<1>9. ASSUME t # Pipeline PROVE PlaceInv'
  <2>1. stack'[Pipeline] = stack[Pipeline]
    BY <1>1, <1>9, NotLoop DEF Return, Becomes, Inv, Slots, TypeInv
  <2>2. ASSUME Tops(Pipeline, {"start_wait"}), svc.readyOf \in readySet PROVE ~Dead'
    <3>1. Frame(Pipeline).event = svc.readyOf /\ ~Dead  BY <2>2 DEF ReadyInv, PlaceInv, StartInv
    <3>2. Ready(Pipeline)  BY <2>2, <3>1 DEF Ready, IsAt, Tops, Frame
    <3>3. conn[w] = "gone"  BY <1>1, <3>2, NotLoop DEF TimePasses
    <3>4. svc.ws # 0 /\ svc.ws = w  BY <1>3, <3>1 DEF Dead
    <3> QED  BY <3>1, <3>3, <3>4 DEF Dead
  <2> QED  BY <1>1, <1>4, <1>9, <2>1, <2>2, PipelineStands DEF ReadyInv
<1> QED  BY <1>6, <1>7, <1>8, <1>9 DEF ReadyInv

-----------------------------------------------------------------------------
(* Exceptions and cancellation                                             *)

LEMMA CancelDeliveredHopes ==
    ASSUME Inv, ConnInv, NestInv, EndingInv, ReadyInv, HopeInv, NEW t \in Tasks, CancelDelivered(t)
    PROVE  ReadyInv' /\ HopeInv'
<1>1. t \in Loops /\ Works(t) /\ t \in cancelled  BY DEF CancelDelivered, EndingInv, CancelInv
<1>2. ~Minds(t) /\ ~Leaves(t)  BY <1>1, WorkApart DEF Minds
<1>3. svc' = svc /\ buf' = buf /\ conn' = conn /\ readySet' = readySet /\ cancelled' \subseteq cancelled
      /\ running = NoTask
  BY DEF CancelDelivered, eventVars
<1>4. Gentle  BY <1>3 DEF Gentle
<1>5. \A u \in Tasks : u # t => stack'[u] = stack[u]
  BY DEF CancelDelivered, Raise, Goto, Becomes, Inv, Slots, TypeInv
<1>6. ReadyInv' /\ (Busy' => Busy)  BY <1>1, <1>3, <1>4, <1>5, NotLoop, GentleReady
<1>7. HopeInv'  BY <1>2, <1>3, <1>5, <1>6, HopeKept
<1> QED  BY <1>6, <1>7

\* Where an exception leaves a task.
LEMMA UnwindsTop ==
    ASSUME Inv, NestInv, CloseInv, NEW t \in Tasks, Unwinds(t)
    PROVE  /\ \/ stack'[t] = <<>>
              \/ t \notin Loops /\ stack'[t] # <<>> /\ (Frame(t)').at \in {"idle", "ended"}
              \/ stack'[t] # <<>> /\ (Frame(t)').at \in {"raise", "close", "r_failed"}
           /\ 2 \in DOMAIN stack[t] /\ stack[t][2].at \in {"s_sent", "r_ponged"} /\ Frame(t).exc = "error"
                => stack'[t] # <<>> /\ (Frame(t)').at \in {"close", "r_failed"}
<1> DEFINE c == Head(Callers(t))
<1>1. Runs(t, "raise") /\ stack[t] # <<>> /\ Frame(t).at = "raise" /\ stack[t] \in Seq(Frames)
  BY Nonempty, StackTyped DEF Inv, Unwinds
<1>2. CASE Callers(t) = <<>>
  <2>1. Ends(t, Frame(t).exc)  BY <1>2 DEF Unwinds, At
  <2>2. stack'[t] = <<>>  BY <2>1 DEF Ends, Inv, Slots, TypeInv
  <2>3. Tail(stack[t]) = <<>>  BY <1>2 DEF Callers
  <2>4. Len(stack[t]) = 1  BY <1>1, <2>3, TailLast
  <2>5. 2 \notin DOMAIN stack[t]  BY <1>1, <2>4
  <2> QED  BY <2>2, <2>5
<1>3. CASE Callers(t) # <<>>
  <2>1. /\ c \in Frames /\ stack[t][2] = c /\ 2 \in DOMAIN stack[t] /\ Callers(t) \in Seq(Frames)
        /\ Tail(Callers(t)) \in Seq(Frames)
    <3>1. /\ stack[t] \in Seq(Frames) /\ Len(stack[t]) \in Nat /\ Len(stack[t]) >= 2 /\ stack[t][2] = c /\ c \in Frames
      BY <1>1, <1>3, CallerIs
    <3>2. Callers(t) \in Seq(Frames)  BY <1>1 DEF Callers
    <3>3. Tail(Callers(t)) \in Seq(Frames)  BY <1>3, <3>2
    <3> QED  BY <3>1, <3>2, <3>3
  <2>2. c.at # "none"
    BY <2>1 DEF Frames, QuietFrames, QuietPlaces, LoopFrames, AudioFrames, FinalFrames, SendPlaces,
           FinalPlaces, CloseFrames, SendFrames
  <2>3. ASSUME NEW f, Becomes(t, <<f>> \o Tail(Callers(t))) PROVE stack'[t] # <<>> /\ Frame(t)' = f
    <3> DEFINE w == <<f>>
    <3>1. w \in Seq({f}) /\ w # <<>> /\ Head(w) = f /\ Becomes(t, w \o Tail(Callers(t)))  BY <2>3
    <3> HIDE DEF w
    <3> QED  BY <2>1, <3>1, BecomesTop
  <2>4. CASE c.at \in {"idle", "ended"}
    <3>1. Return(t)  BY <1>3, <2>2, <2>4 DEF Unwinds
    <3>2. stack'[t] = Callers(t)  BY <3>1 DEF Return, Becomes, Inv, Slots, TypeInv
    <3>3. stack'[t] # <<>> /\ Frame(t)' = c  BY <1>3, <3>2 DEF Frame
    <3>4. t \notin Loops  BY <2>1, <2>4 DEF CloseInv, HomeInv
    <3> QED  BY <2>1, <2>4, <3>3, <3>4
  <2>5. CASE c.at = "s_sent" /\ Frame(t).exc = "error"
    <3> DEFINE h == [c EXCEPT !.at = "s_gone"]
               w == Disconnecting \o <<h>>
    <3>1. Becomes(t, w \o Tail(Callers(t)))  BY <1>3, <2>1, <2>5 DEF Unwinds
    <3>2. h.at = "s_gone"  BY <2>1, MovedAt
    <3>3. "s_gone" \in OpenPlaces  BY DEF OpenPlaces
    <3> HIDE DEF h
    <3>4. (\E S : w \in Seq(S)) /\ DOMAIN w = {1, 2, 3} /\ w[1] = Disconnecting[1]  BY <3>2, <3>3, DisconnectsThen
    <3>5. w[1].at = "close"  BY <3>4, DisconnectingAre
    <3> HIDE DEF w
    <3>6. w # <<>> /\ Head(w) = w[1]
      <4>1. PICK S : w \in Seq(S)  BY <3>4
      <4>2. 1 \in DOMAIN w  BY <3>4
      <4> QED  BY <4>1, <4>2
    <3>7. stack'[t] # <<>> /\ (Frame(t)').at = "close"  BY <2>1, <3>1, <3>4, <3>5, <3>6, BecomesTop
    <3> QED  BY <3>7
  <2>6. CASE c.at = "r_ponged" /\ Frame(t).exc = "error"
    <3> DEFINE f == At("r_failed")
    <3>1. Becomes(t, <<f>> \o Tail(Callers(t))) /\ f.at = "r_failed"  BY <1>3, <2>1, <2>6, AtIs DEF Unwinds
    <3> HIDE DEF f
    <3>2. stack'[t] # <<>> /\ (Frame(t)').at = "r_failed"  BY <2>3, <3>1
    <3> QED  BY <3>2
  <2>7. CASE c.at \notin {"idle", "ended"} /\ ~(c.at \in {"s_sent", "r_ponged"} /\ Frame(t).exc = "error")
    <3>1. Becomes(t, <<Frame(t)>> \o Tail(Callers(t)))  BY <1>3, <2>2, <2>7 DEF Unwinds
    <3>2. stack'[t] # <<>> /\ Frame(t)' = Frame(t)  BY <2>3, <3>1
    <3> QED  BY <1>1, <2>1, <2>7, <3>2
  <2> HIDE DEF c
  <2> QED  BY <2>4, <2>5, <2>6, <2>7
<1> QED  BY <1>2, <1>3

LEMMA UnwindsHopes ==
    ASSUME Inv, ConnInv, NestInv, CloseInv, EndingInv, ReadyInv, HopeInv, NEW t \in Tasks, Unwinds(t)
    PROVE  ReadyInv' /\ HopeInv'
<1>1. Runs(t, "raise") /\ running = t /\ stack[t] # <<>> /\ Frame(t).at = "raise"  BY Nonempty DEF Unwinds, Runs
<1>2. svc' = svc /\ conn' = conn /\ readySet' = readySet /\ cancelled' = cancelled
  BY DEF Unwinds, outsideVars, wireVars
<1>3. buf'.queue = buf.queue
  <2>1. buf \in Buffers  BY DEF Inv, Slots, TypeInv
  <2> QED  BY <2>1 DEF Unwinds, Buffers
<1>4. Gentle  BY <1>2, <1>3 DEF Gentle
<1>5. \A u \in Tasks : u # t => stack'[u] = stack[u]
  <2>1. (\E w : Becomes(t, w)) \/ (\E r : Ends(t, r))  BY UnwindsAre DEF CloseInv, Unwinds, Return
  <2> QED  BY <2>1 DEF Becomes, Ends, Inv, Slots, TypeInv
<1>6. t = Pipeline => PlaceInv'
  <2> SUFFICES ASSUME t = Pipeline, stack'[t] # <<>> PROVE (Frame(t)').at \notin Marked  BY TopUnmarked
  <2>1. (Frame(t)').at \in {"idle", "ended", "raise", "close", "r_failed"}  BY UnwindsTop
  <2> QED  BY <2>1 DEF Marked, ActPlaces
<1>7. ReadyInv' /\ (Busy' => Busy)  BY <1>1, <1>4, <1>5, <1>6, GentleReady
<1>8. ~Leaves(t) /\ ~Works(t) /\ ~Tops(t, {"close", "r_failed"})
  BY <1>1 DEF Leaves, Works, Tops, ClosePlaces
<1>9. Minds(t) => Minds(t)'
  <2> SUFFICES ASSUME Minds(t) PROVE Minds(t)'  OBVIOUS
  <2>1. t \in Loops /\ Errs(t)  BY <1>8 DEF Minds, Breaking
  <2>2. 2 \in DOMAIN stack[t] /\ stack[t][2].at \in {"s_sent", "r_ponged"}  BY <2>1 DEF EndingInv, ErrorInv
  <2>3. Frame(t).exc = "error"
    <3>1. Frame(t).exc \in {"error", "cancelled"}  BY <1>1, StackTyped, RaiseFields DEF Inv
    <3> QED  BY <2>1, <3>1 DEF Errs
  <2>4. stack'[t] # <<>> /\ (Frame(t)').at \in {"close", "r_failed"}  BY <2>2, <2>3, UnwindsTop
  <2>5. Breaking(t)'  BY <2>4 DEF Breaking, Tops
  <2> QED  BY <2>1, <2>5 DEF Minds
<1> QED  BY <1>2, <1>5, <1>7, <1>8, <1>9, HopeKept

-----------------------------------------------------------------------------
(* Every step                                                              *)

LEMMA NextHopes ==
    ASSUME Inv, Inv', ConnInv, NestInv, NestInv', CloseInv, EndingInv, ReadyInv, HopeInv,
           ~svc.config.reconnect, svc.config.policy # "block", [Next]_vars
    PROVE  ReadyInv' /\ HopeInv'
<1>1. ASSUME NEW t \in Tasks, CoroutineStep(t) PROVE ReadyInv' /\ HopeInv'
  <2>1. ASSUME ReconnectClosed(t) \/ SendAgain(t) PROVE FALSE
    <3>1. PICK l \in Bent : Runs(t, l)  BY <2>1 DEF ReconnectClosed, SendAgain, Bent
    <3>2. stack[t] # <<>> /\ Frame(t).at = l  BY <3>1, Nonempty
    <3>3. Frame(t) = stack[t][1] /\ 1 \in DOMAIN stack[t]  BY <3>2, StackTyped DEF Inv
    <3> QED  BY <3>1, <3>2, <3>3 DEF NestInv, Straight, Bent
  <2>2. CASE \/ Connect(t) \/ ConnectGranted(t) \/ ConnectLocked(t) \/ ConnectFails(t)
             \/ Start(t) \/ StartGranted(t) \/ StartLocked(t) \/ StartConnected(t) \/ StartSent(t) \/ StartTimesOut(t)
    BY <2>2, ConnectHopes
  <2>3. CASE StartReady(t) \/ Send(t) \/ Sent(t) \/ Connected(t) \/ Disconnected(t)
    BY <2>3, StartReadyHopes, SendHopes, ConnectedHopes, DisconnectedHopes
  <2>4. CASE Close(t) \/ CloseAwaits(t) \/ CloseAwaited(t) \/ CloseSocket(t) \/ Closed(t)
    BY <2>4, AwaitsHope, CloseSocketHopes, ClosedHopes
  <2>5. CASE CancelDelivered(t) \/ Unwinds(t)  BY <2>5, CancelDeliveredHopes, UnwindsHopes
  <2> QED  BY <1>1, <2>1, <2>2, <2>3, <2>4, <2>5 DEF CoroutineStep
<1>2. ASSUME NEW t \in Tasks, TaskStep(t) PROVE ReadyInv' /\ HopeInv'
  <2>1. CASE CoroutineStep(t)  BY <1>1, <2>1
  <2>2. CASE PipelineStep  BY <2>2, PipelineHopes
  <2>3. CASE CancelSent  BY <2>3, CallsHope
  <2>4. ASSUME NEW k \in Conns, SenderStep(k) \/ ReceiverStep(k) PROVE ReadyInv' /\ HopeInv'
    BY <2>4, LoopsHope, ReceivesReadyHopes
  <2> QED  BY <1>2, <2>1, <2>2, <2>3, <2>4 DEF TaskStep
<1>3. CASE Environment
  <2>1. CASE HearsAudio \/ SpeechStarts \/ SpeechEnds \/ Stops \/ CleansUp \/ Cancels  BY <2>1, CallsHope
  <2>2. ASSUME NEW w \in Conns,
               HangsUp(w) \/ Breaks(w) \/ \E type \in {"partial", "ping"} : ServerChats(w, type)
        PROVE  ReadyInv' /\ HopeInv'
    BY <2>2, ServersHope
  <2> QED  BY <1>3, <2>1, <2>2 DEF Environment
<1>4. CASE UNCHANGED vars
  <2>1. stack' = stack /\ svc' = svc /\ cancelled' = cancelled /\ buf' = buf /\ readySet' = readySet /\ conn' = conn
    BY <1>4 DEF vars, serviceVars, taskVars, syncVars, eventVars, wireVars
  <2>2. Gentle  BY <2>1 DEF Gentle
  <2> QED  BY <2>1, <2>2, StandsHope
<1> QED  BY <1>2, <1>3, <1>4 DEF Next

LEMMA InitHopes == Init => ReadyInv /\ HopeInv
<1> SUFFICES ASSUME Init PROVE ReadyInv /\ HopeInv  OBVIOUS
<1>1. svc.ws = 0 /\ svc.readyOf = 0 /\ ~svc.active /\ buf.queue = <<>> /\ readySet = {}  BY DEF Init
<1>2. LinkInv /\ SetInv /\ EmptyInv /\ ~Busy  BY <1>1 DEF LinkInv, SetInv, EmptyInv, Busy
<1>3. HopeInv  BY <1>2 DEF HopeInv, MindInv, LeaveInv
<1>4. PlaceInv
  <2>1. stack[Pipeline] = <<At("idle")>>  BY NotLoop DEF Init
  <2>2. Frame(Pipeline).at = "idle"  BY <2>1, AtIs DEF Frame
  <2> QED  BY <2>2 DEF PlaceInv, ActInv, StartInv, Tops, ActPlaces
<1> QED  BY <1>2, <1>3, <1>4 DEF ReadyInv

LEMMA HopeHolds == Spec => [](svc.config.reconnect \/ svc.config.policy = "block" \/ (EndingInv /\ ReadyInv /\ HopeInv))
<1> DEFINE I == svc.config.reconnect \/ svc.config.policy = "block" \/ (EndingInv /\ ReadyInv /\ HopeInv)
           J == svc.config.reconnect \/ AudioInv
           K == svc.config.reconnect \/ CloseInv
<1>1. Init => I  BY InitEnding, InitHopes
<1>2. Inv /\ Inv' /\ ConnInv /\ J /\ J' /\ K /\ I /\ [Next]_vars => I'
  BY ConfigKept, NextEnding, NextHopes DEF AudioInv
<1>3. Spec => []J  BY AudioHolds
<1>4. Spec => []K  BY CloseHolds
<1> HIDE DEF I, J, K
<1>5. Spec => []I  BY <1>1, <1>2, <1>3, <1>4, InvHolds, ConnHolds, PTL DEF Spec
<1> QED  BY <1>5 DEF I

\* Without a reconnect, and without the block policy, a finalize that waits for the
\* queue to drain is never alone: while there is a connection with audio queued, one
\* of its loops works and is not cancelled, or is on its way to a disconnect, or some
\* task is inside the one that will clear the queue; and where there is no connection
\* the queue is empty (finalize_current_utterance, _send_loop, _receive_loop,
\* _disconnect, _close_socket_and_tasks).
THEOREM JoinLossKept == Spec => []JoinLossHasCause
<1>1. Inv /\ ReadyInv /\ HopeInv => JoinNotAbandoned
  <2> SUFFICES ASSUME Inv, ReadyInv, HopeInv, IsAt(Pipeline, "join"), buf.unfinished > 0,
                      \A t \in Loops : ~Alive(t), Settled(Controller)
               PROVE  FALSE
    BY DEF JoinNotAbandoned
  <2>1. \A t \in Loops : t \in Tasks /\ stack[t] = <<>>  BY PlacesApart DEF Tasks, Alive
  <2>2. Cardinality(Holding) = 0
    <3>1. \A t \in Loops : DOMAIN stack[t] = {}  BY <2>1
    <3>2. Holding = {}  BY <3>1 DEF Holding, Inside
    <3> QED  BY <3>2, FS_EmptySet
  <2>3. buf.queue # <<>>
    <3>1. buf.unfinished = Len(buf.queue) + 0  BY <2>2 DEF Inv, AccountInv
    <3> QED  BY <3>1
  <2>4. Busy  BY <2>3 DEF Busy, ReadyInv, EmptyInv
  <2>5. PICK t \in Tasks : Minds(t)  BY <2>4 DEF HopeInv, MindInv
  <2>6. stack[t] # <<>>
    <3>1. stack[t] = <<>> => DOMAIN stack[t] = {}  OBVIOUS
    <3> QED  BY <2>5, <3>1 DEF Minds, Leaves, Breaking, Errs, Works, Inside, Tops
  <2>7. t \notin Loops  BY <2>1, <2>6
  <2>8. Leaves(t) /\ t \in {Pipeline, Controller}  BY <2>5, <2>7 DEF Minds, Tasks
  <2>9. Frame(t).at \in {"join", "idle", "ended"}  BY <2>8 DEF IsAt, Settled, Frame
  <2> QED  BY <2>8, <2>9 DEF Leaves, Tops, ClosePlaces
<1> DEFINE I == svc.config.reconnect \/ svc.config.policy = "block" \/ (EndingInv /\ ReadyInv /\ HopeInv)
<1>2. Inv /\ I => JoinLossHasCause  BY <1>1 DEF JoinLossHasCause
<1>3. Spec => []I  BY HopeHolds
<1> HIDE DEF I
<1> QED  BY <1>2, <1>3, InvHolds, PTL

=============================================================================

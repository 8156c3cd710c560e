----------------------- MODULE LocalSttServiceProofs -----------------------
(***************************************************************************)
(* What the plugin keeps whichever way its tasks interleave, for every     *)
(* configuration, number of connections and bound: the account of the send *)
(* queue, its limit, the waits for a final that will end, and that there   *)
(* is one connection.  The tasks are stacks of frames, so the invariant    *)
(* says which frames a stack may hold, at most once, and whose they are.   *)
(* Every step replaces the first frames of one stack (Move), and all but a *)
(* few by frames that nothing here is about (QuietStep).  That there is    *)
(* one connection has an invariant of its own (ConnInv): most steps leave  *)
(* the connection alone and their task at a place it says nothing of       *)
(* (Free).                                                                 *)
(***************************************************************************)
EXTENDS LocalSttService, SequenceTheorems, FiniteSetTheorems, WellFoundedInduction, TLAPS

-----------------------------------------------------------------------------
(* Types                                                                   *)

Chunk == [frames : Seq(Nat), gen : Nat]
Message == [type : {"start"}, gen : Nat] \cup [type : {"audio"}, frames : Seq(Nat), gen : Nat]
             \cup [type : {"pong", "finalize", "close", "cancel"}]

SendPlaces  == {"s_new", "s_loop", "s_get", "s_take", "s_sent", "s_gone"}
AudioPlaces == {"audio", "begun", "queue", "flush", "enqueue", "sleep"}
FinalPlaces == {"flushed", "join", "joined", "final_sent", "final_wait", "final_done"}
\* Places of frames that hold nothing else, of which nothing below is said, and
\* the frames of which something is.
QuietPlaces == {"idle", "ended", "connect", "connect_lock", "connect_locked", "connecting", "start",
                "start_lock", "start_locked", "start_connected", "start_sent", "disconnected",
                "r_new", "r_loop", "r_ponged", "r_failed", "r_end"}
SendFrames ==
    [at : {"send", "sending", "send_again"}, conn : Nat, msg : Message, replay : BOOLEAN, begin : BOOLEAN,
     retry : BOOLEAN]
CloseFrames ==
    [at : {"close"}, forGood : BOOLEAN] \cup [at : {"reconnect_closed"}, begin : BOOLEAN]
      \cup [at : {"close_tasks"}, todo : Seq(Tasks), forGood : BOOLEAN]
      \cup [at : {"close_await"}, todo : Seq(Tasks) \ {<<>>}, forGood : BOOLEAN]
      \cup [at : {"closing"}, conn : Nat, forGood : BOOLEAN]
QuietFrames ==
    [at : QuietPlaces] \cup [at : {"raise"}, exc : {"error", "cancelled"}]
      \cup [at : {"start_wait"}, event : Nat] \cup SendFrames \cup CloseFrames
      \cup [at : {"r_recv"}, conn : Nat] \cup [at : {"r_push"}, msg : [type : {"partial", "final"}, gen : Gens]]
      \cup [at : {"cancel_sent"}, conn : Nat]

LoopFrames ==
    [at : SendPlaces \ {"s_sent", "s_gone"}] \cup [at : {"s_sent", "s_gone"}, chunk : Chunk]
AudioFrames ==
    [at : {"begun", "flush"}] \cup [at : {"audio"}, frame : Nat] \cup [at : {"queue"}, frames : Seq(Nat)]
      \cup [at : {"enqueue", "sleep"}, chunk : Chunk]
FinalFrames == [at : FinalPlaces, gen : Nat]

Frames == QuietFrames \cup LoopFrames \cup AudioFrames \cup FinalFrames

Service ==
    [config : Config, ws : Nat, closed : BOOLEAN, active : BOOLEAN, gen : Nat, suppress : BOOLEAN,
     readyOf : Nat, sendTask : Tasks \cup {NoTask}, recvTask : Tasks \cup {NoTask}]
Buffers ==
    [queue : Seq(Chunk), unfinished : Int, queued : Nat, aggregate : Seq(Nat), preroll : Seq(Nat)]
Budget == [allows : Allowance, frames : Nat, breaks : Nat, chatter : Nat, cancels : Nat]

TypeInv ==
    /\ svc \in Service /\ buf \in Buffers
    /\ stack \in [Tasks -> Seq(Frames)] /\ running \in Tasks \cup {NoTask}
    /\ conn \in [Conns -> {"none", "open", "broken", "closed", "gone"}]
    /\ budget \in Budget

-----------------------------------------------------------------------------
(* The invariant                                                           *)

\* A task that is not at an await holds the event loop; a connection there never
\* was has no loops; and each kind of frame is in the stacks of its tasks, once.
AtMostOne(s, places) == \A i, j \in DOMAIN s : s[i].at \in places /\ s[j].at \in places => i = j

TaskInv ==
    /\ \A t \in Tasks : stack[t] # <<>> /\ Head(stack[t]).at \notin Awaits => running = t
    /\ \A w \in Conns :
         conn[w] = "none" => stack[SendTask(w)] = <<>> /\ stack[RecvTask(w)] = <<>>
    /\ \A t \in Tasks : /\ Inside(t, SendPlaces) => \E k \in Conns : t = SendTask(k)
                        /\ Inside(t, AudioPlaces \cup FinalPlaces) => t = Pipeline
    /\ \A t \in Tasks : /\ AtMostOne(stack[t], SendPlaces)
                        /\ AtMostOne(stack[t], AudioPlaces)
                        /\ AtMostOne(stack[t], FinalPlaces)

AccountInv ==
    /\ buf.queued = Duration(buf.queue)
    /\ buf.unfinished = Len(buf.queue) + Cardinality(Holding)
    /\ \/ Duration(buf.queue) <= svc.config.maxQueue
       \/ svc.config.policy = "block" /\ Len(buf.queue) = 1

\* A send loop that is about to take a chunk finds one.
TakeInv ==
    \A t \in Tasks : \A i \in DOMAIN stack[t] :
        stack[t][i].at = "s_take" => i = 1 /\ buf.queue # <<>>

\* The final a finalize waits for, or is about to, is set or can be.
FinalInv ==
    \A i \in DOMAIN stack[Pipeline] :
        stack[Pipeline][i].at \in {"final_sent", "final_wait"} =>
            stack[Pipeline][i].gen \in finalSet \cup waiters

-----------------------------------------------------------------------------
(* Steps of a task                                                         *)

\* The first n frames of a stack give way to others.
Above(w, s, n) == w \o SubSeq(s, n + 1, Len(s))

LEMMA AboveIs ==
    ASSUME NEW S, NEW w \in Seq(S), NEW s \in Seq(S), NEW n \in 0..Len(s)
    PROVE  /\ Above(w, s, n) \in Seq(S) /\ Len(Above(w, s, n)) = Len(w) + (Len(s) - n)
           /\ \A i \in 1..Len(w) : Above(w, s, n)[i] = w[i]
           /\ \A i \in 1..(Len(s) - n) : Above(w, s, n)[Len(w) + i] = s[n + i]
<1> DEFINE b == SubSeq(s, n + 1, Len(s))
<1>0. Len(s) \in Nat /\ n \in Nat /\ Len(w) \in Nat  OBVIOUS
<1>1. b \in Seq(S)  BY <1>0
<1>2. Len(b) = Len(s) - n  BY <1>0
<1>3. \A i \in 1..(Len(s) - n) : b[i] = s[n + i]
  <2> TAKE i \in 1..(Len(s) - n)
  <2>1. b[i] = s[(n + 1) + i - 1]  BY <1>0
  <2>2. (n + 1) + i - 1 = n + i  BY <1>0
  <2> QED  BY <2>1, <2>2
<1>4. Above(w, s, n) = w \o b  BY DEF Above
<1> HIDE DEF b
<1>5. w \o b \in Seq(S) /\ Len(w \o b) = Len(w) + Len(b)  BY <1>1
<1>6. \A i \in 1..Len(w) : (w \o b)[i] = w[i]  BY <1>0, <1>1, <1>2, ConcatProperties
<1>7. ASSUME NEW i \in 1..(Len(s) - n) PROVE (w \o b)[Len(w) + i] = b[i]
  <2>1. Len(w) + i \in 1..(Len(w) + Len(b)) /\ ~(Len(w) + i <= Len(w)) /\ (Len(w) + i) - Len(w) = i
    BY <1>0, <1>2
  <2> QED  BY <2>1, <1>1, ConcatProperties
<1> QED  BY <1>2, <1>3, <1>4, <1>5, <1>6, <1>7

LEMMA AboveTail ==
    ASSUME NEW S, NEW w \in Seq(S), NEW s \in Seq(S), s # <<>>
    PROVE  w \o Tail(s) = Above(w, s, 1) /\ 1 \in 1..Len(s)
<1>1. Tail(s) = SubSeq(s, 2, Len(s)) /\ Len(s) \in Nat /\ Len(s) > 0  BY TailIsSubSeq
<1> QED  BY <1>1 DEF Above

LEMMA AboveAll ==
    ASSUME NEW S, NEW w \in Seq(S), NEW s \in Seq(S)
    PROVE  w = Above(w, s, Len(s))
<1>1. SubSeq(s, Len(s) + 1, Len(s)) = <<>>  OBVIOUS
<1> QED  BY <1>1, ConcatEmptySeq DEF Above

LEMMA AboveTailTail ==
    ASSUME NEW S, NEW w \in Seq(S), NEW s \in Seq(S), s # <<>>, Tail(s) # <<>>
    PROVE  w \o Tail(Tail(s)) = Above(w, s, 2) /\ 2 \in 1..Len(s)
<1>1. Tail(s) \in Seq(S) /\ Len(Tail(s)) = Len(s) - 1 /\ Len(Tail(s)) > 0 /\ Len(s) \in Nat  OBVIOUS
<1>2. Tail(s) = SubSeq(s, 2, Len(s))  BY TailIsSubSeq
<1>3. 2 \in 1..Len(s) /\ Len(s) \in 2..Len(s)  BY <1>1
<1>4. Tail(SubSeq(s, 2, Len(s))) = SubSeq(s, 2 + 1, Len(s))  BY <1>3, HeadTailOfSubSeq
<1> QED  BY <1>2, <1>3, <1>4 DEF Above

\* Concatenations that are written out.
LEMMA ConsIs ==
    ASSUME NEW S, NEW c \in S, NEW s \in Seq(S), NEW r \in Seq(S), Len(r) = Len(s) + 1, r[1] = c,
           \A i \in 1..Len(s) : r[i + 1] = s[i]
    PROVE  <<c>> \o s = r
<1> DEFINE a == <<c>>
           w == a \o s
<1>1. a \in Seq(S) /\ Len(a) = 1 /\ a[1] = c /\ Len(s) \in Nat  OBVIOUS
<1> HIDE DEF a
<1>2. w \in Seq(S) /\ Len(w) = Len(s) + 1
  <2>1. a \o s \in Seq(S) /\ Len(a \o s) = Len(a) + Len(s)  BY <1>1, ConcatProperties
  <2> QED  BY <1>1, <2>1
<1>3. ASSUME NEW i \in 1..(Len(s) + 1) PROVE w[i] = r[i]
  <2>1. CASE i = 1
    <3>1. w[1] = a[1]  BY <1>1, ConcatProperties
    <3> QED  BY <1>1, <2>1, <3>1
  <2>2. CASE i # 1
    <3>1. i - 1 \in 1..Len(s) /\ i = (i - 1) + 1 /\ i \in 1..(Len(a) + Len(s)) /\ ~(i <= Len(a))
      BY <1>1, <2>2
    <3>2. (a \o s)[i] = IF i <= Len(a) THEN a[i] ELSE s[i - Len(a)]  BY <1>1, <3>1, ConcatProperties
    <3> QED  BY <1>1, <3>1, <3>2
  <2> QED  BY <2>1, <2>2
<1> HIDE DEF w
<1>4. w = r  BY <1>2, <1>3
<1> QED  BY <1>4 DEF w, a

LEMMA PairIs == ASSUME NEW S, NEW c \in S, NEW f \in S PROVE <<c>> \o <<f>> = <<c, f>>
<1>1. <<f>> \in Seq(S) /\ <<c, f>> \in Seq(S) /\ Len(<<c, f>>) = Len(<<f>>) + 1  OBVIOUS
<1>2. <<c, f>>[1] = c /\ \A i \in 1..Len(<<f>>) : <<c, f>>[i + 1] = <<f>>[i]  OBVIOUS
<1> QED  BY <1>1, <1>2, ConsIs

LEMMA TripleIs == ASSUME NEW S, NEW c \in S, NEW f \in S, NEW g \in S PROVE <<c>> \o <<f, g>> = <<c, f, g>>
<1>1. <<f, g>> \in Seq(S) /\ <<c, f, g>> \in Seq(S) /\ Len(<<c, f, g>>) = Len(<<f, g>>) + 1  OBVIOUS
<1>2. <<c, f, g>>[1] = c /\ \A i \in 1..Len(<<f, g>>) : <<c, f, g>>[i + 1] = <<f, g>>[i]  OBVIOUS
<1> QED  BY <1>1, <1>2, ConsIs

Held == {"s_sent", "s_gone"}
Classes == {SendPlaces, AudioPlaces, FinalPlaces}
Special == SendPlaces \cup AudioPlaces \cup FinalPlaces

\* Task t replaces its first n frames by w, and keeps the event loop unless it
\* suspends.
Move(t, n, w) ==
    /\ running \in {t, NoTask} /\ running' \in {t, NoTask}
    /\ n \in 1..Len(stack[t]) /\ w \in Seq(Frames)
    /\ stack' = [stack EXCEPT ![t] = Above(w, stack[t], n)]
    /\ stack'[t] # <<>> /\ Head(stack'[t]).at \notin Awaits => running' = t

\* The frames of each kind stay single and with the task they belong to.
Owns(t, places) ==
    IF places = SendPlaces THEN \E k \in Conns : t = SendTask(k) ELSE t = Pipeline
Has(w, places) == \E i \in DOMAIN w : w[i].at \in places
Fit(t, n, w) ==
    \A C \in Classes :
        /\ AtMostOne(w, C)
        /\ Has(w, C) => \/ \E i \in 1..n : stack[t][i].at \in C
                        \/ n = Len(stack[t]) /\ Owns(t, C)

Slots == TypeInv /\ TaskInv

LEMMA QuietIsQuiet == ASSUME NEW f \in QuietFrames PROVE f \in Frames /\ f.at \notin Special
BY DEF QuietFrames, Frames, QuietPlaces, SendFrames, CloseFrames, Special, SendPlaces, AudioPlaces, FinalPlaces

LEMMA QuietSeq == ASSUME NEW w \in Seq(QuietFrames)
                  PROVE  w \in Seq(Frames) /\ \A i \in DOMAIN w : w[i].at \notin Special
<1>1. QuietFrames \subseteq Frames  BY QuietIsQuiet
<1>2. w \in Seq(Frames)  BY <1>1, SeqMonotonic
<1>3. \A i \in DOMAIN w : w[i] \in QuietFrames  OBVIOUS
<1> QED  BY <1>2, <1>3, QuietIsQuiet

LEMMA PlacesApart ==
    /\ Pipeline \in Tasks /\ Controller \in Tasks /\ Pipeline # Controller /\ NoTask \notin Tasks
    /\ \A k \in Conns : /\ SendTask(k) \in Tasks /\ SendTask(k) \in Loops /\ SendTask(k) # Pipeline
                        /\ RecvTask(k) \in Tasks /\ RecvTask(k) # Pipeline /\ RecvTask(k) # Controller
                        /\ SendTask(k) # Controller
                        /\ \A j \in Conns : /\ SendTask(j) # RecvTask(k)
                                            /\ SendTask(j) = SendTask(k) => j = k
                                            /\ RecvTask(j) = RecvTask(k) => j = k
BY DEF Pipeline, Controller, NoTask, Tasks, Loops, SendTask, RecvTask

\* Where the frames of a stack come from.
LEMMA AboveFrames ==
    ASSUME NEW S, NEW w \in Seq(S), NEW s \in Seq(S), NEW n \in 0..Len(s)
    PROVE  \A i \in DOMAIN Above(w, s, n) :
           \/ i \in 1..Len(w) /\ i \in DOMAIN w /\ Above(w, s, n)[i] = w[i]
           \/ \E k \in (n + 1)..Len(s) :
                i = Len(w) + (k - n) /\ k \in DOMAIN s /\ Above(w, s, n)[i] = s[k]
<1>0. Len(s) \in Nat /\ n \in Nat /\ Len(w) \in Nat /\ DOMAIN w = 1..Len(w) /\ DOMAIN s = 1..Len(s)
  OBVIOUS
<1>a. Above(w, s, n) \in Seq(S) /\ Len(Above(w, s, n)) = Len(w) + (Len(s) - n)  BY AboveIs
<1>b. \A i \in 1..Len(w) : Above(w, s, n)[i] = w[i]  BY AboveIs
<1>c. \A i \in 1..(Len(s) - n) : Above(w, s, n)[Len(w) + i] = s[n + i]  BY AboveIs
<1>1. /\ Above(w, s, n) \in Seq(S) /\ Len(Above(w, s, n)) = Len(w) + (Len(s) - n)
      /\ \A i \in 1..Len(w) : Above(w, s, n)[i] = w[i]
      /\ \A i \in 1..(Len(s) - n) : Above(w, s, n)[Len(w) + i] = s[n + i]
  BY <1>a, <1>b, <1>c
<1> TAKE i \in DOMAIN Above(w, s, n)
<1>2. DOMAIN Above(w, s, n) = 1..Len(Above(w, s, n))  BY <1>1
<1>3. i \in 1..(Len(w) + (Len(s) - n))  BY <1>1, <1>2
<1>4. CASE i \in 1..Len(w)  BY <1>0, <1>1, <1>4
<1>5. CASE i \notin 1..Len(w)
  <2> DEFINE k == i - Len(w) + n
  <2>1. k \in (n + 1)..Len(s) /\ i = Len(w) + (k - n) /\ k \in 1..Len(s)  BY <1>0, <1>3, <1>5
  <2>2. k - n \in 1..(Len(s) - n) /\ n + (k - n) = k  BY <1>0, <2>1
  <2>3. Above(w, s, n)[Len(w) + (k - n)] = s[n + (k - n)]  BY <1>1, <2>2
  <2> QED  BY <1>0, <2>1, <2>2, <2>3
<1> QED  BY <1>4, <1>5

LEMMA MoveTask ==
    ASSUME Slots, NEW t \in Tasks, NEW n, NEW w, Move(t, n, w), Fit(t, n, w),
           \A v \in Conns : conn'[v] = "none" => conn[v] = "none"
    PROVE  TaskInv' /\ stack' \in [Tasks -> Seq(Frames)] /\ running' \in Tasks \cup {NoTask}
<1> DEFINE s == stack[t]
           r == Above(w, s, n)
<1>1. s \in Seq(Frames) /\ w \in Seq(Frames) /\ n \in 1..Len(s) /\ n \in 0..Len(s) /\ s # <<>>
  BY DEF Slots, TypeInv, Move
<1>2. stack' = [stack EXCEPT ![t] = r]  BY DEF Move
<1>3. r \in Seq(Frames)  BY <1>1, AboveIs
<1>4. stack'[t] = r /\ \A u \in Tasks : u # t => stack'[u] = stack[u]  BY <1>2 DEF Slots, TypeInv
<1>5. stack' \in [Tasks -> Seq(Frames)]  BY <1>2, <1>3 DEF Slots, TypeInv
<1>6. running' \in Tasks \cup {NoTask}  BY DEF Move
<1>7. ASSUME NEW i \in DOMAIN r
      PROVE  \/ i \in 1..Len(w) /\ i \in DOMAIN w /\ r[i] = w[i]
             \/ \E k \in (n + 1)..Len(s) : i = Len(w) + (k - n) /\ k \in DOMAIN s /\ r[i] = s[k]
  BY <1>1, AboveFrames
<1> HIDE DEF r
<1>8. ASSUME NEW u \in Tasks, stack'[u] # <<>>, Head(stack'[u]).at \notin Awaits PROVE running' = u
  <2>1. CASE u = t  BY <2>1, <1>8 DEF Move
  <2>2. CASE u # t
    <3>1. running = u  BY <2>2, <1>4, <1>8 DEF Slots, TaskInv
    <3> QED  BY <3>1, <2>2, PlacesApart DEF Move
  <2> QED  BY <2>1, <2>2
<1>9. ASSUME NEW v \in Conns, conn'[v] = "none"
      PROVE  stack'[SendTask(v)] = <<>> /\ stack'[RecvTask(v)] = <<>>
  <2>1. stack[SendTask(v)] = <<>> /\ stack[RecvTask(v)] = <<>>  BY <1>9 DEF Slots, TaskInv
  <2>2. SendTask(v) # t /\ RecvTask(v) # t  BY <2>1, <1>1
  <2> QED  BY <2>1, <2>2, <1>4, PlacesApart
<1>10. ASSUME NEW C \in Classes, NEW u \in Tasks, Inside(u, C)' PROVE Owns(u, C)
  <2>1. PICK i \in DOMAIN stack'[u] : stack'[u][i].at \in C  BY <1>10 DEF Inside
  <2>2. \A x \in Tasks : Inside(x, C) => Owns(x, C)
    BY DEF Slots, TaskInv, Classes, Owns, Inside, SendPlaces, AudioPlaces, FinalPlaces
  <2>3. CASE u # t  BY <2>1, <2>2, <2>3, <1>4 DEF Inside
  <2>4. CASE u = t
    <3>1. i \in DOMAIN r /\ r[i].at \in C  BY <2>1, <2>4, <1>4
    <3>2. CASE \E k \in (n + 1)..Len(s) : i = Len(w) + (k - n) /\ k \in DOMAIN s /\ r[i] = s[k]
      BY <3>1, <3>2, <2>2, <2>4 DEF Inside
    <3>3. CASE i \in 1..Len(w) /\ i \in DOMAIN w /\ r[i] = w[i]
      <4>1. Has(w, C)  BY <3>1, <3>3 DEF Has
      <4>2. (\E k \in 1..n : s[k].at \in C) \/ Owns(t, C)  BY <4>1 DEF Fit
      <4>3. 1..n \subseteq DOMAIN s  BY <1>1
      <4> QED  BY <4>2, <4>3, <2>2, <2>4 DEF Inside
    <3> QED  BY <3>1, <3>2, <3>3, <1>7
  <2> QED  BY <2>3, <2>4
<1>11. ASSUME NEW C \in Classes, NEW u \in Tasks PROVE AtMostOne(stack'[u], C)
  <2>1. \A x \in Tasks : AtMostOne(stack[x], C)  BY DEF Slots, TaskInv, Classes
  <2>2. CASE u # t  BY <2>1, <2>2, <1>4
  <2>3. CASE u = t
    <3> SUFFICES ASSUME NEW i \in DOMAIN r, NEW j \in DOMAIN r, r[i].at \in C, r[j].at \in C PROVE i = j
      BY <2>3, <1>4 DEF AtMostOne
    <3>1. 1..n \subseteq DOMAIN s /\ Len(s) \in Nat /\ n \in Nat /\ Len(w) \in Nat  BY <1>1
    <3>2. \A k, l \in DOMAIN s : s[k].at \in C /\ s[l].at \in C => k = l  BY <2>1 DEF AtMostOne
    <3>3. \A k, l \in DOMAIN w : w[k].at \in C /\ w[l].at \in C => k = l  BY DEF Fit, AtMostOne
    <3>4. (\E k \in DOMAIN w : w[k].at \in C) => (\E k \in 1..n : s[k].at \in C) \/ n = Len(s)
      BY DEF Fit, Has
    <3>5. CASE /\ i \in 1..Len(w) /\ i \in DOMAIN w /\ r[i] = w[i]
               /\ j \in 1..Len(w) /\ j \in DOMAIN w /\ r[j] = w[j]
      BY <3>3, <3>5
    <3>6. ASSUME NEW a \in DOMAIN r, NEW b \in DOMAIN r, r[a].at \in C, r[b].at \in C,
                 a \in DOMAIN w /\ r[a] = w[a],
                 \E k \in (n + 1)..Len(s) : b = Len(w) + (k - n) /\ k \in DOMAIN s /\ r[b] = s[k]
          PROVE  FALSE
      <4>1. PICK k \in (n + 1)..Len(s) : k \in DOMAIN s /\ r[b] = s[k]  BY <3>6
      <4>2. n # Len(s)  BY <4>1, <3>1
      <4>3. PICK l \in 1..n : s[l].at \in C  BY <3>4, <3>6, <4>2
      <4>4. l \in DOMAIN s /\ l # k  BY <3>1, <4>1, <4>3
      <4> QED  BY <3>2, <3>6, <4>1, <4>3, <4>4
    <3>7. CASE /\ \E k \in (n + 1)..Len(s) : i = Len(w) + (k - n) /\ k \in DOMAIN s /\ r[i] = s[k]
               /\ \E k \in (n + 1)..Len(s) : j = Len(w) + (k - n) /\ k \in DOMAIN s /\ r[j] = s[k]
      BY <3>2, <3>7
    <3> QED  BY <1>7, <3>5, <3>6, <3>7
  <2> QED  BY <2>2, <2>3
<1>12. TaskInv'
  <2>1. \A u \in Tasks : /\ Inside(u, SendPlaces)' => \E k \in Conns : u = SendTask(k)
                         /\ Inside(u, AudioPlaces \cup FinalPlaces)' => u = Pipeline
    <3> TAKE u \in Tasks
    <3>1. Inside(u, AudioPlaces \cup FinalPlaces)' => Inside(u, AudioPlaces)' \/ Inside(u, FinalPlaces)'
      BY DEF Inside
    <3> QED  BY <3>1, <1>10 DEF Classes, Owns, SendPlaces, AudioPlaces, FinalPlaces
  <2>2. \A u \in Tasks : /\ AtMostOne(stack'[u], SendPlaces)
                         /\ AtMostOne(stack'[u], AudioPlaces)
                         /\ AtMostOne(stack'[u], FinalPlaces)
    BY <1>11 DEF Classes
  <2> QED  BY <1>8, <1>9, <2>1, <2>2 DEF TaskInv
<1> QED  BY <1>5, <1>6, <1>12

\* How many more chunks the send loops hold after the move.
Count(b) == IF b THEN 1 ELSE 0
Hands(t, n, w) == Count(Has(w, Held)) - Count(\E i \in 1..n : stack[t][i].at \in Held)

LEMMA HoldingFinite ==
    /\ Loops \subseteq Tasks
    /\ IsFiniteSet(Holding) /\ IsFiniteSet(Holding')
    /\ Cardinality(Holding) \in Nat
<1>1. Loops \subseteq Tasks  BY DEF Tasks
<1>2. IsFiniteSet(Conns)  BY ServiceAssumption, FS_Interval DEF Conns
<1>3. IsFiniteSet({"send"}) /\ IsFiniteSet({"recv"})  BY FS_Singleton
<1>4. IsFiniteSet({"send", "recv"})
  <2>1. IsFiniteSet({"send"} \cup {"recv"})  BY <1>3, FS_Union
  <2>2. {"send", "recv"} = {"send"} \cup {"recv"}  OBVIOUS
  <2> QED  BY ONLY <2>1, <2>2
<1>5. IsFiniteSet({"send", "recv"} \X Conns)  BY <1>2, <1>4, FS_Product
<1>6. Loops \subseteq {"send", "recv"} \X Conns  BY DEF Loops, SendTask, RecvTask
<1>7. IsFiniteSet(Loops)  BY <1>5, <1>6, FS_Subset
<1>8. Holding \subseteq Loops /\ Holding' \subseteq Loops  BY DEF Holding
<1>9. IsFiniteSet(Holding) /\ IsFiniteSet(Holding')  BY <1>7, <1>8, FS_Subset
<1> QED  BY <1>1, <1>9, FS_CardinalityType

LEMMA MoveHolding ==
    ASSUME Slots, NEW t \in Tasks, NEW n, NEW w, Move(t, n, w), Fit(t, n, w), TaskInv',
           stack' \in [Tasks -> Seq(Frames)]
    PROVE  Cardinality(Holding') = Cardinality(Holding) + Hands(t, n, w)
<1> DEFINE s == stack[t]
           r == Above(w, s, n)
           old == \E i \in 1..n : s[i].at \in Held
           new == Has(w, Held)
           rest == \E i \in (n + 1)..Len(s) : s[i].at \in Held
<1>1. s \in Seq(Frames) /\ w \in Seq(Frames) /\ n \in 1..Len(s) /\ n \in 0..Len(s) /\ s # <<>>
  BY DEF Slots, TypeInv, Move
<1>2. stack' = [stack EXCEPT ![t] = r]  BY DEF Move
<1>3. r \in Seq(Frames)  BY <1>1, AboveIs
<1>4. stack'[t] = r /\ \A u \in Tasks : u # t => stack'[u] = stack[u]  BY <1>2 DEF Slots, TypeInv
<1>5. /\ Len(r) = Len(w) + (Len(s) - n)
      /\ \A i \in 1..Len(w) : r[i] = w[i]
      /\ \A i \in 1..(Len(s) - n) : r[Len(w) + i] = s[n + i]
  <2>1. /\ Len(Above(w, s, n)) = Len(w) + (Len(s) - n)
        /\ \A i \in 1..Len(w) : Above(w, s, n)[i] = w[i]
        /\ \A i \in 1..(Len(s) - n) : Above(w, s, n)[Len(w) + i] = s[n + i]
    <3> HIDE DEF s
    <3>1. Len(Above(w, s, n)) = Len(w) + (Len(s) - n)  BY <1>1, AboveIs
    <3>2. \A i \in 1..Len(w) : Above(w, s, n)[i] = w[i]  BY <1>1, AboveIs
    <3>3. \A i \in 1..(Len(s) - n) : Above(w, s, n)[Len(w) + i] = s[n + i]  BY <1>1, AboveIs
    <3> QED  BY <3>1, <3>2, <3>3
  <2> QED  BY <2>1
<1>6. \A i \in DOMAIN r :
        \/ i \in 1..Len(w) /\ i \in DOMAIN w /\ r[i] = w[i]
        \/ \E k \in (n + 1)..Len(s) : i = Len(w) + (k - n) /\ k \in DOMAIN s /\ r[i] = s[k]
  BY <1>1, AboveFrames
<1>7. Len(s) \in Nat /\ n \in Nat /\ Len(w) \in Nat /\ DOMAIN w = 1..Len(w) /\ DOMAIN s = 1..Len(s)
  BY <1>1
<1> HIDE DEF r
<1>8. DOMAIN r = 1..(Len(w) + (Len(s) - n))  BY <1>3, <1>5
<1>9. Loops \subseteq Tasks  BY HoldingFinite
<1>10. IsFiniteSet(Holding) /\ IsFiniteSet(Holding')  BY HoldingFinite
<1>11. \A u \in Tasks : u # t => (u \in Holding' <=> u \in Holding)
  BY <1>4 DEF Holding, Inside
<1>12. Inside(t, Held) <=> old \/ rest
  <2>1. \A i \in DOMAIN s : i \in 1..n \/ i \in (n + 1)..Len(s)  BY <1>7
  <2>2. 1..n \subseteq DOMAIN s /\ (n + 1)..Len(s) \subseteq DOMAIN s  BY <1>1, <1>7
  <2> QED  BY <2>1, <2>2 DEF Inside
<1>13. Inside(t, Held)' <=> new \/ rest
  <2>1. Inside(t, Held)' <=> \E i \in DOMAIN r : r[i].at \in Held  BY <1>4 DEF Inside
  <2>2. (\E i \in DOMAIN r : r[i].at \in Held) => new \/ rest  BY <1>6 DEF Has
  <2>3. new => \E i \in DOMAIN r : r[i].at \in Held
    <3>1. \A i \in DOMAIN w : i \in DOMAIN r /\ r[i] = w[i]  BY <1>1, <1>5, <1>7, <1>8
    <3> QED  BY <3>1 DEF Has
  <2>4. rest => \E i \in DOMAIN r : r[i].at \in Held
    <3> SUFFICES ASSUME NEW k \in (n + 1)..Len(s), s[k].at \in Held
                 PROVE  \E i \in DOMAIN r : r[i].at \in Held
      OBVIOUS
    <3>1. k - n \in 1..(Len(s) - n) /\ n + (k - n) = k /\ Len(w) + (k - n) \in DOMAIN r
      BY <1>1, <1>7, <1>8
    <3>2. r[Len(w) + (k - n)] = s[n + (k - n)]  BY <3>1, <1>5
    <3> QED  BY <3>1, <3>2
  <2> QED  BY <2>1, <2>2, <2>3, <2>4
<1>14. Held \subseteq SendPlaces  BY DEF Held, SendPlaces
<1>15. ~(old /\ rest)
  <2> SUFFICES ASSUME NEW i \in 1..n, NEW k \in (n + 1)..Len(s), s[i].at \in Held, s[k].at \in Held
               PROVE  FALSE
    OBVIOUS
  <2>1. i \in DOMAIN s /\ k \in DOMAIN s /\ i # k  BY <1>1, <1>7
  <2>2. AtMostOne(s, SendPlaces)  BY DEF Slots, TaskInv
  <2> QED  BY <2>1, <2>2, <1>14 DEF AtMostOne
<1>16. ~(new /\ rest)
  <2> SUFFICES ASSUME NEW i \in DOMAIN w, NEW k \in (n + 1)..Len(s), w[i].at \in Held, s[k].at \in Held
               PROVE  FALSE
    BY DEF Has
  <2>1. i \in DOMAIN r /\ r[i] = w[i]  BY <1>1, <1>5, <1>7, <1>8
  <2>2. k - n \in 1..(Len(s) - n) /\ n + (k - n) = k /\ Len(w) + (k - n) \in DOMAIN r
    BY <1>1, <1>7, <1>8
  <2>5. r[Len(w) + (k - n)] = s[n + (k - n)]  BY <2>2, <1>5
  <2>6. i # Len(w) + (k - n)  BY <2>2, <1>7
  <2>3. r[Len(w) + (k - n)] = s[k] /\ i # Len(w) + (k - n)  BY <2>2, <2>5, <2>6
  <2>4. AtMostOne(r, SendPlaces)  BY <1>4 DEF TaskInv
  <2> QED  BY <2>1, <2>2, <2>3, <2>4, <1>14 DEF AtMostOne
<1>17. Inside(t, Held) \/ Inside(t, Held)' => t \in Loops
  <2>1. (Inside(t, Held) => Inside(t, SendPlaces)) /\ (Inside(t, Held)' => Inside(t, SendPlaces)')
    BY <1>14 DEF Inside
  <2>2. Inside(t, SendPlaces) \/ Inside(t, SendPlaces)' => \E k \in Conns : t = SendTask(k)
    BY DEF Slots, TaskInv
  <2> QED  BY <2>1, <2>2, PlacesApart
<1>18. (t \in Holding <=> Inside(t, Held)) /\ (t \in Holding' <=> Inside(t, Held)')
  <2>1. \A u \in Loops : (u \in Holding <=> Inside(u, Held)) /\ (u \in Holding' <=> Inside(u, Held)')
    BY DEF Holding, Held
  <2>2. Holding \subseteq Loops /\ Holding' \subseteq Loops  BY DEF Holding
  <2> QED  BY <2>1, <2>2, <1>17
<1>19. Holding \subseteq Tasks /\ Holding' \subseteq Tasks  BY <1>9 DEF Holding
<1>20. Cardinality(Holding) \in Nat  BY <1>10, FS_CardinalityType
<1>21. CASE t \in Holding /\ t \notin Holding'
  <2>1. Holding' = Holding \ {t}  BY <1>11, <1>19, <1>21
  <2>2. Cardinality(Holding') = Cardinality(Holding) - 1  BY <2>1, <1>10, <1>21, FS_RemoveElement
  <2>3. old /\ ~new  BY <1>12, <1>13, <1>18, <1>21
  <2> QED  BY <1>10, <1>20, <2>2, <2>3 DEF Hands, Count
<1>22. CASE t \notin Holding /\ t \in Holding'
  <2>1. Holding' = Holding \cup {t}  BY <1>11, <1>19, <1>22
  <2>2. Cardinality(Holding') = Cardinality(Holding) + 1  BY <2>1, <1>10, <1>22, FS_AddElement
  <2>3. ~old /\ new  BY <1>12, <1>13, <1>18, <1>22
  <2> QED  BY <1>10, <1>20, <2>2, <2>3 DEF Hands, Count
<1>23. CASE t \in Holding <=> t \in Holding'
  <2>3. \A u : u \in Holding' <=> u \in Holding  BY <1>11, <1>19, <1>23
  <2>1. Holding' = Holding  BY <2>3
  <2>2. old <=> new  BY <1>12, <1>13, <1>15, <1>16, <1>18, <1>23
  <2> QED  BY <1>10, <1>20, <2>1, <2>2 DEF Hands, Count
<1> QED  BY <1>21, <1>22, <1>23

\* What the rest of a step keeps; what it does to the account, when the loops come
\* to hold `more` chunks; and what it does to the waits for a final.
World ==
    /\ svc' \in Service /\ svc'.config = svc.config
    /\ conn' \in [Conns -> {"none", "open", "broken", "closed", "gone"}]
    /\ \A v \in Conns : conn'[v] = "none" => conn[v] = "none"
    /\ budget' \in Budget
Bounded(b) == \/ Duration(b.queue) <= svc.config.maxQueue
              \/ svc.config.policy = "block" /\ Len(b.queue) = 1
Accounts(more) ==
    /\ buf' \in Buffers
    /\ buf'.queued = Duration(buf'.queue)
    /\ buf'.unfinished - Len(buf'.queue) = (buf.unfinished - Len(buf.queue)) + more
    /\ Bounded(buf')
Waits == {"final_sent", "final_wait"}
Reachable == finalSet \cup waiters
Finals(t, n, w) ==
    /\ \A i \in DOMAIN w : w[i].at \in Waits => w[i].gen \in Reachable'
    /\ \/ Reachable \subseteq Reachable'
       \/ t = Pipeline /\ \E i \in 1..n : stack[t][i].at \in FinalPlaces

Takes(w) == \A i \in DOMAIN w : w[i].at = "s_take" => i = 1 /\ buf'.queue # <<>>

Inv == Slots /\ AccountInv /\ FinalInv /\ TakeInv

Good(t, n, w) ==
    /\ Move(t, n, w) /\ Fit(t, n, w) /\ World /\ Accounts(Hands(t, n, w)) /\ Finals(t, n, w) /\ Takes(w)
GoodStep(t) == \E n, w : Good(t, n, w)

LEMMA BoundedKept == ASSUME Inv, svc'.config = svc.config, Bounded(buf')
                     PROVE  \/ Duration(buf'.queue) <= svc'.config.maxQueue
                            \/ svc'.config.policy = "block" /\ Len(buf'.queue) = 1
BY DEF Bounded

LEMMA HandsInt == ASSUME NEW t, NEW n, NEW w PROVE Hands(t, n, w) \in Int
BY DEF Hands, Count

LEMMA AccountStep ==
    ASSUME Inv, NEW more \in Int, World, Accounts(more),
           Cardinality(Holding) \in Nat, Cardinality(Holding') = Cardinality(Holding) + more
    PROVE  AccountInv'
<1>1. Len(buf.queue) \in Nat /\ Len(buf'.queue) \in Nat /\ buf.unfinished \in Int /\ buf'.unfinished \in Int
  BY DEF Inv, Slots, TypeInv, Accounts, Buffers
<1>2. buf.unfinished = Len(buf.queue) + Cardinality(Holding)  BY DEF Inv, AccountInv
<1>3. buf'.unfinished - Len(buf'.queue) = (buf.unfinished - Len(buf.queue)) + more  BY DEF Accounts
<1>4. buf'.unfinished = Len(buf'.queue) + Cardinality(Holding')  BY <1>1, <1>2, <1>3
<1>5. buf'.queued = Duration(buf'.queue)  BY DEF Accounts
<1>6. \/ Duration(buf'.queue) <= svc'.config.maxQueue
      \/ svc'.config.policy = "block" /\ Len(buf'.queue) = 1
  BY BoundedKept DEF Accounts, World
<1>7. Duration(buf.queue)' = Duration(buf'.queue)  OBVIOUS
<1> QED  BY <1>4, <1>5, <1>6, <1>7 DEF AccountInv

LEMMA MoveFinal ==
    ASSUME Inv, NEW t \in Tasks, NEW n, NEW w, Move(t, n, w), Finals(t, n, w), TaskInv'
    PROVE  FinalInv'
<1> DEFINE s == stack[t]
           r == Above(w, s, n)
<1>1. s \in Seq(Frames) /\ w \in Seq(Frames) /\ n \in 1..Len(s) /\ n \in 0..Len(s)
  BY DEF Inv, Slots, TypeInv, Move
<1>2. stack' = [stack EXCEPT ![t] = r]  BY DEF Move
<1>3. stack'[t] = r /\ \A u \in Tasks : u # t => stack'[u] = stack[u]
  BY <1>2 DEF Inv, Slots, TypeInv
<1>4. \A i \in DOMAIN r :
        \/ i \in 1..Len(w) /\ i \in DOMAIN w /\ r[i] = w[i]
        \/ \E k \in (n + 1)..Len(s) : i = Len(w) + (k - n) /\ k \in DOMAIN s /\ r[i] = s[k]
  BY <1>1, AboveFrames
<1> HIDE DEF r
<1> SUFFICES ASSUME NEW i \in DOMAIN stack'[Pipeline], stack'[Pipeline][i].at \in Waits
             PROVE  stack'[Pipeline][i].gen \in Reachable'
  BY DEF FinalInv, Waits, Reachable
<1>5. \A k \in DOMAIN stack[Pipeline] :
        stack[Pipeline][k].at \in Waits => stack[Pipeline][k].gen \in Reachable
  BY DEF Inv, FinalInv, Waits, Reachable
<1>6. CASE Pipeline # t
  <2>1. stack'[Pipeline] = stack[Pipeline]  BY <1>3, <1>6, PlacesApart
  <2> QED  BY <2>1, <1>5, <1>6 DEF Finals
<1>7. CASE Pipeline = t
  <2>1. i \in DOMAIN r /\ stack'[Pipeline][i] = r[i]  BY <1>3, <1>7
  <2>2. CASE i \in 1..Len(w) /\ i \in DOMAIN w /\ r[i] = w[i]  BY <2>1, <2>2 DEF Finals
  <2>3. CASE \E k \in (n + 1)..Len(s) : i = Len(w) + (k - n) /\ k \in DOMAIN s /\ r[i] = s[k]
    <3>1. PICK k \in (n + 1)..Len(s) : k \in DOMAIN s /\ r[i] = s[k]  BY <2>3
    <3>2. s[k].at \in Waits /\ s[k].gen \in Reachable  BY <3>1, <2>1, <1>5, <1>7
    <3>3. CASE Reachable \subseteq Reachable'  BY <3>1, <3>2, <3>3, <2>1
    <3>4. CASE \E j \in 1..n : s[j].at \in FinalPlaces
      <4>1. PICK j \in 1..n : s[j].at \in FinalPlaces  BY <3>4
      <4>2. j \in DOMAIN s /\ j # k  BY <1>1, <3>1
      <4>3. AtMostOne(s, FinalPlaces)  BY DEF Inv, Slots, TaskInv
      <4>4. s[k].at \in FinalPlaces  BY <3>2 DEF Waits, FinalPlaces
      <4> QED  BY <4>1, <4>2, <4>3, <4>4, <3>1 DEF AtMostOne
    <3> QED  BY <3>3, <3>4 DEF Finals
  <2> QED  BY <2>1, <2>2, <2>3, <1>4
<1> QED  BY <1>6, <1>7

LEMMA MoveTake ==
    ASSUME Inv, NEW t \in Tasks, NEW n, NEW w, Move(t, n, w), Takes(w)
    PROVE  TakeInv'
<1> DEFINE s == stack[t]
           r == Above(w, s, n)
<1>1. s \in Seq(Frames) /\ w \in Seq(Frames) /\ n \in 1..Len(s) /\ n \in 0..Len(s)
  BY DEF Inv, Slots, TypeInv, Move
<1>2. stack' = [stack EXCEPT ![t] = r]  BY DEF Move
<1>3. stack'[t] = r /\ \A u \in Tasks : u # t => stack'[u] = stack[u]
  BY <1>2 DEF Inv, Slots, TypeInv
<1>4. \A i \in DOMAIN r :
        \/ i \in 1..Len(w) /\ i \in DOMAIN w /\ r[i] = w[i]
        \/ \E k \in (n + 1)..Len(s) : i = Len(w) + (k - n) /\ k \in DOMAIN s /\ r[i] = s[k]
  BY <1>1, AboveFrames
<1> HIDE DEF r
<1> SUFFICES ASSUME NEW u \in Tasks, NEW i \in DOMAIN stack'[u], stack'[u][i].at = "s_take"
             PROVE  i = 1 /\ buf'.queue # <<>>
  BY DEF TakeInv
<1>5. CASE u # t
  <2>1. stack'[u] = stack[u]  BY <1>3, <1>5
  <2>2. i = 1 /\ i \in DOMAIN stack[u] /\ stack[u][i].at = "s_take"  BY <2>1 DEF Inv, TakeInv
  <2>3. stack[u] # <<>> /\ Head(stack[u]).at = "s_take"
    <3>1. stack[u] \in Seq(Frames)  BY DEF Inv, Slots, TypeInv
    <3> QED  BY <2>2, <3>1
  <2>4. running = u  BY <2>3 DEF Inv, Slots, TaskInv, Awaits
  <2> QED  BY <2>4, <1>5, PlacesApart DEF Move
<1>6. CASE u = t
  <2>1. i \in DOMAIN r /\ r[i].at = "s_take"  BY <1>3, <1>6
  <2>2. CASE i \in 1..Len(w) /\ i \in DOMAIN w /\ r[i] = w[i]  BY <2>1, <2>2 DEF Takes
  <2>3. CASE \E k \in (n + 1)..Len(s) : i = Len(w) + (k - n) /\ k \in DOMAIN s /\ r[i] = s[k]
    <3>1. PICK k \in (n + 1)..Len(s) : k \in DOMAIN s /\ r[i] = s[k]  BY <2>3
    <3>2. k = 1  BY <3>1, <2>1 DEF Inv, TakeInv
    <3> QED  BY <3>1, <3>2, <1>1
  <2> QED  BY <2>1, <2>2, <2>3, <1>4
<1> QED  BY <1>5, <1>6

LEMMA GoodStepKeeps == ASSUME Inv, NEW t \in Tasks, GoodStep(t) PROVE Inv'
<1>1. PICK n, w : Good(t, n, w)  BY DEF GoodStep
<1>2. Move(t, n, w) /\ Fit(t, n, w) /\ World /\ Accounts(Hands(t, n, w)) /\ Finals(t, n, w) /\ Slots
      /\ Takes(w)
  BY <1>1 DEF Good, Inv
<1>3. TaskInv' /\ stack' \in [Tasks -> Seq(Frames)] /\ running' \in Tasks \cup {NoTask}
  BY <1>2, MoveTask DEF World
<1>4. Cardinality(Holding') = Cardinality(Holding) + Hands(t, n, w)  BY <1>2, <1>3, MoveHolding
<1>5. Cardinality(Holding) \in Nat  BY HoldingFinite
<1>6. AccountInv'  BY <1>2, <1>4, <1>5, AccountStep, HandsInt
<1>7. FinalInv'  BY <1>2, <1>3, MoveFinal
<1>8. TypeInv'  BY <1>2, <1>3 DEF TypeInv, World, Accounts
<1>9. TakeInv'  BY <1>2, MoveTake
<1> QED  BY <1>3, <1>6, <1>7, <1>8, <1>9 DEF Inv, Slots

\* Steps that leave every task where it is.
LEMMA StandStepKeeps ==
    ASSUME Inv, stack' = stack, running' = running, World, Accounts(0), Reachable \subseteq Reachable',
           running = NoTask \/ buf' = buf
    PROVE  Inv'
<1>1. TypeInv'  BY DEF Inv, Slots, TypeInv, World, Accounts
<1>2. TaskInv'  BY DEF Inv, Slots, TaskInv, Inside, World
<1>3. Holding' = Holding  BY DEF Holding, Inside
<1>4. Cardinality(Holding) \in Nat  BY HoldingFinite
<1>5. AccountInv'
  <2>1. Cardinality(Holding') = Cardinality(Holding) + 0  BY <1>3, <1>4
  <2>2. 0 \in Int  OBVIOUS
  <2> QED  BY <2>1, <2>2, <1>4, AccountStep
<1>6. FinalInv'  BY DEF Inv, FinalInv, Reachable
<1>7. TakeInv'
  <2>1. CASE buf' = buf  BY <2>1 DEF Inv, TakeInv
  <2>2. CASE running = NoTask
    <3> SUFFICES ASSUME NEW t \in Tasks, NEW i \in DOMAIN stack[t], stack[t][i].at = "s_take"
                 PROVE  FALSE
      BY DEF TakeInv
    <3>1. i = 1 /\ stack[t] \in Seq(Frames)  BY DEF Inv, Slots, TypeInv, TakeInv
    <3>2. stack[t] # <<>> /\ Head(stack[t]).at = "s_take"  BY <3>1
    <3>3. running = t  BY <3>2 DEF Inv, Slots, TaskInv, Awaits
    <3> QED  BY <3>3, <2>2, PlacesApart
  <2> QED  BY <2>1, <2>2
<1> QED  BY <1>1, <1>2, <1>5, <1>6, <1>7 DEF Inv, Slots

-----------------------------------------------------------------------------
(* Induction, and the duration of a queue                                  *)

\* A set of naturals that is not empty has a least element: how all inductions
\* below are done.
LEMMA LeastNat == ASSUME NEW T, T \subseteq Nat, T # {}
                  PROVE  \E x \in T : \A y \in T : x <= y
<1> DEFINE R == {ss \in Nat \X Nat : ss[1] < ss[2]}
<1>1. IsWellFoundedOn(R, Nat)  BY NatLessThanWellFounded DEF OpToRel
<1> HIDE DEF R
<1>2. PICK x \in T : \A y \in T : ~(<<y, x>> \in R)  BY <1>1, WFMin
<1>3. ASSUME NEW y \in T PROVE x <= y
  <2>1. x \in Nat /\ y \in Nat  OBVIOUS
  <2>2. ~(y < x)  BY <1>2, <2>1 DEF R
  <2> QED  BY <2>1, <2>2
<1> QED  BY <1>3

Longest(s) == CHOOSE x \in s : \A y \in s : x >= y
Folds(g, q, n) ==
    g = [s \in SUBSET (1..n) |->
            IF s = {} THEN 0 ELSE g[s \ {Longest(s)}] + Len(q[Longest(s)].frames)]

LEMMA DurationIsFold ==
    ASSUME NEW q \in Seq(Chunk)
    PROVE  Duration(q) = (CHOOSE g : Folds(g, q, Len(q)))[1..Len(q)]
<1>1. DOMAIN q = 1..Len(q)  OBVIOUS
<1> QED  BY <1>1 DEF Duration, FoldLeft, MapThenFoldSet, Folds, Longest, Max

LEMMA LongestIs == ASSUME NEW n \in Nat, NEW s \in SUBSET (1..n), n \in s PROVE Longest(s) = n
<1>1. \A y \in s : n >= y  OBVIOUS
<1>2. \A x \in s : (\A y \in s : x >= y) => x = n  BY <1>1
<1> QED  BY <1>1, <1>2 DEF Longest

LEMMA FoldExists == ASSUME NEW q PROVE \A n \in Nat : \E g : Folds(g, q, n)
<1> DEFINE T == {n \in Nat : ~\E g : Folds(g, q, n)}
<1> SUFFICES ASSUME T # {} PROVE FALSE  OBVIOUS
<1>1. PICK n \in T : \A m \in T : n <= m  BY LeastNat
<1>2. CASE n = 0
  <2> DEFINE g == [s \in SUBSET (1..0) |-> 0]
  <2>1. \A s \in SUBSET (1..0) : s = {}  OBVIOUS
  <2>2. Folds(g, q, 0)  BY <2>1 DEF Folds
  <2> QED  BY <2>2, <1>2
<1>3. CASE n # 0
  <2>1. n \in Nat /\ n - 1 \in Nat /\ n - 1 \notin T  BY <1>1, <1>3
  <2>2. PICK g : Folds(g, q, n - 1)  BY <2>1
  <2> DEFINE h == [s \in SUBSET (1..n) |->
                     IF n \in s THEN g[s \ {n}] + Len(q[n].frames) ELSE g[s]]
  <2>3. ASSUME NEW s \in SUBSET (1..n)
        PROVE  h[s] = IF s = {} THEN 0 ELSE h[s \ {Longest(s)}] + Len(q[Longest(s)].frames)
    <3>1. CASE n \in s
      <4>1. Longest(s) = n  BY <3>1, <2>1, LongestIs
      <4>2. s \ {n} \in SUBSET (1..n) /\ n \notin s \ {n}  OBVIOUS
      <4>3. h[s] = g[s \ {n}] + Len(q[n].frames)  BY <3>1
      <4>4. h[s \ {n}] = g[s \ {n}]  BY <4>2
      <4> QED  BY <3>1, <4>1, <4>3, <4>4
    <3>2. CASE n \notin s
      <4>1. s \in SUBSET (1..(n - 1))  BY <3>2, <2>1
      <4>2. h[s] = g[s]  BY <3>2
      <4>3. g[s] = IF s = {} THEN 0 ELSE g[s \ {Longest(s)}] + Len(q[Longest(s)].frames)
        BY <4>1, <2>2 DEF Folds
      <4>4. s \ {Longest(s)} \in SUBSET (1..n) /\ n \notin s \ {Longest(s)}  BY <3>2
      <4>5. h[s \ {Longest(s)}] = g[s \ {Longest(s)}]  BY <4>4
      <4> QED  BY <4>2, <4>3, <4>5
    <3> QED  BY <3>1, <3>2
  <2>4. h = [s \in SUBSET (1..n) |->
               IF s = {} THEN 0 ELSE h[s \ {Longest(s)}] + Len(q[Longest(s)].frames)]
    BY <2>3
  <2>5. Folds(h, q, n)  BY <2>4 DEF Folds
  <2> QED  BY <2>5
<1> QED  BY <1>2, <1>3

\* The running total of a queue.
Totals(p, q) ==
    /\ p \in [0..Len(q) -> Nat] /\ p[0] = 0
    /\ \A k \in 1..Len(q) : p[k] = p[k - 1] + Len(q[k].frames)

LEMMA LenNat == ASSUME NEW q \in Seq(Chunk), NEW k \in 1..Len(q) PROVE Len(q[k].frames) \in Nat
<1>1. q[k] \in Chunk  OBVIOUS
<1>2. q[k].frames \in Seq(Nat)  BY <1>1 DEF Chunk
<1> QED  BY <1>2

LEMMA DurationTotals == ASSUME NEW q \in Seq(Chunk)
                        PROVE  \E p : Totals(p, q) /\ Duration(q) = p[Len(q)]
<1> DEFINE n == Len(q)
<1>0. n \in Nat  OBVIOUS
<1>1. \E g : Folds(g, q, n)  BY <1>0, FoldExists
<1> DEFINE g == CHOOSE g : Folds(g, q, n)
<1>2. Folds(g, q, n)  BY <1>1
<1>3. Duration(q) = g[1..n]  BY DurationIsFold
<1> HIDE DEF g
<1> DEFINE p == [k \in 0..n |-> g[1..k]]
<1>4. ASSUME NEW k \in 1..n PROVE g[1..k] = g[1..(k - 1)] + Len(q[k].frames)
  <2>1. 1..k \in SUBSET (1..n) /\ k \in 1..k /\ 1..k # {}  BY <1>0
  <2>2. Longest(1..k) = k  BY <2>1, LongestIs
  <2>3. (1..k) \ {k} = 1..(k - 1)  OBVIOUS
  <2> QED  BY <1>2, <2>1, <2>2, <2>3 DEF Folds
<1>5. g[1..0] = 0
  <2>1. 1..0 = {} /\ {} \in SUBSET (1..n)  OBVIOUS
  <2> QED  BY <2>1, <1>2 DEF Folds
<1>6. \A k \in 0..n : g[1..k] \in Nat
  <2> DEFINE T == {k \in 0..n : g[1..k] \notin Nat}
  <2> SUFFICES ASSUME T # {} PROVE FALSE  OBVIOUS
  <2>0. T \subseteq Nat  BY <1>0
  <2>1. PICK k \in T : \A m \in T : k <= m  BY <2>0, LeastNat
  <2>2. k # 0  BY <1>5, <2>1
  <2>3. k - 1 \in 0..n /\ k - 1 \notin T /\ k \in 1..n  BY <2>1, <2>2, <1>0
  <2>4. g[1..(k - 1)] \in Nat  BY <2>3
  <2>5. Len(q[k].frames) \in Nat  BY <2>3, LenNat
  <2>6. g[1..k] = g[1..(k - 1)] + Len(q[k].frames)  BY <2>3, <1>4
  <2> QED  BY <2>4, <2>5, <2>6
<1>7. p \in [0..n -> Nat] /\ p[0] = 0  BY <1>0, <1>5, <1>6
<1>8. ASSUME NEW k \in 1..n PROVE p[k] = p[k - 1] + Len(q[k].frames)
  <2>1. k \in 0..n /\ k - 1 \in 0..n  BY <1>0
  <2> QED  BY <2>1, <1>4
<1>9. p[n] = Duration(q)  BY <1>0, <1>3
<1> QED  BY <1>7, <1>8, <1>9 DEF Totals

\* Totals of queues that begin alike are alike.
LEMMA TotalsAgree ==
    ASSUME NEW q \in Seq(Chunk), NEW r \in Seq(Chunk), NEW p, NEW o, Totals(p, q), Totals(o, r),
           NEW n \in Nat, n <= Len(q), n <= Len(r),
           \A k \in 1..n : Len(q[k].frames) = Len(r[k].frames)
    PROVE  \A k \in 0..n : p[k] = o[k]
<1> DEFINE T == {k \in 0..n : p[k] # o[k]}
<1> SUFFICES ASSUME T # {} PROVE FALSE  OBVIOUS
<1>0. T \subseteq Nat /\ Len(q) \in Nat /\ Len(r) \in Nat  OBVIOUS
<1>1. PICK k \in T : \A m \in T : k <= m  BY <1>0, LeastNat
<1>2. p[0] = 0 /\ o[0] = 0  BY DEF Totals
<1>3. k # 0  BY <1>1, <1>2
<1>4. k - 1 \in 0..n /\ k - 1 \notin T /\ k \in 1..n  BY <1>0, <1>1, <1>3
<1>5. k \in 1..Len(q) /\ k \in 1..Len(r)  BY <1>0, <1>4
<1>6. p[k] = p[k - 1] + Len(q[k].frames) /\ o[k] = o[k - 1] + Len(r[k].frames)
  BY <1>5 DEF Totals
<1>7. p[k - 1] = o[k - 1] /\ Len(q[k].frames) = Len(r[k].frames)  BY <1>4
<1> QED  BY <1>1, <1>6, <1>7

LEMMA DurationNat == ASSUME NEW q \in Seq(Chunk) PROVE Duration(q) \in Nat
<1>1. PICK p : Totals(p, q) /\ Duration(q) = p[Len(q)]  BY DurationTotals
<1>2. Len(q) \in 0..Len(q)  OBVIOUS
<1> QED  BY <1>1, <1>2 DEF Totals

LEMMA DurationEmpty == Duration(<<>>) = 0
<1>1. <<>> \in Seq(Chunk)  OBVIOUS
<1>2. PICK p : Totals(p, <<>>) /\ Duration(<<>>) = p[Len(<<>>)]  BY <1>1, DurationTotals
<1> QED  BY <1>2 DEF Totals

LEMMA DurationAppend ==
    ASSUME NEW q \in Seq(Chunk), NEW c \in Chunk
    PROVE  Duration(Append(q, c)) = Duration(q) + Len(c.frames)
<1> DEFINE r == Append(q, c)
           n == Len(q)
<1>1. /\ r \in Seq(Chunk) /\ Len(r) = n + 1 /\ n \in Nat /\ n = Len(q)
      /\ r[n + 1] = c /\ \A k \in 1..n : r[k] = q[k]
  OBVIOUS
<1> HIDE DEF n, r
<1>2. PICK p : Totals(p, q) /\ Duration(q) = p[n]  BY <1>1, DurationTotals
<1>3. PICK o : Totals(o, r) /\ Duration(r) = o[n + 1]  BY <1>1, DurationTotals
<1>4. \A k \in 1..n : Len(q[k].frames) = Len(r[k].frames)  BY <1>1
<1>5. n <= Len(q) /\ n <= Len(r)  BY <1>1
<1>6. \A k \in 0..n : p[k] = o[k]  BY <1>1, <1>2, <1>3, <1>4, <1>5, TotalsAgree
<1>7. p[n] = o[n]  BY <1>1, <1>6
<1>8. n + 1 \in 1..Len(r)  BY <1>1
<1>9. o[n + 1] = o[(n + 1) - 1] + Len(r[n + 1].frames)  BY <1>3, <1>8 DEF Totals
<1>10. (n + 1) - 1 = n  BY <1>1
<1> QED  BY <1>1, <1>2, <1>3, <1>7, <1>9, <1>10 DEF r

LEMMA DurationConcat ==
    ASSUME NEW q \in Seq(Chunk)
    PROVE  \A r \in Seq(Chunk) : Duration(q \o r) = Duration(q) + Duration(r)
<1> DEFINE T == {n \in Nat : \E r \in Seq(Chunk) : Len(r) = n /\ Duration(q \o r) # Duration(q) + Duration(r)}
<1> SUFFICES ASSUME T # {} PROVE FALSE
  <2>1. \A r \in Seq(Chunk) : Len(r) \in Nat  OBVIOUS
  <2> QED  BY <2>1
<1>1. T \subseteq Nat  OBVIOUS
<1>2. PICK n \in T : \A m \in T : n <= m  BY <1>1, LeastNat
<1>3. PICK r \in Seq(Chunk) : Len(r) = n /\ Duration(q \o r) # Duration(q) + Duration(r)  BY <1>2
<1>4. CASE r = <<>>
  <2>1. q \o r = q  BY <1>4
  <2> QED  BY <2>1, <1>3, <1>4, DurationEmpty, DurationNat
<1>5. CASE r # <<>>
  <2>1. PICK s \in Seq(Chunk), c \in Chunk : r = Append(s, c)  BY <1>5, SequenceEmptyOrAppend
  <2>2. Len(s) \in Nat /\ Len(s) < n  BY <2>1, <1>3
  <2>3. Len(s) \notin T  BY <2>2, <1>2
  <2>4. Duration(q \o s) = Duration(q) + Duration(s)  BY <2>2, <2>3
  <2>5. q \o r = Append(q \o s, c) /\ q \o s \in Seq(Chunk)  BY <2>1
  <2>6. Duration(q \o r) = Duration(q \o s) + Len(c.frames)  BY <2>5, DurationAppend
  <2>7. Duration(r) = Duration(s) + Len(c.frames)  BY <2>1, DurationAppend
  <2>8. Len(c.frames) \in Nat  BY DEF Chunk
  <2>9. Duration(q) \in Nat /\ Duration(s) \in Nat  BY DurationNat
  <2> QED  BY <1>3, <2>4, <2>6, <2>7, <2>8, <2>9
<1> QED  BY <1>4, <1>5

LEMMA DurationTail ==
    ASSUME NEW q \in Seq(Chunk), q # <<>>
    PROVE  Duration(q) = Len(Head(q).frames) + Duration(Tail(q))
<1>1. Head(q) \in Chunk /\ Tail(q) \in Seq(Chunk)  OBVIOUS
<1>2. <<Head(q)>> \in Seq(Chunk) /\ q = <<Head(q)>> \o Tail(q)  BY <1>1
<1>3. <<>> \in Seq(Chunk) /\ <<Head(q)>> = Append(<<>>, Head(q))  OBVIOUS
<1>4. Duration(<<Head(q)>>) = 0 + Len(Head(q).frames)  BY <1>1, <1>3, DurationAppend, DurationEmpty
<1>5. Len(Head(q).frames) \in Nat  BY <1>1 DEF Chunk
<1>6. Duration(<<Head(q)>> \o Tail(q)) = Duration(<<Head(q)>>) + Duration(Tail(q))
  BY <1>1, <1>2, DurationConcat
<1>7. Duration(<<Head(q)>>) = Len(Head(q).frames)  BY <1>4, <1>5
<1>8. Duration(q) = Duration(<<Head(q)>> \o Tail(q))  BY <1>2
<1> QED  BY <1>6, <1>7, <1>8

LEMMA DurationSplit ==
    ASSUME NEW q \in Seq(Chunk), NEW n \in 0..Len(q)
    PROVE  /\ SubSeq(q, n + 1, Len(q)) \in Seq(Chunk) /\ SubSeq(q, 1, n) \in Seq(Chunk)
           /\ Len(SubSeq(q, n + 1, Len(q))) = Len(q) - n
           /\ Duration(q) = Duration(SubSeq(q, 1, n)) + Duration(SubSeq(q, n + 1, Len(q)))
<1> DEFINE a == SubSeq(q, 1, n)
           b == SubSeq(q, n + 1, Len(q))
<1>0. Len(q) \in Nat /\ n \in Nat  OBVIOUS
<1>1. a \in Seq(Chunk) /\ b \in Seq(Chunk)  BY <1>0
<1>2. Len(a) = n /\ Len(b) = Len(q) - n  BY <1>0
<1>3. a \o b = q
  <2>1. 1 \in 1..(Len(q) + 1) /\ n \in (1 - 1)..Len(q) /\ Len(q) \in n..Len(q)  BY <1>0
  <2>2. SubSeq(q, 1, n) \o SubSeq(q, n + 1, Len(q)) = SubSeq(q, 1, Len(q))  BY <2>1, ConcatAdjacentSubSeq
  <2> QED  BY <2>2, SubSeqFull
<1>4. Duration(a \o b) = Duration(a) + Duration(b)  BY <1>1, DurationConcat
<1> QED  BY <1>1, <1>2, <1>3, <1>4

-----------------------------------------------------------------------------
(* The shapes of a move                                                    *)

LEMMA StackTyped == ASSUME Slots, NEW t \in Tasks, stack[t] # <<>>
                    PROVE  /\ stack[t] \in Seq(Frames) /\ Frame(t) \in Frames /\ Callers(t) \in Seq(Frames)
                           /\ Frame(t) = stack[t][1] /\ 1 \in DOMAIN stack[t]
<1>1. stack[t] \in Seq(Frames)  BY DEF Slots, TypeInv
<1> QED  BY <1>1 DEF Frame, Callers

LEMMA Nonempty == ASSUME NEW t, NEW l, Wakes(t, l) \/ Runs(t, l)
                  PROVE  /\ stack[t] # <<>> /\ Frame(t).at = l
                         /\ running \in {t, NoTask}
BY DEF Wakes, Runs, IsAt, Frame

LEMMA BecomesMove ==
    ASSUME Slots, NEW t \in Tasks, running \in {t, NoTask}, NEW n \in 1..Len(stack[t]), NEW w \in Seq(Frames),
           Becomes(t, Above(w, stack[t], n))
    PROVE  Move(t, n, w)
<1>1. stack' = [stack EXCEPT ![t] = Above(w, stack[t], n)]  BY DEF Becomes
<1>2. stack'[t] = Above(w, stack[t], n)  BY <1>1 DEF Slots, TypeInv
<1>3. running' = IF Head(stack'[t]).at \in Awaits THEN NoTask ELSE t  BY <1>2 DEF Becomes
<1> QED  BY <1>1, <1>3 DEF Move

\* The innermost frame gives way to others.
LEMMA PushMove ==
    ASSUME Slots, NEW t \in Tasks, running \in {t, NoTask}, stack[t] # <<>>, NEW w \in Seq(Frames),
           Becomes(t, w \o Callers(t))
    PROVE  Move(t, 1, w)
<1>1. stack[t] \in Seq(Frames)  BY DEF Slots, TypeInv
<1>2. w \o Tail(stack[t]) = Above(w, stack[t], 1) /\ 1 \in 1..Len(stack[t])  BY <1>1, AboveTail
<1> QED  BY <1>2, BecomesMove DEF Callers

LEMMA GotoMove ==
    ASSUME Slots, NEW t \in Tasks, running \in {t, NoTask}, stack[t] # <<>>, NEW f \in Frames, Goto(t, f)
    PROVE  Move(t, 1, <<f>>)
<1>1. <<f>> \in Seq(Frames)  OBVIOUS
<1> QED  BY <1>1, PushMove DEF Goto

LEMMA CallMove ==
    ASSUME Slots, NEW t \in Tasks, running \in {t, NoTask}, stack[t] # <<>>, NEW f \in Frames,
           NEW g \in Frames, Call(t, g, f)
    PROVE  Move(t, 1, <<g, f>>)
<1>1. <<g, f>> \in Seq(Frames)  OBVIOUS
<1> QED  BY <1>1, PushMove DEF Call

LEMMA ReturnMove ==
    ASSUME Slots, NEW t \in Tasks, running \in {t, NoTask}, stack[t] # <<>>, Return(t)
    PROVE  Move(t, 1, <<>>)
<1>1. <<>> \in Seq(Frames)  OBVIOUS
<1>2. Callers(t) \in Seq(Frames)  BY StackTyped
<1>3. <<>> \o Callers(t) = Callers(t)  BY <1>2, ConcatEmptySeq
<1> QED  BY <1>1, <1>3, PushMove DEF Return

\* The innermost frame and its caller give way to others.
LEMMA UnwindMove ==
    ASSUME Slots, NEW t \in Tasks, running \in {t, NoTask}, stack[t] # <<>>, Callers(t) # <<>>,
           NEW w \in Seq(Frames), Becomes(t, w \o Tail(Callers(t)))
    PROVE  Move(t, 2, w)
<1>1. stack[t] \in Seq(Frames)  BY DEF Slots, TypeInv
<1>2. w \o Tail(Tail(stack[t])) = Above(w, stack[t], 2) /\ 2 \in 1..Len(stack[t])
  BY <1>1, AboveTailTail DEF Callers
<1> QED  BY <1>2, BecomesMove DEF Callers

\* The whole stack does.
LEMMA WholeMove ==
    ASSUME Slots, NEW t \in Tasks, running \in {t, NoTask}, stack[t] # <<>>, NEW w \in Seq(Frames), Becomes(t, w)
    PROVE  Move(t, Len(stack[t]), w)
<1>1. stack[t] \in Seq(Frames) /\ Len(stack[t]) \in 1..Len(stack[t])  BY DEF Slots, TypeInv
<1>2. w = Above(w, stack[t], Len(stack[t]))  BY <1>1, AboveAll
<1> QED  BY <1>1, <1>2, BecomesMove

LEMMA EndsMove ==
    ASSUME Slots, NEW t \in Tasks, running \in {t, NoTask}, stack[t] # <<>>, NEW r, Ends(t, r)
    PROVE  Move(t, Len(stack[t]), <<>>)
<1>1. stack[t] \in Seq(Frames) /\ Len(stack[t]) \in 1..Len(stack[t])  BY DEF Slots, TypeInv
<1>2. <<>> \in Seq(Frames)  OBVIOUS
<1>3. <<>> = Above(<<>>, stack[t], Len(stack[t]))  BY <1>1, <1>2, AboveAll
<1>4. stack' = [stack EXCEPT ![t] = Above(<<>>, stack[t], Len(stack[t]))]  BY <1>3 DEF Ends
<1>5. stack'[t] = <<>>  BY DEF Ends, Slots, TypeInv
<1>6. running' = NoTask  BY DEF Ends
<1> QED  BY <1>1, <1>2, <1>4, <1>5, <1>6 DEF Move

\* Most steps: no frame of any kind comes, no chunk in hand goes, and the queue is
\* what it was or is cleared.
Emptied(b) == [Cleared(b) EXCEPT !.preroll = <<>>, !.aggregate = <<>>]
SameQueue == /\ buf' \in Buffers /\ buf'.queue = buf.queue /\ buf'.queued = buf.queued
             /\ buf'.unfinished = buf.unfinished
Eases == SameQueue \/ buf' = Emptied(buf)
Calm(t, n, w) ==
    /\ Move(t, n, w) /\ Fit(t, n, w) /\ Finals(t, n, w)
    /\ Takes(w) /\ ~Has(w, Held) /\ \A i \in 1..n : stack[t][i].at \notin Held
Quiet(t, n, w) ==
    /\ Move(t, n, w) /\ w \in Seq(QuietFrames) /\ \A i \in 1..n : stack[t][i].at \notin Held
QuietStep(t) == (\E n, w : Quiet(t, n, w)) /\ World /\ Eases /\ Reachable \subseteq Reachable'

LEMMA EasesAccounts == ASSUME Inv, Eases PROVE Accounts(0)
<1>1. /\ buf.queue \in Seq(Chunk) /\ buf \in Buffers
      /\ buf.queued = Duration(buf.queue) /\ Len(buf.queue) \in Nat /\ buf.unfinished \in Int
  BY DEF Inv, Slots, TypeInv, AccountInv, Buffers
<1>2. CASE SameQueue
  <2>1. Bounded(buf')
    <3>1. Duration(buf'.queue) = Duration(buf.queue)  BY <1>2 DEF SameQueue
    <3>2. Len(buf'.queue) = Len(buf.queue)  BY <1>2 DEF SameQueue
    <3> QED  BY <3>1, <3>2 DEF Bounded, Inv, AccountInv
  <2>2. buf'.queued = Duration(buf'.queue)  BY <1>1, <1>2 DEF SameQueue
  <2>3. buf'.unfinished - Len(buf'.queue) = (buf.unfinished - Len(buf.queue)) + 0  BY <1>1, <1>2 DEF SameQueue
  <2> QED  BY <1>2, <2>1, <2>2, <2>3 DEF Accounts, SameQueue
<1>3. CASE buf' = Emptied(buf)
  <2>1. Duration(buf.queue) \in Nat  BY <1>1, DurationNat
  <2>2. /\ buf'.queue = <<>> /\ buf'.queued = Less(buf.queued, Duration(buf.queue))
        /\ buf'.unfinished = buf.unfinished - Len(buf.queue)
        /\ buf'.aggregate = <<>> /\ buf'.preroll = <<>>
    BY <1>1, <1>3 DEF Emptied, Cleared, Buffers
  <2>3. buf'.queued = 0  BY <1>1, <2>1, <2>2 DEF Less
  <2>4. buf'.queued = Duration(buf'.queue)  BY <2>2, <2>3, DurationEmpty
  <2>5. buf' \in Buffers
    <3>1. <<>> \in Seq(Chunk) /\ <<>> \in Seq(Nat)  OBVIOUS
    <3>2. buf.unfinished - Len(buf.queue) \in Int /\ Less(buf.queued, Duration(buf.queue)) \in Nat
      BY <1>1, <2>2, <2>3
    <3> QED  BY <1>1, <1>3, <3>1, <3>2 DEF Emptied, Cleared, Buffers
  <2>6. Len(buf'.queue) = 0  BY <2>2
  <2>7. Bounded(buf')
    <3>1. svc.config.maxQueue \in Nat  BY DEF Inv, Slots, TypeInv, Service, Config
    <3> QED  BY <2>2, <3>1, DurationEmpty DEF Bounded
  <2> QED  BY <1>1, <2>2, <2>4, <2>5, <2>6, <2>7 DEF Accounts
<1> QED  BY <1>2, <1>3 DEF Eases

LEMMA CalmStep == ASSUME Inv, NEW t, NEW n, NEW w, Calm(t, n, w), World, Accounts(0) PROVE GoodStep(t)
<1>1. Hands(t, n, w) = 0  BY DEF Calm, Hands, Count
<1> QED  BY <1>1 DEF Calm, Good, GoodStep

LEMMA QuietCalm == ASSUME Inv, NEW t, QuietStep(t) PROVE GoodStep(t)
<1>1. PICK n, w : Quiet(t, n, w)  BY DEF QuietStep
<1>2. World /\ Eases /\ Reachable \subseteq Reachable'  BY DEF QuietStep
<1>3. \A i \in DOMAIN w : w[i].at \notin Special  BY <1>1, QuietSeq DEF Quiet
<1>4. \A C \in Classes : C \subseteq Special  BY DEF Classes, Special
<1>5. Held \subseteq Special /\ Waits \subseteq Special
  BY DEF Held, Waits, Special, SendPlaces, AudioPlaces, FinalPlaces
<1>6. Fit(t, n, w)  BY <1>3, <1>4 DEF Fit, AtMostOne, Has
<1>7. ~Has(w, Held)  BY <1>3, <1>5 DEF Has
<1>8. Finals(t, n, w)  BY <1>2, <1>3, <1>5 DEF Finals
<1>9. Takes(w)  BY <1>3 DEF Takes, Special, SendPlaces
<1>10. Accounts(0)  BY <1>2, EasesAccounts
<1> QED  BY <1>1, <1>2, <1>6, <1>7, <1>8, <1>9, <1>10, CalmStep DEF Calm, Quiet

-----------------------------------------------------------------------------
(* Quiet steps                                                             *)

Unmoved == World /\ Eases /\ Reachable \subseteq Reachable'

LEMMA WorldKept ==
    ASSUME Inv, svc' \in Service, svc'.config = svc.config, conn' = conn, budget' = budget PROVE World
BY DEF Inv, Slots, TypeInv, World

LEMMA WorldSame == ASSUME Inv, svc' = svc, conn' = conn, budget' = budget PROVE World
BY WorldKept DEF Inv, Slots, TypeInv

LEMMA EasesSame == ASSUME Inv, buf' = buf PROVE Eases
BY DEF Eases, SameQueue, Inv, Slots, TypeInv

LEMMA FinalsSame == ASSUME waiters' = waiters, finalSet' = finalSet PROVE Reachable \subseteq Reachable'
BY DEF Reachable

LEMMA Still == ASSUME Inv, UNCHANGED <<svc, buf, waiters, finalSet, conn, budget>> PROVE Unmoved
BY WorldSame, EasesSame, FinalsSame DEF Unmoved

LEMMA QuietPush ==
    ASSUME Inv, NEW t \in Tasks, NEW l, Wakes(t, l) \/ Runs(t, l), l \notin Held, Unmoved,
           NEW w \in Seq(QuietFrames), Becomes(t, w \o Callers(t))
    PROVE  QuietStep(t)
<1>1. w \in Seq(Frames)  BY QuietSeq
<1>2. stack[t] # <<>> /\ Frame(t).at = l /\ running \in {t, NoTask}  BY Nonempty
<1>3. Move(t, 1, w)  BY <1>1, <1>2, PushMove DEF Inv
<1>4. stack[t][1].at = l  BY <1>2, StackTyped DEF Inv
<1>5. \A i \in 1..1 : stack[t][i].at \notin Held  BY <1>4
<1> QED  BY <1>3, <1>5 DEF Quiet, QuietStep, Unmoved

LEMMA QuietGoto ==
    ASSUME Inv, NEW t \in Tasks, NEW l, Wakes(t, l) \/ Runs(t, l), l \notin Held, Unmoved,
           NEW f \in QuietFrames, Goto(t, f)
    PROVE  QuietStep(t)
<1>1. <<f>> \in Seq(QuietFrames)  OBVIOUS
<1> QED  BY <1>1, QuietPush DEF Goto

LEMMA QuietCall ==
    ASSUME Inv, NEW t \in Tasks, NEW l, Wakes(t, l) \/ Runs(t, l), l \notin Held, Unmoved,
           NEW f \in QuietFrames, NEW g \in QuietFrames, Call(t, g, f)
    PROVE  QuietStep(t)
<1>1. <<g, f>> \in Seq(QuietFrames)  OBVIOUS
<1> QED  BY <1>1, QuietPush DEF Call

LEMMA QuietReturn ==
    ASSUME Inv, NEW t \in Tasks, NEW l, Wakes(t, l) \/ Runs(t, l), l \notin Held, Unmoved, Return(t)
    PROVE  QuietStep(t)
<1>1. <<>> \in Seq(QuietFrames)  OBVIOUS
<1>2. Callers(t) \in Seq(Frames)  BY Nonempty, StackTyped DEF Inv
<1>3. <<>> \o Callers(t) = Callers(t)  BY <1>2, ConcatEmptySeq
<1> QED  BY <1>1, <1>3, QuietPush DEF Return

LEMMA QuietEnds ==
    ASSUME Inv, NEW t \in Tasks, NEW l, Wakes(t, l) \/ Runs(t, l), ~Inside(t, Held), Unmoved,
           NEW r, Ends(t, r)
    PROVE  QuietStep(t)
<1>1. <<>> \in Seq(QuietFrames)  OBVIOUS
<1>2. stack[t] # <<>> /\ running \in {t, NoTask}  BY Nonempty
<1>3. Move(t, Len(stack[t]), <<>>)  BY <1>2, EndsMove DEF Inv
<1>4. DOMAIN stack[t] = 1..Len(stack[t])  BY DEF Inv, Slots, TypeInv
<1>5. \A i \in 1..Len(stack[t]) : stack[t][i].at \notin Held  BY <1>4 DEF Inside
<1> QED  BY <1>1, <1>3, <1>5 DEF Quiet, QuietStep, Unmoved

LEMMA QuietWhole ==
    ASSUME Inv, NEW t \in Tasks, NEW l, Wakes(t, l) \/ Runs(t, l), ~Inside(t, Held), Unmoved,
           NEW w \in Seq(QuietFrames), Becomes(t, w)
    PROVE  QuietStep(t)
<1>1. w \in Seq(Frames)  BY QuietSeq
<1>2. stack[t] # <<>> /\ running \in {t, NoTask}  BY Nonempty
<1>3. Move(t, Len(stack[t]), w)  BY <1>1, <1>2, WholeMove DEF Inv
<1>4. DOMAIN stack[t] = 1..Len(stack[t])  BY DEF Inv, Slots, TypeInv
<1>5. \A i \in 1..Len(stack[t]) : stack[t][i].at \notin Held  BY <1>4 DEF Inside
<1> QED  BY <1>3, <1>5 DEF Quiet, QuietStep, Unmoved

LEMMA QuietAt == ASSUME NEW l \in QuietPlaces PROVE At(l) \in QuietFrames
BY DEF At, QuietFrames

LEMMA QuietRaise == ASSUME NEW e \in {"error", "cancelled"} PROVE [at |-> "raise", exc |-> e] \in QuietFrames
BY DEF QuietFrames

LEMMA RaiseQuiet ==
    ASSUME Inv, NEW t \in Tasks, NEW l, Wakes(t, l) \/ Runs(t, l), l \notin Held, Unmoved,
           NEW e \in {"error", "cancelled"}, Raise(t, e)
    PROVE  QuietStep(t)
BY QuietRaise, QuietGoto DEF Raise

\* Only send loops hold chunks.
LEMMA EmptyHanded == ASSUME Inv, NEW t \in Tasks, \A k \in Conns : t # SendTask(k) PROVE ~Inside(t, Held)
<1>1. Inside(t, Held) => Inside(t, SendPlaces)  BY DEF Inside, Held, SendPlaces
<1> QED  BY <1>1 DEF Inv, Slots, TaskInv

\* Fields of a frame.
LEMMA SendFields == ASSUME NEW f \in Frames, f.at \in {"send", "sending", "send_again"} PROVE f \in SendFrames
BY DEF Frames, QuietFrames, QuietPlaces, LoopFrames, AudioFrames, FinalFrames, SendPlaces, FinalPlaces,
       CloseFrames

LEMMA CloseFields ==
    ASSUME NEW f \in Frames, f.at \in {"close", "closing", "close_tasks", "close_await"}
    PROVE  /\ f.forGood \in BOOLEAN
           /\ f.at \in {"close_tasks", "close_await"} =>
                f \in [at : {"close_tasks", "close_await"}, todo : Seq(Tasks), forGood : BOOLEAN]
           /\ f.at = "close_await" => f.todo # <<>>
           /\ f.at = "closing" => f.conn \in Nat
BY DEF Frames, QuietFrames, QuietPlaces, LoopFrames, AudioFrames, FinalFrames, SendPlaces, FinalPlaces,
       CloseFrames, SendFrames

LEMMA ReconnectFields == ASSUME NEW f \in Frames, f.at = "reconnect_closed" PROVE f.begin \in BOOLEAN
BY DEF Frames, QuietFrames, QuietPlaces, LoopFrames, AudioFrames, FinalFrames, SendPlaces, FinalPlaces,
       CloseFrames, SendFrames

LEMMA RaiseFields == ASSUME NEW f \in Frames, f.at = "raise" PROVE f.exc \in {"error", "cancelled"}
BY DEF Frames, QuietFrames, QuietPlaces, LoopFrames, AudioFrames, FinalFrames, SendPlaces, FinalPlaces,
       CloseFrames, SendFrames

LEMMA HeldFields == ASSUME NEW f \in Frames, f.at \in Held PROVE f.chunk \in Chunk
BY DEF Held, Frames, QuietFrames, QuietPlaces, LoopFrames, AudioFrames, FinalFrames, SendPlaces, FinalPlaces,
       CloseFrames, SendFrames

LEMMA ChunkFields == ASSUME NEW f \in Frames, f.at \in {"enqueue", "sleep"} PROVE f.chunk \in Chunk
BY DEF Frames, QuietFrames, QuietPlaces, LoopFrames, AudioFrames, FinalFrames, SendPlaces, FinalPlaces,
       CloseFrames, SendFrames

LEMMA AudioFields ==
    ASSUME NEW f \in Frames
    PROVE  /\ f.at = "audio" => f.frame \in Nat
           /\ f.at = "queue" => f.frames \in Seq(Nat)
BY DEF Frames, QuietFrames, QuietPlaces, LoopFrames, AudioFrames, FinalFrames, SendPlaces, FinalPlaces,
       CloseFrames, SendFrames

LEMMA FinalFields == ASSUME NEW f \in Frames, f.at \in FinalPlaces PROVE f.gen \in Nat /\ f \in FinalFrames
BY DEF Frames, QuietFrames, QuietPlaces, LoopFrames, AudioFrames, FinalFrames, SendPlaces, FinalPlaces,
       CloseFrames, SendFrames

-----------------------------------------------------------------------------
(* The coroutines of _ensure_connection and _ensure_utterance_started      *)

LEMMA SvcMoves ==
    ASSUME Inv, UNCHANGED <<buf, waiters, finalSet, conn, budget>>,
           svc' \in Service, svc'.config = svc.config
    PROVE  Unmoved
BY WorldKept, EasesSame, FinalsSame DEF Unmoved

LEMMA ConnectQuiet == ASSUME Inv, NEW t \in Tasks, Connect(t) PROVE QuietStep(t)
<1>1. Unmoved  BY Still DEF Connect, eventVars, outsideVars, wireVars, historyVars
<1>2. At("connect_locked") \in QuietFrames /\ At("connect_lock") \in QuietFrames
  BY QuietAt DEF QuietPlaces
<1>3. At(IF connectLock = <<>> THEN "connect_locked" ELSE "connect_lock") \in QuietFrames  BY <1>2
<1>4. "connect" \notin Held  BY DEF Held
<1> QED  BY <1>1, <1>3, <1>4, QuietGoto DEF Connect

LEMMA ConnectGrantedQuiet == ASSUME Inv, NEW t \in Tasks, ConnectGranted(t) PROVE QuietStep(t)
<1>1. Unmoved
  BY Still DEF ConnectGranted, serviceVars, syncVars, eventVars, outsideVars, wireVars, historyVars
<1>2. At("connect_locked") \in QuietFrames  BY QuietAt DEF QuietPlaces
<1>3. "connect_lock" \notin Held  BY DEF Held
<1> QED  BY <1>1, <1>2, <1>3, QuietGoto DEF ConnectGranted

LEMMA ConnectLockedQuiet == ASSUME Inv, NEW t \in Tasks, ConnectLocked(t) PROVE QuietStep(t)
<1>1. svc' \in Service /\ svc'.config = svc.config
  <2>1. svc \in Service  BY DEF Inv, Slots, TypeInv
  <2> QED  BY <2>1 DEF ConnectLocked, Service
<1>2. Unmoved  BY <1>1, SvcMoves DEF ConnectLocked, eventVars, outsideVars, wireVars, historyVars
<1>3. At("connecting") \in QuietFrames  BY QuietAt DEF QuietPlaces
<1>4. "connect_locked" \notin Held  BY DEF Held
<1>5. Return(t) \/ Goto(t, At("connecting"))  BY DEF ConnectLocked
<1> QED  BY <1>2, <1>3, <1>4, <1>5, QuietGoto, QuietReturn DEF ConnectLocked

LEMMA ConnectFailsQuiet == ASSUME Inv, NEW t \in Tasks, ConnectFails(t) PROVE QuietStep(t)
<1>1. Unmoved  BY Still DEF ConnectFails, eventVars, outsideVars, wireVars, historyVars
<1>2. "connecting" \notin Held  BY DEF Held
<1> QED  BY <1>1, <1>2, RaiseQuiet DEF ConnectFails

LEMMA StartQuiet == ASSUME Inv, NEW t \in Tasks, Start(t) PROVE QuietStep(t)
<1>1. Unmoved  BY Still DEF Start, eventVars, outsideVars, wireVars, historyVars
<1>2. At("start_locked") \in QuietFrames /\ At("start_lock") \in QuietFrames
  BY QuietAt DEF QuietPlaces
<1>3. At(IF startLock = <<>> THEN "start_locked" ELSE "start_lock") \in QuietFrames  BY <1>2
<1>4. "start" \notin Held  BY DEF Held
<1> QED  BY <1>1, <1>3, <1>4, QuietGoto, QuietReturn DEF Start

LEMMA StartGrantedQuiet == ASSUME Inv, NEW t \in Tasks, StartGranted(t) PROVE QuietStep(t)
<1>1. Unmoved
  BY Still DEF StartGranted, serviceVars, syncVars, eventVars, outsideVars, wireVars, historyVars
<1>2. At("start_locked") \in QuietFrames  BY QuietAt DEF QuietPlaces
<1>3. "start_lock" \notin Held  BY DEF Held
<1> QED  BY <1>1, <1>2, <1>3, QuietGoto DEF StartGranted

LEMMA StartLockedQuiet == ASSUME Inv, NEW t \in Tasks, StartLocked(t) PROVE QuietStep(t)
<1>1. Unmoved  BY Still DEF StartLocked, eventVars, outsideVars, wireVars, historyVars
<1>2. "start_locked" \notin Held /\ Runs(t, "start_locked")  BY DEF Held, StartLocked
<1>3. CASE Return(t)  BY <1>1, <1>2, <1>3, QuietReturn
<1>4. CASE Becomes(t, OnceConnected(<<At("start_connected")>> \o Callers(t)))
  <2>1. Callers(t) \in Seq(Frames)  BY <1>2, Nonempty, StackTyped DEF Inv
  <2>2. At("start_connected") \in QuietFrames /\ At("connect") \in QuietFrames
    BY QuietAt DEF QuietPlaces
  <2>3. CASE svc.ws # 0
    <3>1. Goto(t, At("start_connected"))  BY <1>4, <2>3 DEF OnceConnected, Goto
    <3> QED  BY <1>1, <1>2, <2>2, <3>1, QuietGoto
  <2>4. CASE svc.ws = 0
    <3>1. At("start_connected") \in Frames /\ At("connect") \in Frames  BY <2>2, QuietIsQuiet
    <3>2. <<At("connect")>> \o (<<At("start_connected")>> \o Callers(t))
            = <<At("connect"), At("start_connected")>> \o Callers(t)
      BY <2>1, <3>1
    <3>3. Call(t, At("connect"), At("start_connected"))  BY <1>4, <2>4, <3>2 DEF OnceConnected, Call
    <3> QED  BY <1>1, <1>2, <2>2, <3>3, QuietCall
  <2> QED  BY <2>3, <2>4
<1> QED  BY <1>3, <1>4 DEF StartLocked

LEMMA SendFrame ==
    ASSUME NEW m \in Message, NEW p \in BOOLEAN, NEW b \in BOOLEAN
    PROVE  SendCall(m, p, b) \in QuietFrames
BY DEF QuietFrames, SendFrames, SendCall

LEMMA StartConnectedQuiet == ASSUME Inv, NEW t \in Tasks, StartConnected(t) PROVE QuietStep(t)
<1>0. svc \in Service  BY DEF Inv, Slots, TypeInv
<1>1. svc' \in Service /\ svc'.config = svc.config  BY <1>0 DEF StartConnected, Service
<1>2. Unmoved  BY <1>1, SvcMoves DEF StartConnected, outsideVars, wireVars, historyVars
<1>3. [type |-> "start", gen |-> svc.gen] \in Message  BY <1>0 DEF Message, Service
<1>4. At("start_sent") \in QuietFrames  BY QuietAt DEF QuietPlaces
<1>5. SendCall([type |-> "start", gen |-> svc.gen], TRUE, FALSE) \in QuietFrames  BY <1>3, SendFrame
<1>6. "start_connected" \notin Held  BY DEF Held
<1> QED  BY <1>2, <1>4, <1>5, <1>6, QuietCall DEF StartConnected

LEMMA StartSentQuiet == ASSUME Inv, NEW t \in Tasks, StartSent(t) PROVE QuietStep(t)
<1>1. Unmoved
  BY Still DEF StartSent, serviceVars, syncVars, eventVars, outsideVars, wireVars, historyVars
<1>2. svc.readyOf \in Nat  BY DEF Inv, Slots, TypeInv, Service
<1>3. [at |-> "start_wait", event |-> svc.readyOf] \in QuietFrames  BY <1>2 DEF QuietFrames
<1>4. "start_sent" \notin Held  BY DEF Held
<1> QED  BY <1>1, <1>3, <1>4, QuietGoto DEF StartSent

LEMMA StartReadyQuiet == ASSUME Inv, NEW t \in Tasks, StartReady(t) PROVE QuietStep(t)
<1>0. svc \in Service  BY DEF Inv, Slots, TypeInv
<1>1. svc' \in Service /\ svc'.config = svc.config  BY <1>0 DEF StartReady, Service
<1>2. Unmoved  BY <1>1, SvcMoves DEF StartReady, eventVars, outsideVars, wireVars, historyVars
<1>3. "start_wait" \notin Held  BY DEF Held
<1> QED  BY <1>2, <1>3, QuietReturn DEF StartReady

LEMMA StartTimesOutQuiet == ASSUME Inv, NEW t \in Tasks, StartTimesOut(t) PROVE QuietStep(t)
<1>1. Unmoved  BY Still DEF StartTimesOut, eventVars, outsideVars, wireVars, historyVars
<1>2. "start_wait" \notin Held  BY DEF Held
<1> QED  BY <1>1, <1>2, RaiseQuiet DEF StartTimesOut

-----------------------------------------------------------------------------
(* The coroutines of _send_ws, _reconnect, _disconnect and                 *)
(* _close_socket_and_tasks                                                 *)

LEMMA SendingFrame ==
    ASSUME NEW f \in SendFrames, NEW c \in Nat
    PROVE  [f EXCEPT !.at = "sending", !.conn = c] \in QuietFrames
BY DEF QuietFrames, SendFrames

LEMMA AgainFrame ==
    ASSUME NEW f \in SendFrames
    PROVE  /\ [f EXCEPT !.at = "send_again", !.retry = FALSE] \in QuietFrames
           /\ f.at = "send_again" => [f EXCEPT !.at = "send"] \in QuietFrames
BY DEF SendFrames, QuietFrames

LEMMA ReconnectingSeq == ASSUME NEW b \in BOOLEAN PROVE Reconnecting(b) \in Seq(QuietFrames)
<1>1. [at |-> "close", forGood |-> FALSE] \in QuietFrames  BY DEF QuietFrames, CloseFrames
<1>2. [at |-> "reconnect_closed", begin |-> b] \in QuietFrames  BY DEF QuietFrames, CloseFrames
<1> QED  BY <1>1, <1>2 DEF Reconnecting

LEMMA DisconnectingSeq == Disconnecting \in Seq(QuietFrames)
<1>1. [at |-> "close", forGood |-> TRUE] \in QuietFrames  BY DEF QuietFrames, CloseFrames
<1>2. At("disconnected") \in QuietFrames  BY QuietAt DEF QuietPlaces
<1> QED  BY <1>1, <1>2 DEF Disconnecting

LEMMA SendFailsQuiet ==
    ASSUME Inv, NEW t \in Tasks, NEW l, Wakes(t, l) \/ Runs(t, l), l \notin Held, Unmoved,
           Frame(t) \in SendFrames, SendFails(t)
    PROVE  QuietStep(t)
<1>1. CASE Raise(t, "error")  BY <1>1, RaiseQuiet
<1>2. CASE Becomes(t, Reconnecting(Frame(t).begin)
                    \o <<[Frame(t) EXCEPT !.at = "send_again", !.retry = FALSE]>> \o Callers(t))
  <2> DEFINE f == [Frame(t) EXCEPT !.at = "send_again", !.retry = FALSE]
             w == Reconnecting(Frame(t).begin) \o <<f>>
  <2>1. f \in QuietFrames  BY AgainFrame
  <2>2. Frame(t).begin \in BOOLEAN  BY DEF SendFrames
  <2>3. Reconnecting(Frame(t).begin) \in Seq(QuietFrames)  BY <2>2, ReconnectingSeq
  <2> HIDE DEF f
  <2>4. w \in Seq(QuietFrames)  BY <2>1, <2>3
  <2>5. Becomes(t, w \o Callers(t))  BY <1>2 DEF f
  <2> HIDE DEF w
  <2> QED  BY <2>4, <2>5, QuietPush
<1> QED  BY <1>1, <1>2 DEF SendFails

LEMMA SendQuiet == ASSUME Inv, NEW t \in Tasks, Send(t) PROVE QuietStep(t)
<1>1. Unmoved  BY Still DEF Send, Deliver, serviceVars, syncVars, eventVars
<1>2. Runs(t, "send") /\ "send" \notin Held  BY DEF Send, Held
<1>3. Frame(t) \in SendFrames  BY <1>2, Nonempty, StackTyped, SendFields DEF Inv
<1>4. svc.ws \in Nat  BY DEF Inv, Slots, TypeInv, Service
<1>5. \/ Goto(t, [Frame(t) EXCEPT !.at = "sending", !.conn = svc.ws])
      \/ Raise(t, "error") \/ SendFails(t)
  BY DEF Send
<1>6. CASE Goto(t, [Frame(t) EXCEPT !.at = "sending", !.conn = svc.ws])
  <2>1. [Frame(t) EXCEPT !.at = "sending", !.conn = svc.ws] \in QuietFrames  BY <1>3, <1>4, SendingFrame
  <2> QED  BY <1>1, <1>2, <1>6, <2>1, QuietGoto
<1>7. CASE Raise(t, "error")  BY <1>1, <1>2, <1>7, RaiseQuiet
<1>8. CASE SendFails(t)  BY <1>1, <1>2, <1>3, <1>8, SendFailsQuiet
<1> QED  BY <1>5, <1>6, <1>7, <1>8

LEMMA SentQuiet == ASSUME Inv, NEW t \in Tasks, Sent(t) PROVE QuietStep(t)
<1>1. Unmoved  BY Still DEF Sent, serviceVars, syncVars, eventVars, outsideVars, wireVars, historyVars
<1>2. Wakes(t, "sending") /\ "sending" \notin Held  BY DEF Sent, Held
<1>3. Frame(t) \in SendFrames  BY <1>2, Nonempty, StackTyped, SendFields DEF Inv
<1>4. Return(t) \/ SendFails(t)  BY DEF Sent
<1> QED  BY <1>1, <1>2, <1>3, <1>4, QuietReturn, SendFailsQuiet

LEMMA SendAgainQuiet == ASSUME Inv, NEW t \in Tasks, SendAgain(t) PROVE QuietStep(t)
<1>1. Unmoved  BY Still DEF SendAgain, serviceVars, syncVars, eventVars, outsideVars, wireVars, historyVars
<1>2. Runs(t, "send_again") /\ "send_again" \notin Held  BY DEF SendAgain, Held
<1>3. Frame(t) \in SendFrames /\ Frame(t).at = "send_again"
  BY <1>2, Nonempty, StackTyped, SendFields DEF Inv
<1>4. [Frame(t) EXCEPT !.at = "send"] \in QuietFrames  BY <1>3, AgainFrame
<1>5. Return(t) \/ Goto(t, [Frame(t) EXCEPT !.at = "send"])  BY DEF SendAgain
<1> QED  BY <1>1, <1>2, <1>4, <1>5, QuietReturn, QuietGoto

LEMMA ReconnectClosedQuiet == ASSUME Inv, NEW t \in Tasks, ReconnectClosed(t) PROVE QuietStep(t)
<1>0. svc \in Service  BY DEF Inv, Slots, TypeInv
<1>1. svc' \in Service /\ svc'.config = svc.config  BY <1>0 DEF ReconnectClosed, Service
<1>2. Unmoved
  BY <1>1, SvcMoves DEF ReconnectClosed, syncVars, eventVars, outsideVars, wireVars, historyVars
<1>3. Runs(t, "reconnect_closed") /\ "reconnect_closed" \notin Held  BY DEF ReconnectClosed, Held
<1>4. At("connect") \in QuietFrames /\ At("start") \in QuietFrames  BY QuietAt DEF QuietPlaces
<1> DEFINE w == <<At("connect")>> \o (IF Frame(t).begin THEN <<At("start")>> ELSE <<>>)
<1>5. w \in Seq(QuietFrames)  BY <1>4
<1>6. Becomes(t, w \o Callers(t))  BY DEF ReconnectClosed
<1> HIDE DEF w
<1> QED  BY <1>2, <1>3, <1>5, <1>6, QuietPush

LEMMA ReleaseReaches == ASSUME Release PROVE Reachable \subseteq Reachable'
BY DEF Release, Reachable

LEMMA DisconnectedQuiet == ASSUME Inv, NEW t \in Tasks, Disconnected(t) PROVE QuietStep(t)
<1>0. svc \in Service  BY DEF Inv, Slots, TypeInv
<1>1. svc' \in Service /\ svc'.config = svc.config  BY <1>0 DEF Disconnected, Service
<1>2. World  BY <1>1, WorldKept DEF Disconnected, outsideVars, wireVars, historyVars
<1>3. Eases  BY DEF Eases, Disconnected, Emptied
<1>4. Reachable \subseteq Reachable'  BY ReleaseReaches DEF Disconnected
<1>5. Unmoved  BY <1>2, <1>3, <1>4 DEF Unmoved
<1>6. "disconnected" \notin Held  BY DEF Held
<1> QED  BY <1>5, <1>6, QuietReturn DEF Disconnected

LEMMA CloseQuiet == ASSUME Inv, NEW t \in Tasks, Close(t) PROVE QuietStep(t)
<1>0. svc \in Service  BY DEF Inv, Slots, TypeInv
<1>1. svc' \in Service /\ svc'.config = svc.config  BY <1>0 DEF Close, Service
<1>2. Unmoved  BY <1>1, SvcMoves DEF Close, syncVars, eventVars, outsideVars, wireVars, historyVars
<1>3. Runs(t, "close") /\ "close" \notin Held  BY DEF Close, Held
<1> DEFINE others == Other(t, svc.sendTask) \o Other(t, svc.recvTask)
<1>4. Frame(t).forGood \in BOOLEAN  BY <1>3, Nonempty, StackTyped, CloseFields DEF Inv
<1>5. others \in Seq(Tasks)
  <2>1. svc.sendTask \in Tasks \cup {NoTask} /\ svc.recvTask \in Tasks \cup {NoTask}
    BY <1>0 DEF Service
  <2>2. Other(t, svc.sendTask) \in Seq(Tasks) /\ Other(t, svc.recvTask) \in Seq(Tasks)  BY <2>1 DEF Other
  <2> QED  BY <2>2
<1>6. Goto(t, [at |-> "close_tasks", todo |-> others, forGood |-> Frame(t).forGood])  BY DEF Close
<1> HIDE DEF others
<1>7. [at |-> "close_tasks", todo |-> others, forGood |-> Frame(t).forGood] \in QuietFrames
  BY <1>4, <1>5 DEF QuietFrames, CloseFrames
<1> QED  BY <1>2, <1>3, <1>6, <1>7, QuietGoto

LEMMA CloseAwaitsQuiet == ASSUME Inv, NEW t \in Tasks, CloseAwaits(t) PROVE QuietStep(t)
<1>1. Unmoved
  BY Still DEF CloseAwaits, serviceVars, syncVars, eventVars, outsideVars, wireVars, historyVars
<1>2. Runs(t, "close_tasks") /\ "close_tasks" \notin Held /\ Frame(t).todo # <<>>
  BY DEF CloseAwaits, Held
<1>3. Frame(t) \in [at : {"close_tasks", "close_await"}, todo : Seq(Tasks), forGood : BOOLEAN]
  BY <1>2, Nonempty, StackTyped, CloseFields DEF Inv
<1>4. [Frame(t) EXCEPT !.at = "close_await"] \in QuietFrames  BY <1>2, <1>3 DEF QuietFrames, CloseFrames
<1>5. [Frame(t) EXCEPT !.todo = Tail(@)] \in QuietFrames
  <2>1. Tail(Frame(t).todo) \in Seq(Tasks)  BY <1>2, <1>3
  <2>2. Frame(t).at = "close_tasks"  BY <1>2, Nonempty
  <2> QED  BY <1>3, <2>1, <2>2 DEF QuietFrames, CloseFrames
<1>6. \/ Goto(t, [Frame(t) EXCEPT !.at = "close_await"]) \/ Raise(t, "error")
      \/ Goto(t, [Frame(t) EXCEPT !.todo = Tail(@)])
  BY DEF CloseAwaits
<1> QED  BY <1>1, <1>2, <1>4, <1>5, <1>6, QuietGoto, RaiseQuiet

LEMMA CloseAwaitedQuiet == ASSUME Inv, NEW t \in Tasks, CloseAwaited(t) PROVE QuietStep(t)
<1>1. Unmoved
  BY Still DEF CloseAwaited, serviceVars, syncVars, eventVars, outsideVars, wireVars, historyVars
<1>2. Wakes(t, "close_await") /\ "close_await" \notin Held  BY DEF CloseAwaited, Held
<1>3. /\ Frame(t) \in [at : {"close_tasks", "close_await"}, todo : Seq(Tasks), forGood : BOOLEAN]
      /\ Frame(t).todo # <<>>
  BY <1>2, Nonempty, StackTyped, CloseFields DEF Inv
<1>4. [Frame(t) EXCEPT !.at = "close_tasks", !.todo = Tail(@)] \in QuietFrames
  <2>1. Tail(Frame(t).todo) \in Seq(Tasks)  BY <1>3
  <2> QED  BY <1>3, <2>1 DEF QuietFrames, CloseFrames
<1>5. Raise(t, "error") \/ Goto(t, [Frame(t) EXCEPT !.at = "close_tasks", !.todo = Tail(@)])
  BY DEF CloseAwaited
<1> QED  BY <1>1, <1>2, <1>4, <1>5, QuietGoto, RaiseQuiet

LEMMA CloseSocketQuiet == ASSUME Inv, NEW t \in Tasks, CloseSocket(t) PROVE QuietStep(t)
<1>0. svc \in Service /\ conn \in [Conns -> {"none", "open", "broken", "closed", "gone"}] /\ budget \in Budget
  BY DEF Inv, Slots, TypeInv
<1>1. Runs(t, "close_tasks") /\ "close_tasks" \notin Held  BY DEF CloseSocket, Held
<1>2. Frame(t).forGood \in BOOLEAN  BY <1>1, Nonempty, StackTyped, CloseFields DEF Inv
<1>3. svc' \in Service /\ svc'.config = svc.config
  <2>1. \/ svc' = [svc EXCEPT !.sendTask = NoTask, !.recvTask = NoTask]
        \/ svc' = [svc EXCEPT !.sendTask = NoTask, !.recvTask = NoTask, !.closed = @ /\ Frame(t).forGood]
    BY DEF CloseSocket
  <2> QED  BY <1>0, <1>2, <2>1 DEF Service
<1>4. /\ conn' \in [Conns -> {"none", "open", "broken", "closed", "gone"}]
      /\ \A v \in Conns : conn'[v] = "none" => conn[v] = "none"
  BY <1>0 DEF CloseSocket, wireVars
<1>5. Unmoved
  <2>1. World  BY <1>0, <1>3, <1>4 DEF World, CloseSocket, historyVars
  <2>2. Eases /\ Reachable \subseteq Reachable'
    BY EasesSame, FinalsSame DEF CloseSocket, syncVars, eventVars
  <2> QED  BY <2>1, <2>2 DEF Unmoved
<1>6. [at |-> "closing", conn |-> svc.ws, forGood |-> Frame(t).forGood] \in QuietFrames
  BY <1>0, <1>2 DEF QuietFrames, CloseFrames, Service
<1>7. Return(t) \/ Goto(t, [at |-> "closing", conn |-> svc.ws, forGood |-> Frame(t).forGood])
  BY DEF CloseSocket
<1> QED  BY <1>1, <1>5, <1>6, <1>7, QuietGoto, QuietReturn

LEMMA ClosedQuiet == ASSUME Inv, NEW t \in Tasks, Closed(t) PROVE QuietStep(t)
<1>0. svc \in Service /\ conn \in [Conns -> {"none", "open", "broken", "closed", "gone"}] /\ budget \in Budget
  BY DEF Inv, Slots, TypeInv
<1>1. Wakes(t, "closing") /\ "closing" \notin Held  BY DEF Closed, Held
<1>2. Frame(t).forGood \in BOOLEAN  BY <1>1, Nonempty, StackTyped, CloseFields DEF Inv
<1>3. svc' \in Service /\ svc'.config = svc.config  BY <1>0, <1>2 DEF Service, Closed
<1>4. /\ conn' \in [Conns -> {"none", "open", "broken", "closed", "gone"}]
      /\ \A v \in Conns : conn'[v] = "none" => conn[v] = "none"
  BY <1>0 DEF Closed
<1>5. Unmoved
  <2>1. World  BY <1>0, <1>3, <1>4 DEF World, Closed, historyVars
  <2>2. Eases /\ Reachable \subseteq Reachable'
    BY EasesSame, FinalsSame DEF Closed, syncVars, eventVars
  <2> QED  BY <2>1, <2>2 DEF Unmoved
<1> QED  BY <1>1, <1>5, QuietReturn DEF Closed

-----------------------------------------------------------------------------
(* Exceptions and cancellation                                             *)

LEMMA QuietUnwind ==
    ASSUME Inv, NEW t \in Tasks, Runs(t, "raise"), Callers(t) # <<>>, Head(Callers(t)).at \notin Held, Unmoved,
           NEW w \in Seq(QuietFrames), Becomes(t, w \o Tail(Callers(t)))
    PROVE  QuietStep(t)
<1>1. w \in Seq(Frames)  BY QuietSeq
<1>2. stack[t] # <<>> /\ Frame(t).at = "raise" /\ running \in {t, NoTask}  BY Nonempty
<1>3. Move(t, 2, w)  BY <1>1, <1>2, UnwindMove DEF Inv
<1>4. stack[t][1].at = "raise" /\ stack[t] \in Seq(Frames)  BY <1>2, StackTyped DEF Inv
<1>5. stack[t][2] = Head(Callers(t))  BY <1>2, <1>4 DEF Callers
<1>6. "raise" \notin Held  BY DEF Held
<1>7. \A i \in 1..2 : i = 1 \/ i = 2  OBVIOUS
<1>8. \A i \in 1..2 : stack[t][i].at \notin Held  BY <1>4, <1>5, <1>6, <1>7
<1> QED  BY <1>3, <1>8 DEF Quiet, QuietStep, Unmoved

LEMMA CancelDeliveredQuiet == ASSUME Inv, NEW t \in Tasks, CancelDelivered(t) PROVE QuietStep(t)
<1>1. Unmoved  BY Still DEF CancelDelivered, eventVars, historyVars
<1>2. stack[t] # <<>> /\ running = NoTask  BY DEF CancelDelivered, Alive
<1>3. Head(stack[t]).at \in Awaits  BY <1>2, PlacesApart DEF Inv, Slots, TaskInv
<1>4. Head(stack[t]).at \notin Held  BY <1>3 DEF Awaits, Held
<1> DEFINE f == [at |-> "raise", exc |-> "cancelled"]
<1>5. f \in QuietFrames  BY QuietRaise
<1>6. Goto(t, f)  BY DEF CancelDelivered, Raise
<1> HIDE DEF f
<1>7. f \in Frames /\ <<f>> \in Seq(QuietFrames)  BY <1>5, QuietIsQuiet
<1>8. Move(t, 1, <<f>>)  BY <1>2, <1>6, <1>7, GotoMove DEF Inv
<1>9. stack[t][1] = Head(stack[t])  BY <1>2, StackTyped DEF Inv, Frame
<1>10. \A i \in 1..1 : stack[t][i].at \notin Held  BY <1>4, <1>9
<1> QED  BY <1>1, <1>7, <1>8, <1>10 DEF Quiet, QuietStep, Unmoved

\* A send loop tells the queue that the chunk in its hands is done.
Done == buf' = [buf EXCEPT !.unfinished = @ - 1]
LEMMA DoneAccounts == ASSUME Inv, Done PROVE Accounts(-1)
<1>1. /\ buf.queue \in Seq(Chunk) /\ buf \in Buffers
      /\ buf.queued = Duration(buf.queue) /\ Len(buf.queue) \in Nat /\ buf.unfinished \in Int
  BY DEF Inv, Slots, TypeInv, AccountInv, Buffers
<1>2. /\ buf' \in Buffers /\ buf'.queue = buf.queue /\ buf'.queued = buf.queued
      /\ buf'.unfinished = buf.unfinished - 1
  <2>1. buf \in Buffers /\ buf.unfinished - 1 \in Int  BY <1>1
  <2> QED  BY <2>1 DEF Done, Buffers
<1>3. Duration(buf'.queue) = Duration(buf.queue)  BY <1>2
<1>4. Bounded(buf')  BY <1>2, <1>3 DEF Bounded, Inv, AccountInv
<1>5. buf'.unfinished - Len(buf'.queue) = (buf.unfinished - Len(buf.queue)) + -1  BY <1>1, <1>2
<1>6. buf'.queued = Duration(buf'.queue)  BY <1>1, <1>2
<1> QED  BY <1>2, <1>4, <1>5, <1>6 DEF Accounts

LEMMA AccountsSame == ASSUME Inv, buf' = buf PROVE Accounts(0)
BY EasesSame, EasesAccounts

\* The frame below one that raises.
LEMMA CallerIs ==
    ASSUME Inv, NEW t \in Tasks, Runs(t, "raise"), Callers(t) # <<>>
    PROVE  /\ stack[t] \in Seq(Frames) /\ Len(stack[t]) \in Nat /\ Len(stack[t]) >= 2
           /\ stack[t][1] = Frame(t) /\ stack[t][2] = Head(Callers(t)) /\ Head(Callers(t)) \in Frames
           /\ Frame(t).at = "raise" /\ running = t /\ stack[t] # <<>>
           /\ Frame(t).exc \in {"error", "cancelled"} /\ Frame(t) \in QuietFrames
<1>1. stack[t] # <<>> /\ Frame(t).at = "raise" /\ running = t  BY Nonempty DEF Runs
<1>2. stack[t] \in Seq(Frames) /\ Frame(t) = stack[t][1] /\ Frame(t) \in Frames  BY <1>1, StackTyped DEF Inv
<1>3. Len(stack[t]) >= 2 /\ stack[t][2] = Head(Callers(t)) /\ Head(Callers(t)) \in Frames
  BY <1>1, <1>2 DEF Callers
<1>4. Frame(t).exc \in {"error", "cancelled"}  BY <1>1, <1>2, RaiseFields
<1>5. Frame(t) \in QuietFrames
  BY <1>1, <1>2 DEF Frames, LoopFrames, AudioFrames, FinalFrames, SendPlaces, FinalPlaces
<1> QED  BY <1>1, <1>2, <1>3, <1>4, <1>5

\* The send loop's chunk could not be sent: it disconnects first.
LEMMA UnwindsSent ==
    ASSUME Inv, NEW t \in Tasks, Runs(t, "raise"), Callers(t) # <<>>, Head(Callers(t)).at = "s_sent",
           World, buf' = buf, Reachable \subseteq Reachable',
           Becomes(t, Disconnecting \o <<[Head(Callers(t)) EXCEPT !.at = "s_gone"]>> \o Tail(Callers(t)))
    PROVE  GoodStep(t)
<1> DEFINE c == Head(Callers(t))
           g == [c EXCEPT !.at = "s_gone"]
           a == [at |-> "close", forGood |-> TRUE]
           w == <<a, At("disconnected"), g>>
<1>1. c \in [at : {"s_sent", "s_gone"}, chunk : Chunk]
  <2>1. c \in Frames  BY CallerIs
  <2> QED  BY <2>1 DEF Frames, QuietFrames, QuietPlaces, LoopFrames, AudioFrames, FinalFrames, SendPlaces,
                       FinalPlaces, CloseFrames, SendFrames
<1>2. g \in Frames /\ g.at = "s_gone"  BY <1>1 DEF Frames, LoopFrames
<1>3. a \in Frames /\ At("disconnected") \in Frames
  BY QuietAt, QuietIsQuiet DEF QuietPlaces, QuietFrames, CloseFrames
<1> HIDE DEF g
<1>5. a.at = "close" /\ At("disconnected").at = "disconnected" /\ Disconnecting = <<a, At("disconnected")>>
  BY DEF At, Disconnecting
<1> HIDE DEF a
<1>4. w \in Seq(Frames) /\ w = Disconnecting \o <<g>>
  <2>1. w \in Seq(Frames)  BY <1>2, <1>3
  <2>2. w = <<a, At("disconnected")>> \o <<g>>  BY <1>2, <1>3
  <2> QED  BY <2>1, <2>2, <1>5
<1>6. DOMAIN w = 1..3 /\ w[1].at = "close" /\ w[2].at = "disconnected" /\ w[3].at = "s_gone"
  BY <1>2, <1>5
<1>7. Becomes(t, w \o Tail(Callers(t)))  BY <1>4 DEF g
<1> HIDE DEF w
<1>8. /\ stack[t][1].at = "raise" /\ stack[t][2].at = "s_sent" /\ stack[t] # <<>>
      /\ running \in {t, NoTask}
  BY CallerIs
<1>9. Move(t, 2, w)  BY <1>4, <1>7, <1>8, UnwindMove DEF Inv
<1>10. \A i \in DOMAIN w : i \in 1..3 /\ (i = 1 \/ i = 2 \/ i = 3)  BY <1>6
<1>11. Fit(t, 2, w)
  <2> SUFFICES ASSUME NEW C \in Classes
               PROVE  AtMostOne(w, C) /\ (Has(w, C) => \E i \in 1..2 : stack[t][i].at \in C)
    BY DEF Fit
  <2>1. {"close", "disconnected"} \cap C = {}
    BY DEF Classes, SendPlaces, AudioPlaces, FinalPlaces
  <2>2. \A i \in DOMAIN w : w[i].at \in C => i = 3  BY <1>6, <1>10, <2>1
  <2>3. "s_gone" \in C => "s_sent" \in C  BY DEF Classes, SendPlaces, AudioPlaces, FinalPlaces
  <2>4. 2 \in 1..2  OBVIOUS
  <2> QED  BY <2>2, <2>3, <2>4, <1>6, <1>8 DEF AtMostOne, Has
<1>12. Hands(t, 2, w) = 0
  <2>1. 2 \in 1..2 /\ 3 \in DOMAIN w  BY <1>6
  <2> QED  BY <2>1, <1>6, <1>8 DEF Hands, Count, Has, Held
<1>13. Accounts(0)  BY AccountsSame
<1>14. Finals(t, 2, w)  BY <1>6, <1>10 DEF Finals, Waits
<1>15. Takes(w)  BY <1>6, <1>10 DEF Takes
<1> QED  BY <1>9, <1>11, <1>12, <1>13, <1>14, <1>15 DEF Good, GoodStep

\* A frame above is left: a chunk in hand is done, a finalize that waited gives up.
LEMMA UnwindsPast ==
    ASSUME Inv, NEW t \in Tasks, Runs(t, "raise"), Callers(t) # <<>>, World,
           \/ Head(Callers(t)).at \in Held /\ Done
           \/ Head(Callers(t)).at \notin Held /\ buf' = buf,
           Reachable \subseteq Reachable' \/ Head(Callers(t)).at = "final_done",
           Becomes(t, <<Frame(t)>> \o Tail(Callers(t)))
    PROVE  GoodStep(t)
<1> DEFINE c == Head(Callers(t))
           f == Frame(t)
<1>1. /\ stack[t] \in Seq(Frames) /\ Len(stack[t]) >= 2 /\ Len(stack[t]) \in Nat
      /\ stack[t][1] = f /\ stack[t][2] = c /\ c \in Frames
      /\ f.at = "raise" /\ running = t /\ stack[t] # <<>> /\ f \in QuietFrames
  BY CallerIs
<1>2. f \in Frames /\ f.at \notin Special  BY <1>1, QuietIsQuiet
<1> HIDE DEF f, c
<1>3. <<f>> \in Seq(Frames)  BY <1>2
<1>4. Move(t, 2, <<f>>)  BY <1>1, <1>3, UnwindMove DEF Inv, f
<1>5. DOMAIN <<f>> = {1} /\ <<f>>[1] = f  OBVIOUS
<1>6. Fit(t, 2, <<f>>)
  <2>1. \A C \in Classes : C \subseteq Special  BY DEF Classes, Special
  <2> QED  BY <1>2, <1>5, <2>1 DEF Fit, AtMostOne, Has
<1>7. ~Has(<<f>>, Held) /\ f.at \notin Held /\ f.at \notin Waits /\ f.at # "s_take"
  <2>1. Held \subseteq Special /\ Waits \subseteq Special /\ "s_take" \in Special
    BY DEF Held, Waits, Special, SendPlaces, FinalPlaces
  <2> QED  BY <1>2, <1>5, <2>1 DEF Has
<1>8. \A i \in 1..2 : i = 1 \/ i = 2  OBVIOUS
<1>9. (\E i \in 1..2 : stack[t][i].at \in Held) <=> c.at \in Held
  <2>1. 2 \in 1..2  OBVIOUS
  <2> QED  BY <1>1, <1>7, <1>8, <2>1
<1>10. Accounts(Hands(t, 2, <<f>>))
  <2>1. CASE c.at \in Held
    <3>1. Hands(t, 2, <<f>>) = -1  BY <1>7, <1>9, <2>1 DEF Hands, Count
    <3>2. Done  BY <2>1 DEF c
    <3> QED  BY <3>1, <3>2, DoneAccounts
  <2>2. CASE c.at \notin Held
    <3>1. Hands(t, 2, <<f>>) = 0  BY <1>7, <1>9, <2>2 DEF Hands, Count
    <3>2. buf' = buf  BY <2>2 DEF c
    <3> QED  BY <3>1, <3>2, AccountsSame
  <2> QED  BY <2>1, <2>2
<1>11. Finals(t, 2, <<f>>)
  <2>1. \A i \in DOMAIN <<f>> : <<f>>[i].at \notin Waits  BY <1>5, <1>7
  <2>2. CASE Reachable \subseteq Reachable'  BY <2>1, <2>2 DEF Finals
  <2>3. CASE c.at = "final_done"
    <3>1. 2 \in 1..2 /\ 2 \in DOMAIN stack[t] /\ stack[t][2].at \in FinalPlaces
      BY <1>1, <2>3 DEF FinalPlaces
    <3>2. t = Pipeline  BY <3>1 DEF Inv, Slots, TaskInv, Inside
    <3> QED  BY <2>1, <3>1, <3>2 DEF Finals
  <2> QED  BY <2>2, <2>3 DEF c
<1>12. Takes(<<f>>)  BY <1>5, <1>7 DEF Takes
<1> QED  BY <1>4, <1>6, <1>10, <1>11, <1>12 DEF Good, GoodStep

LEMMA LoneFrame == ASSUME NEW S, NEW s \in Seq(S), s # <<>>, Tail(s) = <<>> PROVE Len(s) = 1
<1>1. Len(Tail(s)) = Len(s) - 1 /\ Len(s) \in Nat  OBVIOUS
<1>2. Len(<<>>) = 0  OBVIOUS
<1>3. Len(Tail(s)) = 0  BY <1>2
<1> QED  BY <1>1, <1>3

LEMMA UnwindsGood == ASSUME Inv, NEW t \in Tasks, Unwinds(t) PROVE GoodStep(t)
<1> DEFINE c == Head(Callers(t))
<1>1. Runs(t, "raise") /\ World
  BY WorldSame DEF Unwinds, outsideVars, wireVars, historyVars
<1>2. stack[t] # <<>> /\ Frame(t).at = "raise" /\ stack[t] \in Seq(Frames) /\ Frame(t) = stack[t][1]
  BY <1>1, Nonempty, StackTyped DEF Inv
<1>3. CASE Callers(t) = <<>>
  <2>1. Ends(t, Frame(t).exc) /\ buf' = buf /\ waiters' = waiters /\ finalSet' = finalSet
    BY <1>3 DEF Unwinds, At
  <2>2. Unmoved  BY <2>1, <1>1, EasesSame, FinalsSame DEF Unmoved
  <2>3. ~Inside(t, Held)
    <3>1. Len(stack[t]) = 1
      <4>1. Tail(stack[t]) = <<>>  BY <1>3 DEF Callers
      <4> QED  BY <4>1, <1>2, LoneFrame
    <3>2. \A i \in DOMAIN stack[t] : i = 1  BY <1>2, <3>1
    <3> QED  BY <3>2, <1>2 DEF Inside, Held
  <2> QED  BY <1>1, <2>1, <2>2, <2>3, QuietEnds, QuietCalm
<1>4. CASE Callers(t) # <<>>
  <2>1. c.at # "none" /\ Frame(t).exc \in {"error", "cancelled"} /\ c \in Frames /\ Frame(t) \in QuietFrames
    <3>1. \A f \in Frames : f.at # "none"
      BY DEF Frames, QuietFrames, QuietPlaces, LoopFrames, AudioFrames, FinalFrames, SendPlaces,
             FinalPlaces, CloseFrames, SendFrames
    <3> QED  BY <1>1, <1>4, <3>1, CallerIs
  <2>2. /\ finalSet' = finalSet
        /\ waiters' = IF c.at = "final_done" THEN waiters \ {c.gen} ELSE waiters
        /\ buf' = IF c.at = "s_gone" \/ (c.at = "s_sent" /\ Frame(t).exc = "cancelled")
                  THEN [buf EXCEPT !.unfinished = @ - 1] ELSE buf
    BY <1>4 DEF Unwinds
  <2>3. c.at # "final_done" => Reachable \subseteq Reachable'  BY <2>2 DEF Reachable
  <2>4. CASE c.at = "idle" \/ c.at = "ended"
    <3>1. Return(t)  BY <1>4, <2>1, <2>4 DEF Unwinds
    <3>2. Unmoved  BY <1>1, <2>2, <2>3, <2>4, EasesSame DEF Unmoved
    <3>3. "raise" \notin Held  BY DEF Held
    <3> QED  BY <1>1, <3>1, <3>2, <3>3, QuietReturn, QuietCalm
  <2>5. CASE c.at = "s_sent" /\ Frame(t).exc = "error"
    <3>1. Becomes(t, Disconnecting \o <<[c EXCEPT !.at = "s_gone"]>> \o Tail(Callers(t)))
      BY <1>4, <2>1, <2>5 DEF Unwinds
    <3>2. buf' = buf /\ Reachable \subseteq Reachable'  BY <2>2, <2>3, <2>5
    <3> QED  BY <1>1, <1>4, <2>5, <3>1, <3>2, UnwindsSent
  <2>6. CASE c.at = "r_ponged" /\ Frame(t).exc = "error"
    <3>1. Becomes(t, <<At("r_failed")>> \o Tail(Callers(t)))  BY <1>4, <2>1, <2>6 DEF Unwinds
    <3>2. Unmoved  BY <1>1, <2>2, <2>3, <2>6, EasesSame DEF Unmoved
    <3>3. At("r_failed") \in QuietFrames  BY QuietAt DEF QuietPlaces
    <3>4. <<At("r_failed")>> \in Seq(QuietFrames) /\ c.at \notin Held  BY <3>3, <2>6 DEF Held
    <3> QED  BY <1>1, <1>4, <3>1, <3>2, <3>4, QuietUnwind, QuietCalm
  <2>7. CASE /\ ~(c.at = "idle" \/ c.at = "ended")
             /\ ~(c.at = "s_sent" /\ Frame(t).exc = "error")
             /\ ~(c.at = "r_ponged" /\ Frame(t).exc = "error")
    <3>1. Becomes(t, <<Frame(t)>> \o Tail(Callers(t)))  BY <1>4, <2>1, <2>7 DEF Unwinds
    <3>2. \/ c.at \in Held /\ Done
          \/ c.at \notin Held /\ buf' = buf
      BY <2>1, <2>2, <2>7 DEF Held, Done
    <3>3. Reachable \subseteq Reachable' \/ c.at = "final_done"  BY <2>3
    <3> QED  BY <1>1, <1>4, <3>1, <3>2, <3>3, UnwindsPast
  <2> QED  BY <2>4, <2>5, <2>6, <2>7
<1> QED  BY <1>3, <1>4

-----------------------------------------------------------------------------
(* A new connection and its loops                                          *)

LEMMA ConnectedKeeps == ASSUME Inv, NEW t \in Tasks, Connected(t) PROVE Inv'
<1>1. PICK w \in Conns :
        /\ Wakes(t, "connecting") /\ conn[w] = "none" /\ conn' = [conn EXCEPT ![w] = "open"]
        /\ svc' = [svc EXCEPT !.ws = w, !.readyOf = w, !.sendTask = SendTask(w), !.recvTask = RecvTask(w)]
        /\ stack' = [stack EXCEPT ![t] = Callers(t), ![SendTask(w)] = <<At("s_new")>>,
                                  ![RecvTask(w)] = <<At("r_new")>>]
        /\ running' = IF Head(Callers(t)).at \in Awaits THEN NoTask ELSE t
        /\ buf' = buf /\ waiters' = waiters /\ finalSet' = finalSet /\ budget' = budget
  BY DEF Connected, eventVars, historyVars
<1>2. /\ running = NoTask /\ stack[t] # <<>> /\ Frame(t).at = "connecting"
      /\ stack[t] \in Seq(Frames) /\ Callers(t) \in Seq(Frames) /\ stack[t][1] = Frame(t)
  BY <1>1, Nonempty, StackTyped DEF Wakes, Inv
<1>3. /\ stack \in [Tasks -> Seq(Frames)] /\ svc \in Service /\ buf \in Buffers /\ budget \in Budget
      /\ conn \in [Conns -> {"none", "open", "broken", "closed", "gone"}]
  BY DEF Inv, Slots, TypeInv
<1> DEFINE s == SendTask(w)
           r == RecvTask(w)
<1>4. stack[s] = <<>> /\ stack[r] = <<>>  BY <1>1 DEF Inv, Slots, TaskInv
<1>5. s \in Tasks /\ r \in Tasks /\ s # r /\ s # t /\ r # t /\ s # Pipeline /\ r # Pipeline /\ s \in Loops
  BY <1>2, <1>4, PlacesApart
<1> HIDE DEF s, r
<1>6. /\ stack'[t] = Callers(t) /\ stack'[s] = <<At("s_new")>> /\ stack'[r] = <<At("r_new")>>
      /\ \A u \in Tasks \ {t, s, r} : stack'[u] = stack[u]
  BY <1>1, <1>3, <1>5 DEF s, r
<1>7. At("s_new").at = "s_new" /\ At("r_new").at = "r_new" /\ At("s_new") \in Frames /\ At("r_new") \in Frames
  BY DEF At, Frames, LoopFrames, QuietFrames, QuietPlaces, SendPlaces
<1>8. stack' \in [Tasks -> Seq(Frames)]
  <2>1. <<At("s_new")>> \in Seq(Frames) /\ <<At("r_new")>> \in Seq(Frames)  BY <1>7
  <2> QED  BY <1>1, <1>2, <1>3, <2>1
<1>9. /\ Len(stack[t]) \in Nat /\ DOMAIN Callers(t) = 1..(Len(stack[t]) - 1)
      /\ DOMAIN stack[t] = 1..Len(stack[t])
      /\ \A i \in DOMAIN Callers(t) : i + 1 \in DOMAIN stack[t] /\ Callers(t)[i] = stack[t][i + 1]
  BY <1>2 DEF Callers
<1>10. ASSUME NEW u \in Tasks, NEW i \in DOMAIN stack'[u]
       PROVE  \/ u # t /\ u # s /\ u # r /\ i \in DOMAIN stack[u] /\ stack'[u][i] = stack[u][i]
              \/ u = t /\ i \in Nat /\ i + 1 \in DOMAIN stack[u] /\ stack'[u][i] = stack[u][i + 1]
              \/ u = s /\ i = 1 /\ stack'[u][i].at = "s_new"
              \/ u = r /\ i = 1 /\ stack'[u][i].at = "r_new"
  <2>1. CASE u = t  BY <2>1, <1>6, <1>9
  <2>2. CASE u = s  BY <2>2, <1>6, <1>7
  <2>3. CASE u = r  BY <2>3, <1>6, <1>7
  <2>4. CASE u \notin {t, s, r}  BY <2>4, <1>6
  <2> QED  BY <2>1, <2>2, <2>3, <2>4
<1>11. ASSUME NEW C, C \subseteq Special, NEW u \in Tasks, Inside(u, C)'
       PROVE  Inside(u, C) \/ (u = s /\ "s_new" \in C)
  <2>1. PICK i \in DOMAIN stack'[u] : stack'[u][i].at \in C  BY <1>11 DEF Inside
  <2>3. "r_new" \notin Special  BY DEF Special, SendPlaces, AudioPlaces, FinalPlaces
  <2>2. "r_new" \notin C  BY <2>3, <1>11
  <2> QED  BY <2>1, <2>2, <1>10 DEF Inside
<1>12. ASSUME NEW C, C \subseteq Special, NEW u \in Tasks, AtMostOne(stack[u], C)
       PROVE  AtMostOne(stack'[u], C)
  <2> SUFFICES ASSUME NEW i \in DOMAIN stack'[u], NEW j \in DOMAIN stack'[u],
                      stack'[u][i].at \in C, stack'[u][j].at \in C
               PROVE  i = j
    BY DEF AtMostOne
  <2>1. CASE u = s \/ u = r  BY <2>1, <1>5, <1>10
  <2>2. CASE u # t /\ u # s /\ u # r  BY <2>2, <1>10, <1>12 DEF AtMostOne
  <2>3. CASE u = t
    <3>1. /\ i \in Nat /\ i + 1 \in DOMAIN stack[u] /\ stack'[u][i] = stack[u][i + 1]
          /\ j \in Nat /\ j + 1 \in DOMAIN stack[u] /\ stack'[u][j] = stack[u][j + 1]
      BY <2>3, <1>5, <1>10
    <3>2. i + 1 = j + 1  BY <3>1, <1>12 DEF AtMostOne
    <3> QED  BY <3>1, <3>2
  <2> QED  BY <2>1, <2>2, <2>3
<1>13. SendPlaces \subseteq Special /\ AudioPlaces \subseteq Special /\ FinalPlaces \subseteq Special
  BY DEF Special
<1>14. TaskInv'
  <2>1. ASSUME NEW u \in Tasks, stack'[u] # <<>>, Head(stack'[u]).at \notin Awaits PROVE running' = u
    <3>1. CASE u = t  BY <3>1, <2>1, <1>1, <1>6
    <3>2. CASE u = s  BY <3>2, <2>1, <1>6, <1>7 DEF Awaits
    <3>3. CASE u = r  BY <3>3, <2>1, <1>6, <1>7 DEF Awaits
    <3>4. CASE u \notin {t, s, r}
      <4>1. running = u  BY <3>4, <2>1, <1>6 DEF Inv, Slots, TaskInv
      <4> QED  BY <4>1, <1>2, PlacesApart
    <3> QED  BY <3>1, <3>2, <3>3, <3>4
  <2>2. ASSUME NEW v \in Conns, conn'[v] = "none"
        PROVE  stack'[SendTask(v)] = <<>> /\ stack'[RecvTask(v)] = <<>>
    <3>1. v # w /\ conn[v] = "none"  BY <2>2, <1>1, <1>3
    <3>2. stack[SendTask(v)] = <<>> /\ stack[RecvTask(v)] = <<>>  BY <3>1 DEF Inv, Slots, TaskInv
    <3>3. /\ SendTask(v) \in Tasks \ {t, s, r} /\ RecvTask(v) \in Tasks \ {t, s, r}
      BY <3>1, <3>2, <1>2, PlacesApart DEF s, r
    <3> QED  BY <3>2, <3>3, <1>6
  <2>3. ASSUME NEW u \in Tasks
        PROVE  /\ Inside(u, SendPlaces)' => \E k \in Conns : u = SendTask(k)
               /\ Inside(u, AudioPlaces \cup FinalPlaces)' => u = Pipeline
    <3>1. Inside(u, SendPlaces)' => Inside(u, SendPlaces) \/ u = s  BY <1>11, <1>13
    <3>2. AudioPlaces \cup FinalPlaces \subseteq Special /\ "s_new" \notin AudioPlaces \cup FinalPlaces
      BY <1>13 DEF AudioPlaces, FinalPlaces
    <3>3. Inside(u, AudioPlaces \cup FinalPlaces)' => Inside(u, AudioPlaces \cup FinalPlaces)
      BY <3>2, <1>11
    <3> QED  BY <3>1, <3>3 DEF Inv, Slots, TaskInv, s
  <2>4. ASSUME NEW u \in Tasks
        PROVE  /\ AtMostOne(stack'[u], SendPlaces) /\ AtMostOne(stack'[u], AudioPlaces)
               /\ AtMostOne(stack'[u], FinalPlaces)
    <3>1. /\ AtMostOne(stack[u], SendPlaces) /\ AtMostOne(stack[u], AudioPlaces)
          /\ AtMostOne(stack[u], FinalPlaces)
      BY DEF Inv, Slots, TaskInv
    <3> QED  BY <3>1, <1>12, <1>13
  <2> QED  BY <2>1, <2>2, <2>3, <2>4 DEF TaskInv
<1>15. World
  <2>1. svc' \in Service /\ svc'.config = svc.config
    <3>1. w \in Nat  BY ServiceAssumption DEF Conns
    <3> QED  BY <1>1, <1>3, <1>5, <3>1 DEF Service, s, r
  <2> QED  BY <2>1, <1>1, <1>3 DEF World
<1>16. running' \in Tasks \cup {NoTask}  BY <1>1
<1>17. TypeInv'  BY <1>1, <1>3, <1>8, <1>15, <1>16 DEF TypeInv, World
<1>18. Holding' = Holding
  <2>1. Held \subseteq Special /\ "s_new" \notin Held /\ "connecting" \notin Held
    BY DEF Held, Special, SendPlaces
  <2>2. \A u \in Tasks : Inside(u, Held)' => Inside(u, Held)  BY <1>11, <2>1
  <2>3. ASSUME NEW u \in Tasks, Inside(u, Held) PROVE Inside(u, Held)'
    <3>1. PICK i \in DOMAIN stack[u] : stack[u][i].at \in Held  BY <2>3 DEF Inside
    <3>2. CASE u \notin {t, s, r}  BY <3>1, <3>2, <1>6 DEF Inside
    <3>3. CASE u = s \/ u = r  BY <3>1, <3>3, <1>4
    <3>4. CASE u = t
      <4>1. i # 1  BY <3>1, <3>4, <1>2, <2>1
      <4>2. i - 1 \in DOMAIN Callers(t) /\ (i - 1) + 1 = i  BY <3>1, <3>4, <4>1, <1>9
      <4>3. Callers(t)[i - 1] = stack[t][(i - 1) + 1]  BY <4>2, <1>9
      <4> QED  BY <3>1, <3>4, <4>2, <4>3, <1>6 DEF Inside
    <3> QED  BY <3>2, <3>3, <3>4
  <2>4. Loops \subseteq Tasks  BY HoldingFinite
  <2>5. \A u \in Loops : Inside(u, Held)' <=> Inside(u, Held)  BY <2>2, <2>3, <2>4
  <2>6. \A u \in Loops : (u \in Holding <=> Inside(u, Held)) /\ (u \in Holding' <=> Inside(u, Held)')
    BY DEF Holding, Held
  <2>7. Holding \subseteq Loops /\ Holding' \subseteq Loops  BY DEF Holding
  <2>8. \A u : u \in Holding' <=> u \in Holding  BY <2>5, <2>6, <2>7
  <2> QED  BY <2>8
<1>19. AccountInv'
  <2>1. Cardinality(Holding) \in Nat  BY HoldingFinite
  <2>2. Cardinality(Holding') = Cardinality(Holding) + 0 /\ 0 \in Int  BY <2>1, <1>18
  <2> QED  BY <2>1, <2>2, <1>1, <1>15, AccountsSame, AccountStep
<1>20. FinalInv'
  <2> SUFFICES ASSUME NEW i \in DOMAIN stack'[Pipeline],
                      stack'[Pipeline][i].at \in {"final_sent", "final_wait"}
               PROVE  stack'[Pipeline][i].gen \in finalSet \cup waiters
    BY <1>1 DEF FinalInv
  <2>1. Pipeline \in Tasks  BY PlacesApart
  <2>2. PICK j \in DOMAIN stack[Pipeline] : stack'[Pipeline][i] = stack[Pipeline][j]
    BY <2>1, <1>5, <1>10
  <2> QED  BY <2>2 DEF Inv, FinalInv
<1>21. TakeInv'
  <2> SUFFICES ASSUME NEW u \in Tasks, NEW i \in DOMAIN stack'[u], stack'[u][i].at = "s_take"
               PROVE  i = 1 /\ buf.queue # <<>>
    BY <1>1 DEF TakeInv
  <2>1. CASE u # t /\ u # s /\ u # r /\ i \in DOMAIN stack[u] /\ stack'[u][i] = stack[u][i]
    BY <2>1 DEF Inv, TakeInv
  <2>2. CASE u = t /\ i \in Nat /\ i + 1 \in DOMAIN stack[u] /\ stack'[u][i] = stack[u][i + 1]
    <3>1. i + 1 = 1  BY <2>2 DEF Inv, TakeInv
    <3>2. i = 0 /\ i \in DOMAIN Callers(t)  BY <3>1, <2>2, <1>6
    <3> QED  BY <3>2, <1>9
  <2> QED  BY <2>1, <2>2, <1>10
<1> QED  BY <1>14, <1>17, <1>19, <1>20, <1>21 DEF Inv, Slots

LEMMA CoroutineKeeps == ASSUME Inv, NEW t \in Tasks, CoroutineStep(t) PROVE Inv'
<1>1. CASE Connected(t)  BY <1>1, ConnectedKeeps
<1>2. CASE Unwinds(t)  BY <1>2, UnwindsGood, GoodStepKeeps
<1>3. CASE \/ Connect(t) \/ ConnectGranted(t) \/ ConnectLocked(t) \/ ConnectFails(t)
           \/ Start(t) \/ StartGranted(t) \/ StartLocked(t) \/ StartConnected(t) \/ StartSent(t)
           \/ StartReady(t) \/ StartTimesOut(t)
  <2>1. QuietStep(t)
    BY <1>3, ConnectQuiet, ConnectGrantedQuiet, ConnectLockedQuiet, ConnectFailsQuiet, StartQuiet,
       StartGrantedQuiet, StartLockedQuiet, StartConnectedQuiet, StartSentQuiet, StartReadyQuiet,
       StartTimesOutQuiet
  <2> QED  BY <2>1, QuietCalm, GoodStepKeeps
<1>4. CASE \/ Send(t) \/ Sent(t) \/ SendAgain(t) \/ ReconnectClosed(t) \/ Disconnected(t)
           \/ Close(t) \/ CloseAwaits(t) \/ CloseAwaited(t) \/ CloseSocket(t) \/ Closed(t)
           \/ CancelDelivered(t)
  <2>1. QuietStep(t)
    BY <1>4, SendQuiet, SentQuiet, SendAgainQuiet, ReconnectClosedQuiet, DisconnectedQuiet, CloseQuiet,
       CloseAwaitsQuiet, CloseAwaitedQuiet, CloseSocketQuiet, ClosedQuiet, CancelDeliveredQuiet
  <2> QED  BY <2>1, QuietCalm, GoodStepKeeps
<1> QED  BY <1>1, <1>2, <1>3, <1>4 DEF CoroutineStep

-----------------------------------------------------------------------------
(* The send loop and the receive loop                                      *)

\* The innermost frame is the only one of its kind.
LEMMA HeadOnly ==
    ASSUME Inv, NEW t \in Tasks, stack[t] # <<>>, NEW C \in Classes, Frame(t).at \in C
    PROVE  \A i \in DOMAIN stack[t] : i # 1 => stack[t][i].at \notin C
<1>1. stack[t][1] = Frame(t) /\ 1 \in DOMAIN stack[t]  BY StackTyped DEF Inv
<1>2. AtMostOne(stack[t], C)  BY DEF Inv, Slots, TaskInv, Classes
<1> QED  BY <1>1, <1>2 DEF AtMostOne

\* A frame of a task's own kind takes the place of another, below quiet ones.
LEMMA CallGood ==
    ASSUME Inv, NEW t \in Tasks, NEW l, Wakes(t, l) \/ Runs(t, l), l \notin Held, World, Accounts(0),
           NEW q \in Seq(QuietFrames), NEW f \in Frames, Becomes(t, (q \o <<f>>) \o Callers(t)),
           f.at \notin Held, \A C \in Classes : f.at \in C => l \in C,
           f.at \in Waits => f.gen \in Reachable',
           Reachable \subseteq Reachable' \/ (t = Pipeline /\ l \in FinalPlaces),
           f.at = "s_take" => q = <<>> /\ buf'.queue # <<>>
    PROVE  GoodStep(t)
<1> DEFINE w == q \o <<f>>
           m == Len(q)
<1>1. stack[t] # <<>> /\ Frame(t).at = l /\ running \in {t, NoTask}  BY Nonempty
<1>2. q \in Seq(Frames) /\ \A i \in DOMAIN q : q[i].at \notin Special  BY QuietSeq
<1>3. w \in Seq(Frames) /\ m \in Nat /\ DOMAIN w = 1..(m + 1) /\ w[m + 1] = f  BY <1>2
<1>4. \A i \in DOMAIN w : i # m + 1 => i \in DOMAIN q /\ w[i] = q[i]  BY <1>2
<1>5. Move(t, 1, w)  BY <1>1, <1>3, PushMove DEF Inv
<1>6. m = 0 => q = <<>>  BY <1>2
<1> HIDE DEF w, m
<1>7. \A i \in DOMAIN w : i # m + 1 => w[i].at \notin Special  BY <1>2, <1>4
<1>8. stack[t][1].at = l  BY <1>1, StackTyped DEF Inv
<1>9. 1 \in 1..1 /\ (\A i \in 1..1 : i = 1) /\ m + 1 \in DOMAIN w  BY <1>3
<1>10. \A C \in Classes : C \subseteq Special  BY DEF Classes, Special
<1>11. Held \subseteq Special /\ Waits \subseteq Special /\ "s_take" \in Special
  BY DEF Held, Waits, Special, SendPlaces, FinalPlaces
<1>12. Fit(t, 1, w)
  <2> SUFFICES ASSUME NEW C \in Classes
               PROVE  AtMostOne(w, C) /\ (Has(w, C) => \E i \in 1..1 : stack[t][i].at \in C)
    BY DEF Fit
  <2>1. \A i \in DOMAIN w : w[i].at \in C => i = m + 1  BY <1>7, <1>10
  <2> QED  BY <2>1, <1>3, <1>8, <1>9 DEF AtMostOne, Has
<1>13. Finals(t, 1, w)
  <2>1. \A i \in DOMAIN w : w[i].at \in Waits => i = m + 1  BY <1>7, <1>11
  <2>2. \A i \in DOMAIN w : w[i].at \in Waits => w[i].gen \in Reachable'  BY <2>1, <1>3
  <2>3. CASE Reachable \subseteq Reachable'  BY <2>2, <2>3 DEF Finals
  <2>4. CASE t = Pipeline /\ l \in FinalPlaces  BY <2>2, <2>4, <1>8, <1>9 DEF Finals
  <2> QED  BY <2>3, <2>4
<1>14. Takes(w)
  <2> SUFFICES ASSUME NEW i \in DOMAIN w, w[i].at = "s_take" PROVE i = 1 /\ buf'.queue # <<>>
    BY DEF Takes
  <2>1. i = m + 1  BY <1>7, <1>11
  <2>2. q = <<>> /\ buf'.queue # <<>>  BY <2>1, <1>3
  <2>3. m = 0  BY <2>2 DEF m
  <2> QED  BY <2>1, <2>2, <2>3
<1>15. ~Has(w, Held)
  <2>1. \A i \in DOMAIN w : w[i].at \in Held => i = m + 1  BY <1>7, <1>11
  <2> QED  BY <2>1, <1>3 DEF Has
<1>16. \A i \in 1..1 : stack[t][i].at \notin Held  BY <1>8, <1>9
<1> QED  BY <1>5, <1>12, <1>13, <1>14, <1>15, <1>16, CalmStep DEF Calm

LEMMA SwapGood ==
    ASSUME Inv, NEW t \in Tasks, NEW l, Wakes(t, l) \/ Runs(t, l), l \notin Held, World, Accounts(0),
           NEW f \in Frames, Goto(t, f), f.at \notin Held,
           \A C \in Classes : f.at \in C => l \in C,
           f.at \in Waits => f.gen \in Reachable', Reachable \subseteq Reachable',
           f.at = "s_take" => buf'.queue # <<>>
    PROVE  GoodStep(t)
<1>1. <<>> \in Seq(QuietFrames) /\ <<>> \o <<f>> = <<f>>  OBVIOUS
<1>2. Becomes(t, (<<>> \o <<f>>) \o Callers(t))  BY <1>1 DEF Goto
<1> QED  BY <1>1, <1>2, CallGood

LEMMA SenderLoopsGood == ASSUME Inv, NEW k \in Conns, SenderLoops(k) PROVE GoodStep(SendTask(k))
<1> DEFINE t == SendTask(k)
<1>1. t \in Tasks  BY PlacesApart
<1>2. PICK l \in {"s_new", "s_loop"} : Wakes(t, l) \/ Runs(t, l)  BY DEF SenderLoops
<1>3. Unmoved
  BY Still DEF SenderLoops, serviceVars, syncVars, eventVars, outsideVars, wireVars, historyVars
<1>4. CASE Ends(t, "ok")
  <2>1. stack[t] # <<>> /\ Frame(t).at = l /\ SendPlaces \in Classes  BY <1>2, Nonempty DEF Classes
  <2>2. Frame(t).at \in SendPlaces /\ Frame(t).at \notin Held  BY <1>2, <2>1 DEF SendPlaces, Held
  <2>3. \A i \in DOMAIN stack[t] : i # 1 => stack[t][i].at \notin SendPlaces  BY <1>1, <2>1, <2>2, HeadOnly
  <2>4. stack[t][1] = Frame(t)  BY <1>1, <2>1, StackTyped DEF Inv
  <2>5. Held \subseteq SendPlaces  BY DEF Held, SendPlaces
  <2>6. ~Inside(t, Held)  BY <2>2, <2>3, <2>4, <2>5 DEF Inside
  <2> QED  BY <1>1, <1>2, <1>3, <1>4, <2>6, QuietEnds, QuietCalm
<1>5. CASE Goto(t, At(IF buf.queue = <<>> THEN "s_get" ELSE "s_take"))
  <2> DEFINE f == At(IF buf.queue = <<>> THEN "s_get" ELSE "s_take")
  <2>1. f \in Frames /\ f.at \in {"s_get", "s_take"} /\ (f.at = "s_take" => buf.queue # <<>>)
    BY DEF At, Frames, LoopFrames, SendPlaces
  <2>2. buf' = buf  BY DEF SenderLoops, serviceVars
  <2>3. \A C \in Classes : f.at \in C => l \in C
    BY <1>2, <2>1 DEF Classes, SendPlaces, AudioPlaces, FinalPlaces
  <2>4. l \notin Held /\ f.at \notin Held /\ f.at \notin Waits  BY <1>2, <2>1 DEF Held, Waits
  <2> HIDE DEF f
  <2> QED  BY <1>1, <1>2, <1>3, <1>5, <2>1, <2>2, <2>3, <2>4, AccountsSame, SwapGood DEF Unmoved, f
<1> QED  BY <1>4, <1>5 DEF SenderLoops

LEMMA SenderWakesGood == ASSUME Inv, NEW k \in Conns, SenderWakes(k) PROVE GoodStep(SendTask(k))
<1> DEFINE t == SendTask(k)
<1>1. t \in Tasks /\ Wakes(t, "s_get") /\ buf.queue # <<>> /\ Goto(t, At("s_take"))
  BY PlacesApart DEF SenderWakes
<1>2. Unmoved /\ buf' = buf
  BY Still DEF SenderWakes, serviceVars, syncVars, eventVars, outsideVars, wireVars, historyVars
<1>3. At("s_take") \in Frames /\ At("s_take").at = "s_take"  BY DEF At, Frames, LoopFrames, SendPlaces
<1>4. \A C \in Classes : "s_take" \in C => "s_get" \in C
  BY DEF Classes, SendPlaces, AudioPlaces, FinalPlaces
<1>5. "s_get" \notin Held /\ "s_take" \notin Held /\ "s_take" \notin Waits  BY DEF Held, Waits
<1> QED  BY <1>1, <1>2, <1>3, <1>4, <1>5, AccountsSame, SwapGood DEF Unmoved

\* What the queue holds once its oldest chunk is taken out.
LEMMA TakenIs ==
    ASSUME Inv, buf.queue # <<>>, NEW b,
           b = [buf EXCEPT !.queue = Tail(@), !.queued = Less(@, Len(Head(buf.queue).frames))]
    PROVE  /\ b \in Buffers /\ b.queued = Duration(b.queue) /\ b.unfinished = buf.unfinished
           /\ b.queue = Tail(buf.queue) /\ Len(b.queue) = Len(buf.queue) - 1 /\ Bounded(b)
<1>1. /\ buf.queue \in Seq(Chunk) /\ buf \in Buffers /\ buf.queued = Duration(buf.queue)
  BY DEF Inv, Slots, TypeInv, AccountInv, Buffers
<1> DEFINE h == Head(buf.queue)
           q == Tail(buf.queue)
<1>2. h \in Chunk /\ q \in Seq(Chunk) /\ Len(q) = Len(buf.queue) - 1 /\ Len(buf.queue) \in Nat  BY <1>1
<1>3. Duration(buf.queue) = Len(h.frames) + Duration(q)  BY <1>1, DurationTail
<1>4. Len(h.frames) \in Nat /\ Duration(q) \in Nat
  <2> HIDE DEF h, q
  <2>1. h.frames \in Seq(Nat)  BY <1>2 DEF Chunk
  <2> QED  BY <1>2, <2>1, DurationNat
<1> HIDE DEF h, q
<1>5. b.queue = q /\ b.unfinished = buf.unfinished /\ b.queued = Less(buf.queued, Len(h.frames))
  BY <1>1 DEF Buffers, h, q
<1>6. Less(buf.queued, Len(h.frames)) = Duration(q)  BY <1>1, <1>3, <1>4 DEF Less
<1>7. b \in Buffers
  <2>1. b = [buf EXCEPT !.queue = q, !.queued = Duration(q)]  BY <1>6 DEF h, q
  <2> QED  BY <2>1, <1>1, <1>2, <1>4 DEF Buffers
<1>8. Bounded(b)
  <2>1. svc.config.maxQueue \in Nat  BY DEF Inv, Slots, TypeInv, Service, Config
  <2>2. CASE Duration(buf.queue) <= svc.config.maxQueue
    <3>1. Duration(q) <= svc.config.maxQueue  BY <2>1, <2>2, <1>3, <1>4
    <3> QED  BY <3>1, <1>5 DEF Bounded
  <2>3. CASE svc.config.policy = "block" /\ Len(buf.queue) = 1
    <3>1. Len(q) = 0  BY <2>3, <1>2
    <3>2. q = <<>>  BY <3>1, <1>2
    <3>3. Duration(q) = 0  BY <3>2, DurationEmpty
    <3>4. Duration(b.queue) = 0  BY <3>3, <1>5
    <3>5. Duration(b.queue) <= svc.config.maxQueue  BY <3>4, <2>1
    <3> QED  BY <3>5 DEF Bounded
  <2>4. \/ Duration(buf.queue) <= svc.config.maxQueue
        \/ svc.config.policy = "block" /\ Len(buf.queue) = 1
    BY DEF Inv, AccountInv
  <2> QED  BY <2>2, <2>3, <2>4
<1>9. b.queue = Tail(buf.queue) /\ Len(b.queue) = Len(buf.queue) - 1  BY <1>2, <1>5 DEF q
<1> QED  BY <1>5, <1>6, <1>7, <1>8, <1>9

LEMMA SenderTakesGood == ASSUME Inv, NEW k \in Conns, SenderTakes(k) PROVE GoodStep(SendTask(k))
<1> DEFINE t == SendTask(k)
           chunk == Head(buf.queue)
           taken == [buf EXCEPT !.queue = Tail(@), !.queued = Less(@, Len(chunk.frames))]
<1>1. t \in Tasks /\ Runs(t, "s_take")  BY PlacesApart DEF SenderTakes
<1>2. stack[t] # <<>> /\ Frame(t).at = "s_take" /\ running \in {t, NoTask}  BY <1>1, Nonempty
<1>3. stack[t][1].at = "s_take" /\ 1 \in DOMAIN stack[t]  BY <1>1, <1>2, StackTyped DEF Inv
<1>4. buf.queue # <<>>  BY <1>1, <1>3 DEF Inv, TakeInv
<1>5. /\ taken \in Buffers /\ taken.queued = Duration(taken.queue)
      /\ taken.unfinished = buf.unfinished
      /\ Len(taken.queue) = Len(buf.queue) - 1 /\ Bounded(taken)
  BY <1>4, TakenIs
<1>6. chunk \in Chunk /\ Len(buf.queue) \in Nat /\ buf.unfinished \in Int
  <2>1. buf.queue \in Seq(Chunk) /\ buf.unfinished \in Int  BY DEF Inv, Slots, TypeInv, Buffers
  <2> QED  BY <1>4, <2>1
<1>7. World /\ Reachable \subseteq Reachable'
  BY WorldSame, FinalsSame DEF SenderTakes, syncVars, eventVars, outsideVars, wireVars, historyVars
<1>8. "s_take" \notin Held /\ 1 \in 1..1 /\ \A i \in 1..1 : i = 1  BY DEF Held
<1>9. ~\E i \in 1..1 : stack[t][i].at \in Held  BY <1>3, <1>8
<1> DEFINE m == [type |-> "audio", frames |-> chunk.frames, gen |-> chunk.gen]
           g == SendCall(m, TRUE, TRUE)
           f == [at |-> "s_sent", chunk |-> chunk]
<1>10. CASE Call(t, g, f) /\ buf' = taken
  <2>1. m \in Message  BY <1>6 DEF Message, Chunk
  <2>2. g \in QuietFrames  BY <2>1, SendFrame
  <2>3. g \in Frames /\ g.at = "send"  BY <2>2, QuietIsQuiet DEF SendCall
  <2>4. f \in Frames /\ f.at = "s_sent"  BY <1>6 DEF Frames, LoopFrames
  <2> HIDE DEF g, f
  <2> DEFINE w == <<g, f>>
  <2>5. Move(t, 1, w)  BY <1>1, <1>2, <1>10, <2>3, <2>4, CallMove DEF Inv
  <2>6. DOMAIN w = {1, 2} /\ w[1] = g /\ w[2] = f  OBVIOUS
  <2> HIDE DEF w
  <2>7. Fit(t, 1, w)
    <3> SUFFICES ASSUME NEW C \in Classes
                 PROVE  AtMostOne(w, C) /\ (Has(w, C) => \E i \in 1..1 : stack[t][i].at \in C)
      BY DEF Fit
    <3>1. "send" \notin C /\ ("s_sent" \in C => "s_take" \in C)
      BY DEF Classes, SendPlaces, AudioPlaces, FinalPlaces
    <3> QED  BY <3>1, <2>3, <2>4, <2>6, <1>3, <1>8 DEF AtMostOne, Has
  <2>8. Hands(t, 1, w) = 1
    <3>1. Has(w, Held)  BY <2>4, <2>6 DEF Has, Held
    <3> QED  BY <3>1, <1>9 DEF Hands, Count
  <2>9. Accounts(1)
    <3>1. taken.unfinished - Len(taken.queue) = (buf.unfinished - Len(buf.queue)) + 1  BY <1>5, <1>6
    <3> HIDE DEF taken
    <3> QED  BY <3>1, <1>5, <1>10 DEF Accounts
  <2>10. Finals(t, 1, w) /\ Takes(w)  BY <1>7, <2>3, <2>4, <2>6 DEF Finals, Takes, Waits
  <2> QED  BY <1>7, <2>5, <2>7, <2>8, <2>9, <2>10 DEF Good, GoodStep
<1>11. CASE Goto(t, At("s_loop")) /\ buf' = [taken EXCEPT !.unfinished = @ - 1]
  <2>1. At("s_loop") \in Frames /\ At("s_loop").at = "s_loop"  BY DEF At, Frames, LoopFrames, SendPlaces
  <2> DEFINE w == <<At("s_loop")>>
  <2>2. Move(t, 1, w)  BY <1>1, <1>2, <1>11, <2>1, GotoMove DEF Inv
  <2>3. DOMAIN w = {1} /\ w[1].at = "s_loop"  BY <2>1
  <2> HIDE DEF w
  <2>4. \A C \in Classes : "s_loop" \in C => "s_take" \in C
    BY DEF Classes, SendPlaces, AudioPlaces, FinalPlaces
  <2>5. Fit(t, 1, w)  BY <2>3, <2>4, <1>3, <1>8 DEF Fit, AtMostOne, Has
  <2>6. Hands(t, 1, w) = 0
    <3>1. ~Has(w, Held)  BY <2>3 DEF Has, Held
    <3> QED  BY <3>1, <1>9 DEF Hands, Count
  <2>7. Accounts(0)
    <3> HIDE DEF taken
    <3>1. /\ buf' \in Buffers /\ buf'.queue = taken.queue /\ buf'.queued = taken.queued
          /\ buf'.unfinished = taken.unfinished - 1
      <4>1. taken.unfinished - 1 \in Int  BY <1>5, <1>6
      <4> QED  BY <4>1, <1>5, <1>11 DEF Buffers
    <3>2. Duration(buf'.queue) = Duration(taken.queue) /\ Bounded(buf')
      BY <3>1, <1>5 DEF Bounded
    <3>3. buf'.unfinished - Len(buf'.queue) = (buf.unfinished - Len(buf.queue)) + 0
      BY <3>1, <1>5, <1>6
    <3>4. buf'.queued = Duration(buf'.queue)  BY <3>1, <3>2, <1>5
    <3> QED  BY <3>1, <3>2, <3>3, <3>4 DEF Accounts
  <2>8. Finals(t, 1, w) /\ Takes(w)  BY <1>7, <2>3 DEF Finals, Takes, Waits
  <2> QED  BY <1>7, <2>2, <2>5, <2>6, <2>7, <2>8 DEF Good, GoodStep
<1> QED  BY <1>10, <1>11 DEF SenderTakes

LEMMA SenderDoneGood ==
    ASSUME Inv, NEW k \in Conns, SenderSent(k) \/ SenderGone(k) PROVE GoodStep(SendTask(k))
<1> DEFINE t == SendTask(k)
<1>1. t \in Tasks  BY PlacesApart
<1>2. PICK l \in Held : Runs(t, l)  BY DEF SenderSent, SenderGone, Held
<1>3. stack[t] # <<>> /\ Frame(t).at = l /\ running \in {t, NoTask} /\ SendPlaces \in Classes
  BY <1>2, Nonempty DEF Classes
<1>4. stack[t] \in Seq(Frames) /\ stack[t][1].at = l /\ 1 \in DOMAIN stack[t] /\ l \in SendPlaces
  BY <1>1, <1>2, <1>3, StackTyped DEF Inv, Held, SendPlaces
<1>5. Accounts(-1)  BY DoneAccounts DEF SenderSent, SenderGone, Done
<1>6. World /\ Reachable \subseteq Reachable'
  BY WorldSame, FinalsSame DEF SenderSent, SenderGone, syncVars, eventVars, outsideVars, wireVars, historyVars
<1>7. CASE Ends(t, "ok")
  <2> DEFINE n == Len(stack[t])
  <2>1. Move(t, n, <<>>)  BY <1>1, <1>3, <1>7, EndsMove DEF Inv
  <2>2. DOMAIN <<>> = {} /\ 1 \in 1..n  BY <1>4
  <2>3. Fit(t, n, <<>>) /\ Finals(t, n, <<>>) /\ Takes(<<>>)  BY <2>2, <1>6 DEF Fit, AtMostOne, Has, Finals, Takes
  <2>4. Hands(t, n, <<>>) = -1
    <3>1. ~Has(<<>>, Held)  BY <2>2 DEF Has
    <3>2. \E i \in 1..n : stack[t][i].at \in Held  BY <2>2, <1>2, <1>4
    <3> QED  BY <3>1, <3>2 DEF Hands, Count
  <2> QED  BY <1>5, <1>6, <2>1, <2>3, <2>4 DEF Good, GoodStep
<1>8. CASE Goto(t, At("s_loop"))
  <2>1. At("s_loop") \in Frames /\ At("s_loop").at = "s_loop"  BY DEF At, Frames, LoopFrames, SendPlaces
  <2> DEFINE w == <<At("s_loop")>>
  <2>2. Move(t, 1, w)  BY <1>1, <1>3, <1>8, <2>1, GotoMove DEF Inv
  <2>3. DOMAIN w = {1} /\ w[1].at = "s_loop" /\ 1 \in 1..1  BY <2>1
  <2> HIDE DEF w
  <2>4. \A C \in Classes : "s_loop" \in C => l \in C
    BY <1>4 DEF Classes, SendPlaces, AudioPlaces, FinalPlaces
  <2>5. Fit(t, 1, w)  BY <2>3, <2>4, <1>4 DEF Fit, AtMostOne, Has
  <2>6. Hands(t, 1, w) = -1
    <3>1. ~Has(w, Held)  BY <2>3 DEF Has, Held
    <3>2. \E i \in 1..1 : stack[t][i].at \in Held  BY <2>3, <1>2, <1>4
    <3> QED  BY <3>1, <3>2 DEF Hands, Count
  <2>7. Finals(t, 1, w) /\ Takes(w)  BY <1>6, <2>3 DEF Finals, Takes, Waits
  <2> QED  BY <1>5, <1>6, <2>2, <2>5, <2>6, <2>7 DEF Good, GoodStep
<1> QED  BY <1>7, <1>8 DEF SenderSent, SenderGone

LEMMA ReceivesStill ==
    ASSUME Inv, NEW k, NEW m, Receives(k, m), Reachable \subseteq Reachable' PROVE Unmoved
BY WorldSame, EasesSame DEF Receives, Unmoved, historyVars

LEMMA ReceiverQuiet == ASSUME Inv, NEW k \in Conns, ReceiverStep(k) PROVE QuietStep(RecvTask(k))
<1> DEFINE t == RecvTask(k)
<1>1. t \in Tasks /\ ~Inside(t, Held)
  <2>1. t \in Tasks /\ \A j \in Conns : t # SendTask(j)  BY PlacesApart
  <2> QED  BY <2>1, EmptyHanded
<1>2. {"r_new", "r_loop", "r_ponged", "r_recv", "r_push", "r_failed", "r_end"} \cap Held = {}  BY DEF Held
<1>3. /\ At("r_loop") \in QuietFrames /\ At("r_failed") \in QuietFrames
      /\ At("r_ponged") \in QuietFrames /\ At("r_end") \in QuietFrames
  BY QuietAt DEF QuietPlaces
<1>4. CASE ReceiverLoops(k)
  <2>1. Unmoved
    BY <1>4, Still DEF ReceiverLoops, serviceVars, syncVars, eventVars, outsideVars, wireVars, historyVars
  <2>2. PICK l \in {"r_new", "r_loop", "r_ponged"} : Wakes(t, l) \/ Runs(t, l)  BY <1>4 DEF ReceiverLoops
  <2>3. [at |-> "r_recv", conn |-> svc.ws] \in QuietFrames
    BY DEF Inv, Slots, TypeInv, Service, QuietFrames
  <2>4. Ends(t, "ok") \/ Goto(t, [at |-> "r_recv", conn |-> svc.ws])  BY <1>4 DEF ReceiverLoops
  <2>5. l \notin Held  BY <1>2, <2>2
  <2> QED  BY <1>1, <2>1, <2>2, <2>3, <2>4, <2>5, QuietEnds, QuietGoto
<1>5. CASE ReceivesPing(k)
  <2>1. PICK m : /\ Receives(k, m) /\ UNCHANGED eventVars
                 /\ Call(t, SendCall([type |-> "pong"], TRUE, TRUE), At("r_ponged"))
    BY <1>5 DEF ReceivesPing
  <2>2. Unmoved  BY <2>1, FinalsSame, ReceivesStill DEF eventVars
  <2>3. SendCall([type |-> "pong"], TRUE, TRUE) \in QuietFrames
    <3>1. [type |-> "pong"] \in Message  BY DEF Message
    <3> QED  BY <3>1, SendFrame
  <2>4. Wakes(t, "r_recv") /\ "r_recv" \notin Held  BY <2>1, <1>2 DEF Receives
  <2> QED  BY <1>1, <1>3, <2>1, <2>2, <2>3, <2>4, QuietCall
<1>6. CASE ReceivesReady(k)
  <2>1. PICK m : Receives(k, m) /\ UNCHANGED <<waiters, finalSet>> /\ Goto(t, At("r_loop"))
    BY <1>6 DEF ReceivesReady
  <2>2. Unmoved  BY <2>1, FinalsSame, ReceivesStill
  <2>3. Wakes(t, "r_recv") /\ "r_recv" \notin Held  BY <2>1, <1>2 DEF Receives
  <2> QED  BY <1>1, <1>3, <2>1, <2>2, <2>3, QuietGoto
<1>7. CASE ReceivesTranscript(k)
  <2>1. PICK m \in [type : {"partial", "final"}, gen : Gens] :
          /\ Receives(k, m) /\ UNCHANGED waiters
          /\ finalSet' = finalSet \/ finalSet' = finalSet \cup ({m.gen} \cap waiters)
          /\ Goto(t, At("r_loop")) \/ Goto(t, [at |-> "r_push", msg |-> m])
    BY <1>7 DEF ReceivesTranscript
  <2>2. Reachable \subseteq Reachable'  BY <2>1 DEF Reachable
  <2>3. Unmoved  BY <2>1, <2>2, ReceivesStill
  <2>4. [at |-> "r_push", msg |-> m] \in QuietFrames  BY DEF QuietFrames
  <2>5. Wakes(t, "r_recv") /\ "r_recv" \notin Held  BY <2>1, <1>2 DEF Receives
  <2> QED  BY <1>1, <1>3, <2>1, <2>3, <2>4, <2>5, QuietGoto
<1>8. CASE ReceiverPushes(k)
  <2>0. svc \in Service  BY DEF Inv, Slots, TypeInv
  <2>1. svc' = [svc EXCEPT !.active = @ /\ Frame(t).msg.type # "final"]  BY <1>8 DEF ReceiverPushes
  <2>2. svc' \in Service /\ svc'.config = svc.config  BY <2>0, <2>1 DEF Service
  <2>3. Unmoved
    BY <1>8, <2>2, SvcMoves DEF ReceiverPushes, syncVars, eventVars, outsideVars, wireVars, historyVars
  <2>4. Wakes(t, "r_push") /\ Goto(t, At("r_loop")) /\ "r_push" \notin Held
    BY <1>8, <1>2 DEF ReceiverPushes
  <2> QED  BY <1>1, <1>3, <2>3, <2>4, QuietGoto
<1>9. CASE ReceivesEnd(k)
  <2>1. PICK m : Receives(k, m) /\ Release /\ Goto(t, At("r_loop"))  BY <1>9 DEF ReceivesEnd
  <2>2. Unmoved  BY <2>1, ReleaseReaches, ReceivesStill
  <2>3. Wakes(t, "r_recv") /\ "r_recv" \notin Held  BY <2>1, <1>2 DEF Receives
  <2> QED  BY <1>1, <1>3, <2>1, <2>2, <2>3, QuietGoto
<1>10. CASE ReceiverLosesConnection(k)
  <2>1. Unmoved
    BY <1>10, Still DEF ReceiverLosesConnection, serviceVars, syncVars, eventVars, outsideVars, wireVars,
       historyVars
  <2>2. Wakes(t, "r_recv") /\ Goto(t, At("r_failed")) /\ "r_recv" \notin Held
    BY <1>10, <1>2 DEF ReceiverLosesConnection
  <2> QED  BY <1>1, <1>3, <2>1, <2>2, QuietGoto
<1>11. CASE ReceiverFailed(k)
  <2>1. Unmoved
    BY <1>11, Still DEF ReceiverFailed, serviceVars, syncVars, eventVars, outsideVars, wireVars, historyVars
  <2> DEFINE a == IF svc.config.reconnect /\ ~svc.closed THEN Reconnecting(TRUE) ELSE Disconnecting
             w == a \o <<At("r_end")>>
  <2>2. a \in Seq(QuietFrames)  BY ReconnectingSeq, DisconnectingSeq
  <2>3. Runs(t, "r_failed") /\ Becomes(t, w)  BY <1>11 DEF ReceiverFailed
  <2> HIDE DEF a
  <2>4. w \in Seq(QuietFrames)  BY <2>2, <1>3
  <2> HIDE DEF w
  <2> QED  BY <1>1, <2>1, <2>3, <2>4, QuietWhole
<1>12. CASE ReceiverEnds(k)
  <2>1. Unmoved
    BY <1>12, Still DEF ReceiverEnds, serviceVars, syncVars, eventVars, outsideVars, wireVars, historyVars
  <2>2. Runs(t, "r_end") /\ Ends(t, "ok")  BY <1>12 DEF ReceiverEnds
  <2> QED  BY <1>1, <2>1, <2>2, QuietEnds
<1> QED  BY <1>4, <1>5, <1>6, <1>7, <1>8, <1>9, <1>10, <1>11, <1>12 DEF ReceiverStep

-----------------------------------------------------------------------------
(* The pipeline task                                                       *)

LEMMA ReturnGood ==
    ASSUME Inv, NEW t \in Tasks, NEW l, Wakes(t, l) \/ Runs(t, l), l \notin Held, World, Accounts(0), Return(t),
           Reachable \subseteq Reachable' \/ (t = Pipeline /\ l \in FinalPlaces)
    PROVE  GoodStep(t)
<1>1. stack[t] # <<>> /\ Frame(t).at = l /\ running \in {t, NoTask}  BY Nonempty
<1>2. Move(t, 1, <<>>)  BY <1>1, ReturnMove DEF Inv
<1>3. stack[t][1].at = l  BY <1>1, StackTyped DEF Inv
<1>4. DOMAIN <<>> = {} /\ 1 \in 1..1 /\ \A i \in 1..1 : i = 1  OBVIOUS
<1>5. Fit(t, 1, <<>>) /\ Takes(<<>>) /\ ~Has(<<>>, Held)  BY <1>4 DEF Fit, Takes, AtMostOne, Has
<1>6. Finals(t, 1, <<>>)
  <2>1. CASE Reachable \subseteq Reachable'  BY <2>1, <1>4 DEF Finals
  <2>2. CASE t = Pipeline /\ l \in FinalPlaces  BY <2>2, <1>3, <1>4 DEF Finals
  <2> QED  BY <2>1, <2>2
<1>7. \A i \in 1..1 : stack[t][i].at \notin Held  BY <1>3, <1>4
<1> QED  BY <1>2, <1>5, <1>6, <1>7, CalmStep DEF Calm

LEMMA PartsMove ==
    ASSUME Inv, NEW p \in Seq(Nat)
    PROVE  /\ buf' = [buf EXCEPT !.preroll = p] => Accounts(0)
           /\ buf' = [buf EXCEPT !.aggregate = p] => Accounts(0)
<1>1. buf \in Buffers  BY DEF Inv, Slots, TypeInv
<1>2. buf' = [buf EXCEPT !.preroll = p] => SameQueue  BY <1>1 DEF SameQueue, Buffers
<1>3. buf' = [buf EXCEPT !.aggregate = p] => SameQueue  BY <1>1 DEF SameQueue, Buffers
<1> QED  BY <1>2, <1>3, EasesAccounts DEF Eases

LEMMA PipelineFrame ==
    ASSUME Inv, NEW l, Wakes(Pipeline, l) \/ Runs(Pipeline, l)
    PROVE  /\ Pipeline \in Tasks /\ Frame(Pipeline) \in Frames /\ Frame(Pipeline).at = l
           /\ stack[Pipeline] # <<>> /\ running \in {Pipeline, NoTask}
           /\ Frame(Pipeline) = stack[Pipeline][1] /\ 1 \in DOMAIN stack[Pipeline]
<1>1. Pipeline \in Tasks /\ stack[Pipeline] # <<>> /\ Frame(Pipeline).at = l /\ running \in {Pipeline, NoTask}
  BY PlacesApart, Nonempty
<1> QED  BY <1>1, StackTyped DEF Inv

\* Places of the same kind, for the frames of the pipeline task.
LEMMA AudioClass ==
    ASSUME NEW l \in AudioPlaces, NEW k \in AudioPlaces
    PROVE  /\ \A C \in Classes : k \in C => l \in C
           /\ l \notin Held /\ k \notin Held /\ k \notin Waits /\ k # "s_take"
BY DEF Classes, SendPlaces, AudioPlaces, FinalPlaces, Held, Waits

LEMMA FinalClass ==
    ASSUME NEW l \in FinalPlaces, NEW k \in FinalPlaces
    PROVE  /\ \A C \in Classes : k \in C => l \in C
           /\ l \notin Held /\ k \notin Held /\ k # "s_take"
BY DEF Classes, SendPlaces, AudioPlaces, FinalPlaces, Held, Waits

LEMMA AudioSwap ==
    ASSUME Inv, NEW l \in AudioPlaces, Wakes(Pipeline, l) \/ Runs(Pipeline, l), World, Accounts(0),
           Reachable \subseteq Reachable', NEW f \in Frames, f.at \in AudioPlaces, Goto(Pipeline, f)
    PROVE  GoodStep(Pipeline)
BY PlacesApart, AudioClass, SwapGood

LEMMA AudioReturn ==
    ASSUME Inv, NEW l \in AudioPlaces, Wakes(Pipeline, l) \/ Runs(Pipeline, l), World, Accounts(0),
           Reachable \subseteq Reachable', Return(Pipeline)
    PROVE  GoodStep(Pipeline)
BY PlacesApart, AudioClass, ReturnGood

LEMMA FinalSwap ==
    ASSUME Inv, NEW l \in FinalPlaces, Wakes(Pipeline, l) \/ Runs(Pipeline, l), World, Accounts(0),
           Reachable \subseteq Reachable', NEW f \in Frames, f.at \in FinalPlaces, Goto(Pipeline, f),
           f.at \in Waits => f.gen \in Reachable'
    PROVE  GoodStep(Pipeline)
BY PlacesApart, FinalClass, SwapGood

LEMMA HandlesAudioGood == ASSUME Inv, HandlesAudio PROVE GoodStep(Pipeline)
<1>1. Runs(Pipeline, "audio") /\ "audio" \in AudioPlaces  BY DEF HandlesAudio, AudioPlaces
<1>2. World /\ Reachable \subseteq Reachable'
  BY WorldSame, FinalsSame DEF HandlesAudio, syncVars, eventVars, outsideVars, wireVars, historyVars
<1> DEFINE x == Frame(Pipeline).frame
           s == Append(buf.preroll, x)
           p == SubSeq(s, Less(Len(s), svc.config.preRoll) + 1, Len(s))
<1>3. x \in Nat  BY <1>1, PipelineFrame, AudioFields
<1>4. s \in Seq(Nat)
  <2>1. buf.preroll \in Seq(Nat)  BY DEF Inv, Slots, TypeInv, Buffers
  <2> QED  BY <1>3, <2>1
<1>5. svc.config.preRoll \in Nat  BY DEF Inv, Slots, TypeInv, Service, Config
<1>6. CASE Goto(Pipeline, [at |-> "queue", frames |-> <<x>>]) /\ buf' = buf
  <2>1. [at |-> "queue", frames |-> <<x>>] \in Frames
    <3>1. <<x>> \in Seq(Nat)  BY <1>3
    <3> QED  BY <3>1 DEF Frames, AudioFrames
  <2>2. "queue" \in AudioPlaces  BY DEF AudioPlaces
  <2> QED  BY <1>1, <1>2, <1>6, <2>1, <2>2, AccountsSame, AudioSwap
<1>7. CASE Return(Pipeline) /\ buf' = [buf EXCEPT !.preroll = p]
  <2>1. p \in Seq(Nat)
    <3> HIDE DEF s
    <3>1. Len(s) \in Nat /\ Less(Len(s), svc.config.preRoll) \in Nat  BY <1>4, <1>5 DEF Less
    <3> QED  BY <1>4, <3>1
  <2>2. Accounts(0)  BY <1>7, <2>1, PartsMove
  <2> QED  BY <1>1, <1>2, <1>7, <2>2, AudioReturn
<1> QED  BY <1>6, <1>7 DEF HandlesAudio

LEMMA QueuesAudioGood == ASSUME Inv, QueuesAudio PROVE GoodStep(Pipeline)
<1>1. Runs(Pipeline, "queue") /\ "queue" \in AudioPlaces /\ "flush" \in AudioPlaces
  BY DEF QueuesAudio, AudioPlaces
<1>2. World /\ Reachable \subseteq Reachable'
  BY WorldSame, FinalsSame DEF QueuesAudio, syncVars, eventVars, outsideVars, wireVars, historyVars
<1> DEFINE p == buf.aggregate \o Frame(Pipeline).frames
<1>3. p \in Seq(Nat)
  <2>1. Frame(Pipeline).frames \in Seq(Nat)  BY <1>1, PipelineFrame, AudioFields
  <2>2. buf.aggregate \in Seq(Nat)  BY DEF Inv, Slots, TypeInv, Buffers
  <2> QED  BY <2>1, <2>2
<1>4. buf' = [buf EXCEPT !.aggregate = p]  BY DEF QueuesAudio
<1>5. Accounts(0)  BY <1>3, <1>4, PartsMove
<1>6. At("flush") \in Frames /\ At("flush").at = "flush"  BY DEF At, Frames, AudioFrames
<1>7. Goto(Pipeline, At("flush")) \/ Return(Pipeline)  BY DEF QueuesAudio
<1> QED  BY <1>1, <1>2, <1>5, <1>6, <1>7, AudioSwap, AudioReturn

LEMMA FlushesGood == ASSUME Inv, Flushes PROVE GoodStep(Pipeline)
<1>1. Runs(Pipeline, "flush") /\ "flush" \in AudioPlaces /\ "enqueue" \in AudioPlaces
  BY DEF Flushes, AudioPlaces
<1>2. World /\ Reachable \subseteq Reachable'
  BY WorldSame, FinalsSame DEF Flushes, syncVars, eventVars, outsideVars, wireVars, historyVars
<1>3. CASE Return(Pipeline) /\ buf' = buf  BY <1>1, <1>2, <1>3, AccountsSame, AudioReturn
<1>4. CASE /\ Goto(Pipeline, [at |-> "enqueue", chunk |-> [frames |-> buf.aggregate, gen |-> svc.gen]])
           /\ buf' = [buf EXCEPT !.aggregate = <<>>]
  <2>1. [frames |-> buf.aggregate, gen |-> svc.gen] \in Chunk
    BY DEF Inv, Slots, TypeInv, Buffers, Service, Chunk
  <2>2. [at |-> "enqueue", chunk |-> [frames |-> buf.aggregate, gen |-> svc.gen]] \in Frames
    BY <2>1 DEF Frames, AudioFrames
  <2>3. <<>> \in Seq(Nat)  OBVIOUS
  <2>4. Accounts(0)  BY <1>4, <2>3, PartsMove
  <2> QED  BY <1>1, <1>2, <1>4, <2>2, <2>4, AudioSwap
<1> QED  BY <1>3, <1>4 DEF Flushes

\* The account of a queue, whichever step it is that leaves it like this.
Sound(b) == /\ b \in Buffers /\ b.queued = Duration(b.queue)
            /\ b.unfinished - Len(b.queue) = buf.unfinished - Len(buf.queue)

LEMMA PutSound ==
    ASSUME Inv, NEW b, Sound(b), NEW c \in Chunk
    PROVE  Sound(Put(b, c)) /\ (Admits(b, c) => Bounded(Put(b, c)))
<1> DEFINE p == Put(b, c)
<1>1. b \in Buffers /\ b.queue \in Seq(Chunk) /\ b.unfinished \in Int /\ Len(b.queue) \in Nat
  BY DEF Sound, Buffers
<1>2. Len(c.frames) \in Nat
  <2>1. c.frames \in Seq(Nat)  BY DEF Chunk
  <2> QED  BY <2>1
<1>3. Append(b.queue, c) \in Seq(Chunk) /\ Len(Append(b.queue, c)) = Len(b.queue) + 1  BY <1>1
<1>4. Duration(Append(b.queue, c)) = Duration(b.queue) + Len(c.frames)  BY <1>1, DurationAppend
<1>5. b.queued = Duration(b.queue) /\ b.queued \in Nat  BY <1>1, DurationNat DEF Sound
<1>6. /\ p.queue = Append(b.queue, c) /\ p.unfinished = b.unfinished + 1
      /\ p.queued = b.queued + Len(c.frames)
  BY <1>1 DEF Put, Buffers
<1>7. p \in Buffers
  <2>1. b.unfinished + 1 \in Int /\ b.queued + Len(c.frames) \in Nat  BY <1>1, <1>2, <1>5
  <2> QED  BY <1>1, <1>3, <2>1 DEF Put, Buffers
<1> HIDE DEF p
<1>8. p.queued = Duration(p.queue)  BY <1>4, <1>5, <1>6
<1>9. p.unfinished - Len(p.queue) = b.unfinished - Len(b.queue)
  <2>1. Len(p.queue) = Len(b.queue) + 1  BY <1>3, <1>6
  <2>2. p.unfinished = b.unfinished + 1  BY <1>6
  <2>3. b.unfinished \in Int /\ Len(b.queue) \in Nat  BY <1>1
  <2> QED  BY <2>1, <2>2, <2>3
<1>10. Sound(p)  BY <1>7, <1>8, <1>9 DEF Sound
<1>11. ASSUME Admits(b, c) PROVE Bounded(p)
  <2>1. CASE b.queued + Len(c.frames) <= svc.config.maxQueue
    <3>1. Duration(p.queue) <= svc.config.maxQueue  BY <2>1, <1>6, <1>8
    <3> QED  BY <3>1 DEF Bounded
  <2>2. CASE svc.config.policy = "block" /\ b.queue = <<>>
    <3>1. Len(p.queue) = 1  BY <2>2, <1>3, <1>6
    <3> QED  BY <2>2, <3>1 DEF Bounded
  <2> QED  BY <1>11, <2>1, <2>2 DEF Admits
<1> QED  BY <1>10, <1>11 DEF p

LEMMA DroppedSound ==
    ASSUME Inv, NEW c
    PROVE  /\ Sound(Dropped(buf, c))
           /\ ~Admits(Dropped(buf, c), c) => Bounded(Dropped(buf, c))
<1> DEFINE q == buf.queue
           After(n) == [buf EXCEPT !.queue = SubSeq(@, n + 1, Len(@)), !.unfinished = @ - n,
                                   !.queued = Less(@, Duration(SubSeq(buf.queue, 1, n)))]
           fits == {n \in 0..Len(q) : Admits(After(n), c)}
           m == IF fits = {} THEN Len(q) ELSE CHOOSE n \in fits : \A k \in fits : n <= k
<1>1. /\ q \in Seq(Chunk) /\ buf \in Buffers /\ buf.queued = Duration(q) /\ Len(q) \in Nat
      /\ buf.unfinished \in Int
  BY DEF Inv, Slots, TypeInv, AccountInv, Buffers
<1>2. Dropped(buf, c) = After(m)  BY DEF Dropped
<1>3. m \in 0..Len(q) /\ (fits = {} => m = Len(q)) /\ (fits # {} => m \in fits)
  <2> HIDE DEF After
  <2>5. fits \subseteq 0..Len(q)  OBVIOUS
  <2>6. 0..Len(q) \subseteq Nat /\ Len(q) \in 0..Len(q)  BY <1>1
  <2>1. fits \subseteq Nat  BY <2>5, <2>6
  <2> HIDE DEF fits
  <2>2. fits # {} => \E n \in fits : \A k \in fits : n <= k  BY <2>1, LeastNat
  <2>3. fits # {} => m \in fits  BY <2>2
  <2>4. fits = {} => m = Len(q)  OBVIOUS
  <2> HIDE DEF m
  <2> QED  BY <2>5, <2>6, <2>3, <2>4
<1>4. fits # {} => Admits(After(m), c)  BY <1>3
<1> HIDE DEF m, fits
<1> DEFINE a == SubSeq(q, 1, m)
           d == SubSeq(q, m + 1, Len(q))
<1>5. d \in Seq(Chunk) /\ a \in Seq(Chunk) /\ Len(d) = Len(q) - m /\ Duration(q) = Duration(a) + Duration(d)
  BY <1>1, <1>3, DurationSplit
<1>6. Duration(a) \in Nat /\ Duration(d) \in Nat  BY <1>5, DurationNat
<1>7. Less(buf.queued, Duration(a)) = Duration(d)
  <2> HIDE DEF a, d
  <2> QED  BY <1>1, <1>5, <1>6 DEF Less
<1>8. After(m) = [buf EXCEPT !.queue = d, !.unfinished = @ - m, !.queued = Duration(d)]  BY <1>7
<1> DEFINE b == After(m)
<1>9. b \in Buffers /\ b.queue = d /\ b.queued = Duration(d) /\ b.unfinished = buf.unfinished - m
  <2> HIDE DEF d
  <2>1. buf.unfinished - m \in Int  BY <1>1, <1>3
  <2> QED  BY <1>1, <1>5, <1>6, <1>8, <2>1 DEF Buffers
<1> HIDE DEF d, b
<1>10. b.unfinished - Len(b.queue) = buf.unfinished - Len(buf.queue)  BY <1>1, <1>3, <1>5, <1>9
<1>11. Sound(b)  BY <1>9, <1>10 DEF Sound
<1>12. ASSUME ~Admits(b, c) PROVE Bounded(b)
  <2>1. fits = {}  BY <1>4, <1>12 DEF b
  <2>2. Len(d) = 0  BY <2>1, <1>1, <1>3, <1>5
  <2>3. d = <<>>  BY <2>2, <1>5
  <2>4. Duration(b.queue) = 0  BY <2>3, <1>9, DurationEmpty
  <2>5. svc.config.maxQueue \in Nat  BY DEF Inv, Slots, TypeInv, Service, Config
  <2>6. Duration(b.queue) <= svc.config.maxQueue  BY <2>4, <2>5
  <2> QED  BY <2>6 DEF Bounded
<1> QED  BY <1>2, <1>11, <1>12 DEF b

LEMMA SoundAccounts == ASSUME Inv, Sound(buf'), Bounded(buf') PROVE Accounts(0)
<1>1. buf.unfinished \in Int /\ Len(buf.queue) \in Nat
  BY DEF Inv, Slots, TypeInv, Buffers
<1>2. buf'.unfinished - Len(buf'.queue) = (buf.unfinished - Len(buf.queue)) + 0  BY <1>1 DEF Sound
<1> QED  BY <1>2 DEF Accounts, Sound

LEMMA EnqueuesGood == ASSUME Inv, Enqueues PROVE GoodStep(Pipeline)
<1> DEFINE c == Frame(Pipeline).chunk
<1>1. Runs(Pipeline, "enqueue") /\ "enqueue" \in AudioPlaces /\ "sleep" \in AudioPlaces /\ "enqueue" \notin Held
  BY DEF Enqueues, AudioPlaces, Held
<1>2. World /\ Reachable \subseteq Reachable'
  BY WorldSame, FinalsSame DEF Enqueues, syncVars, eventVars, outsideVars, wireVars, historyVars
<1>3. c \in Chunk  BY <1>1, PipelineFrame, ChunkFields
<1>4. Sound(buf)  BY DEF Sound, Inv, Slots, TypeInv, AccountInv
<1>5. CASE Admits(buf, c) /\ buf' = Put(buf, c) /\ Return(Pipeline)
  <2>1. Accounts(0)  BY <1>3, <1>4, <1>5, PutSound, SoundAccounts
  <2> QED  BY <1>1, <1>2, <1>5, <2>1, AudioReturn
<1>6. CASE Goto(Pipeline, [at |-> "sleep", chunk |-> c]) /\ buf' = buf
  <2>1. [at |-> "sleep", chunk |-> c] \in Frames  BY <1>3 DEF Frames, AudioFrames
  <2> QED  BY <1>1, <1>2, <1>6, <2>1, AccountsSame, AudioSwap
<1>7. CASE Raise(Pipeline, "error") /\ buf' = buf
  <2>1. Unmoved  BY <1>2, <1>7, EasesSame DEF Unmoved
  <2> QED  BY <1>1, <1>7, <2>1, PlacesApart, RaiseQuiet, QuietCalm
<1>8. CASE /\ buf' = LET kept == Dropped(buf, c) IN IF Admits(kept, c) THEN Put(kept, c) ELSE kept
           /\ Return(Pipeline)
  <2> DEFINE kept == Dropped(buf, c)
  <2>1. Sound(kept) /\ (~Admits(kept, c) => Bounded(kept))  BY DroppedSound
  <2>2. buf' = IF Admits(kept, c) THEN Put(kept, c) ELSE kept  BY <1>8
  <2> HIDE DEF kept
  <2>3. Sound(Put(kept, c)) /\ (Admits(kept, c) => Bounded(Put(kept, c)))  BY <1>3, <2>1, PutSound
  <2>4. Sound(buf') /\ Bounded(buf')
    <3>1. CASE Admits(kept, c)  BY <2>2, <2>3, <3>1
    <3>2. CASE ~Admits(kept, c)  BY <2>1, <2>2, <3>2
    <3> QED  BY <3>1, <3>2
  <2>5. Accounts(0)  BY <2>4, SoundAccounts
  <2> QED  BY <1>1, <1>2, <1>8, <2>5, AudioReturn
<1> QED  BY <1>5, <1>6, <1>7, <1>8 DEF Enqueues

LEMMA SleepsGood == ASSUME Inv, Sleeps PROVE GoodStep(Pipeline)
<1> DEFINE f == [Frame(Pipeline) EXCEPT !.at = "enqueue"]
<1>1. Wakes(Pipeline, "sleep") /\ Goto(Pipeline, f) /\ "sleep" \in AudioPlaces /\ "enqueue" \in AudioPlaces
  BY DEF Sleeps, AudioPlaces
<1>2. Unmoved /\ buf' = buf  BY Still DEF Sleeps, serviceVars, syncVars, eventVars, outsideVars, wireVars, historyVars
<1>3. Frame(Pipeline) \in Frames /\ Frame(Pipeline).at = "sleep"  BY <1>1, PipelineFrame
<1>4. Frame(Pipeline) \in [at : {"enqueue", "sleep"}, chunk : Chunk]
  BY <1>3 DEF Frames, QuietFrames, QuietPlaces, LoopFrames, AudioFrames, FinalFrames, SendPlaces, FinalPlaces,
     CloseFrames, SendFrames
<1>5. f \in [at : {"enqueue", "sleep"}, chunk : Chunk] /\ f.at = "enqueue"  BY <1>4
<1>6. f \in Frames  BY <1>5 DEF Frames, AudioFrames
<1> HIDE DEF f
<1> QED  BY <1>1, <1>2, <1>5, <1>6, AccountsSame, AudioSwap DEF Unmoved

LEMMA SpeechBegunGood == ASSUME Inv, SpeechBegun PROVE GoodStep(Pipeline)
<1>1. Runs(Pipeline, "begun") /\ "begun" \in AudioPlaces /\ "queue" \in AudioPlaces
  BY DEF SpeechBegun, AudioPlaces
<1>2. World /\ Reachable \subseteq Reachable'
  BY WorldSame, FinalsSame DEF SpeechBegun, syncVars, eventVars, outsideVars, wireVars, historyVars
<1>3. <<>> \in Seq(Nat) /\ buf.preroll \in Seq(Nat)  BY DEF Inv, Slots, TypeInv, Buffers
<1>4. buf' = [buf EXCEPT !.preroll = <<>>]  BY DEF SpeechBegun
<1>5. Accounts(0)  BY <1>3, <1>4, PartsMove
<1>6. [at |-> "queue", frames |-> buf.preroll] \in Frames  BY <1>3 DEF Frames, AudioFrames
<1>7. Goto(Pipeline, [at |-> "queue", frames |-> buf.preroll]) \/ Return(Pipeline)  BY DEF SpeechBegun
<1> QED  BY <1>1, <1>2, <1>5, <1>6, <1>7, AudioSwap, AudioReturn

\* A finalize goes on, with the generation it has.
LEMMA FinalMoves ==
    ASSUME NEW f \in FinalFrames, NEW l \in FinalPlaces
    PROVE  LET g == [f EXCEPT !.at = l] IN g \in FinalFrames /\ g \in Frames /\ g.at = l /\ g.gen = f.gen
BY DEF FinalFrames, Frames

LEMMA FinalFrame ==
    ASSUME Inv, NEW l \in FinalPlaces, Wakes(Pipeline, l) \/ Runs(Pipeline, l)
    PROVE  /\ Frame(Pipeline) \in FinalFrames /\ Frame(Pipeline).gen \in Nat
           /\ l \in Waits => Frame(Pipeline).gen \in Reachable
<1>1. /\ Frame(Pipeline) \in Frames /\ Frame(Pipeline).at = l /\ Frame(Pipeline) = stack[Pipeline][1]
      /\ 1 \in DOMAIN stack[Pipeline]
  BY PipelineFrame
<1>2. l \in Waits => Frame(Pipeline).gen \in Reachable  BY <1>1 DEF Inv, FinalInv, Waits, Reachable
<1> QED  BY <1>1, <1>2, FinalFields

LEMMA FinalStep ==
    ASSUME Inv, NEW l \in FinalPlaces, Wakes(Pipeline, l) \/ Runs(Pipeline, l), World, buf' = buf,
           Reachable \subseteq Reachable', NEW k \in FinalPlaces, k \in Waits => l \in Waits,
           Goto(Pipeline, [Frame(Pipeline) EXCEPT !.at = k])
    PROVE  GoodStep(Pipeline)
<1> DEFINE f == [Frame(Pipeline) EXCEPT !.at = k]
<1>1. Frame(Pipeline) \in FinalFrames /\ (l \in Waits => Frame(Pipeline).gen \in Reachable)  BY FinalFrame
<1>2. f \in Frames /\ f.at = k /\ f.gen = Frame(Pipeline).gen  BY <1>1, FinalMoves
<1>3. Goto(Pipeline, f)  OBVIOUS
<1> HIDE DEF f
<1>4. f.at \in Waits => f.gen \in Reachable'  BY <1>1, <1>2
<1> QED  BY <1>2, <1>3, <1>4, AccountsSame, FinalSwap

LEMMA FinalClasses ==
    /\ {"flushed", "join", "joined", "final_sent", "final_wait", "final_done"} \subseteq FinalPlaces
    /\ "final_sent" \in Waits /\ "final_wait" \in Waits
    /\ "joined" \notin Waits /\ "join" \notin Waits /\ "final_done" \notin Waits
BY DEF FinalPlaces, Waits

LEMMA FinalizesGood ==
    ASSUME Inv, Joins \/ Joined \/ FinalizeSent \/ FinalArrives PROVE GoodStep(Pipeline)
<1> USE FinalClasses
<1>1. CASE Joins
  <2>1. Unmoved /\ buf' = buf
    BY <1>1, Still DEF Joins, serviceVars, syncVars, eventVars, outsideVars, wireVars, historyVars
  <2>2. Runs(Pipeline, "flushed")  BY <1>1 DEF Joins
  <2>3. PICK k \in {"joined", "join"} : Goto(Pipeline, [Frame(Pipeline) EXCEPT !.at = k])
    BY <1>1 DEF Joins
  <2> QED  BY <2>1, <2>2, <2>3, FinalStep DEF Unmoved
<1>2. CASE Joined
  <2>1. Unmoved /\ buf' = buf
    BY <1>2, Still DEF Joined, serviceVars, syncVars, eventVars, outsideVars, wireVars, historyVars
  <2>2. Wakes(Pipeline, "join") /\ Goto(Pipeline, [Frame(Pipeline) EXCEPT !.at = "joined"])
    BY <1>2 DEF Joined
  <2> QED  BY <2>1, <2>2, FinalStep DEF Unmoved
<1>3. CASE FinalizeSent
  <2>0. svc \in Service  BY DEF Inv, Slots, TypeInv
  <2>1. svc' \in Service /\ svc'.config = svc.config  BY <1>3, <2>0 DEF FinalizeSent, Service
  <2>2. Unmoved /\ buf' = buf
    BY <1>3, <2>1, SvcMoves DEF FinalizeSent, syncVars, eventVars, outsideVars, wireVars, historyVars
  <2>3. Runs(Pipeline, "final_sent") /\ Goto(Pipeline, [Frame(Pipeline) EXCEPT !.at = "final_wait"])
    BY <1>3 DEF FinalizeSent
  <2> QED  BY <2>2, <2>3, FinalStep DEF Unmoved
<1>4. CASE FinalArrives
  <2>1. Unmoved /\ buf' = buf
    BY <1>4, Still DEF FinalArrives, serviceVars, syncVars, eventVars, outsideVars, wireVars, historyVars
  <2>2. Wakes(Pipeline, "final_wait") /\ Goto(Pipeline, [Frame(Pipeline) EXCEPT !.at = "final_done"])
    BY <1>4 DEF FinalArrives
  <2> QED  BY <2>1, <2>2, FinalStep DEF Unmoved
<1> QED  BY <1>1, <1>2, <1>3, <1>4

LEMMA SendsFinalizeGood == ASSUME Inv, SendsFinalize PROVE GoodStep(Pipeline)
<1> USE FinalClasses
<1> DEFINE gen == Frame(Pipeline).gen
<1>1. Runs(Pipeline, "joined") /\ gen \in Nat /\ Pipeline \in Tasks  BY PlacesApart, FinalFrame DEF SendsFinalize
<1>2. World /\ buf' = buf  BY WorldSame DEF SendsFinalize, outsideVars, wireVars, historyVars
<1>3. Accounts(0)  BY <1>2, AccountsSame
<1>4. "joined" \notin Held /\ "final_sent" \notin Held /\ \A C \in Classes : "final_sent" \in C => "joined" \in C
  BY DEF Held, Classes, SendPlaces, AudioPlaces, FinalPlaces
<1>5. CASE Return(Pipeline) /\ UNCHANGED <<waiters, finalSet>>
  BY <1>1, <1>2, <1>3, <1>4, <1>5, FinalsSame, ReturnGood
<1>6. CASE /\ waiters' = waiters \cup {gen}
           /\ finalSet' = IF gen \in waiters THEN finalSet ELSE finalSet \ {gen}
           /\ Becomes(Pipeline, <<SendCall([type |-> "finalize"], FALSE, FALSE),
                                  [at |-> "final_sent", gen |-> gen]>> \o Callers(Pipeline))
  <2> DEFINE c == SendCall([type |-> "finalize"], FALSE, FALSE)
             f == [at |-> "final_sent", gen |-> gen]
  <2>1. Reachable \subseteq Reachable' /\ gen \in Reachable'  BY <1>6 DEF Reachable
  <2>2. c \in QuietFrames
    <3>1. [type |-> "finalize"] \in Message  BY DEF Message
    <3> QED  BY <3>1, SendFrame
  <2>3. f \in Frames /\ f.at = "final_sent" /\ f.gen = gen  BY <1>1 DEF Frames, FinalFrames
  <2> HIDE DEF c, f
  <2>4. <<c>> \in Seq(QuietFrames)  BY <2>2
  <2>6. <<c>> \o <<f>> = <<c, f>>  BY <2>2, <2>3, QuietIsQuiet, PairIs
  <2> USE DEF c, f
  <2>5. Becomes(Pipeline, (<<c>> \o <<f>>) \o Callers(Pipeline))  BY <1>6, <2>6
  <2> HIDE DEF c, f
  <2> QED  BY <1>1, <1>2, <1>3, <1>4, <2>1, <2>3, <2>4, <2>5, CallGood
<1> QED  BY <1>5, <1>6 DEF SendsFinalize

LEMMA FinalTimesOutGood == ASSUME Inv, FinalTimesOut PROVE GoodStep(Pipeline)
<1> USE FinalClasses
<1> DEFINE f == [Frame(Pipeline) EXCEPT !.at = "final_done"]
<1>1. Wakes(Pipeline, "final_wait") /\ Pipeline \in Tasks
  BY PlacesApart DEF FinalTimesOut
<1>2. Unmoved /\ buf' = buf
  BY Still DEF FinalTimesOut, serviceVars, syncVars, eventVars, outsideVars, wireVars, historyVars
<1>3. Accounts(0)  BY <1>2, AccountsSame
<1>4. "final_wait" \notin Held /\ "final_done" \notin Held
      /\ \A C \in Classes : "final_done" \in C => "final_wait" \in C
  BY DEF Held, Classes, SendPlaces, AudioPlaces, FinalPlaces
<1>5. Frame(Pipeline) \in FinalFrames  BY <1>1, FinalFrame
<1>6. f \in Frames /\ f.at = "final_done"  BY <1>5, FinalMoves
<1>7. Becomes(Pipeline, (Disconnecting \o <<f>>) \o Callers(Pipeline))  BY DEF FinalTimesOut
<1> HIDE DEF f
<1> QED  BY <1>1, <1>2, <1>3, <1>4, <1>6, <1>7, DisconnectingSeq, CallGood DEF Unmoved

LEMMA FinalDoneGood == ASSUME Inv, FinalDone PROVE GoodStep(Pipeline)
<1> USE FinalClasses
<1>1. Runs(Pipeline, "final_done") /\ Return(Pipeline) /\ Pipeline \in Tasks  BY PlacesApart DEF FinalDone
<1>2. World /\ buf' = buf  BY WorldSame DEF FinalDone, outsideVars, wireVars, historyVars
<1>3. "final_done" \notin Held  BY DEF Held
<1> QED  BY <1>1, <1>2, <1>3, AccountsSame, ReturnGood

LEMMA PipelineGood == ASSUME Inv, PipelineStep PROVE GoodStep(Pipeline)
BY HandlesAudioGood, QueuesAudioGood, FlushesGood, EnqueuesGood, SleepsGood, SpeechBegunGood, FinalizesGood,
   SendsFinalizeGood, FinalTimesOutGood, FinalDoneGood DEF PipelineStep

-----------------------------------------------------------------------------
(* The environment                                                         *)

\* An idle pipeline task begins an operation.
LEMMA EntersGood ==
    ASSUME Inv, Wakes(Pipeline, "idle"), Unmoved, NEW w \in Seq(Frames), Becomes(Pipeline, w),
           \A i \in DOMAIN w : w[i].at \notin SendPlaces \cup Waits,
           AtMostOne(w, AudioPlaces), AtMostOne(w, FinalPlaces)
    PROVE  GoodStep(Pipeline)
<1> DEFINE n == Len(stack[Pipeline])
<1>1. Pipeline \in Tasks /\ stack[Pipeline] # <<>> /\ running \in {Pipeline, NoTask}
  BY PlacesApart, Nonempty
<1>2. Move(Pipeline, n, w)  BY <1>1, WholeMove DEF Inv
<1>3. DOMAIN stack[Pipeline] = 1..n  BY <1>1 DEF Inv, Slots, TypeInv
<1>4. ~Inside(Pipeline, Held)  BY <1>1, PlacesApart, EmptyHanded
<1>5. \A i \in 1..n : stack[Pipeline][i].at \notin Held  BY <1>3, <1>4 DEF Inside
<1>6. Held \subseteq SendPlaces /\ "s_take" \in SendPlaces  BY DEF Held, SendPlaces
<1>7. ~Has(w, Held) /\ Takes(w)  BY <1>6 DEF Has, Takes
<1>8. Finals(Pipeline, n, w)  BY DEF Finals, Unmoved
<1>9. Fit(Pipeline, n, w)
  <2> SUFFICES ASSUME NEW C \in Classes
               PROVE  AtMostOne(w, C) /\ (Has(w, C) => Owns(Pipeline, C))
    BY DEF Fit
  <2>1. CASE C = SendPlaces  BY <2>1 DEF AtMostOne, Has
  <2>2. CASE C # SendPlaces  BY <2>2 DEF Classes, Owns
  <2> QED  BY <2>1, <2>2
<1>10. Accounts(0)  BY EasesAccounts DEF Unmoved
<1> QED  BY <1>1, <1>2, <1>5, <1>7, <1>8, <1>9, <1>10, CalmStep DEF Calm, Unmoved

LEMMA EntryPlaces ==
    /\ \A l \in {"idle", "start", "begun", "flush", "flushed", "audio", "connect"} : l \notin SendPlaces \cup Waits
    /\ \A l \in {"idle", "start", "connect"} : l \notin AudioPlaces \cup FinalPlaces
    /\ "begun" \notin FinalPlaces /\ "audio" \notin FinalPlaces /\ "flush" \notin FinalPlaces
    /\ "flushed" \notin AudioPlaces
BY DEF SendPlaces, Waits, AudioPlaces, FinalPlaces

LEMMA HearsAudioGood == ASSUME Inv, HearsAudio PROVE GoodStep(Pipeline)
<1> DEFINE a == [at |-> "audio", frame |-> budget.frames + 1]
           v == <<a, At("idle")>>
           u == <<At("connect"), a, At("idle")>>
<1>0. budget \in Budget /\ budget.frames \in Nat  BY DEF Inv, Slots, TypeInv, Budget
<1>1. Wakes(Pipeline, "idle") /\ Becomes(Pipeline, OnceConnected(v))  BY DEF HearsAudio
<1>2. Unmoved
  <2>1. svc' = svc /\ buf' = buf /\ waiters' = waiters /\ finalSet' = finalSet /\ conn' = conn
    BY DEF HearsAudio, serviceVars, syncVars, eventVars, wireVars
  <2>2. budget' = [budget EXCEPT !.frames = @ + 1]  BY DEF HearsAudio
  <2>3. budget' \in Budget  BY <1>0, <2>2 DEF Budget
  <2>4. World  BY <2>1, <2>3 DEF World, Inv, Slots, TypeInv
  <2> QED  BY <2>1, <2>4, EasesSame, FinalsSame DEF Unmoved
<1>3. a \in Frames /\ a.at = "audio"  BY <1>0 DEF Frames, AudioFrames
<1>4. /\ At("idle") \in Frames /\ At("idle").at = "idle"
      /\ At("connect") \in Frames /\ At("connect").at = "connect"
  BY DEF At, Frames, QuietFrames, QuietPlaces
<1> HIDE DEF a
<1>5. v \in Seq(Frames) /\ u \in Seq(Frames)  BY <1>3, <1>4
<1>6. /\ DOMAIN v = {1, 2} /\ v[1].at = "audio" /\ v[2].at = "idle"
      /\ DOMAIN u = {1, 2, 3} /\ u[1].at = "connect" /\ u[2].at = "audio" /\ u[3].at = "idle"
  <2>1. DOMAIN v = 1..2 /\ DOMAIN u = 1..3  OBVIOUS
  <2> QED  BY <1>3, <1>4, <2>1
<1>7. OnceConnected(v) \in {v, u}
  <2>1. <<At("connect")>> \o v = u  BY <1>3, <1>4, TripleIs
  <2> HIDE DEF u, v
  <2> QED  BY <2>1 DEF OnceConnected
<1> HIDE DEF v, u
<1>8. CASE OnceConnected(v) = v
  BY <1>1, <1>2, <1>5, <1>6, <1>8, EntryPlaces, EntersGood DEF AtMostOne
<1>9. CASE OnceConnected(v) = u
  BY <1>1, <1>2, <1>5, <1>6, <1>9, EntryPlaces, EntersGood DEF AtMostOne
<1> QED  BY <1>7, <1>8, <1>9

LEMMA SpeechStartsGood == ASSUME Inv, SpeechStarts PROVE GoodStep(Pipeline)
<1> DEFINE w == <<At("start"), At("begun"), At("idle")>>
<1>0. svc \in Service  BY DEF Inv, Slots, TypeInv
<1>1. svc' \in Service /\ svc'.config = svc.config  BY <1>0 DEF SpeechStarts, Service
<1>2. Unmoved
  BY <1>1, SvcMoves DEF SpeechStarts, syncVars, eventVars, outsideVars, wireVars, historyVars
<1>3. /\ At("start") \in Frames /\ At("start").at = "start"
      /\ At("begun") \in Frames /\ At("begun").at = "begun"
      /\ At("idle") \in Frames /\ At("idle").at = "idle"
  BY DEF At, Frames, QuietFrames, QuietPlaces, AudioFrames
<1>4. w \in Seq(Frames)  BY <1>3
<1>5. DOMAIN w = {1, 2, 3} /\ w[1].at = "start" /\ w[2].at = "begun" /\ w[3].at = "idle"
  <2>1. DOMAIN w = 1..3  OBVIOUS
  <2> QED  BY <1>3, <2>1
<1>6. Wakes(Pipeline, "idle") /\ Becomes(Pipeline, w)  BY DEF SpeechStarts
<1> HIDE DEF w
<1> QED  BY <1>2, <1>4, <1>5, <1>6, EntryPlaces, EntersGood DEF AtMostOne

LEMMA SpeechEndsGood == ASSUME Inv, SpeechEnds PROVE GoodStep(Pipeline)
<1> DEFINE f == [at |-> "flushed", gen |-> svc.gen]
           w == <<At("flush"), f, At("idle")>>
<1>1. Unmoved  BY Still DEF SpeechEnds, serviceVars, syncVars, eventVars, outsideVars, wireVars, historyVars
<1>2. f \in Frames /\ f.at = "flushed"
  <2>1. svc.gen \in Nat  BY DEF Inv, Slots, TypeInv, Service
  <2> QED  BY <2>1 DEF Frames, FinalFrames, FinalPlaces
<1>3. /\ At("flush") \in Frames /\ At("flush").at = "flush"
      /\ At("idle") \in Frames /\ At("idle").at = "idle"
  BY DEF At, Frames, QuietFrames, QuietPlaces, AudioFrames
<1>4. Wakes(Pipeline, "idle") /\ Becomes(Pipeline, w)  BY DEF SpeechEnds
<1> HIDE DEF f
<1>5. w \in Seq(Frames)  BY <1>2, <1>3
<1>6. DOMAIN w = {1, 2, 3} /\ w[1].at = "flush" /\ w[2].at = "flushed" /\ w[3].at = "idle"
  <2>1. DOMAIN w = 1..3  OBVIOUS
  <2> QED  BY <1>2, <1>3, <2>1
<1> HIDE DEF w
<1> QED  BY <1>1, <1>4, <1>5, <1>6, EntryPlaces, EntersGood DEF AtMostOne

LEMMA StopsGood == ASSUME Inv, Stops PROVE GoodStep(Pipeline)
<1>1. Unmoved  BY Still DEF Stops, serviceVars, syncVars, eventVars, outsideVars, wireVars, historyVars
<1> DEFINE c == SendCall([type |-> "close"], TRUE, TRUE)
           a == IF svc.ws = 0 THEN <<>> ELSE <<c>>
           w == a \o Disconnecting \o <<At("ended")>>
<1>2. c \in QuietFrames
  <2>1. [type |-> "close"] \in Message  BY DEF Message
  <2> QED  BY <2>1, SendFrame
<1>3. Wakes(Pipeline, "idle") /\ Becomes(Pipeline, w)  BY DEF Stops
<1>4. a \in Seq(QuietFrames)
  <2> HIDE DEF c
  <2>1. <<>> \in Seq(QuietFrames) /\ <<c>> \in Seq(QuietFrames)  BY <1>2
  <2> QED  BY <2>1
<1> HIDE DEF a
<1>5. At("ended") \in QuietFrames  BY QuietAt DEF QuietPlaces
<1>6. w \in Seq(QuietFrames)  BY <1>4, <1>5, DisconnectingSeq
<1>7. Pipeline \in Tasks /\ ~Inside(Pipeline, Held)  BY PlacesApart, EmptyHanded
<1> HIDE DEF w
<1> QED  BY <1>1, <1>3, <1>6, <1>7, QuietWhole, QuietCalm

LEMMA CleansUpGood == ASSUME Inv, CleansUp PROVE GoodStep(Controller)
<1>1. Unmoved  BY Still DEF CleansUp, serviceVars, syncVars, eventVars, outsideVars, wireVars, historyVars
<1> DEFINE w == Disconnecting \o <<At("ended")>>
<1>2. Wakes(Controller, "idle") /\ Becomes(Controller, w)  BY DEF CleansUp
<1>3. At("ended") \in QuietFrames  BY QuietAt DEF QuietPlaces
<1>4. w \in Seq(QuietFrames)  BY <1>3, DisconnectingSeq
<1>5. Controller \in Tasks /\ ~Inside(Controller, Held)  BY PlacesApart, EmptyHanded
<1> HIDE DEF w
<1> QED  BY <1>1, <1>2, <1>4, <1>5, QuietWhole, QuietCalm

\* A cancel empties the queue, releases the waits, and then tells the server.
LEMMA CancelsKeeps == ASSUME Inv, Cancels PROVE Inv'
<1>1. svc \in Service /\ budget \in Budget  BY DEF Inv, Slots, TypeInv
<1>2. svc' = [svc EXCEPT !.gen = @ + 1, !.suppress = TRUE, !.active = FALSE]  BY DEF Cancels
<1>3. svc' \in Service /\ svc'.config = svc.config
  <2>1. svc.gen \in Nat  BY <1>1 DEF Service
  <2>2. svc.gen + 1 \in Nat  BY <2>1
  <2> DEFINE g == svc.gen + 1
  <2>3. svc' = [svc EXCEPT !.gen = g, !.suppress = TRUE, !.active = FALSE]  BY <1>2
  <2> HIDE DEF g
  <2> QED  BY <1>1, <2>2, <2>3 DEF Service, g
<1>4. budget' = [budget EXCEPT !.cancels = @ + 1]  BY DEF Cancels
<1>5. budget' \in Budget  BY <1>1, <1>4 DEF Budget
<1>6. World  BY <1>3, <1>5 DEF World, Cancels, wireVars, Inv, Slots, TypeInv
<1>7. Eases  BY DEF Eases, Cancels, Emptied
<1>8. Reachable \subseteq Reachable'  BY ReleaseReaches DEF Cancels
<1>9. Unmoved  BY <1>6, <1>7, <1>8 DEF Unmoved
<1>10. Wakes(Controller, "idle") /\ running = NoTask  BY DEF Cancels, Wakes
<1>11. CASE UNCHANGED <<stack, result, running>>
  <2>1. Accounts(0)  BY <1>7, EasesAccounts
  <2> QED  BY <1>6, <1>8, <1>10, <1>11, <2>1, StandStepKeeps
<1>12. CASE Becomes(Controller, <<SendCall([type |-> "cancel"], FALSE, FALSE),
                                  [at |-> "cancel_sent", conn |-> svc.ws], At("idle")>>)
  <2> DEFINE c == SendCall([type |-> "cancel"], FALSE, FALSE)
             d == [at |-> "cancel_sent", conn |-> svc.ws]
             e == At("idle")
             w == <<c, d, e>>
  <2>1. c \in QuietFrames
    <3>1. [type |-> "cancel"] \in Message  BY DEF Message
    <3> QED  BY <3>1, SendFrame
  <2>2. d \in QuietFrames
    <3>1. svc.ws \in Nat  BY <1>1 DEF Service
    <3> QED  BY <3>1 DEF QuietFrames
  <2>3. e \in QuietFrames  BY QuietAt DEF QuietPlaces
  <2>4. Becomes(Controller, w)  BY <1>12
  <2> HIDE DEF c, d, e
  <2>5. w \in Seq(QuietFrames)  BY <2>1, <2>2, <2>3
  <2> HIDE DEF w
  <2>6. Controller \in Tasks /\ ~Inside(Controller, Held)  BY PlacesApart, EmptyHanded
  <2> QED  BY <1>9, <1>10, <2>4, <2>5, <2>6, QuietWhole, QuietCalm, GoodStepKeeps
<1> QED  BY <1>11, <1>12 DEF Cancels

LEMMA CancelSentGood == ASSUME Inv, CancelSent PROVE GoodStep(Controller)
<1>1. Unmoved  BY Still DEF CancelSent, serviceVars, syncVars, eventVars, outsideVars, wireVars, historyVars
<1>2. Runs(Controller, "cancel_sent") /\ Controller \in Tasks /\ "cancel_sent" \notin Held
  BY PlacesApart DEF CancelSent, Held
<1>3. CASE Becomes(Controller, Disconnecting \o Callers(Controller))
  BY <1>1, <1>2, <1>3, DisconnectingSeq, QuietPush, QuietCalm
<1>4. CASE Return(Controller)  BY <1>1, <1>2, <1>4, QuietReturn, QuietCalm
<1> QED  BY <1>3, <1>4 DEF CancelSent

\* What the servers and the network do leaves the tasks where they are.
LEMMA OutsideKeeps ==
    ASSUME Inv, serviceVars' = serviceVars, taskVars' = taskVars,
           conn' \in [Conns -> {"none", "open", "broken", "closed", "gone"}],
           \A v \in Conns : conn'[v] = "none" => conn[v] = "none",
           budget' \in Budget
    PROVE  Inv'
<1>1. svc' = svc /\ buf' = buf /\ waiters' = waiters /\ finalSet' = finalSet /\ stack' = stack
      /\ running' = running
  BY DEF serviceVars, syncVars, eventVars, taskVars
<1>2. World  BY <1>1 DEF World, Inv, Slots, TypeInv
<1> QED  BY <1>1, <1>2, AccountsSame, FinalsSame, StandStepKeeps

LEMMA ServersKeep ==
    ASSUME Inv, NEW w \in Conns,
           HangsUp(w) \/ Breaks(w) \/ \E type \in {"partial", "ping"} : ServerChats(w, type)
    PROVE  Inv'
<1>1. /\ conn \in [Conns -> {"none", "open", "broken", "closed", "gone"}] /\ budget \in Budget
  BY DEF Inv, Slots, TypeInv
<1>2. CASE HangsUp(w)
  <2>1. conn' = [conn EXCEPT ![w] = "broken"] /\ budget' = budget /\ serviceVars' = serviceVars
        /\ taskVars' = taskVars
    BY <1>2 DEF HangsUp, historyVars
  <2> QED  BY <1>1, <2>1, OutsideKeeps
<1>3. CASE Breaks(w)
  <2>1. conn' = [conn EXCEPT ![w] = "broken"] /\ serviceVars' = serviceVars /\ taskVars' = taskVars
        /\ budget' = [budget EXCEPT !.breaks = @ + 1]
    BY <1>3 DEF Breaks
  <2>2. budget' \in Budget  BY <1>1, <2>1 DEF Budget
  <2> QED  BY <1>1, <2>1, <2>2, OutsideKeeps
<1>4. CASE \E type \in {"partial", "ping"} : ServerChats(w, type)
  <2>1. conn' = conn /\ serviceVars' = serviceVars /\ taskVars' = taskVars
        /\ budget' = [budget EXCEPT !.chatter = @ + 1]
    BY <1>4 DEF ServerChats
  <2>2. budget' \in Budget  BY <1>1, <2>1 DEF Budget
  <2> QED  BY <1>1, <2>1, <2>2, OutsideKeeps
<1> QED  BY <1>2, <1>3, <1>4

LEMMA EnvironmentKeeps == ASSUME Inv, Environment PROVE Inv'
<1>1. Pipeline \in Tasks /\ Controller \in Tasks  BY PlacesApart
<1> QED  BY <1>1, HearsAudioGood, SpeechStartsGood, SpeechEndsGood, StopsGood, CancelsKeeps, CleansUpGood,
            ServersKeep, GoodStepKeeps DEF Environment

LEMMA TaskStepKeeps == ASSUME Inv, NEW t \in Tasks, TaskStep(t) PROVE Inv'
<1>1. CASE CoroutineStep(t)  BY <1>1, CoroutineKeeps
<1>2. CASE t = Pipeline /\ PipelineStep  BY <1>2, PipelineGood, GoodStepKeeps
<1>3. CASE t = Controller /\ CancelSent  BY <1>3, CancelSentGood, GoodStepKeeps
<1>4. ASSUME NEW k \in Conns, t = SendTask(k), SenderStep(k) PROVE Inv'
  <2>1. SendTask(k) \in Tasks  BY PlacesApart
  <2> QED  BY <1>4, <2>1, SenderLoopsGood, SenderWakesGood, SenderTakesGood, SenderDoneGood, GoodStepKeeps
           DEF SenderStep
<1>5. ASSUME NEW k \in Conns, t = RecvTask(k), ReceiverStep(k) PROVE Inv'
  <2>1. RecvTask(k) \in Tasks  BY PlacesApart
  <2> QED  BY <1>5, <2>1, ReceiverQuiet, QuietCalm, GoodStepKeeps
<1> QED  BY <1>1, <1>2, <1>3, <1>4, <1>5 DEF TaskStep

LEMMA StutterKeeps == ASSUME Inv, UNCHANGED vars PROVE Inv'
<1>1. serviceVars' = serviceVars /\ taskVars' = taskVars /\ conn' = conn /\ budget' = budget
  BY DEF vars, wireVars, historyVars
<1> QED  BY <1>1, OutsideKeeps DEF Inv, Slots, TypeInv

LEMMA NextKeeps == Inv /\ [Next]_vars => Inv'
BY TaskStepKeeps, EnvironmentKeeps, StutterKeeps DEF Next

LEMMA InitInv == Init => Inv
<1> SUFFICES ASSUME Init PROVE Inv  OBVIOUS
<1>1. PICK s \in Scenarios :
        /\ svc = [config |-> s.config, ws |-> 0, closed |-> FALSE, active |-> FALSE, gen |-> 0,
                  suppress |-> FALSE, readyOf |-> 0, sendTask |-> NoTask, recvTask |-> NoTask]
        /\ budget = [allows |-> s.allows, frames |-> 0, breaks |-> 0, chatter |-> 0, cancels |-> 0]
  BY DEF Init
<1>2. s.config \in Config /\ s.allows \in Allowance  BY ServiceAssumption
<1>3. svc \in Service /\ budget \in Budget  BY <1>1, <1>2 DEF Service, Budget
<1>4. buf \in Buffers /\ buf.queue = <<>> /\ buf.queued = 0 /\ buf.unfinished = 0
  <2>1. <<>> \in Seq(Chunk) /\ <<>> \in Seq(Nat)  OBVIOUS
  <2> QED  BY <2>1 DEF Init, Buffers
<1>5. stack = [t \in Tasks |-> IF t \in Loops THEN <<>> ELSE <<At("idle")>>]  BY DEF Init
<1>6. At("idle") \in Frames /\ At("idle").at = "idle"  BY DEF At, Frames, QuietFrames, QuietPlaces
<1>7. <<>> \in Seq(Frames) /\ <<At("idle")>> \in Seq(Frames)
  <2> DEFINE f == At("idle")
  <2> HIDE DEF f
  <2>1. f \in Frames => <<f>> \in Seq(Frames)  OBVIOUS
  <2>2. <<>> \in Seq(Frames)  OBVIOUS
  <2> QED  BY <1>6, <2>1, <2>2 DEF f
<1>8. stack \in [Tasks -> Seq(Frames)]  BY <1>5, <1>7
<1>9. conn = [w \in Conns |-> "none"] /\ running = NoTask  BY DEF Init
<1>10. TypeInv  BY <1>3, <1>4, <1>8, <1>9 DEF TypeInv
<1>11. \A t \in Tasks : \A i \in DOMAIN stack[t] :
         i = 1 /\ stack[t][i].at = "idle" /\ stack[t] = <<At("idle")>>
  <2> DEFINE f == At("idle")
  <2> HIDE DEF f
  <2>1. DOMAIN <<>> = {} /\ DOMAIN <<f>> = {1} /\ <<f>>[1] = f  OBVIOUS
  <2>2. ASSUME NEW t \in Tasks, NEW i \in DOMAIN stack[t]
        PROVE  i = 1 /\ stack[t][i].at = "idle" /\ stack[t] = <<f>>
    <3>1. stack[t] \in {<<>>, <<f>>}  BY <1>5 DEF f
    <3>2. stack[t] = <<f>>  BY <2>1, <2>2, <3>1
    <3>3. f.at = "idle"  BY <1>6 DEF f
    <3> QED  BY <2>1, <2>2, <3>2, <3>3
  <2> QED  BY <2>2 DEF f
<1>12. "idle" \in Awaits /\ "idle" \notin Special /\ Held \subseteq Special /\ "idle" \notin Waits
  BY DEF Awaits, Special, Held, SendPlaces, AudioPlaces, FinalPlaces, Waits
<1>13. TaskInv
  <2>1. \A t \in Tasks : stack[t] # <<>> => Head(stack[t]).at = "idle"
    <3> DEFINE f == At("idle")
    <3> HIDE DEF f
    <3>1. Head(<<f>>) = f  OBVIOUS
    <3> QED  BY <1>5, <1>6, <3>1 DEF f
  <2>2. \A w \in Conns : stack[SendTask(w)] = <<>> /\ stack[RecvTask(w)] = <<>>
    <3>1. \A w \in Conns : SendTask(w) \in Loops /\ RecvTask(w) \in Loops /\ Loops \subseteq Tasks
      BY DEF Loops, Tasks
    <3> QED  BY <1>5, <3>1
  <2>3. \A t \in Tasks : ~Inside(t, SendPlaces) /\ ~Inside(t, AudioPlaces \cup FinalPlaces)
    BY <1>11, <1>12 DEF Inside, Special
  <2>4. \A t \in Tasks : \A C : AtMostOne(stack[t], C)  BY <1>11 DEF AtMostOne
  <2> QED  BY <1>12, <2>1, <2>2, <2>3, <2>4 DEF TaskInv
<1>14. AccountInv
  <2>1. Holding = {}
    <3>1. \A t \in Tasks : ~Inside(t, Held)  BY <1>11, <1>12 DEF Inside
    <3>2. Loops \subseteq Tasks  BY HoldingFinite
    <3> QED  BY <3>1, <3>2 DEF Holding, Held
  <2>2. Cardinality(Holding) = 0  BY <2>1, FS_EmptySet
  <2>3. Duration(buf.queue) = 0 /\ Len(buf.queue) = 0  BY <1>4, DurationEmpty
  <2>4. svc.config.maxQueue \in Nat  BY <1>3 DEF Service, Config
  <2> QED  BY <1>4, <2>2, <2>3, <2>4 DEF AccountInv
<1>15. FinalInv  BY <1>11, PlacesApart DEF FinalInv
<1>16. TakeInv  BY <1>11 DEF TakeInv
<1> QED  BY <1>10, <1>13, <1>14, <1>15, <1>16 DEF Inv, Slots

-----------------------------------------------------------------------------
(* The theorems                                                            *)

LEMMA InvHolds == Spec => []Inv
<1>1. Init => Inv  BY InitInv
<1>2. Inv /\ [Next]_vars => Inv'  BY NextKeeps
<1> QED  BY <1>1, <1>2, PTL DEF Spec

\* Whatever is cancelled, dropped, cleared or sent again while the tasks are at
\* their awaits, the service's count of queued milliseconds is that of the queue,
\* and the count join() waits for is that of the chunks queued or in the hands of a
\* send loop (_enqueue_chunk, _send_loop, _clear_send_queue).
THEOREM AccountKept == Spec => []QueueAccounted
<1>1. Inv => QueueAccounted  BY DEF Inv, AccountInv, QueueAccounted
<1> QED  BY <1>1, InvHolds, PTL

\* The send queue is within max_send_queue_ms, one oversized chunk under the block
\* policy apart, however often the pipeline task polled or dropped (_enqueue_chunk).
THEOREM QueueWithinLimit == Spec => []QueueBounded
<1>1. Inv => QueueBounded  BY DEF Inv, AccountInv, QueueBounded
<1> QED  BY <1>1, InvHolds, PTL

\* The event a finalize waits for is set, or is in the map from which every final,
\* error, cancel and disconnect sets it (finalize_current_utterance,
\* _release_final_waiters).
THEOREM FinalStaysReachable == Spec => []FinalReachable
<1>1. Inv => FinalReachable
  <2> SUFFICES ASSUME Inv, IsAt(Pipeline, "final_wait") PROVE Frame(Pipeline).gen \in Reachable
    BY DEF FinalReachable, Reachable
  <2>1. Pipeline \in Tasks /\ stack[Pipeline] # <<>> /\ Frame(Pipeline).at = "final_wait"
    BY PlacesApart DEF IsAt, Frame
  <2>2. Frame(Pipeline) = stack[Pipeline][1] /\ 1 \in DOMAIN stack[Pipeline]  BY <2>1, StackTyped DEF Inv
  <2> QED  BY <2>1, <2>2 DEF Inv, FinalInv, Reachable
<1> QED  BY <1>1, InvHolds, PTL

-----------------------------------------------------------------------------
(* One connection                                                          *)

\* Holding the lock of _ensure_connection, waiting for it or holding it, and past
\* a close; the coroutine of a frame past a close is above nothing but that close
\* or what it raises.
Holds   == {"connect_locked", "connecting"}
Locks   == Holds \cup {"connect_lock"}
Cut     == {"disconnected", "reconnect_closed"}
Lone    == Locks \cup {"closing"}
Kept    == Lone \cup Cut
Closing == {"close", "close_tasks", "close_await", "closing", "raise"}

\* Frames of which more than one step is said are innermost, or under a close.
Neat(s) == \A i \in DOMAIN s : i > 1 => /\ s[i].at \notin Lone
                                        /\ s[i].at \in Cut => s[i - 1].at \in Closing

Tops(t, places) == stack[t] # <<>> /\ Frame(t).at \in places
Waiting(t) == \E i \in DOMAIN connectLock : connectLock[i] = t
Leads(t) == connectLock # <<>> /\ Head(connectLock) = t
Dead == svc.ws = 0 \/ conn[svc.ws] = "gone"
Shuts(c) == c \in Conns /\ \/ conn[c] = "closed" /\ svc.ws = c
                           \/ conn[c] = "gone" /\ svc.ws \in {0, c}

\* Who waits for the lock is in it, who holds it is first; a connection is made
\* only when there is none; past a close the websocket is gone, and until then
\* it is the one that is closed.
Placed(t) ==
    /\ Tops(t, Locks) => Waiting(t)
    /\ Tops(t, Holds) => Leads(t)
    /\ Tops(t, {"connecting"}) => svc.ws = 0
    /\ Tops(t, Cut) => Dead
    /\ Tops(t, {"closing"}) => Shuts(Frame(t).conn)

CurrentInv == svc.ws \in {0} \cup Conns /\ \A w \in Conns : conn[w] = "open" => svc.ws = w
ConnInv ==
    /\ connectLock \in Seq(Tasks) /\ CurrentInv
    /\ \A t \in Tasks : Neat(stack[t]) /\ Placed(t)

LEMMA NeatAbove ==
    ASSUME NEW S, NEW w \in Seq(S), NEW s \in Seq(S), NEW n \in 0..Len(s), n # 0, Neat(w), Neat(s),
           w # <<>> /\ s[n].at \in Closing => w[Len(w)].at \in Closing
    PROVE  Neat(Above(w, s, n))
<1>0. Len(s) \in Nat /\ n \in Nat /\ n >= 1 /\ Len(w) \in Nat /\ DOMAIN w = 1..Len(w) /\ DOMAIN s = 1..Len(s)
  OBVIOUS
<1> DEFINE r == Above(w, s, n)
<1>x. \A i \in 1..Len(w) : Above(w, s, n)[i] = w[i]  BY AboveIs
<1>y. \A i \in 1..(Len(s) - n) : Above(w, s, n)[Len(w) + i] = s[n + i]  BY AboveIs
<1>z. \A i \in DOMAIN Above(w, s, n) :
           \/ i \in 1..Len(w) /\ i \in DOMAIN w /\ Above(w, s, n)[i] = w[i]
           \/ \E k \in (n + 1)..Len(s) :
                i = Len(w) + (k - n) /\ k \in DOMAIN s /\ Above(w, s, n)[i] = s[k]
  BY AboveFrames
<1>a. \A i \in 1..Len(w) : r[i] = w[i]  BY <1>x
<1>b. \A i \in 1..(Len(s) - n) : r[Len(w) + i] = s[n + i]  BY <1>y
<1>c. \A i \in DOMAIN r : \/ i \in 1..Len(w) /\ i \in DOMAIN w /\ r[i] = w[i]
                          \/ \E k \in (n + 1)..Len(s) : i = Len(w) + (k - n) /\ k \in DOMAIN s /\ r[i] = s[k]
  BY <1>z
<1> HIDE DEF r
<1> SUFFICES ASSUME NEW i \in DOMAIN r, i > 1
             PROVE  r[i].at \notin Lone /\ (r[i].at \in Cut => r[i - 1].at \in Closing)
  BY DEF Neat, r
<1>1. CASE i \in 1..Len(w) /\ i \in DOMAIN w /\ r[i] = w[i]
  <2>1. i - 1 \in 1..Len(w)  BY <1>0, <1>1
  <2>2. r[i - 1] = w[i - 1]  BY <1>a, <2>1
  <2> QED  BY <1>1, <2>2 DEF Neat
<1>2. ASSUME NEW k \in (n + 1)..Len(s), i = Len(w) + (k - n), k \in DOMAIN s, r[i] = s[k]
      PROVE  r[i].at \notin Lone /\ (r[i].at \in Cut => r[i - 1].at \in Closing)
  <2>1. k > 1  BY <1>0
  <2>2. s[k].at \notin Lone /\ (s[k].at \in Cut => s[k - 1].at \in Closing)  BY <1>2, <2>1 DEF Neat
  <2>3. CASE k = n + 1
    <3>1. Len(w) \in 1..Len(w) /\ i - 1 = Len(w) /\ k - 1 = n  BY <1>0, <1>2, <2>3
    <3>2. r[i - 1] = w[Len(w)] /\ w # <<>>  BY <1>a, <3>1
    <3> QED  BY <1>2, <2>2, <3>1, <3>2
  <2>4. CASE k # n + 1
    <3>1. (k - 1) - n \in 1..(Len(s) - n) /\ i - 1 = Len(w) + ((k - 1) - n) /\ n + ((k - 1) - n) = k - 1
      BY <1>0, <1>2, <2>4
    <3>2. r[Len(w) + ((k - 1) - n)] = s[n + ((k - 1) - n)]  BY <1>b, <3>1
    <3>3. r[i - 1] = s[k - 1]  BY <3>1, <3>2
    <3> QED  BY <1>2, <2>2, <3>3
  <2> QED  BY <2>3, <2>4
<1> QED  BY <1>c, <1>1, <1>2

\* The innermost frame gives way to others.
LEMMA NeatPush ==
    ASSUME Inv, ConnInv, NEW t \in Tasks, stack[t] # <<>>, NEW S, NEW w \in Seq(S), Neat(w),
           w # <<>> /\ Frame(t).at \in Closing => w[Len(w)].at \in Closing
    PROVE  Neat(w \o Callers(t))
<1>1. stack[t] \in Seq(Frames) /\ Frame(t) = stack[t][1]  BY StackTyped DEF Inv
<1>2. w \in Seq(S \cup Frames) /\ stack[t] \in Seq(S \cup Frames)  BY <1>1, SeqMonotonic
<1>3. w \o Tail(stack[t]) = Above(w, stack[t], 1) /\ 1 \in 0..Len(stack[t])  BY <1>2, AboveTail
<1>4. Neat(stack[t])  BY DEF ConnInv
<1>5. Neat(Above(w, stack[t], 1))  BY <1>1, <1>2, <1>3, <1>4, NeatAbove
<1> QED  BY <1>3, <1>5 DEF Callers

LEMMA NeatCallers ==
    ASSUME Inv, ConnInv, NEW t \in Tasks, stack[t] # <<>>
    PROVE  /\ Neat(Callers(t))
           /\ Callers(t) # <<>> => /\ Head(Callers(t)).at \notin Lone
                                   /\ Head(Callers(t)).at \in Cut => Frame(t).at \in Closing
<1>1. stack[t] \in Seq(Frames) /\ Frame(t) = stack[t][1] /\ Callers(t) \in Seq(Frames)  BY StackTyped DEF Inv
<1>2. Neat(<<>>) /\ <<>> \in Seq(Frames)  BY DEF Neat
<1>3. Neat(<<>> \o Callers(t))  BY <1>2, NeatPush
<1>4. <<>> \o Callers(t) = Callers(t)  BY <1>1, ConcatEmptySeq
<1>5. ASSUME Callers(t) # <<>>
      PROVE  /\ Head(Callers(t)).at \notin Lone
             /\ Head(Callers(t)).at \in Cut => Frame(t).at \in Closing
  <2>1. 2 \in DOMAIN stack[t] /\ Head(Callers(t)) = stack[t][2]  BY <1>1, <1>5 DEF Callers
  <2>2. stack[t][2].at \notin Lone /\ (stack[t][2].at \in Cut => stack[t][2 - 1].at \in Closing)
    BY <2>1 DEF ConnInv, Neat
  <2> QED  BY <1>1, <2>1, <2>2
<1> QED  BY <1>3, <1>4, <1>5

-----------------------------------------------------------------------------
\* Task t has a new stack, and one on top of which nothing above is said.
Restacks(t) == Neat(stack'[t]) /\ \A u \in Tasks : u # t => stack'[u] = stack[u]
Turns(t) == Restacks(t) /\ (stack'[t] # <<>> => Head(stack'[t]).at \notin Kept)
SameWire == svc'.ws = svc.ws /\ connectLock' = connectLock /\ conn' = conn

LEMMA TurnsPlaced ==
    ASSUME NEW t \in Tasks, Turns(t) PROVE Neat(stack'[t]) /\ Placed(t)'
BY DEF Turns, Restacks, Placed, Tops, Kept, Lone, Locks, Holds, Frame

LEMMA OthersPlaced ==
    ASSUME ConnInv, NEW t \in Tasks, Restacks(t), SameWire, NEW u \in Tasks, u # t
    PROVE  Neat(stack'[u]) /\ Placed(u)'
<1>1. stack'[u] = stack[u] /\ Frame(u)' = Frame(u)  BY DEF Restacks, Frame
<1>2. Tops(u, Locks)' = Tops(u, Locks) /\ Tops(u, Holds)' = Tops(u, Holds)
      /\ Tops(u, {"connecting"})' = Tops(u, {"connecting"}) /\ Tops(u, Cut)' = Tops(u, Cut)
      /\ Tops(u, {"closing"})' = Tops(u, {"closing"})
  BY <1>1 DEF Tops, Locks, Holds, Cut
<1>3. Waiting(u)' = Waiting(u) /\ Leads(u)' = Leads(u) /\ Dead' = Dead /\ Shuts(Frame(u).conn)' = Shuts(Frame(u).conn)
  BY <1>1 DEF SameWire, Waiting, Leads, Dead, Shuts
<1> QED  BY <1>1, <1>2, <1>3 DEF ConnInv, Placed, SameWire

LEMMA TurnsKeep ==
    ASSUME ConnInv, NEW t \in Tasks, Turns(t), SameWire PROVE ConnInv'
<1>1. \A u \in Tasks : Neat(stack'[u]) /\ Placed(u)'  BY TurnsPlaced, OthersPlaced DEF Turns
<1>2. connectLock' \in Seq(Tasks) /\ CurrentInv'  BY DEF ConnInv, CurrentInv, SameWire
<1> QED  BY <1>1, <1>2 DEF ConnInv

LEMMA OneFrame == ASSUME NEW f PROVE <<f>> \in Seq({f}) /\ Neat(<<f>>) /\ Len(<<f>>) = 1 /\ <<f>>[1] = f /\ <<f>> # <<>>
<1>1. DOMAIN <<f>> = {1} /\ Len(<<f>>) = 1 /\ <<f>>[1] = f /\ <<f>> \in Seq({f}) /\ <<f>> # <<>>  OBVIOUS
<1> QED  BY <1>1 DEF Neat

LEMMA HeadOver ==
    ASSUME NEW S, NEW w \in Seq(S), NEW T, NEW s \in Seq(T), w # <<>>
    PROVE  w \o s # <<>> /\ Head(w \o s) = Head(w)
<1>1. w \in Seq(S \cup T) /\ s \in Seq(S \cup T)  BY SeqMonotonic
<1>2. Len(w) \in Nat /\ Len(w) > 0 /\ Len(s) \in Nat  OBVIOUS
<1>3. Len(w \o s) = Len(w) + Len(s) /\ w \o s \in Seq(S \cup T)  BY <1>1, ConcatProperties
<1>4. (w \o s)[1] = w[1]  BY <1>1, <1>2, ConcatProperties
<1> QED  BY <1>2, <1>3, <1>4

\* The innermost frame gives way to others.
LEMMA RestackPush ==
    ASSUME Inv, ConnInv, NEW t \in Tasks, NEW l, Wakes(t, l) \/ Runs(t, l), NEW S, NEW w \in Seq(S), Neat(w),
           w # <<>> /\ l \in Closing => w[Len(w)].at \in Closing, Becomes(t, w \o Callers(t))
    PROVE  Restacks(t) /\ stack'[t] = w \o Callers(t)
<1>1. stack[t] # <<>> /\ Frame(t).at = l  BY Nonempty
<1>2. Neat(w \o Callers(t))  BY <1>1, NeatPush
<1>3. stack' = [stack EXCEPT ![t] = w \o Callers(t)]  BY DEF Becomes
<1>4. stack'[t] = w \o Callers(t) /\ \A u \in Tasks : u # t => stack'[u] = stack[u]
  BY <1>3 DEF Inv, Slots, TypeInv
<1> QED  BY <1>2, <1>4 DEF Restacks

LEMMA TurnPush ==
    ASSUME Inv, ConnInv, NEW t \in Tasks, NEW l, Wakes(t, l) \/ Runs(t, l), NEW S, NEW w \in Seq(S), Neat(w),
           w # <<>>, l \in Closing => w[Len(w)].at \in Closing, Becomes(t, w \o Callers(t)),
           Head(w).at \notin Kept
    PROVE  Turns(t)
<1>1. Restacks(t) /\ stack'[t] = w \o Callers(t)  BY RestackPush
<1>2. Callers(t) \in Seq(Frames)  BY Nonempty, StackTyped DEF Inv
<1>3. Head(w \o Callers(t)) = Head(w)  BY <1>2, HeadOver
<1> QED  BY <1>1, <1>3 DEF Turns

LEMMA RestackGoto ==
    ASSUME Inv, ConnInv, NEW t \in Tasks, NEW l, Wakes(t, l) \/ Runs(t, l), NEW f,
           l \in Closing => f.at \in Closing, Goto(t, f)
    PROVE  Restacks(t) /\ stack'[t] # <<>> /\ Frame(t)' = f
<1> DEFINE w == <<f>>
<1>1. w \in Seq({f}) /\ Neat(w) /\ Len(w) = 1 /\ w[1] = f /\ w # <<>> /\ Head(w) = f  BY OneFrame
<1>2. Becomes(t, w \o Callers(t))  BY DEF Goto
<1> HIDE DEF w
<1>3. Restacks(t) /\ stack'[t] = w \o Callers(t)  BY <1>1, <1>2, RestackPush
<1>4. Callers(t) \in Seq(Frames)  BY Nonempty, StackTyped DEF Inv
<1>5. w \o Callers(t) # <<>> /\ Head(w \o Callers(t)) = Head(w)  BY <1>1, <1>4, HeadOver
<1> QED  BY <1>1, <1>3, <1>5 DEF Frame

LEMMA TurnGoto ==
    ASSUME Inv, ConnInv, NEW t \in Tasks, NEW l, Wakes(t, l) \/ Runs(t, l), NEW f,
           l \in Closing => f.at \in Closing, f.at \notin Kept, Goto(t, f)
    PROVE  Turns(t)
<1>1. Restacks(t) /\ stack'[t] # <<>> /\ Frame(t)' = f  BY RestackGoto
<1> QED  BY <1>1 DEF Turns, Frame

LEMMA NeatPair ==
    ASSUME NEW g, NEW f, f.at \notin Lone, f.at \in Cut => g.at \in Closing
    PROVE  /\ <<g, f>> \in Seq({g, f}) /\ Neat(<<g, f>>) /\ Len(<<g, f>>) = 2 /\ <<g, f>>[2] = f
           /\ Head(<<g, f>>) = g /\ <<g, f>> # <<>>
<1>1. DOMAIN <<g, f>> = {1, 2} /\ Len(<<g, f>>) = 2 /\ <<g, f>>[2] = f /\ <<g, f>>[1] = g
      /\ <<g, f>> \in Seq({g, f}) /\ <<g, f>> # <<>> /\ Head(<<g, f>>) = g
  <2>1. DOMAIN <<g, f>> = 1..2  OBVIOUS
  <2> QED  BY <2>1
<1>2. Neat(<<g, f>>)
  <2> DEFINE s == <<g, f>>
  <2> HIDE DEF s
  <2>1. DOMAIN s = {1, 2} /\ s[2] = f /\ s[1] = g  BY <1>1 DEF s
  <2>2. Neat(s)
    <3> SUFFICES ASSUME NEW i \in DOMAIN s, i > 1
                 PROVE  s[i].at \notin Lone /\ (s[i].at \in Cut => s[i - 1].at \in Closing)
      BY DEF Neat
    <3>1. i = 2 /\ i - 1 = 1  BY <2>1
    <3> QED  BY <2>1, <3>1
  <2> QED  BY <2>2 DEF s
<1> QED  BY <1>1, <1>2

LEMMA TurnCall ==
    ASSUME Inv, ConnInv, NEW t \in Tasks, NEW l, Wakes(t, l) \/ Runs(t, l), l \notin Closing, NEW g, NEW f,
           g.at \notin Kept, f.at \notin Kept, Call(t, g, f)
    PROVE  Turns(t)
<1> DEFINE w == <<g, f>>
<1>1. f.at \notin Lone /\ f.at \notin Cut  BY DEF Kept
<1>2. w \in Seq({g, f}) /\ Neat(w) /\ Head(w) = g /\ w # <<>>  BY <1>1, NeatPair
<1>3. Becomes(t, w \o Callers(t))  BY DEF Call
<1> HIDE DEF w
<1> QED  BY <1>2, <1>3, TurnPush

LEMMA RestackReturn ==
    ASSUME Inv, ConnInv, NEW t \in Tasks, NEW l, Wakes(t, l) \/ Runs(t, l), Return(t)
    PROVE  /\ Restacks(t)
           /\ stack'[t] # <<>> => Frame(t)'.at \notin Lone /\ (Frame(t)'.at \in Cut => l \in Closing)
<1>1. stack[t] # <<>> /\ Frame(t).at = l  BY Nonempty
<1>2. stack' = [stack EXCEPT ![t] = Callers(t)]  BY DEF Return, Becomes
<1>3. stack'[t] = Callers(t) /\ \A u \in Tasks : u # t => stack'[u] = stack[u]
  BY <1>2 DEF Inv, Slots, TypeInv
<1>4. /\ Neat(Callers(t))
      /\ Callers(t) # <<>> => /\ Head(Callers(t)).at \notin Lone
                              /\ Head(Callers(t)).at \in Cut => Frame(t).at \in Closing
  BY <1>1, NeatCallers
<1> QED  BY <1>1, <1>3, <1>4 DEF Restacks, Frame

LEMMA TurnReturn ==
    ASSUME Inv, ConnInv, NEW t \in Tasks, NEW l, Wakes(t, l) \/ Runs(t, l), l \notin Closing, Return(t)
    PROVE  Turns(t)
<1>1. /\ Restacks(t)
      /\ stack'[t] # <<>> => Frame(t)'.at \notin Lone /\ (Frame(t)'.at \in Cut => l \in Closing)
  BY RestackReturn
<1> QED  BY <1>1 DEF Turns, Frame, Kept

LEMMA TurnWhole ==
    ASSUME Inv, ConnInv, NEW t \in Tasks, NEW w, w # <<>>, Becomes(t, w), Neat(w), Head(w).at \notin Kept
    PROVE  Turns(t)
<1>1. stack' = [stack EXCEPT ![t] = w]  BY DEF Becomes
<1>2. stack'[t] = w /\ \A u \in Tasks : u # t => stack'[u] = stack[u]  BY <1>1 DEF Inv, Slots, TypeInv
<1> QED  BY <1>2 DEF Turns, Restacks

LEMMA TurnEnds ==
    ASSUME Inv, ConnInv, NEW t \in Tasks, NEW r, Ends(t, r)
    PROVE  Turns(t)
<1>1. stack'[t] = <<>> /\ \A u \in Tasks : u # t => stack'[u] = stack[u]  BY DEF Ends, Inv, Slots, TypeInv
<1>2. Neat(<<>>)  BY DEF Neat
<1> QED  BY <1>1, <1>2 DEF Turns, Restacks

LEMMA TurnRaise ==
    ASSUME Inv, ConnInv, NEW t \in Tasks, NEW l, Wakes(t, l) \/ Runs(t, l), NEW e, Raise(t, e)
    PROVE  Turns(t)
<1>1. "raise" \in Closing /\ "raise" \notin Kept  BY DEF Closing, Kept, Lone, Locks, Holds, Cut
<1>2. Goto(t, [at |-> "raise", exc |-> e])  BY DEF Raise
<1> QED  BY <1>1, <1>2, TurnGoto

\* A task between two steps of its own is the one that runs.
LEMMA OnlyRunner ==
    ASSUME Inv, NEW t, NEW u \in Tasks, running \in {t, NoTask}, u # t
    PROVE  ~Tops(u, Cut) /\ ~Tops(u, {"connect_locked"})
<1>1. Cut \cap Awaits = {} /\ "connect_locked" \notin Awaits  BY DEF Cut, Awaits
<1>2. ASSUME stack[u] # <<>>, Head(stack[u]).at \notin Awaits PROVE FALSE
  <2>1. running = u  BY <1>2 DEF Inv, Slots, TaskInv
  <2> QED  BY <2>1, PlacesApart
<1> QED  BY <1>1, <1>2 DEF Tops, Frame

-----------------------------------------------------------------------------
(* Steps that leave the connection and its lock alone                      *)

Free(t) == Turns(t) /\ SameWire

LEMMA AtIs == ASSUME NEW l PROVE At(l).at = l
BY DEF At

LEMMA WsSame == ASSUME Inv, svc' = svc \/ \E b : svc' = [svc EXCEPT !.active = b] \/ svc' = [svc EXCEPT !.closed = b]
                PROVE  svc'.ws = svc.ws
<1>1. svc \in Service  BY DEF Inv, Slots, TypeInv
<1> QED  BY <1>1 DEF Service

LEMMA StartFree ==
    ASSUME Inv, ConnInv, NEW t \in Tasks,
           Start(t) \/ StartGranted(t) \/ StartSent(t) \/ StartReady(t) \/ StartTimesOut(t)
    PROVE  Free(t)
<1>0. /\ {"start", "start_lock", "start_sent", "start_wait"} \cap Closing = {}
      /\ {"start_locked", "start_lock", "start_wait"} \cap Kept = {}
  BY DEF Closing, Kept, Lone, Locks, Holds, Cut
<1>1. CASE Start(t)
  <2>1. SameWire  BY <1>1 DEF Start, SameWire, outsideVars, wireVars
  <2>2. Runs(t, "start")  BY <1>1 DEF Start
  <2>3. Return(t) \/ Goto(t, At(IF startLock = <<>> THEN "start_locked" ELSE "start_lock"))
    BY <1>1 DEF Start
  <2>4. At(IF startLock = <<>> THEN "start_locked" ELSE "start_lock").at \in {"start_locked", "start_lock"}
    BY AtIs
  <2>5. Turns(t)  BY <1>0, <2>2, <2>3, <2>4, TurnReturn, TurnGoto
  <2> QED  BY <2>1, <2>5 DEF Free
<1>2. CASE StartGranted(t)
  <2>1. SameWire  BY <1>2 DEF StartGranted, SameWire, serviceVars, syncVars, lockVars, outsideVars, wireVars
  <2>2. Wakes(t, "start_lock") /\ Goto(t, At("start_locked")) /\ At("start_locked").at = "start_locked"
    BY <1>2, AtIs DEF StartGranted
  <2>3. Turns(t)  BY <1>0, <2>2, TurnGoto
  <2> QED  BY <2>1, <2>3 DEF Free
<1>3. CASE StartSent(t)
  <2>1. SameWire  BY <1>3 DEF StartSent, SameWire, serviceVars, syncVars, lockVars, outsideVars, wireVars
  <2> DEFINE f == [at |-> "start_wait", event |-> svc.readyOf]
  <2>2. Runs(t, "start_sent") /\ Goto(t, f) /\ f.at = "start_wait"  BY <1>3 DEF StartSent
  <2> HIDE DEF f
  <2>3. Turns(t)  BY <1>0, <2>2, TurnGoto
  <2> QED  BY <2>1, <2>3 DEF Free
<1>4. CASE StartReady(t)
  <2>1. svc'.ws = svc.ws  BY <1>4, WsSame DEF StartReady
  <2>2. SameWire  BY <1>4, <2>1 DEF StartReady, SameWire, outsideVars, wireVars
  <2>3. Turns(t)  BY <1>0, <1>4, TurnReturn DEF StartReady
  <2> QED  BY <2>2, <2>3 DEF Free
<1>5. CASE StartTimesOut(t)
  <2>1. SameWire  BY <1>5 DEF StartTimesOut, SameWire, outsideVars, wireVars
  <2>2. Turns(t)  BY <1>5, TurnRaise DEF StartTimesOut
  <2> QED  BY <2>1, <2>2 DEF Free
<1> QED  BY <1>1, <1>2, <1>3, <1>4, <1>5

LEMMA StartLockedFree == ASSUME Inv, ConnInv, NEW t \in Tasks, StartLocked(t) PROVE Free(t)
<1>0. "start_locked" \notin Closing /\ "start_connected" \notin Kept /\ "connect" \notin Kept
  BY DEF Closing, Kept, Lone, Locks, Holds, Cut
<1>1. SameWire  BY DEF StartLocked, SameWire, outsideVars, wireVars
<1>2. Runs(t, "start_locked")  BY DEF StartLocked
<1> DEFINE c == At("connect")
           f == At("start_connected")
           s == <<f>> \o Callers(t)
<1>3. c.at = "connect" /\ f.at = "start_connected"  BY AtIs
<1>4. Return(t) \/ Becomes(t, s) \/ Becomes(t, <<c>> \o s)  BY DEF StartLocked, OnceConnected
<1>5. CASE Return(t)  BY <1>0, <1>1, <1>2, <1>5, TurnReturn DEF Free
<1>6. CASE Becomes(t, s)
  <2>1. Goto(t, f)  BY <1>6 DEF Goto
  <2> HIDE DEF f
  <2>2. Turns(t)  BY <1>0, <1>2, <1>3, <2>1, TurnGoto
  <2> QED  BY <1>1, <2>2 DEF Free
<1>7. CASE Becomes(t, <<c>> \o s)
  <2>0. Callers(t) \in Seq(Frames)  BY <1>2, Nonempty, StackTyped DEF Inv
  <2>1. <<c>> \o s = <<c, f>> \o Callers(t)
    <3> HIDE DEF c, f
    <3>0. c \in {c, f} /\ f \in {c, f}  OBVIOUS
    <3>1. <<c>> \o <<f>> = <<c, f>>  BY <3>0, PairIs
    <3>2. <<c>> \in Seq({c, f} \cup Frames) /\ <<f>> \in Seq({c, f} \cup Frames) /\ Callers(t) \in Seq({c, f} \cup Frames)
      BY <2>0, SeqMonotonic
    <3>3. (<<c>> \o <<f>>) \o Callers(t) = <<c>> \o (<<f>> \o Callers(t))  BY <3>2, ConcatAssociative
    <3> QED  BY <3>1, <3>3
  <2>2. Call(t, c, f)  BY <1>7, <2>1 DEF Call
  <2> HIDE DEF c, f
  <2>3. Turns(t)  BY <1>0, <1>2, <1>3, <2>2, TurnCall
  <2> QED  BY <1>1, <2>3 DEF Free
<1> QED  BY <1>4, <1>5, <1>6, <1>7

LEMMA SendIs == ASSUME NEW m, NEW a, NEW b PROVE SendCall(m, a, b).at = "send" /\ "send" \notin Kept
BY DEF SendCall, Kept, Lone, Locks, Holds, Cut

LEMMA StartConnectedFree == ASSUME Inv, ConnInv, NEW t \in Tasks, StartConnected(t) PROVE Free(t)
<1>0. "start_connected" \notin Closing /\ "start_sent" \notin Kept  BY DEF Closing, Kept, Lone, Locks, Holds, Cut
<1>1. svc'.ws = svc.ws
  <2>1. svc \in Service  BY DEF Inv, Slots, TypeInv
  <2> QED  BY <2>1 DEF Service, StartConnected
<1>2. SameWire  BY <1>1 DEF StartConnected, SameWire, lockVars, outsideVars, wireVars
<1> DEFINE g == SendCall([type |-> "start", gen |-> svc.gen], TRUE, FALSE)
           f == At("start_sent")
<1>3. Runs(t, "start_connected") /\ Call(t, g, f) /\ g.at = "send" /\ "send" \notin Kept /\ f.at = "start_sent"
  BY SendIs, AtIs DEF StartConnected
<1> HIDE DEF f, g
<1>4. Turns(t)  BY <1>0, <1>3, TurnCall
<1> QED  BY <1>2, <1>4 DEF Free

\* What a send that fails, a receive loop, a timeout, a cancel and a cleanup push.
LEMMA ReconnectingNeat ==
    ASSUME NEW b PROVE \E g, f : /\ Reconnecting(b) = <<g, f>> /\ g.at = "close" /\ f.at = "reconnect_closed"
<1> DEFINE g == [at |-> "close", forGood |-> FALSE]
           f == [at |-> "reconnect_closed", begin |-> b]
<1>1. Reconnecting(b) = <<g, f>> /\ g.at = "close" /\ f.at = "reconnect_closed"  BY DEF Reconnecting
<1> QED  BY <1>1

LEMMA DisconnectingNeat == \E g, f : Disconnecting = <<g, f>> /\ g.at = "close" /\ f.at = "disconnected"
<1> DEFINE g == [at |-> "close", forGood |-> TRUE]
           f == At("disconnected")
<1>1. Disconnecting = <<g, f>> /\ g.at = "close" /\ f.at = "disconnected"  BY AtIs DEF Disconnecting
<1> QED  BY <1>1

LEMMA ConcatAre ==
    ASSUME NEW S, NEW r \in Seq(S), NEW w \in Seq(S)
    PROVE  /\ r \o w \in Seq(S) /\ Len(r \o w) = Len(r) + Len(w) /\ DOMAIN (r \o w) = 1..(Len(r) + Len(w))
           /\ \A i \in 1..(Len(r) + Len(w)) : (r \o w)[i] = IF i <= Len(r) THEN r[i] ELSE w[i - Len(r)]
<1>1. r \o w \in Seq(S) /\ Len(r \o w) = Len(r) + Len(w)  BY ConcatProperties
<1>2. \A i \in 1..(Len(r) + Len(w)) : (r \o w)[i] = IF i <= Len(r) THEN r[i] ELSE w[i - Len(r)]
  BY ConcatProperties
<1>3. DOMAIN (r \o w) = 1..Len(r \o w)  BY <1>1
<1> QED  BY <1>1, <1>2, <1>3

LEMMA NeatConcat ==
    ASSUME NEW S, NEW r \in Seq(S), NEW w \in Seq(S), Neat(r), Neat(w), w = <<>> \/ w[1].at \notin Kept
    PROVE  Neat(r \o w)
<1> DEFINE s == r \o w
<1>1. Len(r) \in Nat /\ Len(w) \in Nat /\ DOMAIN r = 1..Len(r) /\ DOMAIN w = 1..Len(w)
      /\ (w = <<>> => Len(w) = 0)
  OBVIOUS
<1>2. /\ DOMAIN (r \o w) = 1..(Len(r) + Len(w))
      /\ \A i \in 1..(Len(r) + Len(w)) : (r \o w)[i] = IF i <= Len(r) THEN r[i] ELSE w[i - Len(r)]
  BY ConcatAre
<1>3. /\ DOMAIN s = 1..(Len(r) + Len(w))
      /\ \A i \in 1..(Len(r) + Len(w)) : s[i] = IF i <= Len(r) THEN r[i] ELSE w[i - Len(r)]
  BY <1>2
<1> HIDE DEF s
<1> SUFFICES ASSUME NEW i \in DOMAIN s, i > 1
             PROVE  s[i].at \notin Lone /\ (s[i].at \in Cut => s[i - 1].at \in Closing)
  BY DEF Neat, s
<1>4. CASE i <= Len(r)
  <2>1. i \in DOMAIN r /\ s[i] = r[i] /\ s[i - 1] = r[i - 1]  BY <1>1, <1>3, <1>4
  <2> QED  BY <2>1 DEF Neat
<1>5. CASE i = Len(r) + 1
  <2>1. s[i] = w[1] /\ Len(w) # 0  BY <1>1, <1>3, <1>5
  <2>2. s[i].at \notin Kept  BY <1>1, <2>1
  <2> QED  BY <2>2 DEF Kept
<1>6. CASE i > Len(r) + 1
  <2> DEFINE k == i - Len(r)
  <2>1. k \in DOMAIN w /\ k > 1 /\ (i - 1) - Len(r) = k - 1  BY <1>1, <1>3, <1>6
  <2>2. s[i] = w[k] /\ s[i - 1] = w[k - 1]  BY <1>1, <1>3, <1>6, <2>1
  <2> HIDE DEF k
  <2> QED  BY <2>1, <2>2 DEF Neat
<1> QED  BY <1>1, <1>3, <1>4, <1>5, <1>6

\* A close, and the coroutine that is past it.
LEMMA CutIs ==
    ASSUME NEW P, P = Disconnecting \/ \E b : P = Reconnecting(b)
    PROVE  \E S : P \in Seq(S) /\ Neat(P) /\ P # <<>> /\ Head(P).at \notin Kept /\ P[1].at \notin Kept
<1>1. PICK g, f : P = <<g, f>> /\ g.at = "close" /\ f.at \in Cut
  BY ReconnectingNeat, DisconnectingNeat DEF Cut
<1>2. f.at \notin Lone /\ g.at \in Closing /\ g.at \notin Kept
  BY <1>1 DEF Cut, Lone, Locks, Holds, Closing, Kept
<1>3. <<g, f>> \in Seq({g, f}) /\ Neat(<<g, f>>) /\ Head(<<g, f>>) = g /\ <<g, f>> # <<>>  BY <1>2, NeatPair
<1>4. <<g, f>>[1] = g  OBVIOUS
<1> QED  BY <1>1, <1>2, <1>3, <1>4

LEMMA CutOver ==
    ASSUME NEW P, P = Disconnecting \/ \E b : P = Reconnecting(b), NEW h, h.at \notin Kept
    PROVE  \E S : /\ P \o <<h>> \in Seq(S) /\ Neat(P \o <<h>>) /\ P \o <<h>> # <<>>
                  /\ Head(P \o <<h>>).at \notin Kept /\ (P \o <<h>>)[1].at \notin Kept
<1> DEFINE v == <<h>>
<1>1. v \in Seq({h}) /\ Neat(v) /\ v[1] = h  BY OneFrame
<1> HIDE DEF v
<1>2. PICK S : P \in Seq(S) /\ Neat(P) /\ P # <<>> /\ Head(P).at \notin Kept  BY CutIs
<1>3. P \in Seq(S \cup {h}) /\ v \in Seq(S \cup {h})  BY <1>1, <1>2, SeqMonotonic
<1>4. Neat(P \o v)  BY <1>1, <1>2, <1>3, NeatConcat
<1>5. P \o v # <<>> /\ Head(P \o v) = Head(P)  BY <1>1, <1>2, HeadOver
<1>6. P \o v \in Seq(S \cup {h})  BY <1>3, ConcatAre
<1>7. (P \o v)[1] = Head(P \o v)  BY <1>5, <1>6
<1>8. \E T : /\ P \o v \in Seq(T) /\ Neat(P \o v) /\ P \o v # <<>>
             /\ Head(P \o v).at \notin Kept /\ (P \o v)[1].at \notin Kept
  BY <1>2, <1>4, <1>5, <1>6, <1>7
<1> QED  BY <1>8 DEF v

LEMMA TurnCut ==
    ASSUME Inv, ConnInv, NEW t \in Tasks, NEW l, Wakes(t, l) \/ Runs(t, l), l \notin Closing,
           NEW P, P = Disconnecting \/ \E b : P = Reconnecting(b), NEW h, h.at \notin Kept,
           Becomes(t, P \o <<h>> \o Callers(t))
    PROVE  Turns(t)
<1> DEFINE w == P \o <<h>>
<1>1. PICK S : w \in Seq(S) /\ Neat(w) /\ w # <<>> /\ Head(w).at \notin Kept  BY CutOver
<1>2. Becomes(t, w \o Callers(t))  OBVIOUS
<1> HIDE DEF w
<1> QED  BY <1>1, <1>2, TurnPush

LEMMA MovedAt ==
    ASSUME NEW f \in Frames, NEW x, NEW y
    PROVE  /\ [f EXCEPT !.at = x].at = x
           /\ [f EXCEPT !.at = x, !.conn = y].at = x /\ [f EXCEPT !.at = x, !.retry = y].at = x
           /\ [f EXCEPT !.at = x, !.todo = y].at = x /\ [f EXCEPT !.todo = y].at = f.at
<1>1. "at" \in DOMAIN f
  BY DEF Frames, QuietFrames, LoopFrames, AudioFrames, FinalFrames, CloseFrames, SendFrames
<1>2. \E D, V : f \in [D -> V]
  <2>1. CASE f \in QuietFrames
    <3>1. f = [d \in DOMAIN f |-> f[d]]  BY <2>1 DEF QuietFrames, CloseFrames, SendFrames
    <3>2. f \in [DOMAIN f -> {f[d] : d \in DOMAIN f}]  BY <3>1
    <3> QED  BY <3>2
  <2>2. CASE f \in LoopFrames \cup AudioFrames \cup FinalFrames
    <3>1. f = [d \in DOMAIN f |-> f[d]]  BY <2>2 DEF LoopFrames, AudioFrames, FinalFrames
    <3>2. f \in [DOMAIN f -> {f[d] : d \in DOMAIN f}]  BY <3>1
    <3> QED  BY <3>2
  <2> QED  BY <2>1, <2>2 DEF Frames
<1> QED  BY <1>1, <1>2

LEMMA StillWire ==
    ASSUME Inv, serviceVars' = serviceVars \/ (lockVars' = lockVars /\ svc' = svc), conn' = conn
    PROVE  SameWire
BY DEF serviceVars, syncVars, lockVars, SameWire

LEMMA SendFailsTurns ==
    ASSUME Inv, ConnInv, NEW t \in Tasks, NEW l, Wakes(t, l) \/ Runs(t, l), l \notin Closing, SendFails(t)
    PROVE  Turns(t)
<1>1. CASE Raise(t, "error")  BY <1>1, TurnRaise
<1>2. CASE Becomes(t, Reconnecting(Frame(t).begin)
                    \o <<[Frame(t) EXCEPT !.at = "send_again", !.retry = FALSE]>> \o Callers(t))
  <2> DEFINE h == [Frame(t) EXCEPT !.at = "send_again", !.retry = FALSE]
             P == Reconnecting(Frame(t).begin)
  <2>1. Frame(t) \in Frames  BY Nonempty, StackTyped DEF Inv
  <2>2. h.at = "send_again"  BY <2>1, MovedAt
  <2>3. Becomes(t, P \o <<h>> \o Callers(t)) /\ \E b : P = Reconnecting(b)  BY <1>2
  <2> HIDE DEF P, h
  <2>4. h.at \notin Kept  BY <2>2 DEF Kept, Lone, Locks, Holds, Cut
  <2> QED  BY <2>3, <2>4, TurnCut
<1> QED  BY <1>1, <1>2 DEF SendFails

LEMMA SendFree == ASSUME Inv, ConnInv, NEW t \in Tasks, Send(t) \/ Sent(t) \/ SendAgain(t) PROVE Free(t)
<1>0. {"send", "sending", "send_again"} \cap (Closing \cup Kept) = {}
  BY DEF Closing, Kept, Lone, Locks, Holds, Cut
<1>1. SameWire
  <2>1. serviceVars' = serviceVars /\ conn' = conn  BY DEF Send, Sent, SendAgain, outsideVars, wireVars
  <2> QED  BY <2>1, StillWire
<1>2. CASE Send(t)
  <2> DEFINE f == [Frame(t) EXCEPT !.at = "sending", !.conn = svc.ws]
  <2>1. Runs(t, "send")  BY <1>2 DEF Send
  <2>2. Goto(t, f) \/ Raise(t, "error") \/ SendFails(t)  BY <1>2 DEF Send
  <2>3. Frame(t) \in Frames  BY <2>1, Nonempty, StackTyped DEF Inv
  <2>4. f.at = "sending"  BY <2>3, MovedAt
  <2> HIDE DEF f
  <2>5. Turns(t)  BY <1>0, <2>1, <2>2, <2>4, TurnGoto, TurnRaise, SendFailsTurns
  <2> QED  BY <1>1, <2>5 DEF Free
<1>3. CASE Sent(t)
  <2>1. Wakes(t, "sending") /\ (Return(t) \/ SendFails(t))  BY <1>3 DEF Sent
  <2>2. Turns(t)  BY <1>0, <2>1, TurnReturn, SendFailsTurns
  <2> QED  BY <1>1, <2>2 DEF Free
<1>4. CASE SendAgain(t)
  <2> DEFINE f == [Frame(t) EXCEPT !.at = "send"]
  <2>1. Runs(t, "send_again") /\ (Goto(t, f) \/ Return(t))  BY <1>4 DEF SendAgain
  <2>2. Frame(t) \in Frames  BY <2>1, Nonempty, StackTyped DEF Inv
  <2>3. f.at = "send"  BY <2>2, MovedAt
  <2> HIDE DEF f
  <2>4. Turns(t)  BY <1>0, <2>1, <2>3, TurnGoto, TurnReturn
  <2> QED  BY <1>1, <2>4 DEF Free
<1> QED  BY <1>2, <1>3, <1>4

LEMMA CloseFree ==
    ASSUME Inv, ConnInv, NEW t \in Tasks, Close(t) \/ CloseAwaits(t) \/ CloseAwaited(t) PROVE Free(t)
<1>0. {"close_tasks", "close_await"} \subseteq Closing /\ {"close_tasks", "close_await"} \cap Kept = {}
  BY DEF Closing, Kept, Lone, Locks, Holds, Cut
<1>1. CASE Close(t)
  <2> DEFINE others == Other(t, svc.sendTask) \o Other(t, svc.recvTask)
             f == [at |-> "close_tasks", todo |-> others, forGood |-> Frame(t).forGood]
  <2>1. svc' = [svc EXCEPT !.closed = TRUE] /\ conn' = conn /\ connectLock' = connectLock
    BY <1>1 DEF Close, syncVars, lockVars, outsideVars, wireVars
  <2>2. svc'.ws = svc.ws  BY <2>1, WsSame
  <2>3. Runs(t, "close") /\ Goto(t, f) /\ f.at = "close_tasks"  BY <1>1 DEF Close
  <2> HIDE DEF f
  <2>4. Turns(t)  BY <1>0, <2>3, TurnGoto
  <2> QED  BY <2>1, <2>2, <2>4 DEF Free, SameWire
<1>2. CASE CloseAwaits(t)
  <2> DEFINE f == [Frame(t) EXCEPT !.at = "close_await"]
             g == [Frame(t) EXCEPT !.todo = Tail(@)]
  <2>1. serviceVars' = serviceVars /\ conn' = conn  BY <1>2 DEF CloseAwaits, outsideVars, wireVars
  <2>2. Runs(t, "close_tasks") /\ (Goto(t, f) \/ Goto(t, g) \/ Raise(t, "error"))  BY <1>2 DEF CloseAwaits
  <2>3. Frame(t) \in Frames /\ Frame(t).at = "close_tasks"  BY <2>2, Nonempty, StackTyped DEF Inv
  <2>4. f.at = "close_await" /\ g.at = "close_tasks"  BY <2>3, MovedAt
  <2> HIDE DEF f, g
  <2>5. Turns(t)  BY <1>0, <2>2, <2>4, TurnGoto, TurnRaise
  <2> QED  BY <2>1, <2>5, StillWire DEF Free
<1>3. CASE CloseAwaited(t)
  <2> DEFINE f == [Frame(t) EXCEPT !.at = "close_tasks", !.todo = Tail(@)]
  <2>1. serviceVars' = serviceVars /\ conn' = conn  BY <1>3 DEF CloseAwaited, outsideVars, wireVars
  <2>2. Wakes(t, "close_await") /\ (Goto(t, f) \/ Raise(t, "error"))  BY <1>3 DEF CloseAwaited
  <2>3. Frame(t) \in Frames  BY <2>2, Nonempty, StackTyped DEF Inv
  <2>4. f.at = "close_tasks"  BY <2>3, MovedAt
  <2> HIDE DEF f
  <2>5. Turns(t)  BY <1>0, <2>2, <2>4, TurnGoto, TurnRaise
  <2> QED  BY <2>1, <2>5, StillWire DEF Free
<1> QED  BY <1>1, <1>2, <1>3

\* An exception leaves one frame.
LEMMA TurnUnwind ==
    ASSUME Inv, ConnInv, NEW t \in Tasks, Runs(t, "raise"), Callers(t) # <<>>, NEW S, NEW w \in Seq(S), Neat(w),
           w # <<>>, Head(w).at \notin Kept, Head(Callers(t)).at \in Closing => w[Len(w)].at \in Closing,
           Becomes(t, w \o Tail(Callers(t)))
    PROVE  Turns(t)
<1>1. /\ stack[t] \in Seq(Frames) /\ stack[t] # <<>> /\ stack[t][2] = Head(Callers(t))
      /\ 2 \in 0..Len(stack[t]) /\ 2 # 0
  BY CallerIs
<1>2. w \in Seq(S \cup Frames) /\ stack[t] \in Seq(S \cup Frames)  BY <1>1, SeqMonotonic
<1>3. w \o Tail(Tail(stack[t])) = Above(w, stack[t], 2)  BY <1>1, <1>2, AboveTailTail DEF Callers
<1>4. Neat(stack[t])  BY DEF ConnInv
<1>5. Neat(Above(w, stack[t], 2))  BY <1>1, <1>2, <1>4, NeatAbove
<1>6. Tail(Callers(t)) \in Seq(Frames)
  <2>1. Callers(t) \in Seq(Frames)  BY <1>1 DEF Callers
  <2> QED  BY <2>1
<1>7. w \o Tail(Callers(t)) # <<>> /\ Head(w \o Tail(Callers(t))) = Head(w)  BY <1>6, HeadOver
<1> QED  BY <1>3, <1>5, <1>7, TurnWhole DEF Callers

LEMMA UnwindsFree == ASSUME Inv, ConnInv, NEW t \in Tasks, Unwinds(t) PROVE Free(t)
<1> DEFINE c == Head(Callers(t))
<1>1. Runs(t, "raise") /\ SameWire  BY DEF Unwinds, SameWire, outsideVars, wireVars
<1>2. CASE Callers(t) = <<>>
  <2>1. Ends(t, Frame(t).exc)  BY <1>2 DEF Unwinds, At
  <2> QED  BY <1>1, <2>1, TurnEnds DEF Free
<1>3. CASE Callers(t) # <<>>
  <2>1. c.at # "none" /\ c \in Frames /\ Frame(t).at = "raise"
    <3>1. \A f \in Frames : f.at # "none"
      BY DEF Frames, QuietFrames, QuietPlaces, LoopFrames, AudioFrames, FinalFrames, SendPlaces,
             FinalPlaces, CloseFrames, SendFrames
    <3> QED  BY <1>1, <1>3, <3>1, CallerIs
  <2>2. CASE c.at = "idle" \/ c.at = "ended"
    <3>1. Return(t)  BY <1>3, <2>1, <2>2 DEF Unwinds
    <3>2. Neat(Callers(t))  BY <1>1, <1>3, CallerIs, NeatCallers
    <3>3. c.at \notin Kept  BY <2>2 DEF Kept, Lone, Locks, Holds, Cut
    <3>4. Turns(t)  BY <1>3, <3>1, <3>2, <3>3, TurnWhole DEF Return
    <3> QED  BY <1>1, <3>4 DEF Free
  <2>3. CASE c.at = "s_sent" /\ Frame(t).exc = "error"
    <3> DEFINE h == [c EXCEPT !.at = "s_gone"]
               w == Disconnecting \o <<h>>
    <3>1. Becomes(t, w \o Tail(Callers(t)))  BY <1>3, <2>1, <2>3 DEF Unwinds
    <3>2. h.at = "s_gone"  BY <2>1, MovedAt
    <3> HIDE DEF h
    <3>3. h.at \notin Kept /\ c.at \notin Closing  BY <2>3, <3>2 DEF Kept, Lone, Locks, Holds, Cut, Closing
    <3>4. PICK S : w \in Seq(S) /\ Neat(w) /\ w # <<>> /\ Head(w).at \notin Kept  BY <3>3, CutOver
    <3> HIDE DEF w
    <3>5. Turns(t)  BY <1>1, <1>3, <3>1, <3>3, <3>4, TurnUnwind
    <3> QED  BY <1>1, <3>5 DEF Free
  <2>4. CASE c.at = "r_ponged" /\ Frame(t).exc = "error"
    <3> DEFINE f == At("r_failed")
               w == <<f>>
    <3>1. Becomes(t, w \o Tail(Callers(t)))  BY <1>3, <2>1, <2>4 DEF Unwinds
    <3>2. f.at = "r_failed"  BY AtIs
    <3> HIDE DEF f
    <3>3. f.at \notin Kept /\ c.at \notin Closing  BY <2>4, <3>2 DEF Kept, Lone, Locks, Holds, Cut, Closing
    <3>4. w \in Seq({f}) /\ Neat(w) /\ w # <<>> /\ Head(w) = f  BY OneFrame
    <3> HIDE DEF w
    <3>5. Turns(t)  BY <1>1, <1>3, <3>1, <3>3, <3>4, TurnUnwind
    <3> QED  BY <1>1, <3>5 DEF Free
  <2>5. CASE /\ ~(c.at = "idle" \/ c.at = "ended")
             /\ ~(c.at = "s_sent" /\ Frame(t).exc = "error")
             /\ ~(c.at = "r_ponged" /\ Frame(t).exc = "error")
    <3> DEFINE f == Frame(t)
               w == <<f>>
    <3>1. Becomes(t, w \o Tail(Callers(t)))  BY <1>3, <2>1, <2>5 DEF Unwinds
    <3>2. f.at \notin Kept /\ f.at \in Closing  BY <2>1 DEF Kept, Lone, Locks, Holds, Cut, Closing
    <3> HIDE DEF f
    <3>4. w \in Seq({f}) /\ Neat(w) /\ w # <<>> /\ Head(w) = f /\ w[Len(w)] = f  BY OneFrame
    <3> HIDE DEF w
    <3>5. Turns(t)  BY <1>1, <1>3, <3>1, <3>2, <3>4, TurnUnwind
    <3> QED  BY <1>1, <3>5 DEF Free
  <2> QED  BY <2>2, <2>3, <2>4, <2>5
<1> QED  BY <1>2, <1>3

LEMMA SenderFree == ASSUME Inv, ConnInv, NEW k \in Conns, SenderStep(k) PROVE Free(SendTask(k))
<1> DEFINE t == SendTask(k)
<1>0. /\ {"s_new", "s_loop", "s_get", "s_take", "s_sent", "s_gone"} \cap (Closing \cup Kept) = {}
      /\ At("s_get").at = "s_get" /\ At("s_take").at = "s_take" /\ At("s_loop").at = "s_loop"
  BY AtIs DEF Closing, Kept, Lone, Locks, Holds, Cut
<1>1. t \in Tasks  BY PlacesApart
<1>2. SameWire
  <2>1. lockVars' = lockVars /\ svc' = svc /\ conn' = conn
    BY DEF SenderStep, SenderLoops, SenderWakes, SenderTakes, SenderSent, SenderGone, serviceVars, syncVars,
           lockVars, outsideVars, wireVars
  <2> QED  BY <2>1, StillWire
<1>3. CASE SenderLoops(k)
  <2>1. PICK l \in {"s_new", "s_loop"} : Wakes(t, l) \/ Runs(t, l)  BY <1>3 DEF SenderLoops
  <2> DEFINE f == At(IF buf.queue = <<>> THEN "s_get" ELSE "s_take")
  <2>2. Ends(t, "ok") \/ Goto(t, f)  BY <1>3 DEF SenderLoops
  <2>3. f.at \in {"s_get", "s_take"}  BY AtIs
  <2> HIDE DEF f
  <2>4. Turns(t)  BY <1>0, <1>1, <2>1, <2>2, <2>3, TurnEnds, TurnGoto
  <2> QED  BY <1>2, <2>4 DEF Free
<1>4. CASE SenderWakes(k)
  <2>1. Wakes(t, "s_get") /\ Goto(t, At("s_take"))  BY <1>4 DEF SenderWakes
  <2>2. Turns(t)  BY <1>0, <1>1, <2>1, TurnGoto
  <2> QED  BY <1>2, <2>2 DEF Free
<1>5. CASE SenderTakes(k)
  <2> DEFINE c == Head(buf.queue)
             g == SendCall([type |-> "audio", frames |-> c.frames, gen |-> c.gen], TRUE, TRUE)
             f == [at |-> "s_sent", chunk |-> c]
  <2>1. Runs(t, "s_take") /\ (Call(t, g, f) \/ Goto(t, At("s_loop")))  BY <1>5 DEF SenderTakes
  <2>2. f.at = "s_sent" /\ g.at = "send" /\ "send" \notin Kept  BY SendIs
  <2> HIDE DEF f, g
  <2>3. Turns(t)  BY <1>0, <1>1, <2>1, <2>2, TurnCall, TurnGoto
  <2> QED  BY <1>2, <2>3 DEF Free
<1>6. CASE SenderSent(k)
  <2>1. Runs(t, "s_sent") /\ (Ends(t, "ok") \/ Goto(t, At("s_loop")))  BY <1>6 DEF SenderSent
  <2>2. Turns(t)  BY <1>0, <1>1, <2>1, TurnEnds, TurnGoto
  <2> QED  BY <1>2, <2>2 DEF Free
<1>7. CASE SenderGone(k)
  <2>1. Ends(t, "ok")  BY <1>7 DEF SenderGone
  <2> QED  BY <1>1, <1>2, <2>1, TurnEnds DEF Free
<1> QED  BY <1>3, <1>4, <1>5, <1>6, <1>7 DEF SenderStep

LEMMA ReceiverFree == ASSUME Inv, ConnInv, NEW k \in Conns, ReceiverStep(k) PROVE Free(RecvTask(k))
<1> DEFINE t == RecvTask(k)
<1>0. /\ {"r_new", "r_loop", "r_ponged", "r_recv", "r_push", "r_failed", "r_end"} \cap (Closing \cup Kept) = {}
      /\ At("r_loop").at = "r_loop" /\ At("r_failed").at = "r_failed" /\ At("r_ponged").at = "r_ponged"
      /\ At("r_end").at = "r_end"
  BY AtIs DEF Closing, Kept, Lone, Locks, Holds, Cut
<1>1. t \in Tasks  BY PlacesApart
<1>2. CASE ReceiverLoops(k) \/ ReceiverLosesConnection(k) \/ ReceiverFailed(k) \/ ReceiverEnds(k)
  <2>1. serviceVars' = serviceVars /\ conn' = conn
    BY <1>2 DEF ReceiverLoops, ReceiverLosesConnection, ReceiverFailed, ReceiverEnds, outsideVars, wireVars
  <2>2. SameWire  BY <2>1, StillWire
  <2>3. CASE ReceiverLoops(k)
    <3> DEFINE f == [at |-> "r_recv", conn |-> svc.ws]
    <3>1. PICK l \in {"r_new", "r_loop", "r_ponged"} : Wakes(t, l) \/ Runs(t, l)  BY <2>3 DEF ReceiverLoops
    <3>2. (Ends(t, "ok") \/ Goto(t, f)) /\ f.at = "r_recv"  BY <2>3 DEF ReceiverLoops
    <3> HIDE DEF f
    <3>3. Turns(t)  BY <1>0, <1>1, <3>1, <3>2, TurnEnds, TurnGoto
    <3> QED  BY <2>2, <3>3 DEF Free
  <2>4. CASE ReceiverLosesConnection(k)
    <3>1. Wakes(t, "r_recv") /\ Goto(t, At("r_failed"))  BY <2>4 DEF ReceiverLosesConnection
    <3>2. Turns(t)  BY <1>0, <1>1, <3>1, TurnGoto
    <3> QED  BY <2>2, <3>2 DEF Free
  <2>5. CASE ReceiverFailed(k)
    <3> DEFINE P == IF svc.config.reconnect /\ ~svc.closed THEN Reconnecting(TRUE) ELSE Disconnecting
               h == At("r_end")
               w == P \o <<h>>
    <3>1. Becomes(t, w)  BY <2>5 DEF ReceiverFailed
    <3>2. P = Disconnecting \/ \E b : P = Reconnecting(b)  OBVIOUS
    <3> HIDE DEF P, h
    <3>3. h.at \notin Kept  BY <1>0 DEF h
    <3>4. Neat(w) /\ w # <<>> /\ Head(w).at \notin Kept  BY <3>2, <3>3, CutOver
    <3> HIDE DEF w
    <3>5. Turns(t)  BY <1>1, <3>1, <3>4, TurnWhole
    <3> QED  BY <2>2, <3>5 DEF Free
  <2>6. CASE ReceiverEnds(k)
    <3>1. Ends(t, "ok")  BY <2>6 DEF ReceiverEnds
    <3> QED  BY <1>1, <2>2, <3>1, TurnEnds DEF Free
  <2> QED  BY <1>2, <2>3, <2>4, <2>5, <2>6
<1>3. CASE ReceiverPushes(k)
  <2>1. SameWire
    <3>1. svc' = [svc EXCEPT !.active = @ /\ Frame(t).msg.type # "final"]  BY <1>3 DEF ReceiverPushes
    <3>2. svc'.ws = svc.ws  BY <3>1, WsSame
    <3> QED  BY <1>3, <3>2 DEF ReceiverPushes, SameWire, syncVars, lockVars, outsideVars, wireVars
  <2>2. Wakes(t, "r_push") /\ Goto(t, At("r_loop"))  BY <1>3 DEF ReceiverPushes
  <2>3. Turns(t)  BY <1>0, <1>1, <2>2, TurnGoto
  <2> QED  BY <2>1, <2>3 DEF Free
<1>4. CASE ReceivesPing(k)
  <2> DEFINE g == SendCall([type |-> "pong"], TRUE, TRUE)
  <2>1. PICK m : Receives(k, m) /\ Call(t, g, At("r_ponged"))  BY <1>4 DEF ReceivesPing
  <2>2. g.at = "send" /\ "send" \notin Kept  BY SendIs
  <2> HIDE DEF g
  <2>3. Wakes(t, "r_recv") /\ SameWire  BY <2>1 DEF Receives, SameWire, lockVars
  <2>4. Turns(t)  BY <1>0, <1>1, <2>1, <2>2, <2>3, TurnCall
  <2> QED  BY <2>3, <2>4 DEF Free
<1>5. CASE ReceivesReady(k) \/ ReceivesTranscript(k) \/ ReceivesEnd(k)
  <2>1. PICK m : /\ Receives(k, m)
                 /\ Goto(t, At("r_loop")) \/ Goto(t, [at |-> "r_push", msg |-> m])
    BY <1>5 DEF ReceivesReady, ReceivesTranscript, ReceivesEnd
  <2> DEFINE f == [at |-> "r_push", msg |-> m]
  <2>2. f.at = "r_push"  OBVIOUS
  <2>3. Goto(t, At("r_loop")) \/ Goto(t, f)  BY <2>1
  <2> HIDE DEF f
  <2>4. Wakes(t, "r_recv") /\ SameWire  BY <2>1 DEF Receives, SameWire, lockVars
  <2>5. Turns(t)  BY <1>0, <1>1, <2>2, <2>3, <2>4, TurnGoto
  <2> QED  BY <2>4, <2>5 DEF Free
<1> QED  BY <1>2, <1>3, <1>4, <1>5 DEF ReceiverStep

LEMMA PipelineFree == ASSUME Inv, ConnInv, PipelineStep PROVE Free(Pipeline)
<1> DEFINE t == Pipeline
<1>0. /\ {"audio", "queue", "flush", "enqueue", "sleep", "begun", "flushed", "join", "joined", "final_sent",
          "final_wait", "final_done", "raise"} \cap Kept = {}
      /\ {"audio", "queue", "flush", "enqueue", "sleep", "begun", "flushed", "join", "joined", "final_sent",
          "final_wait", "final_done"} \cap Closing = {}
      /\ At("flush").at = "flush"
  BY AtIs DEF Closing, Kept, Lone, Locks, Holds, Cut
<1>1. t \in Tasks  BY PlacesApart
<1>2. CASE HandlesAudio \/ QueuesAudio \/ Flushes \/ Enqueues \/ SpeechBegun
  <2>1. SameWire
    BY <1>2 DEF HandlesAudio, QueuesAudio, Flushes, Enqueues, SpeechBegun, SameWire, syncVars, lockVars,
       outsideVars, wireVars
  <2>2. CASE HandlesAudio
    <3> DEFINE f == [at |-> "queue", frames |-> <<Frame(t).frame>>]
    <3>1. Runs(t, "audio") /\ (Goto(t, f) \/ Return(t)) /\ f.at = "queue"  BY <2>2 DEF HandlesAudio
    <3> HIDE DEF f
    <3>2. Turns(t)  BY <1>0, <1>1, <3>1, TurnGoto, TurnReturn
    <3> QED  BY <2>1, <3>2 DEF Free
  <2>3. CASE QueuesAudio
    <3>1. Runs(t, "queue") /\ (Goto(t, At("flush")) \/ Return(t))  BY <2>3 DEF QueuesAudio
    <3>2. Turns(t)  BY <1>0, <1>1, <3>1, TurnGoto, TurnReturn
    <3> QED  BY <2>1, <3>2 DEF Free
  <2>4. CASE Flushes
    <3> DEFINE f == [at |-> "enqueue", chunk |-> [frames |-> buf.aggregate, gen |-> svc.gen]]
    <3>1. Runs(t, "flush") /\ (Goto(t, f) \/ Return(t)) /\ f.at = "enqueue"  BY <2>4 DEF Flushes
    <3> HIDE DEF f
    <3>2. Turns(t)  BY <1>0, <1>1, <3>1, TurnGoto, TurnReturn
    <3> QED  BY <2>1, <3>2 DEF Free
  <2>5. CASE Enqueues
    <3> DEFINE f == [at |-> "sleep", chunk |-> Frame(t).chunk]
    <3>1. Runs(t, "enqueue") /\ (Goto(t, f) \/ Return(t) \/ Raise(t, "error")) /\ f.at = "sleep"
      BY <2>5 DEF Enqueues
    <3> HIDE DEF f
    <3>2. Turns(t)  BY <1>0, <1>1, <3>1, TurnGoto, TurnReturn, TurnRaise
    <3> QED  BY <2>1, <3>2 DEF Free
  <2>6. CASE SpeechBegun
    <3> DEFINE f == [at |-> "queue", frames |-> buf.preroll]
    <3>1. Runs(t, "begun") /\ (Goto(t, f) \/ Return(t)) /\ f.at = "queue"  BY <2>6 DEF SpeechBegun
    <3> HIDE DEF f
    <3>2. Turns(t)  BY <1>0, <1>1, <3>1, TurnGoto, TurnReturn
    <3> QED  BY <2>1, <3>2 DEF Free
  <2> QED  BY <1>2, <2>2, <2>3, <2>4, <2>5, <2>6
<1>3. ASSUME NEW l \in {"sleep", "flushed", "join", "final_sent", "final_wait"},
             NEW x \in {"enqueue", "join", "joined", "final_wait", "final_done"},
             Wakes(t, l) \/ Runs(t, l), Goto(t, [Frame(t) EXCEPT !.at = x])
      PROVE  Turns(t)
  <2> DEFINE f == [Frame(t) EXCEPT !.at = x]
  <2>1. Frame(t) \in Frames  BY <1>1, <1>3, Nonempty, StackTyped DEF Inv
  <2>2. f.at = x  BY <2>1, MovedAt
  <2>3. Goto(t, f)  BY <1>3
  <2> HIDE DEF f
  <2> QED  BY <1>0, <1>1, <1>3, <2>2, <2>3, TurnGoto
<1>4. CASE Sleeps \/ Joins \/ Joined \/ FinalArrives
  <2>1. SameWire
    <3>1. serviceVars' = serviceVars /\ conn' = conn
      BY <1>4 DEF Sleeps, Joins, Joined, FinalArrives, outsideVars, wireVars
    <3> QED  BY <3>1, StillWire
  <2>2. \E l \in {"sleep", "flushed", "join", "final_sent", "final_wait"} :
        \E x \in {"enqueue", "join", "joined", "final_wait", "final_done"} :
          (Wakes(t, l) \/ Runs(t, l)) /\ Goto(t, [Frame(t) EXCEPT !.at = x])
    BY <1>4 DEF Sleeps, Joins, Joined, FinalArrives
  <2> QED  BY <1>3, <2>1, <2>2 DEF Free
<1>5. CASE FinalizeSent
  <2>1. svc'.ws = svc.ws  BY <1>5, WsSame DEF FinalizeSent
  <2>2. SameWire  BY <1>5, <2>1 DEF FinalizeSent, SameWire, syncVars, lockVars, outsideVars, wireVars
  <2>3. Turns(t)  BY <1>3, <1>5 DEF FinalizeSent
  <2> QED  BY <2>2, <2>3 DEF Free
<1>6. CASE SendsFinalize
  <2> DEFINE g == SendCall([type |-> "finalize"], FALSE, FALSE)
             f == [at |-> "final_sent", gen |-> Frame(t).gen]
  <2>1. SameWire  BY <1>6 DEF SendsFinalize, SameWire, lockVars, outsideVars, wireVars
  <2>2. Runs(t, "joined") /\ (Call(t, g, f) \/ Return(t))  BY <1>6 DEF SendsFinalize, Call
  <2>3. f.at = "final_sent" /\ g.at = "send" /\ "send" \notin Kept  BY SendIs
  <2> HIDE DEF f, g
  <2>4. Turns(t)  BY <1>0, <1>1, <2>2, <2>3, TurnCall, TurnReturn
  <2> QED  BY <2>1, <2>4 DEF Free
<1>7. CASE FinalTimesOut
  <2> DEFINE h == [Frame(t) EXCEPT !.at = "final_done"]
  <2>1. serviceVars' = serviceVars /\ conn' = conn  BY <1>7 DEF FinalTimesOut, outsideVars, wireVars
  <2>2. SameWire  BY <2>1, StillWire
  <2>3. Wakes(t, "final_wait") /\ Becomes(t, Disconnecting \o <<h>> \o Callers(t))  BY <1>7 DEF FinalTimesOut
  <2>4. Frame(t) \in Frames  BY <1>1, <2>3, Nonempty, StackTyped DEF Inv
  <2>5. h.at = "final_done"  BY <2>4, MovedAt
  <2> HIDE DEF h
  <2>6. Turns(t)  BY <1>0, <1>1, <2>3, <2>5, TurnCut
  <2> QED  BY <2>2, <2>6 DEF Free
<1>8. CASE FinalDone
  <2>1. SameWire  BY <1>8 DEF FinalDone, SameWire, lockVars, outsideVars, wireVars
  <2>2. Runs(t, "final_done") /\ Return(t)  BY <1>8 DEF FinalDone
  <2>3. Turns(t)  BY <1>0, <1>1, <2>2, TurnReturn
  <2> QED  BY <2>1, <2>3 DEF Free
<1> QED  BY <1>2, <1>4, <1>5, <1>6, <1>7, <1>8 DEF PipelineStep

LEMMA CancelSentFree == ASSUME Inv, ConnInv, CancelSent PROVE Free(Controller)
<1> DEFINE t == Controller
<1>1. SameWire
  <2>1. serviceVars' = serviceVars /\ conn' = conn  BY DEF CancelSent, outsideVars, wireVars
  <2> QED  BY <2>1, StillWire
<1>2. t \in Tasks /\ "cancel_sent" \notin Closing  BY PlacesApart DEF Closing
<1>3. Runs(t, "cancel_sent")  BY DEF CancelSent
<1>4. CASE Return(t)  BY <1>1, <1>2, <1>3, <1>4, TurnReturn DEF Free
<1>5. CASE Becomes(t, Disconnecting \o Callers(t))
  <2>1. \E S : /\ Disconnecting \in Seq(S) /\ Neat(Disconnecting) /\ Disconnecting # <<>>
               /\ Head(Disconnecting).at \notin Kept
    BY CutIs
  <2>2. Turns(t)  BY <1>2, <1>3, <1>5, <2>1, TurnPush
  <2> QED  BY <1>1, <2>2 DEF Free
<1> QED  BY <1>4, <1>5 DEF CancelSent

\* A task that is idle begins an operation, on a stack that is written out.
LEMMA WholeNeat ==
    ASSUME NEW S, NEW w \in Seq(S), w # <<>>, \A i \in DOMAIN w : w[i].at \notin Kept
    PROVE  Neat(w) /\ Head(w).at \notin Kept
<1>1. Neat(w)  BY DEF Neat, Kept
<1>2. Head(w) = w[1] /\ 1 \in DOMAIN w  OBVIOUS
<1> QED  BY <1>1, <1>2

LEMMA HearsAudioFree == ASSUME Inv, ConnInv, HearsAudio PROVE Free(Pipeline)
<1> DEFINE a == [at |-> "audio", frame |-> budget.frames + 1]
           c == At("connect")
           e == At("idle")
           v == <<a, e>>
           u == <<c, a, e>>
           S == {a, c, e}
<1>1. SameWire
  <2>1. serviceVars' = serviceVars /\ conn' = conn  BY DEF HearsAudio, wireVars
  <2> QED  BY <2>1, StillWire
<1>2. Becomes(Pipeline, OnceConnected(v)) /\ Pipeline \in Tasks  BY PlacesApart DEF HearsAudio
<1>3. a.at = "audio" /\ c.at = "connect" /\ e.at = "idle"  BY AtIs
<1>4. a.at \notin Kept /\ c.at \notin Kept /\ e.at \notin Kept  BY <1>3 DEF Kept, Lone, Locks, Holds, Cut
<1>5. OnceConnected(v) = v \/ OnceConnected(v) = <<c>> \o v  BY DEF OnceConnected
<1> HIDE DEF a, c, e
<1>6. <<c>> \o v = u
  <2>1. a \in S /\ c \in S /\ e \in S  OBVIOUS
  <2> HIDE DEF S
  <2> QED  BY <2>1, TripleIs
<1>7. /\ v \in Seq(S) /\ v # <<>> /\ DOMAIN v = {1, 2} /\ v[1] = a /\ v[2] = e
      /\ u \in Seq(S) /\ u # <<>> /\ DOMAIN u = {1, 2, 3} /\ u[1] = c /\ u[2] = a /\ u[3] = e
  <2>1. DOMAIN v = 1..2 /\ DOMAIN u = 1..3  OBVIOUS
  <2> QED  BY <2>1
<1> HIDE DEF u, v, S
<1>8. Neat(v) /\ Head(v).at \notin Kept /\ Neat(u) /\ Head(u).at \notin Kept  BY <1>4, <1>7, WholeNeat
<1>9. Turns(Pipeline)  BY <1>2, <1>5, <1>6, <1>7, <1>8, TurnWhole
<1> QED  BY <1>1, <1>9 DEF Free

LEMMA SpeechFree == ASSUME Inv, ConnInv, SpeechStarts \/ SpeechEnds PROVE Free(Pipeline)
<1>1. SameWire
  <2>1. svc'.ws = svc.ws
    <3>1. svc \in Service  BY DEF Inv, Slots, TypeInv
    <3> QED  BY <3>1 DEF Service, SpeechStarts, SpeechEnds, serviceVars
  <2> QED  BY <2>1 DEF SpeechStarts, SpeechEnds, SameWire, serviceVars, syncVars, lockVars, outsideVars, wireVars
<1>2. PICK a, b : /\ Becomes(Pipeline, <<a, b, At("idle")>>)
                  /\ a.at \in {"start", "flush"} /\ b.at \in {"begun", "flushed"}
  <2>1. CASE SpeechStarts  BY <2>1, AtIs DEF SpeechStarts
  <2>2. CASE SpeechEnds
    <3> DEFINE f == [at |-> "flushed", gen |-> svc.gen]
    <3>1. f.at = "flushed" /\ Becomes(Pipeline, <<At("flush"), f, At("idle")>>)  BY <2>2 DEF SpeechEnds
    <3> HIDE DEF f
    <3> QED  BY <3>1, AtIs
  <2> QED  BY <2>1, <2>2
<1> DEFINE e == At("idle")
           w == <<a, b, e>>
           S == {a, b, e}
<1>3. e.at = "idle"  BY AtIs
<1>4. a.at \notin Kept /\ b.at \notin Kept /\ e.at \notin Kept  BY <1>2, <1>3 DEF Kept, Lone, Locks, Holds, Cut
<1> HIDE DEF e
<1>5. w \in Seq(S) /\ w # <<>> /\ DOMAIN w = {1, 2, 3} /\ w[1] = a /\ w[2] = b /\ w[3] = e
  <2>1. DOMAIN w = 1..3  OBVIOUS
  <2> QED  BY <2>1
<1>6. Becomes(Pipeline, w)  BY <1>2 DEF e
<1> HIDE DEF w, S
<1>7. Neat(w) /\ Head(w).at \notin Kept  BY <1>4, <1>5, WholeNeat
<1>8. Turns(Pipeline)  BY <1>5, <1>6, <1>7, PlacesApart, TurnWhole
<1> QED  BY <1>1, <1>8 DEF Free

LEMMA StopsFree == ASSUME Inv, ConnInv, Stops PROVE Free(Pipeline)
<1> DEFINE c == SendCall([type |-> "close"], TRUE, TRUE)
           h == At("ended")
           D == Disconnecting \o <<h>>
<1>1. SameWire
  <2>1. serviceVars' = serviceVars /\ conn' = conn  BY DEF Stops, outsideVars, wireVars
  <2> QED  BY <2>1, StillWire
<1>2. h.at \notin Kept /\ c.at \notin Kept
  <2>1. h.at = "ended"  BY AtIs
  <2> QED  BY <2>1, SendIs DEF Kept, Lone, Locks, Holds, Cut
<1>3. \/ Becomes(Pipeline, <<>> \o Disconnecting \o <<h>>)
      \/ Becomes(Pipeline, <<c>> \o Disconnecting \o <<h>>)
  BY DEF Stops
<1> HIDE DEF c, h
<1>4. PICK S : /\ Disconnecting \in Seq(S) /\ Neat(Disconnecting) /\ Disconnecting # <<>>
               /\ Head(Disconnecting).at \notin Kept /\ Disconnecting[1].at \notin Kept
  BY CutIs
<1> DEFINE T == S \cup {c, h}
<1>5. Disconnecting \in Seq(T) /\ <<h>> \in Seq(T) /\ <<c>> \in Seq(T)
  <2>1. <<h>> \in Seq(T) /\ <<c>> \in Seq(T)  OBVIOUS
  <2> QED  BY <1>4, <2>1, SeqMonotonic
<1> HIDE DEF T
<1>6. /\ Neat(D) /\ D # <<>> /\ Head(D).at \notin Kept /\ D[1].at \notin Kept
  BY <1>2, CutOver
<1>7. D \in Seq(T)  BY <1>5, ConcatAre
<1>8. CASE Becomes(Pipeline, <<>> \o Disconnecting \o <<h>>)
  <2>1. <<>> \o Disconnecting = Disconnecting  BY <1>5, ConcatEmptySeq
  <2>2. Becomes(Pipeline, D)  BY <1>8, <2>1
  <2> HIDE DEF D
  <2>3. Turns(Pipeline)  BY <1>6, <2>2, PlacesApart, TurnWhole
  <2> QED  BY <1>1, <2>3 DEF Free
<1>9. CASE Becomes(Pipeline, <<c>> \o Disconnecting \o <<h>>)
  <2>1. (<<c>> \o Disconnecting) \o <<h>> = <<c>> \o D  BY <1>5, ConcatAssociative
  <2> DEFINE v == <<c>>
  <2>2. Becomes(Pipeline, v \o D)  BY <1>9, <2>1
  <2>3. v \in Seq(T) /\ Neat(v) /\ v # <<>> /\ Head(v) = c  BY <1>5, OneFrame
  <2> HIDE DEF D, v
  <2>4. Neat(v \o D)  BY <1>6, <1>7, <2>3, NeatConcat
  <2>5. v \o D # <<>> /\ Head(v \o D) = c  BY <1>7, <2>3, HeadOver
  <2>6. Turns(Pipeline)  BY <1>2, <2>2, <2>4, <2>5, PlacesApart, TurnWhole
  <2> QED  BY <1>1, <2>6 DEF Free
<1> QED  BY <1>3, <1>8, <1>9

LEMMA CleansUpFree == ASSUME Inv, ConnInv, CleansUp PROVE Free(Controller)
<1> DEFINE h == At("ended")
           w == Disconnecting \o <<h>>
<1>1. SameWire
  <2>1. serviceVars' = serviceVars /\ conn' = conn  BY DEF CleansUp, outsideVars, wireVars
  <2> QED  BY <2>1, StillWire
<1>2. h.at \notin Kept
  <2>1. h.at = "ended"  BY AtIs
  <2> QED  BY <2>1 DEF Kept, Lone, Locks, Holds, Cut
<1>3. Becomes(Controller, w)  BY DEF CleansUp
<1>4. Neat(w) /\ w # <<>> /\ Head(w).at \notin Kept  BY <1>2, CutOver
<1> HIDE DEF w
<1>5. Turns(Controller)  BY <1>3, <1>4, PlacesApart, TurnWhole
<1> QED  BY <1>1, <1>5 DEF Free

\* A step that leaves every stack as it is.
LEMMA StandKeeps ==
    ASSUME ConnInv, stack' = stack, SameWire PROVE ConnInv'
BY DEF ConnInv, CurrentInv, Placed, SameWire, Tops, Frame, Waiting, Leads, Dead, Shuts

LEMMA CancelsConn == ASSUME Inv, ConnInv, Cancels PROVE ConnInv'
<1>1. SameWire
  <2>1. svc'.ws = svc.ws
    <3>1. svc \in Service  BY DEF Inv, Slots, TypeInv
    <3> QED  BY <3>1 DEF Service, Cancels
  <2> QED  BY <2>1 DEF Cancels, SameWire, lockVars, wireVars
<1>2. CASE stack' = stack  BY <1>1, <1>2, StandKeeps
<1>3. CASE Becomes(Controller, <<SendCall([type |-> "cancel"], FALSE, FALSE),
                                  [at |-> "cancel_sent", conn |-> svc.ws], At("idle")>>)
  <2> DEFINE a == SendCall([type |-> "cancel"], FALSE, FALSE)
             b == [at |-> "cancel_sent", conn |-> svc.ws]
             e == At("idle")
             w == <<a, b, e>>
             S == {a, b, e}
  <2>1. a.at = "send" /\ b.at = "cancel_sent" /\ e.at = "idle"  BY SendIs, AtIs
  <2>2. a.at \notin Kept /\ b.at \notin Kept /\ e.at \notin Kept  BY <2>1 DEF Kept, Lone, Locks, Holds, Cut
  <2>3. Becomes(Controller, w)  BY <1>3
  <2> HIDE DEF a, b, e
  <2>4. w \in Seq(S) /\ w # <<>> /\ DOMAIN w = {1, 2, 3} /\ w[1] = a /\ w[2] = b /\ w[3] = e
    <3>1. DOMAIN w = 1..3  OBVIOUS
    <3> QED  BY <3>1
  <2> HIDE DEF w, S
  <2>5. Neat(w) /\ Head(w).at \notin Kept  BY <2>2, <2>4, WholeNeat
  <2>6. Controller \in Tasks /\ Turns(Controller)  BY <2>3, <2>4, <2>5, PlacesApart, TurnWhole
  <2> QED  BY <1>1, <2>6, TurnsKeep
<1> QED  BY <1>2, <1>3 DEF Cancels

LEMMA ServersConn ==
    ASSUME Inv, ConnInv, NEW w \in Conns,
           HangsUp(w) \/ Breaks(w) \/ \E type \in {"partial", "ping"} : ServerChats(w, type)
    PROVE  ConnInv'
<1>1. /\ stack' = stack /\ svc' = svc /\ connectLock' = connectLock
      /\ conn' = conn \/ (conn[w] = "open" /\ conn' = [conn EXCEPT ![w] = "broken"])
  BY DEF HangsUp, Breaks, ServerChats, serviceVars, syncVars, lockVars, taskVars
<1>2. conn \in [Conns -> {"none", "open", "broken", "closed", "gone"}]  BY DEF Inv, Slots, TypeInv
<1>3. CASE conn' = conn  BY <1>1, <1>3, StandKeeps DEF SameWire
<1>4. CASE conn[w] = "open" /\ conn' = [conn EXCEPT ![w] = "broken"]
  <2>1. \A v \in Conns : v # w => conn'[v] = conn[v]  BY <1>2, <1>4
  <2>2. conn'[w] = "broken"  BY <1>2, <1>4
  <2>3. CurrentInv'  BY <1>1, <2>1, <2>2 DEF ConnInv, CurrentInv
  <2>4. Dead => Dead'
    <3>1. svc.ws \in {0} \cup Conns  BY DEF ConnInv, CurrentInv
    <3> QED  BY <1>1, <1>4, <2>1, <3>1 DEF Dead
  <2>5. \A c : Shuts(c) => Shuts(c)'  BY <1>1, <1>4, <2>1 DEF Shuts
  <2>6. ASSUME NEW u \in Tasks PROVE Neat(stack'[u]) /\ Placed(u)'
    <3>1. /\ Neat(stack[u]) /\ Placed(u) /\ Frame(u)' = Frame(u)
          /\ \A places : Tops(u, places)' = Tops(u, places)
          /\ Waiting(u)' = Waiting(u) /\ Leads(u)' = Leads(u)
      BY <1>1 DEF ConnInv, Frame, Tops, Waiting, Leads
    <3>2. Tops(u, Locks)' = Tops(u, Locks) /\ Tops(u, Holds)' = Tops(u, Holds)
          /\ Tops(u, {"connecting"})' = Tops(u, {"connecting"}) /\ Tops(u, Cut)' = Tops(u, Cut)
          /\ Tops(u, {"closing"})' = Tops(u, {"closing"})
      BY <1>1 DEF Tops, Frame, Locks, Holds, Cut
    <3>3. Shuts(Frame(u).conn) => Shuts(Frame(u).conn)'  BY <2>5, <1>1 DEF Shuts, Frame
    <3> QED  BY <1>1, <2>4, <3>1, <3>2, <3>3 DEF Placed
  <2> QED  BY <1>1, <2>3, <2>6 DEF ConnInv
<1> QED  BY <1>1, <1>3, <1>4

-----------------------------------------------------------------------------
(* Steps that lock, connect and close                                      *)

LEMMA OtherKept ==
    ASSUME ConnInv, NEW u \in Tasks, stack'[u] = stack[u],
           Tops(u, Locks) /\ Waiting(u) => Waiting(u)', Tops(u, Holds) => Leads(u)',
           Tops(u, {"connecting"}) => svc'.ws = 0, Tops(u, Cut) => Dead',
           Tops(u, {"closing"}) => Shuts(Frame(u).conn)'
    PROVE  Neat(stack'[u]) /\ Placed(u)'
<1>1. Frame(u)' = Frame(u)  BY DEF Frame
<1>2. Tops(u, Locks)' = Tops(u, Locks) /\ Tops(u, Holds)' = Tops(u, Holds)
      /\ Tops(u, {"connecting"})' = Tops(u, {"connecting"}) /\ Tops(u, Cut)' = Tops(u, Cut)
      /\ Tops(u, {"closing"})' = Tops(u, {"closing"})
  BY <1>1 DEF Tops, Locks, Holds, Cut
<1>3. Neat(stack[u]) /\ Placed(u)  BY DEF ConnInv
<1> QED  BY <1>1, <1>2, <1>3 DEF Placed

LEMMA TopIs == ASSUME NEW t, NEW l, Wakes(t, l) \/ Runs(t, l), NEW places, l \in places PROVE Tops(t, places)
BY Nonempty DEF Tops

\* The holder of the lock leaves it.
LEMMA LeaveLock ==
    ASSUME ConnInv, NEW t \in Tasks, Tops(t, Holds), connectLock' = Tail(connectLock)
    PROVE  /\ connectLock' \in Seq(Tasks)
           /\ \A u \in Tasks : u # t => ~Tops(u, Holds) /\ (Waiting(u) => Waiting(u)')
<1>1. connectLock \in Seq(Tasks) /\ Leads(t)  BY DEF ConnInv, Placed
<1>2. connectLock # <<>> /\ connectLock[1] = t /\ connectLock' \in Seq(Tasks)  BY <1>1 DEF Leads
<1>3. ASSUME NEW u \in Tasks, u # t PROVE ~Tops(u, Holds) /\ (Waiting(u) => Waiting(u)')
  <2>1. ~Tops(u, Holds)  BY <1>1, <1>3 DEF ConnInv, Placed, Leads
  <2>2. ASSUME NEW i \in DOMAIN connectLock, connectLock[i] = u PROVE Waiting(u)'
    <3>1. i \in 1..Len(connectLock) /\ i # 1 /\ Len(connectLock) \in Nat  BY <1>1, <1>2, <1>3, <2>2
    <3>2. i - 1 \in DOMAIN Tail(connectLock) /\ Tail(connectLock)[i - 1] = connectLock[i]
      BY <1>1, <1>2, <3>1
    <3> QED  BY <2>2, <3>2 DEF Waiting
  <2> QED  BY <2>1, <2>2 DEF Waiting
<1> QED  BY <1>2, <1>3

\* The websocket and the connections are what they were.
LEMMA LocksKeep ==
    ASSUME ConnInv, NEW t \in Tasks, Restacks(t), svc'.ws = svc.ws, conn' = conn, connectLock' \in Seq(Tasks),
           \A u \in Tasks : u # t => /\ Tops(u, Locks) /\ Waiting(u) => Waiting(u)'
                                     /\ Tops(u, Holds) => Leads(u)',
           Placed(t)'
    PROVE  ConnInv'
<1>1. CurrentInv'  BY DEF ConnInv, CurrentInv
<1>2. ASSUME NEW u \in Tasks PROVE Neat(stack'[u]) /\ Placed(u)'
  <2>1. CASE u = t  BY <2>1 DEF Restacks
  <2>2. CASE u # t
    <3>1. Placed(u) /\ stack'[u] = stack[u] /\ Frame(u)' = Frame(u)  BY <2>2 DEF ConnInv, Restacks, Frame
    <3>2. Tops(u, {"connecting"}) => svc'.ws = 0  BY <3>1 DEF Placed
    <3>3. Tops(u, Cut) => Dead'  BY <3>1 DEF Placed, Dead
    <3>4. Tops(u, {"closing"}) => Shuts(Frame(u).conn)'  BY <3>1 DEF Placed, Shuts
    <3> QED  BY <2>2, <3>1, <3>2, <3>3, <3>4, OtherKept
  <2> QED  BY <2>1, <2>2
<1> QED  BY <1>1, <1>2 DEF ConnInv

LEMMA ConnectConn == ASSUME Inv, ConnInv, NEW t \in Tasks, Connect(t) PROVE ConnInv'
<1> DEFINE f == At(IF connectLock = <<>> THEN "connect_locked" ELSE "connect_lock")
<1>1. Runs(t, "connect") /\ Goto(t, f) /\ connectLock' = Append(connectLock, t) /\ svc' = svc /\ conn' = conn
  BY DEF Connect, outsideVars, wireVars
<1>2. f.at = IF connectLock = <<>> THEN "connect_locked" ELSE "connect_lock"  BY AtIs
<1> HIDE DEF f
<1>3. "connect" \notin Closing  BY DEF Closing
<1>4. Restacks(t) /\ stack'[t] # <<>> /\ Frame(t)' = f  BY <1>1, <1>3, RestackGoto
<1>5. connectLock \in Seq(Tasks) /\ connectLock' \in Seq(Tasks)  BY <1>1 DEF ConnInv
<1>6. \A i \in DOMAIN connectLock : i \in DOMAIN connectLock' /\ connectLock'[i] = connectLock[i]
  BY <1>1, <1>5
<1>7. Waiting(t)'
  <2>1. Len(connectLock) + 1 \in DOMAIN connectLock' /\ connectLock'[Len(connectLock) + 1] = t  BY <1>1, <1>5
  <2> QED  BY <2>1 DEF Waiting
<1>8. connectLock # <<>> => connectLock' # <<>> /\ Head(connectLock') = Head(connectLock)
  BY <1>1, <1>5
<1>9. connectLock = <<>> => Leads(t)'  BY <1>1, <1>5 DEF Leads
<1>10. ASSUME NEW u \in Tasks, u # t
       PROVE  (Tops(u, Locks) /\ Waiting(u) => Waiting(u)') /\ (Tops(u, Holds) => Leads(u)')
  <2>1. Waiting(u) => Waiting(u)'  BY <1>6 DEF Waiting
  <2>2. Tops(u, Holds) => Leads(u)'  BY <1>8 DEF ConnInv, Placed, Leads
  <2> QED  BY <2>1, <2>2
<1>11. Placed(t)'
  BY <1>2, <1>4, <1>7, <1>9 DEF Placed, Tops, Locks, Holds, Cut
<1> QED  BY <1>1, <1>4, <1>5, <1>10, <1>11, LocksKeep

LEMMA ConnectGrantedConn == ASSUME Inv, ConnInv, NEW t \in Tasks, ConnectGranted(t) PROVE ConnInv'
<1> DEFINE f == At("connect_locked")
<1>1. /\ Wakes(t, "connect_lock") /\ Head(connectLock) = t /\ Goto(t, f)
      /\ connectLock' = connectLock /\ svc' = svc /\ conn' = conn
  BY DEF ConnectGranted, serviceVars, syncVars, lockVars, outsideVars, wireVars
<1>2. f.at = "connect_locked"  BY AtIs
<1> HIDE DEF f
<1>3. "connect_lock" \notin Closing /\ "connect_lock" \in Locks  BY DEF Closing, Locks
<1>4. Restacks(t) /\ stack'[t] # <<>> /\ Frame(t)' = f  BY <1>1, <1>3, RestackGoto
<1>5. Waiting(t)  BY <1>1, <1>3, TopIs DEF ConnInv, Placed
<1>6. Waiting(t)' /\ Leads(t)'
  <2>1. connectLock # <<>>
    <3>1. DOMAIN <<>> = {}  OBVIOUS
    <3> QED  BY <1>5, <3>1 DEF Waiting
  <2> QED  BY <1>1, <1>5, <2>1 DEF Waiting, Leads
<1>7. Placed(t)'  BY <1>2, <1>4, <1>6 DEF Placed, Tops, Locks, Holds, Cut
<1>8. SameWire  BY <1>1 DEF SameWire
<1>9. \A u \in Tasks : Neat(stack'[u]) /\ Placed(u)'  BY <1>4, <1>7, <1>8, OthersPlaced DEF Restacks
<1>10. connectLock' \in Seq(Tasks) /\ CurrentInv'  BY <1>1 DEF ConnInv, CurrentInv
<1> QED  BY <1>9, <1>10 DEF ConnInv

\* The lock is left, and the coroutine with it.
LEMMA LeavesConn ==
    ASSUME Inv, ConnInv, NEW t \in Tasks, Tops(t, Holds), connectLock' = Tail(connectLock),
           svc' = svc, conn' = conn, Turns(t)
    PROVE  ConnInv'
<1>1. connectLock' \in Seq(Tasks) /\ \A u \in Tasks : u # t => ~Tops(u, Holds) /\ (Waiting(u) => Waiting(u)')
  BY LeaveLock
<1>2. Placed(t)' /\ Restacks(t)  BY TurnsPlaced DEF Turns
<1> QED  BY <1>1, <1>2, LocksKeep

LEMMA ConnectLockedConn == ASSUME Inv, ConnInv, NEW t \in Tasks, ConnectLocked(t) PROVE ConnInv'
<1>1. Runs(t, "connect_locked") /\ conn' = conn  BY DEF ConnectLocked, outsideVars, wireVars
<1>2. "connect_locked" \notin Closing /\ "connect_locked" \in Holds /\ Holds \subseteq Locks
  BY DEF Closing, Holds, Locks
<1>3. Tops(t, Holds) /\ Tops(t, Locks)  BY <1>1, <1>2, TopIs
<1>4. CASE Return(t) /\ connectLock' = Tail(connectLock) /\ svc' = svc
  <2>1. Turns(t)  BY <1>1, <1>2, <1>4, TurnReturn
  <2> QED  BY <1>1, <1>3, <1>4, <2>1, LeavesConn
<1>5. CASE /\ svc.ws = 0 /\ Goto(t, At("connecting")) /\ svc' = [svc EXCEPT !.closed = FALSE]
           /\ connectLock' = connectLock
  <2> DEFINE f == At("connecting")
  <2>1. f.at = "connecting" /\ Goto(t, f)  BY <1>5, AtIs
  <2> HIDE DEF f
  <2>2. Restacks(t) /\ stack'[t] # <<>> /\ Frame(t)' = f  BY <1>1, <1>2, <2>1, RestackGoto
  <2>3. svc'.ws = svc.ws  BY <1>5, WsSame
  <2>4. SameWire  BY <1>1, <1>5, <2>3 DEF SameWire
  <2>5. Waiting(t)' /\ Leads(t)'  BY <1>3, <1>5 DEF ConnInv, Placed, Waiting, Leads
  <2>6. Placed(t)'  BY <1>5, <2>1, <2>2, <2>3, <2>5 DEF Placed, Tops, Locks, Holds, Cut
  <2>7. \A u \in Tasks : Neat(stack'[u]) /\ Placed(u)'  BY <2>2, <2>4, <2>6, OthersPlaced DEF Restacks
  <2>8. connectLock' \in Seq(Tasks) /\ CurrentInv'  BY <1>1, <1>5, <2>3 DEF ConnInv, CurrentInv
  <2> QED  BY <2>7, <2>8 DEF ConnInv
<1> QED  BY <1>4, <1>5 DEF ConnectLocked

LEMMA ConnectFailsConn == ASSUME Inv, ConnInv, NEW t \in Tasks, ConnectFails(t) PROVE ConnInv'
<1>1. /\ Wakes(t, "connecting") /\ Raise(t, "error") /\ connectLock' = Tail(connectLock)
      /\ svc' = svc /\ conn' = conn
  BY DEF ConnectFails, outsideVars, wireVars
<1>2. Tops(t, Holds)  BY <1>1, TopIs DEF Holds
<1>3. Turns(t)  BY <1>1, TurnRaise
<1> QED  BY <1>1, <1>2, <1>3, LeavesConn

\* Past a close there is no connection: forgetting the websocket changes nothing.
LEMMA ForgetsConn ==
    ASSUME Inv, ConnInv, NEW t \in Tasks, Tops(t, Cut), running \in {t, NoTask}, Turns(t), svc'.ws = 0,
           conn' = conn, connectLock' = connectLock
    PROVE  ConnInv'
<1>1. Dead /\ CurrentInv  BY DEF ConnInv, Placed
<1>2. \A w \in Conns : conn[w] # "open"  BY <1>1 DEF Dead, CurrentInv, Conns
<1>3. CurrentInv'  BY <1>2 DEF CurrentInv
<1>4. \A c : Shuts(c) => Shuts(c)'
  <2> TAKE c
  <2>1. ASSUME c \in Conns, conn[c] = "closed", svc.ws = c PROVE FALSE
    <3>1. c # 0  BY <2>1 DEF Conns
    <3> QED  BY <1>1, <2>1, <3>1 DEF Dead
  <2> QED  BY <2>1 DEF Shuts
<1>5. ASSUME NEW u \in Tasks PROVE Neat(stack'[u]) /\ Placed(u)'
  <2>1. CASE u = t  BY <2>1, TurnsPlaced
  <2>2. CASE u # t
    <3>1. Placed(u) /\ stack'[u] = stack[u] /\ Frame(u)' = Frame(u)
      BY <2>2 DEF ConnInv, Turns, Restacks, Frame
    <3>2. (Waiting(u) => Waiting(u)') /\ (Leads(u) => Leads(u)')  BY DEF Waiting, Leads
    <3>3. Tops(u, {"closing"}) => Shuts(Frame(u).conn)'
      <4>1. Tops(u, {"closing"}) => Shuts(Frame(u).conn)  BY <3>1 DEF Placed
      <4> DEFINE c == Frame(u).conn
      <4>2. c' = c  BY <3>1
      <4>3. Shuts(c) => Shuts(c)'  BY <1>4, <4>2 DEF Shuts
      <4> QED  BY <4>1, <4>3
    <3>4. Tops(u, Holds) => Leads(u)'  BY <3>1, <3>2 DEF Placed
    <3>5. Dead'  BY DEF Dead
    <3> QED  BY <3>1, <3>2, <3>3, <3>4, <3>5, OtherKept
  <2> QED  BY <2>1, <2>2
<1> QED  BY <1>3, <1>5 DEF ConnInv

LEMMA DisconnectedConn == ASSUME Inv, ConnInv, NEW t \in Tasks, Disconnected(t) PROVE ConnInv'
<1>1. /\ Runs(t, "disconnected") /\ Return(t) /\ svc' = [svc EXCEPT !.ws = 0, !.active = FALSE]
      /\ conn' = conn /\ connectLock' = connectLock
  BY DEF Disconnected, lockVars, outsideVars, wireVars
<1>2. svc'.ws = 0  BY <1>1 DEF Inv, Slots, TypeInv, Service
<1>3. "disconnected" \notin Closing /\ "disconnected" \in Cut  BY DEF Closing, Cut
<1>4. Turns(t)  BY <1>1, <1>3, TurnReturn
<1>5. Tops(t, Cut) /\ running \in {t, NoTask}  BY <1>1, <1>3, TopIs, Nonempty
<1> QED  BY <1>1, <1>2, <1>4, <1>5, ForgetsConn

LEMMA ReconnectClosedConn == ASSUME Inv, ConnInv, NEW t \in Tasks, ReconnectClosed(t) PROVE ConnInv'
<1> DEFINE c == At("connect")
           s == At("start")
           w == <<c>> \o (IF Frame(t).begin THEN <<s>> ELSE <<>>)
<1>1. /\ Runs(t, "reconnect_closed") /\ Becomes(t, w \o Callers(t))
      /\ svc' = [svc EXCEPT !.ws = 0, !.active = FALSE] /\ conn' = conn /\ connectLock' = connectLock
  BY DEF ReconnectClosed, syncVars, lockVars, outsideVars, wireVars
<1>2. svc'.ws = 0  BY <1>1 DEF Inv, Slots, TypeInv, Service
<1>3. "reconnect_closed" \notin Closing /\ "reconnect_closed" \in Cut  BY DEF Closing, Cut
<1>4. c.at \notin Kept /\ s.at \notin Kept
  <2>1. c.at = "connect" /\ s.at = "start"  BY AtIs
  <2> QED  BY <2>1 DEF Kept, Lone, Locks, Holds, Cut
<1> HIDE DEF c, s
<1>5. w = <<c>> \/ w = <<c, s>>
  <2>1. c \in {c, s} /\ s \in {c, s}  OBVIOUS
  <2>2. <<c>> \o <<s>> = <<c, s>>  BY <2>1, PairIs
  <2>3. <<c>> \o <<>> = <<c>>
    <3>1. <<c>> \in Seq({c})  OBVIOUS
    <3> QED  BY <3>1, ConcatEmptySeq
  <2> QED  BY <2>2, <2>3
<1>6. <<c>> \in Seq({c}) /\ Neat(<<c>>) /\ <<c>> # <<>> /\ Head(<<c>>) = c  BY OneFrame
<1>7. <<c, s>> \in Seq({c, s}) /\ Neat(<<c, s>>) /\ <<c, s>> # <<>> /\ Head(<<c, s>>) = c
  <2>1. s.at \notin Lone /\ s.at \notin Cut  BY <1>4 DEF Kept
  <2> QED  BY <2>1, NeatPair
<1> HIDE DEF w
<1>8. Turns(t)
  <2>1. CASE w = <<c>>
    <3>1. w \in Seq({c}) /\ Neat(w) /\ w # <<>> /\ Head(w) = c  BY <1>6, <2>1
    <3> QED  BY <1>1, <1>3, <1>4, <3>1, TurnPush
  <2>2. CASE w = <<c, s>>
    <3>1. w \in Seq({c, s}) /\ Neat(w) /\ w # <<>> /\ Head(w) = c  BY <1>7, <2>2
    <3> QED  BY <1>1, <1>3, <1>4, <3>1, TurnPush
  <2> QED  BY <1>5, <2>1, <2>2
<1>9. Tops(t, Cut) /\ running \in {t, NoTask}  BY <1>1, <1>3, TopIs, Nonempty
<1> QED  BY <1>1, <1>2, <1>8, <1>9, ForgetsConn

\* A connection is closed, or gone: the websocket is the same.
LEMMA ShutsConn ==
    ASSUME Inv, ConnInv, NEW t \in Tasks, Restacks(t), svc'.ws = svc.ws, connectLock' = connectLock, NEW c \in Conns,
           NEW x \in {"closed", "gone"}, conn' = [conn EXCEPT ![c] = x], x = "closed" => svc.ws = c,
           x = "closed" => conn[c] # "gone", svc.ws \in {0, c} \/ conn[c] = "gone", Placed(t)'
    PROVE  ConnInv'
<1>0. conn \in [Conns -> {"none", "open", "broken", "closed", "gone"}]  BY DEF Inv, Slots, TypeInv
<1>1. conn'[c] = x /\ \A v \in Conns : v # c => conn'[v] = conn[v]  BY <1>0
<1>2. CurrentInv /\ CurrentInv'  BY <1>1 DEF ConnInv, CurrentInv
<1>3. Dead => Dead'  BY <1>1, <1>2 DEF Dead, CurrentInv
<1>4. \A d : Shuts(d) => Shuts(d)'
  <2> TAKE d
  <2>1. CASE d # c  BY <1>1, <2>1 DEF Shuts
  <2>2. CASE d = c  BY <1>1, <2>2 DEF Shuts
  <2> QED  BY <2>1, <2>2
<1>5. ASSUME NEW u \in Tasks PROVE Neat(stack'[u]) /\ Placed(u)'
  <2>1. CASE u = t  BY <2>1 DEF Restacks
  <2>2. CASE u # t
    <3>1. Placed(u) /\ stack'[u] = stack[u] /\ Frame(u)' = Frame(u)  BY <2>2 DEF ConnInv, Restacks, Frame
    <3>2. (Waiting(u) => Waiting(u)') /\ (Leads(u) => Leads(u)')  BY DEF Waiting, Leads
    <3>3. Tops(u, {"closing"}) => Shuts(Frame(u).conn)'
      <4>1. Tops(u, {"closing"}) => Shuts(Frame(u).conn)  BY <3>1 DEF Placed
      <4> DEFINE d == Frame(u).conn
      <4>2. d' = d  BY <3>1
      <4>3. Shuts(d) => Shuts(d)'  BY <1>4, <4>2 DEF Shuts
      <4> QED  BY <4>1, <4>3
    <3>4. (Tops(u, Holds) => Leads(u)') /\ (Tops(u, {"connecting"}) => svc'.ws = 0) /\ (Tops(u, Cut) => Dead')
      BY <1>3, <3>1, <3>2 DEF Placed
    <3> QED  BY <3>1, <3>2, <3>3, <3>4, OtherKept
  <2> QED  BY <2>1, <2>2
<1> QED  BY <1>2, <1>5 DEF ConnInv

LEMMA CloseSocketConn == ASSUME Inv, ConnInv, NEW t \in Tasks, CloseSocket(t) PROVE ConnInv'
<1>0. /\ svc \in Service /\ conn \in [Conns -> {"none", "open", "broken", "closed", "gone"}]
      /\ svc.ws \in {0} \cup Conns
  BY DEF Inv, Slots, TypeInv, ConnInv, CurrentInv
<1>1. /\ Runs(t, "close_tasks") /\ svc'.ws = svc.ws /\ connectLock' = connectLock
      /\ "close_tasks" \in Closing
  BY <1>0 DEF CloseSocket, syncVars, lockVars, Service, Closing
<1>2. CASE svc.ws = 0 /\ Return(t) /\ conn' = conn
  <2>1. /\ Restacks(t)
        /\ stack'[t] # <<>> => Frame(t)'.at \notin Lone /\ (Frame(t)'.at \in Cut => "close_tasks" \in Closing)
    BY <1>1, <1>2, RestackReturn
  <2>2. Dead'  BY <1>1, <1>2 DEF Dead
  <2>3. Placed(t)'  BY <2>1, <2>2 DEF Placed, Tops, Lone, Locks, Holds
  <2>4. SameWire  BY <1>1, <1>2 DEF SameWire
  <2>5. \A u \in Tasks : Neat(stack'[u]) /\ Placed(u)'  BY <2>1, <2>3, <2>4, OthersPlaced DEF Restacks
  <2>6. connectLock' \in Seq(Tasks) /\ CurrentInv'  BY <1>1, <1>2 DEF ConnInv, CurrentInv
  <2> QED  BY <2>5, <2>6 DEF ConnInv
<1>3. CASE /\ svc.ws # 0 /\ conn' = [conn EXCEPT ![svc.ws] = IF @ = "gone" THEN @ ELSE "closed"]
           /\ Goto(t, [at |-> "closing", conn |-> svc.ws, forGood |-> Frame(t).forGood])
  <2> DEFINE f == [at |-> "closing", conn |-> svc.ws, forGood |-> Frame(t).forGood]
             x == IF conn[svc.ws] = "gone" THEN "gone" ELSE "closed"
  <2>1. f.at = "closing" /\ f.conn = svc.ws /\ Goto(t, f)  BY <1>3
  <2>2. /\ x \in {"closed", "gone"} /\ conn' = [conn EXCEPT ![svc.ws] = x]
        /\ x = "closed" => conn[svc.ws] # "gone"
    BY <1>0, <1>3
  <2> HIDE DEF f, x
  <2>3. f.at \in Closing /\ svc.ws \in Conns  BY <1>0, <1>3, <2>1 DEF Closing
  <2>4. Restacks(t) /\ stack'[t] # <<>> /\ Frame(t)' = f  BY <1>1, <2>1, <2>3, RestackGoto
  <2>5. conn'[svc.ws] = x  BY <1>0, <2>2, <2>3
  <2>7. Shuts(Frame(t).conn)'
    <3>1. conn'[svc.ws] \in {"closed", "gone"} /\ svc'.ws = svc.ws  BY <1>1, <2>2, <2>5
    <3>2. Frame(t)'.conn = svc.ws  BY <2>1, <2>4
    <3> QED  BY <2>3, <3>1, <3>2 DEF Shuts
  <2>8. Placed(t)'  BY <2>1, <2>4, <2>7 DEF Placed, Tops, Locks, Holds, Cut
  <2>9. svc.ws \in {0, svc.ws} \/ conn[svc.ws] = "gone"  OBVIOUS
  <2> QED  BY <1>1, <2>2, <2>3, <2>4, <2>8, <2>9, ShutsConn
<1> QED  BY <1>2, <1>3 DEF CloseSocket, wireVars

LEMMA ClosedConn == ASSUME Inv, ConnInv, NEW t \in Tasks, Closed(t) PROVE ConnInv'
<1> DEFINE c == Frame(t).conn
<1>0. svc \in Service  BY DEF Inv, Slots, TypeInv
<1>1. /\ Wakes(t, "closing") /\ Return(t) /\ conn' = [conn EXCEPT ![c] = "gone"]
      /\ connectLock' = connectLock /\ svc'.ws = svc.ws
  BY <1>0 DEF Closed, syncVars, lockVars, Service
<1>2. Shuts(c)
  <2>1. Tops(t, {"closing"})  BY <1>1, TopIs
  <2> QED  BY <2>1 DEF ConnInv, Placed
<1> HIDE DEF c
<1>3. c \in Conns /\ svc.ws \in {0, c}  BY <1>2 DEF Shuts
<1>4. /\ Restacks(t)
      /\ stack'[t] # <<>> => Frame(t)'.at \notin Lone /\ (Frame(t)'.at \in Cut => "closing" \in Closing)
  BY <1>1, RestackReturn
<1>5. Dead'
  <2>1. conn'[c] = "gone"  BY <1>1, <1>3 DEF Inv, Slots, TypeInv
  <2> QED  BY <1>1, <1>3, <2>1 DEF Dead
<1>6. Placed(t)'  BY <1>4, <1>5 DEF Placed, Tops, Lone, Locks, Holds
<1> DEFINE x == "gone"
<1>7. x \in {"closed", "gone"} /\ x # "closed" /\ conn' = [conn EXCEPT ![c] = x]  BY <1>1
<1> HIDE DEF x
<1> QED  BY <1>1, <1>3, <1>4, <1>6, <1>7, ShutsConn

\* Leaving a lock moves those behind up and nobody else.
LEMMA WithoutIs ==
    ASSUME NEW T, NEW lock \in Seq(T), NEW t
    PROVE  /\ Without(lock, t) \in Seq(T)
           /\ \A i \in DOMAIN lock : lock[i] # t =>
                \E j \in DOMAIN Without(lock, t) : Without(lock, t)[j] = lock[i]
           /\ lock # <<>> /\ Head(lock) # t =>
                Without(lock, t) # <<>> /\ Head(Without(lock, t)) = Head(lock)
<1>0. Len(lock) \in Nat /\ DOMAIN lock = 1..Len(lock)  OBVIOUS
<1> DEFINE I == {i \in 1..Len(lock) : lock[i] = t}
<1>1. CASE I = {}
  <2>1. Without(lock, t) = lock  BY <1>1 DEF Without, RemoveFirst
  <2> QED  BY <2>1
<1>2. CASE I # {}
  <2> DEFINE k == SelectInSeq(lock, LAMBDA v : v = t)
             w == SubSeq(lock, 1, k - 1)
             r == Above(w, lock, k)
  <2>1. k \in 1..Len(lock) /\ lock[k] = t
    <3>1. PICK m \in I : \A i \in I : m =< i
      <4>1. I \subseteq Nat  BY <1>0
      <4> HIDE DEF I
      <4> QED  BY <1>2, <4>1, LeastNat
    <3>2. k = Min(I)  BY <1>2 DEF SelectInSeq
    <3>3. Min(I) \in I  BY <3>1 DEF Min
    <3> QED  BY <3>2, <3>3
  <2>2. Without(lock, t) = w \o SubSeq(lock, k + 1, Len(lock))
    BY <1>2 DEF Without, RemoveFirst, RemoveAt
  <2> HIDE DEF k
  <2>3. Without(lock, t) = r  BY <2>2 DEF Above
  <2>4. /\ w \in Seq(T) /\ Len(w) = k - 1 /\ k - 1 \in Nat /\ k \in 0..Len(lock)
        /\ \A i \in 1..(k - 1) : w[i] = lock[i]
    BY <1>0, <2>1
  <2> HIDE DEF w
  <2>5. /\ r \in Seq(T) /\ Len(r) = (k - 1) + (Len(lock) - k)
        /\ \A i \in 1..(k - 1) : r[i] = lock[i]
        /\ \A i \in 1..(Len(lock) - k) : r[(k - 1) + i] = lock[k + i]
    <3>0. w \in Seq(T) /\ lock \in Seq(T) /\ k \in 0..Len(lock)  BY <2>4
    <3>1. Above(w, lock, k) \in Seq(T) /\ Len(Above(w, lock, k)) = Len(w) + (Len(lock) - k)  BY <3>0, AboveIs
    <3>2. \A i \in 1..Len(w) : Above(w, lock, k)[i] = w[i]  BY <3>0, AboveIs
    <3>3. \A i \in 1..(Len(lock) - k) : Above(w, lock, k)[Len(w) + i] = lock[k + i]  BY <3>0, AboveIs
    <3> QED  BY <2>4, <3>1, <3>2, <3>3
  <2> HIDE DEF r
  <2>6. DOMAIN r = 1..(Len(lock) - 1)  BY <1>0, <2>1, <2>5
  <2>7. ASSUME NEW i \in DOMAIN lock, lock[i] # t PROVE \E j \in DOMAIN r : r[j] = lock[i]
    <3>1. CASE i < k
      <4>1. i \in 1..(k - 1) /\ i \in DOMAIN r  BY <1>0, <2>1, <2>6, <3>1
      <4> QED  BY <4>1, <2>5
    <3>2. CASE i > k
      <4>1. i - k \in 1..(Len(lock) - k) /\ (k - 1) + (i - k) \in DOMAIN r /\ k + (i - k) = i
        BY <1>0, <2>1, <2>6, <3>2
      <4>2. r[(k - 1) + (i - k)] = lock[k + (i - k)]  BY <4>1, <2>5
      <4> QED  BY <4>1, <4>2
    <3> QED  BY <1>0, <2>1, <2>7, <3>1, <3>2
  <2>8. ASSUME lock # <<>>, Head(lock) # t PROVE r # <<>> /\ Head(r) = Head(lock)
    <3>1. k # 1 /\ 1 \in 1..(k - 1) /\ Len(lock) > 1  BY <1>0, <2>1, <2>8
    <3>2. r[1] = lock[1] /\ Len(r) > 0  BY <1>0, <2>1, <2>5, <3>1
    <3> QED  BY <2>5, <2>8, <3>2
  <2> QED  BY <2>3, <2>5, <2>7, <2>8
<1> QED  BY <1>1, <1>2

\* A cancellation takes its task out of the lock, where only its await was in it.
LEMMA CancelDeliveredConn == ASSUME Inv, ConnInv, NEW t \in Tasks, CancelDelivered(t) PROVE ConnInv'
<1> DEFINE f == [at |-> "raise", exc |-> "cancelled"]
           v == <<f>>
<1>1. /\ stack[t] # <<>> /\ svc' = svc /\ conn' = conn /\ Becomes(t, v \o Callers(t))
      /\ connectLock' = Without(connectLock, t) \/ connectLock' = connectLock
  BY DEF CancelDelivered, Alive, Raise, Goto
<1>2. f.at = "raise"  OBVIOUS
<1> HIDE DEF f
<1>3. v \in Seq({f}) /\ Neat(v) /\ Len(v) = 1 /\ v[1] = f /\ v # <<>> /\ Head(v) = f  BY OneFrame
<1> HIDE DEF v
<1>4. "raise" \in Closing /\ "raise" \notin Kept  BY DEF Closing, Kept, Lone, Locks, Holds, Cut
<1>5. Neat(v \o Callers(t))  BY <1>1, <1>2, <1>3, <1>4, NeatPush
<1>6. Callers(t) \in Seq(Frames)  BY <1>1, StackTyped DEF Inv
<1>7. Head(v \o Callers(t)) = f  BY <1>3, <1>6, HeadOver
<1>8. stack'[t] = v \o Callers(t) /\ \A u \in Tasks : u # t => stack'[u] = stack[u]
  <2>1. stack' = [stack EXCEPT ![t] = v \o Callers(t)]  BY <1>1 DEF Becomes
  <2> QED  BY <2>1 DEF Inv, Slots, TypeInv
<1>9. Turns(t)  BY <1>2, <1>4, <1>5, <1>7, <1>8 DEF Turns, Restacks
<1>10. connectLock \in Seq(Tasks)  BY DEF ConnInv
<1>11. /\ connectLock' \in Seq(Tasks)
       /\ \A i \in DOMAIN connectLock : connectLock[i] # t =>
            \E j \in DOMAIN connectLock' : connectLock'[j] = connectLock[i]
       /\ connectLock # <<>> /\ Head(connectLock) # t =>
            connectLock' # <<>> /\ Head(connectLock') = Head(connectLock)
  <2>1. CASE connectLock' = Without(connectLock, t)  BY <1>10, <2>1, WithoutIs
  <2>2. CASE connectLock' = connectLock  BY <1>10, <2>2
  <2> QED  BY <1>1, <2>1, <2>2
<1>12. ASSUME NEW u \in Tasks, u # t
       PROVE  (Tops(u, Locks) /\ Waiting(u) => Waiting(u)') /\ (Tops(u, Holds) => Leads(u)')
  <2>1. Waiting(u) => Waiting(u)'  BY <1>11, <1>12 DEF Waiting
  <2>2. Tops(u, Holds) => Leads(u)'  BY <1>11, <1>12 DEF ConnInv, Placed, Leads
  <2> QED  BY <2>1, <2>2
<1>13. Placed(t)' /\ Restacks(t)  BY <1>9, TurnsPlaced DEF Turns
<1> QED  BY <1>1, <1>11, <1>12, <1>13, LocksKeep

\* The handshake is over while nothing else can run: there is no websocket, and
\* nobody is past a close of one or waits for one.
LEMMA ConnectedConn == ASSUME Inv, ConnInv, NEW t \in Tasks, Connected(t) PROVE ConnInv'
<1>1. PICK w \in Conns :
        /\ Wakes(t, "connecting") /\ TimePasses
        /\ conn[w] = "none" /\ conn' = [conn EXCEPT ![w] = "open"]
        /\ svc' = [svc EXCEPT !.ws = w, !.readyOf = w, !.sendTask = SendTask(w), !.recvTask = RecvTask(w)]
        /\ stack' = [stack EXCEPT ![t] = Callers(t), ![SendTask(w)] = <<At("s_new")>>,
                                  ![RecvTask(w)] = <<At("r_new")>>]
        /\ connectLock' = Tail(connectLock)
  BY DEF Connected
<1>2. /\ running = NoTask /\ stack[t] # <<>> /\ Frame(t).at = "connecting"
      /\ stack[t] \in Seq(Frames) /\ Callers(t) \in Seq(Frames)
  BY <1>1, Nonempty, StackTyped DEF Wakes, Inv
<1>3. /\ stack \in [Tasks -> Seq(Frames)] /\ svc \in Service
      /\ conn \in [Conns -> {"none", "open", "broken", "closed", "gone"}]
  BY DEF Inv, Slots, TypeInv
<1> DEFINE s == SendTask(w)
           r == RecvTask(w)
<1>4. stack[s] = <<>> /\ stack[r] = <<>>  BY <1>1 DEF Inv, Slots, TaskInv
<1>5. s \in Tasks /\ r \in Tasks /\ s # r /\ s # t /\ r # t  BY <1>2, <1>4, PlacesApart
<1> HIDE DEF s, r
<1>6. /\ stack'[t] = Callers(t) /\ stack'[s] = <<At("s_new")>> /\ stack'[r] = <<At("r_new")>>
      /\ \A u \in Tasks \ {t, s, r} : stack'[u] = stack[u]
  BY <1>1, <1>3, <1>5 DEF s, r
<1>7. Tops(t, {"connecting"}) /\ Tops(t, Holds)
  <2>1. "connecting" \in Holds  BY DEF Holds
  <2> QED  BY <1>1, <2>1, TopIs
<1>8. svc.ws = 0 /\ CurrentInv /\ connectLock \in Seq(Tasks)  BY <1>7 DEF ConnInv, Placed
<1>9. \A v \in Conns : conn[v] # "open"  BY <1>8 DEF CurrentInv, Conns
<1>10. conn'[w] = "open" /\ \A v \in Conns : v # w => conn'[v] = conn[v]  BY <1>1, <1>3
<1>11. svc'.ws = w  BY <1>1, <1>3 DEF Service
<1>12. CurrentInv'  BY <1>9, <1>10, <1>11 DEF CurrentInv
<1>13. connectLock' \in Seq(Tasks) /\ \A u \in Tasks : u # t => ~Tops(u, Holds) /\ (Waiting(u) => Waiting(u)')
  BY <1>1, <1>7, LeaveLock
<1>14. ASSUME NEW u \in {s, r} PROVE Neat(stack'[u]) /\ Placed(u)'
  <2> DEFINE f == IF u = s THEN At("s_new") ELSE At("r_new")
             v == <<f>>
  <2>1. f.at \in {"s_new", "r_new"}  BY AtIs
  <2>2. stack'[u] = v  BY <1>5, <1>6, <1>14
  <2> HIDE DEF f
  <2>3. Neat(v) /\ Head(v) = f  BY OneFrame
  <2>4. {"s_new", "r_new"} \cap Kept = {}  BY DEF Kept, Lone, Locks, Holds, Cut
  <2> HIDE DEF v
  <2>5. Frame(u)'.at \notin Kept  BY <2>1, <2>2, <2>3, <2>4 DEF Frame
  <2>6. Placed(u)'  BY <2>5 DEF Placed, Tops, Kept, Lone, Locks, Holds
  <2> QED  BY <2>2, <2>3, <2>6
<1>15. Neat(stack'[t]) /\ Placed(t)'
  <2>1. /\ Neat(Callers(t))
        /\ Callers(t) # <<>> => /\ Head(Callers(t)).at \notin Lone
                                /\ Head(Callers(t)).at \in Cut => Frame(t).at \in Closing
    BY <1>2, NeatCallers
  <2>2. "connecting" \notin Closing  BY DEF Closing
  <2>3. stack'[t] # <<>> => Frame(t)'.at \notin Kept  BY <1>2, <1>6, <2>1, <2>2 DEF Frame, Kept
  <2>4. Placed(t)'  BY <2>3 DEF Placed, Tops, Kept, Lone, Locks, Holds
  <2> QED  BY <1>6, <2>1, <2>4
<1>16. ASSUME NEW u \in Tasks \ {t, s, r} PROVE Neat(stack'[u]) /\ Placed(u)'
  <2>1. stack'[u] = stack[u]  BY <1>6
  <2>2. ~Tops(u, Cut)  BY <1>2, OnlyRunner
  <2>3. ~Tops(u, Holds) /\ (Waiting(u) => Waiting(u)')  BY <1>13
  <2>4. ~Tops(u, {"connecting"})  BY <2>3 DEF Tops, Holds
  <2>5. ASSUME Tops(u, {"closing"}) PROVE FALSE
    <3>1. Shuts(Frame(u).conn)  BY <2>5 DEF ConnInv, Placed
    <3>2. conn[Frame(u).conn] = "gone"  BY <1>8, <3>1 DEF Shuts, Conns
    <3>3. Ready(u)  BY <2>5, <3>2 DEF Ready, IsAt, Tops, Frame
    <3> QED  BY <1>1, <3>3 DEF TimePasses
  <2> QED  BY <2>1, <2>2, <2>3, <2>4, <2>5, OtherKept
<1>17. \A u \in Tasks : Neat(stack'[u]) /\ Placed(u)'  BY <1>14, <1>15, <1>16
<1> QED  BY <1>12, <1>13, <1>17 DEF ConnInv

LEMMA CoroutineConn == ASSUME Inv, ConnInv, NEW t \in Tasks, CoroutineStep(t) PROVE ConnInv'
<1>1. CASE \/ Connect(t) \/ ConnectGranted(t) \/ ConnectLocked(t) \/ Connected(t) \/ ConnectFails(t)
           \/ ReconnectClosed(t) \/ Disconnected(t) \/ CloseSocket(t) \/ Closed(t) \/ CancelDelivered(t)
  BY <1>1, ConnectConn, ConnectGrantedConn, ConnectLockedConn, ConnectedConn, ConnectFailsConn,
     ReconnectClosedConn, DisconnectedConn, CloseSocketConn, ClosedConn, CancelDeliveredConn
<1>2. CASE \/ Start(t) \/ StartGranted(t) \/ StartLocked(t) \/ StartConnected(t) \/ StartSent(t)
           \/ StartReady(t) \/ StartTimesOut(t)
           \/ Send(t) \/ Sent(t) \/ SendAgain(t)
           \/ Close(t) \/ CloseAwaits(t) \/ CloseAwaited(t) \/ Unwinds(t)
  <2>1. Free(t)  BY <1>2, StartFree, StartLockedFree, StartConnectedFree, SendFree, CloseFree, UnwindsFree
  <2> QED  BY <2>1, TurnsKeep DEF Free
<1> QED  BY <1>1, <1>2 DEF CoroutineStep

LEMMA ConnKeeps == Inv /\ ConnInv /\ [Next]_vars => ConnInv'
<1> SUFFICES ASSUME Inv, ConnInv, [Next]_vars PROVE ConnInv'  OBVIOUS
<1>0. /\ Pipeline \in Tasks /\ Controller \in Tasks
      /\ \A k \in Conns : SendTask(k) \in Tasks /\ RecvTask(k) \in Tasks
  BY PlacesApart
<1>1. ASSUME NEW t \in Tasks, TaskStep(t) PROVE ConnInv'
  <2>1. CASE CoroutineStep(t)  BY <2>1, CoroutineConn
  <2>2. CASE t = Pipeline /\ PipelineStep  BY <1>0, <2>2, PipelineFree, TurnsKeep DEF Free
  <2>3. CASE t = Controller /\ CancelSent  BY <1>0, <2>3, CancelSentFree, TurnsKeep DEF Free
  <2>4. ASSUME NEW k \in Conns, SenderStep(k) \/ ReceiverStep(k) PROVE ConnInv'
    BY <1>0, <2>4, SenderFree, ReceiverFree, TurnsKeep DEF Free
  <2> QED  BY <1>1, <2>1, <2>2, <2>3, <2>4 DEF TaskStep
<1>2. CASE Environment
  <2>1. CASE HearsAudio \/ SpeechStarts \/ SpeechEnds \/ Stops \/ CleansUp
    BY <1>0, <2>1, HearsAudioFree, SpeechFree, StopsFree, CleansUpFree, TurnsKeep DEF Free
  <2>2. CASE Cancels  BY <2>2, CancelsConn
  <2>3. ASSUME NEW w \in Conns,
               HangsUp(w) \/ Breaks(w) \/ \E type \in {"partial", "ping"} : ServerChats(w, type)
        PROVE  ConnInv'
    BY <2>3, ServersConn
  <2> QED  BY <1>2, <2>1, <2>2, <2>3 DEF Environment
<1>3. CASE UNCHANGED vars
  <2>1. stack' = stack /\ SameWire
    BY <1>3 DEF vars, SameWire, serviceVars, syncVars, lockVars, taskVars, wireVars
  <2> QED  BY <2>1, StandKeeps
<1> QED  BY <1>1, <1>2, <1>3 DEF Next

LEMMA InitConn == Init => ConnInv
<1> SUFFICES ASSUME Init PROVE ConnInv  OBVIOUS
<1>1. svc.ws = 0 /\ conn = [w \in Conns |-> "none"] /\ connectLock = <<>>  BY DEF Init
<1>2. connectLock \in Seq(Tasks) /\ CurrentInv  BY <1>1 DEF CurrentInv
<1>3. ASSUME NEW t \in Tasks PROVE Neat(stack[t]) /\ Placed(t)
  <2> DEFINE f == At("idle")
             v == <<f>>
  <2>1. stack[t] \in {<<>>, v}  BY DEF Init
  <2>2. f.at = "idle"  BY AtIs
  <2> HIDE DEF f
  <2>3. Neat(v) /\ Head(v) = f /\ Neat(<<>>)  BY OneFrame DEF Neat
  <2> HIDE DEF v
  <2>4. "idle" \notin Kept  BY DEF Kept, Lone, Locks, Holds, Cut
  <2>5. stack[t] # <<>> => Frame(t).at \notin Kept  BY <2>1, <2>2, <2>3, <2>4 DEF Frame
  <2>6. Placed(t)  BY <2>5 DEF Placed, Tops, Kept, Lone, Locks, Holds
  <2> QED  BY <2>1, <2>3, <2>6
<1> QED  BY <1>2, <1>3 DEF ConnInv

LEMMA ConnHolds == Spec => []ConnInv
<1>1. Init => ConnInv  BY InitConn
<1>2. Inv /\ ConnInv /\ [Next]_vars => ConnInv'  BY ConnKeeps
<1> QED  BY <1>1, <1>2, InvHolds, PTL DEF Spec

\* However connects, reconnects, disconnects, cancels and failures of the tasks
\* interleave, the service never has two connections open: one is made only by the
\* holder of the lock, and only after the last one has been closed for good
\* (_ensure_connection, _close_socket_and_tasks, _disconnect).
THEOREM OneConnectionKept == Spec => []OneConnection
<1>1. ConnInv => OneConnection
  <2> SUFFICES ASSUME ConnInv PROVE Cardinality({w \in Conns : conn[w] = "open"}) <= 1
    BY DEF OneConnection
  <2> DEFINE O == {w \in Conns : conn[w] = "open"}
  <2>1. O \subseteq {svc.ws}  BY DEF ConnInv, CurrentInv
  <2>2. IsFiniteSet({svc.ws}) /\ Cardinality({svc.ws}) = 1  BY FS_Singleton
  <2> HIDE DEF O
  <2>3. Cardinality(O) <= 1  BY <2>1, <2>2, FS_Subset
  <2> QED  BY <2>3 DEF O
<1> QED  BY <1>1, ConnHolds, PTL

=============================================================================

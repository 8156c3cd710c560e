--------------------------- MODULE DemoRelayProofs ---------------------------
(***************************************************************************)
(* What the relay of the browser demo keeps, for every size of its chunks  *)
(* and of the server's buffer.  The three invariants of DemoRelay are not  *)
(* inductive: what is lost, what is sent and what is shown depends on      *)
(* where the relay's task is.  TaskInv says what the task holds there,     *)
(* SizeInv what the relay has counted, OrderInv and AccountInv where the   *)
(* frames of the microphone are, and FinalInv what has been shown.         *)
(***************************************************************************)
EXTENDS DemoRelay, TLAPS

Places ==
    {"idle", "cutting", "connecting", "reconnecting", "sending", "finalizing", "waiting",
     "shutting", "closing"}
Kinds == {"partial", "final", "error", "closed"}

TypeInv ==
    /\ at \in Places /\ ending \in {"no", "flush", "last", "done"}
    /\ buffer \in Seq(Nat) /\ chunk \in Seq(Nat) /\ sent \in Nat /\ client \in Nat
    /\ hasClient \in BOOLEAN /\ hasSocket \in BOOLEAN
    /\ final \in {"pending", "set", "error"} /\ pump \in {"none", "running", "ended"}
    /\ link \in Link
    /\ taken \in Nat /\ heard \in Seq(Nat) /\ dropped \subseteq Nat /\ vanished \subseteq Nat
    /\ shown \in Seq(Nat \X Kinds)

\* close() has its own stages, and a chunk at hand is all that is not yet sent.
TaskInv ==
    /\ at = "idle" => ending \in {"no", "done"}
    /\ at \in {"cutting", "connecting"} => ending = "no"
    /\ at \in {"sending", "finalizing", "waiting", "reconnecting"} => ending \in {"no", "flush"}
    /\ at \in {"shutting", "closing"} => ending \in {"no", "flush", "last"}
    /\ at \in {"idle", "cutting"} => chunk = <<>>
    /\ at \in {"sending", "connecting", "reconnecting"} => chunk # <<>>
    /\ ending = "no" /\ at \notin {"idle", "cutting"} => chunk # <<>> /\ buffer = <<>>
    /\ ending = "flush" => chunk = buffer
    /\ ending \in {"last", "done"} => chunk = <<>> /\ (buffer = <<>> \/ dropped # {})
    /\ at = "finalizing" /\ chunk # <<>> => sent > 0

\* The client of the task, its websocket and the connection.
ClientInv ==
    /\ link.up => hasSocket
    /\ hasSocket => hasClient
    /\ at \in {"connecting", "reconnecting"} => ~hasClient
    /\ at \in {"cutting", "sending", "finalizing"} => hasClient
    /\ at \in {"waiting", "closing"} => hasSocket
    /\ at = "shutting" => hasSocket \/ ending = "last"
    /\ ending = "no" /\ ~hasClient => buffer = <<>>

\* The server has had no more than what is counted, and a chunk is never larger
\* than its size.
SizeInv ==
    /\ Len(chunk) <= Chunk /\ Len(buffer) <= Chunk /\ (at # "cutting" => Len(buffer) < Chunk)
    /\ hasSocket => link.audio <= sent
    /\ CapRespected

Before(S, T) == \A m \in S, n \in T : m < n

\* What the server heard comes before what is at hand and before what is buffered.
OrderInv ==
    /\ Increasing(heard) /\ Increasing(chunk) /\ Increasing(buffer)
    /\ Before(InSeq(heard), InSeq(chunk)) /\ Before(InSeq(heard), InSeq(buffer))

Lost == dropped \cup vanished

\* Every frame is somewhere, and what is lost was not heard.
AccountInv ==
    /\ 1..taken = InSeq(heard) \cup InSeq(chunk) \cup InSeq(buffer) \cup Lost
    /\ InSeq(heard) \cap Lost = {} /\ InSeq(chunk) \cap Lost = {}
    /\ ending = "no" => InSeq(buffer) \cap Lost = {}
    /\ Before(InSeq(heard), vanished)

\* Once frames have vanished the connection is not made again.
VanishedInv ==
    vanished # {} =>
      /\ ~link.up /\ at \notin {"connecting", "reconnecting", "closing"}
      /\ hasClient \/ ending = "done"

\* A client is only replaced after its final has been shown, and the receiver
\* reads nothing behind it.
FinalInv ==
    /\ FinalsFirst
    /\ \A i \in DOMAIN shown : shown[i][1] <= client
    /\ final = "set" => \E i \in DOMAIN shown : shown[i] = <<client, "final">>
    /\ pump = "running" => final = "pending" /\ \A i \in DOMAIN shown : shown[i] # <<client, "final">>
    /\ at \in {"shutting", "closing"} /\ ending # "last" => final = "set"
    /\ ~hasClient /\ ending # "done" /\ client > 0 => final = "set"

RelayInv == TypeInv /\ TaskInv /\ ClientInv /\ SizeInv /\ OrderInv /\ AccountInv /\ VanishedInv /\ FinalInv
-----------------------------------------------------------------------------
(***************************************************************************)
(* Sequences of frames.                                                    *)
(***************************************************************************)

\* The frames of an empty sequence, of one frame, and of two sequences joined.
LEMMA InSeqFacts ==
  /\ InSeq(<<>>) = {}
  /\ \A n \in Nat : InSeq(<<n>>) = {n}
  /\ \A s, t \in Seq(Nat) : InSeq(s \o t) = InSeq(s) \cup InSeq(t)
  /\ \A s \in Seq(Nat), n \in Nat : InSeq(Append(s, n)) = InSeq(s) \cup {n}
  /\ \A s \in Seq(Nat) : InSeq(s) \subseteq Nat /\ (s # <<>> => InSeq(s) # {})
  <1>1. InSeq(<<>>) = {} /\ \A n \in Nat : InSeq(<<n>>) = {n}
    BY DEF InSeq
  <1>2. ASSUME NEW s \in Seq(Nat), NEW t \in Seq(Nat) PROVE InSeq(s \o t) = InSeq(s) \cup InSeq(t)
    <2>1. ASSUME NEW i \in DOMAIN (s \o t) PROVE (s \o t)[i] \in InSeq(s) \cup InSeq(t)
      <3>1. CASE i <= Len(s)
        BY <3>1 DEF InSeq
      <3>2. CASE i > Len(s)
        <4>1. i - Len(s) \in DOMAIN t /\ (s \o t)[i] = t[i - Len(s)]
          BY <3>2
        <4> QED
          BY <4>1 DEF InSeq
      <3> QED
        BY <3>1, <3>2
    <2>2. ASSUME NEW i \in DOMAIN s PROVE s[i] \in InSeq(s \o t)
      <3>1. i \in DOMAIN (s \o t) /\ (s \o t)[i] = s[i]
        OBVIOUS
      <3> QED
        BY <3>1 DEF InSeq
    <2>3. ASSUME NEW i \in DOMAIN t PROVE t[i] \in InSeq(s \o t)
      <3>1. Len(s) + i \in DOMAIN (s \o t) /\ (s \o t)[Len(s) + i] = t[i]
        OBVIOUS
      <3> QED
        BY <3>1 DEF InSeq
    <2> QED
      BY <2>1, <2>2, <2>3 DEF InSeq
  <1>3. ASSUME NEW s \in Seq(Nat), NEW n \in Nat PROVE InSeq(Append(s, n)) = InSeq(s) \cup {n}
    <2>1. Append(s, n) = s \o <<n>> /\ <<n>> \in Seq(Nat)
      OBVIOUS
    <2> QED
      BY <1>1, <1>2, <2>1
  <1>4. ASSUME NEW s \in Seq(Nat) PROVE InSeq(s) \subseteq Nat /\ (s # <<>> => InSeq(s) # {})
    <2>1. s # <<>> => 1 \in DOMAIN s
      OBVIOUS
    <2> QED
      BY <2>1 DEF InSeq
  <1> QED
    BY <1>1, <1>2, <1>3, <1>4

\* Two sequences joined are increasing when each is and one comes before the other.
LEMMA IncreasingJoined ==
  ASSUME NEW s \in Seq(Nat), NEW t \in Seq(Nat), Increasing(s), Increasing(t),
         Before(InSeq(s), InSeq(t))
  PROVE  Increasing(s \o t)
  <1> SUFFICES ASSUME NEW i \in DOMAIN (s \o t), NEW j \in DOMAIN (s \o t), i < j
               PROVE  (s \o t)[i] < (s \o t)[j]
    BY DEF Increasing
  <1>1. \A k \in DOMAIN (s \o t) :
           \/ k \in DOMAIN s /\ (s \o t)[k] = s[k] /\ k <= Len(s)
           \/ k - Len(s) \in DOMAIN t /\ (s \o t)[k] = t[k - Len(s)] /\ k > Len(s)
    OBVIOUS
  <1>2. CASE j \in DOMAIN s /\ (s \o t)[j] = s[j] /\ j <= Len(s)
    <2>1. i \in DOMAIN s /\ (s \o t)[i] = s[i]
      BY <1>1, <1>2
    <2> QED
      BY <1>2, <2>1 DEF Increasing
  <1>3. CASE j - Len(s) \in DOMAIN t /\ (s \o t)[j] = t[j - Len(s)] /\ j > Len(s)
    <2>1. CASE i \in DOMAIN s /\ (s \o t)[i] = s[i]
      BY <1>3, <2>1 DEF Before, InSeq
    <2>2. CASE i - Len(s) \in DOMAIN t /\ (s \o t)[i] = t[i - Len(s)]
      <3>1. i - Len(s) < j - Len(s)
        OBVIOUS
      <3> QED
        BY <1>3, <2>2, <3>1 DEF Increasing
    <2> QED
      BY <1>1, <2>1, <2>2
  <1> QED
    BY <1>1, <1>2, <1>3

LEMMA IncreasingEnds ==
  /\ Increasing(<<>>)
  /\ \A n \in Nat : Increasing(<<n>>)
  /\ \A s \in Seq(Nat), n \in Nat : Increasing(s) /\ Before(InSeq(s), {n}) => Increasing(Append(s, n))
  <1>1. Increasing(<<>>) /\ \A n \in Nat : Increasing(<<n>>)
    BY DEF Increasing
  <1>2. ASSUME NEW s \in Seq(Nat), NEW n \in Nat, Increasing(s), Before(InSeq(s), {n})
        PROVE  Increasing(Append(s, n))
    <2>0. Append(s, n) = s \o <<n>> /\ <<n>> \in Seq(Nat)
      OBVIOUS
    <2>1. Append(s, n) = s \o <<n>> /\ <<n>> \in Seq(Nat) /\ InSeq(<<n>>) = {n}
      BY <2>0, InSeqFacts
    <2>2. Increasing(<<n>>) /\ Before(InSeq(s), InSeq(<<n>>))
      BY <1>1, <1>2, <2>1
    <2>3. Increasing(s \o <<n>>)
      BY <1>2, <2>1, <2>2, IncreasingJoined
    <2> QED
      BY <2>1, <2>3
  <1> QED
    BY <1>1, <1>2
-----------------------------------------------------------------------------
(***************************************************************************)
(* The connection.                                                         *)
(***************************************************************************)

\* A connection with the same audio, as it was or with an end to it.
Kept(l, m) == m \in Link /\ m.up = l.up /\ m.audio = l.audio
Ended(l, m) == m \in Link /\ ~m.up /\ m.audio = l.audio

LEMMA AnswersKept ==
  ASSUME NEW l \in Link, NEW kind \in Kinds
  PROVE  Kept(l, Answers(l, kind))
  <1>1. Append(l.inbox, kind) \in Seq(Kinds)
    BY DEF Link, Kinds
  <1>2. ASSUME NEW inbox \in Seq(Kinds) PROVE Kept(l, [l EXCEPT !.inbox = inbox])
    BY DEF Kept, Link, Kinds
  <1> QED
    BY <1>1, <1>2 DEF Answers

LEMMA TakenKept ==
  ASSUME NEW l \in Link
  PROVE  /\ l.asked # <<>> => Kept(l, [l EXCEPT !.asked = Tail(@)])
         /\ l.inbox # <<>> => Kept(l, [l EXCEPT !.inbox = Tail(@)])
  <1>1. /\ l.asked # <<>> => Tail(l.asked) \in Seq({"finalize", "close"})
        /\ l.inbox # <<>> => Tail(l.inbox) \in Seq(Kinds)
    BY DEF Link, Kinds
  <1>2. ASSUME NEW asked \in Seq({"finalize", "close"}) PROVE Kept(l, [l EXCEPT !.asked = asked])
    BY DEF Kept, Link
  <1>3. ASSUME NEW inbox \in Seq(Kinds) PROVE Kept(l, [l EXCEPT !.inbox = inbox])
    BY DEF Kept, Link, Kinds
  <1> QED
    BY <1>1, <1>2, <1>3

LEMMA AskedKept ==
  ASSUME NEW l \in Link, NEW what \in {"finalize", "close"}
  PROVE  Kept(l, [l EXCEPT !.asked = Append(@, what)])
  <1>1. Append(l.asked, what) \in Seq({"finalize", "close"})
    BY DEF Link
  <1>2. ASSUME NEW asked \in Seq({"finalize", "close"}) PROVE Kept(l, [l EXCEPT !.asked = asked])
    BY DEF Kept, Link
  <1> QED
    BY <1>1, <1>2

LEMMA OverKept ==
  ASSUME NEW l \in Link
  PROVE  Kept(l, [l EXCEPT !.over = TRUE])
  BY DEF Kept, Link

LEMMA LinkEnded ==
  ASSUME NEW l \in Link
  PROVE  Ended(l, [l EXCEPT !.up = FALSE]) /\ Ended(l, [l EXCEPT !.inbox = <<>>, !.up = FALSE])
  <1>1. ASSUME NEW m \in Link PROVE Ended(m, [m EXCEPT !.up = FALSE])
    BY DEF Ended, Link
  <1>2. Kept(l, [l EXCEPT !.inbox = <<>>])
    <2>1. <<>> \in Seq(Kinds)
      OBVIOUS
    <2>2. ASSUME NEW inbox \in Seq(Kinds) PROVE Kept(l, [l EXCEPT !.inbox = inbox])
      BY DEF Kept, Link, Kinds
    <2> QED
      BY <2>1, <2>2
  <1>3. [l EXCEPT !.inbox = <<>>, !.up = FALSE] = [[l EXCEPT !.inbox = <<>>] EXCEPT !.up = FALSE]
    BY DEF Link
  <1>4. Ended(l, [[l EXCEPT !.inbox = <<>>] EXCEPT !.up = FALSE])
    BY <1>1, <1>2 DEF Kept, Ended
  <1> QED
    BY <1>1, <1>3, <1>4

LEMMA HangsUpEnds ==
  ASSUME NEW l \in Link
  PROVE  Ended(l, HangsUp(l))
  <1>1. Kept(l, Answers(l, "error"))
    BY AnswersKept DEF Kinds
  <1>2. Ended(Answers(l, "error"), [Answers(l, "error") EXCEPT !.up = FALSE])
    BY <1>1, LinkEnded DEF Kept
  <1> QED
    BY <1>1, <1>2 DEF HangsUp, Kept, Ended

LEMMA AudioAdds ==
  ASSUME NEW l \in Link, NEW n \in Nat
  PROVE  LET m == [l EXCEPT !.audio = @ + n] IN m \in Link /\ m.up = l.up /\ m.audio = l.audio + n
  <1>1. l.audio + n \in Nat
    BY DEF Link
  <1>2. ASSUME NEW k \in Nat
        PROVE  LET m == [l EXCEPT !.audio = k] IN m \in Link /\ m.up = l.up /\ m.audio = k
    BY DEF Link
  <1> QED
    BY <1>1, <1>2

\* What a step makes of the connection: only _ensure_client makes a new one, and
\* only audio that is sent adds to what the server has of an utterance.
LEMMA LinkMoves ==
  ASSUME TypeInv, Next
  PROVE  /\ link' \in Link
         /\ Connects => link'.up /\ link'.audio = 0
         /\ ~Connects => (link'.up => link.up)
         /\ Sends => link'.audio \in {link.audio, link.audio + Len(chunk)}
         /\ ~Connects /\ ~Sends => link'.audio = link.audio
  <1>0. link \in Link /\ chunk \in Seq(Nat)
    BY DEF TypeInv
  <1> DEFINE Stays == link' \in Link /\ (link'.up => link.up) /\ link'.audio = link.audio
  <1>a. Kept(link, link') \/ Ended(link, link') => Stays
    BY DEF Kept, Ended
  <1>1. ASSUME Connects PROVE link' \in Link /\ link'.up /\ link'.audio = 0
    <2>1. link' = FreshLink
      BY <1>1 DEF Connects
    <2> QED
      BY <2>1 DEF FreshLink, Link
  <1>2. ASSUME Sends
        PROVE  /\ link' \in Link /\ (link'.up => link.up)
               /\ link'.audio \in {link.audio, link.audio + Len(chunk)}
    <2>1. CASE link.up
      <3>0. Len(chunk) \in Nat
        BY <1>0
      <3> DEFINE heardIt == [link EXCEPT !.audio = @ + Len(chunk)]
      <3>1. heardIt \in Link /\ heardIt.up = link.up /\ heardIt.audio = link.audio + Len(chunk)
        BY <1>0, <3>0, AudioAdds
      <3>2. link' = heardIt \/ link' = HangsUp(heardIt)
        BY <1>2, <2>1 DEF Sends, HearsAudio
      <3> HIDE DEF heardIt
      <3>3. Ended(heardIt, HangsUp(heardIt))
        BY <3>1, HangsUpEnds
      <3> QED
        BY <2>1, <3>1, <3>2, <3>3 DEF Ended
    <2>2. CASE ~link.up
      BY <1>0, <1>2, <2>2 DEF Sends
    <2> QED
      BY <2>1, <2>2
  <1>3. ASSUME ServerHandles PROVE Stays
    <2> DEFINE rest == [link EXCEPT !.asked = Tail(@)]
    <2>1. Kept(link, rest)
      BY <1>0, <1>3, TakenKept DEF ServerHandles
    <2>2. \/ link' = [Answers(rest, "closed") EXCEPT !.up = FALSE]
          \/ link' = HangsUp(rest)
          \/ link' = [Answers(rest, "final") EXCEPT !.over = TRUE]
      BY <1>3 DEF ServerHandles
    <2> HIDE DEF rest
    <2>3. rest \in Link
      BY <2>1 DEF Kept
    <2>4. Kept(rest, Answers(rest, "closed")) /\ Kept(rest, Answers(rest, "final"))
      BY <2>3, AnswersKept DEF Kinds
    <2>5. Answers(rest, "closed") \in Link /\ Answers(rest, "final") \in Link
      BY <2>4 DEF Kept
    <2>6. CASE link' = [Answers(rest, "closed") EXCEPT !.up = FALSE]
      <3>1. Ended(Answers(rest, "closed"), link')
        BY <2>5, <2>6, LinkEnded
      <3> QED
        BY <2>1, <2>4, <3>1 DEF Kept, Ended
    <2>7. CASE link' = HangsUp(rest)
      <3>1. Ended(rest, link')
        BY <2>3, <2>7, HangsUpEnds
      <3> QED
        BY <2>1, <3>1 DEF Kept, Ended
    <2>8. CASE link' = [Answers(rest, "final") EXCEPT !.over = TRUE]
      <3>1. Kept(Answers(rest, "final"), link')
        BY <2>5, <2>8, OverKept
      <3> QED
        BY <2>1, <2>4, <3>1 DEF Kept
    <2> QED
      BY <2>2, <2>6, <2>7, <2>8
  <1>4. ASSUME ServerChats PROVE Stays
    BY <1>0, <1>4, <1>a, AnswersKept DEF ServerChats, Kinds
  <1>5. ASSUME Breaks \/ Closed \/ CloseFails PROVE Stays
    BY <1>0, <1>5, <1>a, LinkEnded DEF Breaks, Closed, CloseFails
  <1>6. ASSUME PumpReads PROVE Stays
    BY <1>0, <1>6, <1>a, TakenKept DEF PumpReads
  <1>7. ASSUME Finalizes PROVE Stays
    <2>1. CASE link.up
      BY <1>0, <1>7, <1>a, <2>1, AskedKept DEF Finalizes
    <2>2. CASE ~link.up
      BY <1>0, <1>7, <2>2 DEF Finalizes
    <2> QED
      BY <2>1, <2>2
  <1>8. ASSUME Closes PROVE Stays
    BY <1>0, <1>8, <1>a, AskedKept DEF Closes
  <1>9. ASSUME \/ HandleAudioFrame \/ CloseRelay \/ ConnectFails \/ Cut \/ Rolls \/ SendFails
               \/ FinalizeFails \/ SkipsFinal \/ Waited \/ WaitFails \/ PumpLosesConnection
        PROVE  Stays
    BY <1>0, <1>9 DEF HandleAudioFrame, CloseRelay, ConnectFails, Cut, Rolls, SendFails,
       FinalizeFails, SkipsFinal, Waited, WaitFails, PumpLosesConnection
  <1> HIDE DEF Stays
  <1>10. Connects \/ Sends \/ Stays
    BY <1>3, <1>4, <1>5, <1>6, <1>7, <1>8, <1>9 DEF Next, TaskStep, PumpStep
  <1>11. Connects => ~Sends
    BY DEF Connects, Sends
  <1> QED
    BY <1>1, <1>2, <1>10, <1>11 DEF Stays
-----------------------------------------------------------------------------
(***************************************************************************)
(* The invariants, one by one.                                             *)
(***************************************************************************)

\* An exception that leaves a call, and a sent chunk, keep the task's types.
LEMMA RaiseTyped ==
  ASSUME TypeInv, Raise
  PROVE  /\ at' \in Places /\ ending' \in {"no", "flush", "last", "done"}
         /\ chunk' \in Seq(Nat) /\ dropped' \subseteq Nat
  <1>1. InSeq(chunk) \subseteq Nat
    BY InSeqFacts DEF TypeInv
  <1>2. dropped' = dropped \cup InSeq(chunk) /\ chunk' = <<>>
    BY DEF Raise, InSeq
  <1>3. at' \in Places
    BY DEF Raise, Places
  <1>4. ending' \in {"no", "flush", "last", "done"}
    BY DEF Raise
  <1>5. dropped' \subseteq Nat
    BY <1>1, <1>2 DEF TypeInv
  <1> QED
    BY <1>2, <1>3, <1>4, <1>5

LEMMA TypeStep ==
  ASSUME TypeInv, Next
  PROVE  TypeInv'
  <1>0. link' \in Link
    BY LinkMoves
  <1>1. ASSUME ConnectFails \/ SendFails \/ FinalizeFails \/ WaitFails \/ CloseFails PROVE TypeInv'
    <2>1. Raise
      BY <1>1 DEF ConnectFails, SendFails, FinalizeFails, WaitFails, CloseFails
    <2>2. /\ UNCHANGED <<buffer, sent, client, hasClient, taken, heard, vanished, final, shown>>
          /\ hasSocket' \in BOOLEAN /\ pump' \in {"none", "running", "ended"}
      BY <1>1 DEF ConnectFails, SendFails, FinalizeFails, WaitFails, CloseFails, TypeInv
    <2> QED
      BY <1>0, <2>1, <2>2, RaiseTyped DEF TypeInv
  <1>2. ASSUME HandleAudioFrame PROVE TypeInv'
    <2>1. taken + 1 \in Nat /\ Append(buffer, taken + 1) \in Seq(Nat) /\ <<taken + 1>> \in Seq(Nat)
      BY DEF TypeInv
    <2> QED
      BY <1>0, <1>2, <2>1 DEF HandleAudioFrame, TypeInv, Places
  <1>3. ASSUME Connects PROVE TypeInv'
    <2>1. client + 1 \in Nat /\ buffer \o chunk \in Seq(Nat) /\ <<>> \in Seq(Nat)
      BY DEF TypeInv
    <2> QED
      BY <1>0, <1>3, <2>1 DEF Connects, TypeInv, Places, audio
  <1>4. ASSUME Cut PROVE TypeInv'
    <2>1. Len(buffer) >= Chunk =>
            SubSeq(buffer, 1, Chunk) \in Seq(Nat) /\ SubSeq(buffer, Chunk + 1, Len(buffer)) \in Seq(Nat)
      <3>1. buffer \in Seq(Nat) /\ Chunk \in Nat
        BY RelayAssumption DEF TypeInv
      <3> QED
        BY <3>1
    <2> QED
      BY <1>0, <1>4, <2>1 DEF Cut, TypeInv, Places, audio
  <1>5. ASSUME Sends PROVE TypeInv'
    <2>1. /\ sent + Len(chunk) \in Nat /\ heard \o chunk \in Seq(Nat) /\ <<>> \in Seq(Nat)
          /\ vanished \cup InSeq(chunk) \subseteq Nat
      <3>1. /\ sent \in Nat /\ chunk \in Seq(Nat) /\ heard \in Seq(Nat) /\ vanished \subseteq Nat
            /\ InSeq(chunk) \subseteq Nat
        BY InSeqFacts DEF TypeInv
      <3>2. sent + Len(chunk) \in Nat /\ heard \o chunk \in Seq(Nat) /\ <<>> \in Seq(Nat)
        BY <3>1
      <3>3. vanished \cup InSeq(chunk) \subseteq Nat
        BY <3>1
      <3> QED
        BY <3>2, <3>3
    <2>2. heard' \in Seq(Nat) /\ vanished' \subseteq Nat
      BY <1>5, <2>1 DEF Sends, TypeInv, InSeq
    <2>3. /\ at' \in Places /\ chunk' = <<>> /\ sent' = sent + Len(chunk) /\ buffer' \in Seq(Nat)
          /\ UNCHANGED <<ending, client, hasClient, hasSocket, taken, dropped, final, pump, shown>>
      BY <1>5, <2>1 DEF Sends, ChunkSent, TypeInv, Places
    <2> QED
      BY <1>0, <2>1, <2>2, <2>3 DEF TypeInv
  <1>6. ASSUME Closed PROVE TypeInv'
    BY <1>0, <1>6 DEF Closed, Reset, ClientClosed, TypeInv, Places, audio
  <1>7. ASSUME PumpReads PROVE TypeInv'
    <2>1. Head(link.inbox) \in Kinds /\ Append(shown, <<client, Head(link.inbox)>>) \in Seq(Nat \X Kinds)
      <3>1. link.inbox \in Seq(Kinds) /\ link.inbox # <<>>
        BY <1>7 DEF PumpReads, TypeInv, Link, Kinds
      <3>2. Head(link.inbox) \in Kinds
        BY <3>1
      <3> QED
        BY <3>2 DEF TypeInv
    <2> QED
      BY <1>0, <1>7, <2>1 DEF PumpReads, TypeInv, task, audio
  <1>8. ASSUME \/ Rolls \/ Finalizes \/ SkipsFinal \/ Waited \/ Closes \/ CloseRelay
        PROVE  TypeInv'
    BY <1>0, <1>8 DEF Rolls, Finalizes, SkipsFinal, Waited, Closes, CloseRelay, TypeInv, Places, audio
  <1>9. ASSUME PumpLosesConnection \/ ServerChats \/ ServerHandles \/ Breaks PROVE TypeInv'
    BY <1>0, <1>9 DEF PumpLosesConnection, ServerChats, ServerHandles, Breaks, TypeInv, task, audio
  <1> QED
    BY <1>1, <1>2, <1>3, <1>4, <1>5, <1>6, <1>7, <1>8, <1>9 DEF Next, TaskStep, PumpStep

\* With a chunk no larger than its size in the buffer, a cut takes all of it.
LEMMA CutTakesAll ==
  ASSUME TypeInv, SizeInv, Cut
  PROVE  \/ at' = "sending" /\ chunk' = buffer /\ buffer' = <<>> /\ Len(buffer) = Chunk
         \/ at' = "idle" /\ UNCHANGED <<buffer, chunk>> /\ Len(buffer) < Chunk
  <1>1. Len(buffer) \in Nat /\ Len(buffer) <= Chunk /\ buffer \in Seq(Nat) /\ Chunk \in Nat
    BY RelayAssumption DEF TypeInv, SizeInv
  <1>2. CASE Len(buffer) >= Chunk
    <2>1. Len(buffer) = Chunk
      BY <1>1, <1>2
    <2>2. SubSeq(buffer, 1, Chunk) = buffer /\ SubSeq(buffer, Chunk + 1, Len(buffer)) = <<>>
      BY <1>1, <2>1
    <2> QED
      BY <1>2, <2>1, <2>2 DEF Cut
  <1>3. CASE ~(Len(buffer) >= Chunk)
    BY <1>1, <1>3 DEF Cut
  <1> QED
    BY <1>2, <1>3

LEMMA TaskStepInv ==
  ASSUME TypeInv, TaskInv, ClientInv, SizeInv, Next
  PROVE  TaskInv'
  <1>1. ASSUME ConnectFails \/ SendFails \/ FinalizeFails \/ WaitFails \/ CloseFails PROVE TaskInv'
    <2>1. at \notin {"idle", "cutting"} /\ buffer' = buffer /\ Raise
      BY <1>1 DEF ConnectFails, SendFails, FinalizeFails, WaitFails, CloseFails
    <2>2. chunk' = <<>> /\ dropped' = dropped \cup InSeq(chunk)
      BY <2>1 DEF Raise, InSeq
    <2>3. \/ ending = "no" /\ ending' = "no" /\ at' = "idle"
          \/ ending = "flush" /\ ending' = "last" /\ at' = "shutting"
          \/ ending = "last" /\ ending' = "done" /\ at' = "idle"
      BY <2>1 DEF Raise, TaskInv, TypeInv, Places
    <2>4. ending = "flush" => buffer = <<>> \/ dropped' # {}
      BY <2>2, InSeqFacts DEF TaskInv, TypeInv
    <2> QED
      BY <2>1, <2>2, <2>3, <2>4 DEF TaskInv
  <1>2. ASSUME HandleAudioFrame PROVE TaskInv'
    BY <1>2 DEF HandleAudioFrame, TaskInv, ClientInv
  <1>3. ASSUME Connects PROVE TaskInv'
    BY <1>3 DEF Connects, TaskInv, audio
  <1>4. ASSUME Cut PROVE TaskInv'
    <2>1. at = "cutting" /\ ending = "no" /\ chunk = <<>> /\ UNCHANGED <<ending, dropped, sent>>
      BY <1>4 DEF Cut, TaskInv, audio
    <2>2. Len(buffer) = Chunk => buffer # <<>>
      BY RelayAssumption DEF TypeInv
    <2> QED
      BY <1>4, <2>1, <2>2, CutTakesAll DEF TaskInv
  <1>5. ASSUME Sends PROVE TaskInv'
    BY <1>5 DEF Sends, ChunkSent, TaskInv
  <1>6. ASSUME Closed PROVE TaskInv'
    BY <1>6 DEF Closed, Reset, ClientClosed, TaskInv, ClientInv, audio
  <1>7. ASSUME Rolls PROVE TaskInv'
    BY <1>7 DEF Rolls, Fits, TaskInv, TypeInv, audio
  <1>8. ASSUME Finalizes \/ SkipsFinal \/ Waited \/ Closes PROVE TaskInv'
    BY <1>8 DEF Finalizes, SkipsFinal, Waited, FinalArrives, Closes, TaskInv, audio
  <1>9. ASSUME CloseRelay PROVE TaskInv'
    BY <1>9 DEF CloseRelay, TaskInv, ClientInv, audio
  <1>10. ASSUME \/ PumpReads \/ PumpLosesConnection \/ ServerChats \/ ServerHandles \/ Breaks
         PROVE  TaskInv'
    BY <1>10 DEF PumpReads, PumpLosesConnection, ServerChats, ServerHandles, Breaks, task, audio, TaskInv
  <1> QED
    BY <1>1, <1>2, <1>3, <1>4, <1>5, <1>6, <1>7, <1>8, <1>9, <1>10 DEF Next, TaskStep, PumpStep

LEMMA ClientStep ==
  ASSUME TypeInv, TaskInv, ClientInv, SizeInv, Next
  PROVE  ClientInv'
  <1>0. link'.up => link.up \/ Connects
    BY LinkMoves
  <1>1. ASSUME ConnectFails \/ SendFails \/ FinalizeFails \/ WaitFails \/ CloseFails PROVE ClientInv'
    <2>1. /\ at \notin {"idle", "cutting"} /\ Raise /\ ~Connects /\ UNCHANGED <<buffer, hasClient>>
      BY <1>1 DEF ConnectFails, SendFails, FinalizeFails, WaitFails, CloseFails, Connects, Raise
    <2>2. hasSocket' = hasSocket \/ (~hasSocket' /\ ~link'.up)
      <3>1. ASSUME CloseFails PROVE ~link'.up
        BY <3>1, LinkEnded DEF CloseFails, TypeInv, Ended
      <3> QED
        BY <1>1, <3>1 DEF ConnectFails, SendFails, FinalizeFails, WaitFails, CloseFails
    <2>3. \/ ending = "no" /\ ending' = "no" /\ at' = "idle"
          \/ ending' = "last" /\ at' = "shutting"
          \/ ending' = "done" /\ at' = "idle"
      BY <2>1 DEF Raise, TaskInv, TypeInv, Places
    <2> QED
      BY <1>0, <2>1, <2>2, <2>3 DEF ClientInv
  <1>2. ASSUME HandleAudioFrame PROVE ClientInv'
    BY <1>2 DEF HandleAudioFrame, ClientInv
  <1>3. ASSUME Connects PROVE ClientInv'
    BY <1>3 DEF Connects, ClientInv
  <1>4. ASSUME Cut PROVE ClientInv'
    <2>1. at = "cutting" /\ UNCHANGED <<ending, hasClient, hasSocket, link>>
      BY <1>4 DEF Cut
    <2> QED
      BY <1>4, <2>1, CutTakesAll DEF ClientInv
  <1>5. ASSUME Sends PROVE ClientInv'
    <2>1. ~Connects
      BY <1>5 DEF Sends, Connects
    <2> QED
      BY <1>0, <1>5, <2>1 DEF Sends, ChunkSent, ClientInv
  <1>6. ASSUME Closed PROVE ClientInv'
    <2>1. ~link'.up
      BY <1>6, LinkEnded DEF Closed, TypeInv, Ended
    <2>2. ending = "no" => buffer = <<>> /\ chunk # <<>>
      BY <1>6 DEF Closed, TaskInv
    <2> QED
      BY <1>6, <2>1, <2>2 DEF Closed, Reset, ClientClosed, ClientInv
  <1>7. ASSUME Rolls \/ Finalizes \/ SkipsFinal \/ Waited \/ Closes PROVE ClientInv'
    <2>1. ~Connects
      BY <1>7 DEF Rolls, Finalizes, SkipsFinal, Waited, FinalArrives, Closes, Connects
    <2> QED
      BY <1>0, <1>7, <2>1 DEF Rolls, Finalizes, SkipsFinal, Waited, FinalArrives, Closes, ClientInv
  <1>8. ASSUME CloseRelay PROVE ClientInv'
    BY <1>8 DEF CloseRelay, ClientInv
  <1>9. ASSUME PumpReads \/ PumpLosesConnection \/ ServerChats \/ ServerHandles \/ Breaks
        PROVE  ClientInv'
    <2>1. UNCHANGED task
      BY <1>9 DEF PumpReads, PumpLosesConnection, ServerChats, ServerHandles, Breaks
    <2>2. link'.up => hasSocket
      BY <1>0, <2>1 DEF ClientInv, Connects, task
    <2> QED
      BY <2>1, <2>2 DEF task, ClientInv
  <1> QED
    BY <1>1, <1>2, <1>3, <1>4, <1>5, <1>6, <1>7, <1>8, <1>9 DEF Next, TaskStep, PumpStep

LEMMA SizeStep ==
  ASSUME TypeInv, TaskInv, ClientInv, SizeInv, Next
  PROVE  SizeInv'
  <1>0. /\ Chunk \in Nat \ {0} /\ Cap \in Nat /\ ServerCap \in Nat /\ Chunk <= ServerCap /\ Cap <= ServerCap
        /\ sent \in Nat /\ link.audio \in Nat /\ buffer \in Seq(Nat) /\ chunk \in Seq(Nat)
    BY RelayAssumption DEF TypeInv, Link
  <1>1. ASSUME hasSocket' => hasSocket, sent' = sent, ~Connects, ~Sends
        PROVE  (hasSocket' => link'.audio <= sent') /\ CapRespected'
    BY <1>1, LinkMoves DEF SizeInv, CapRespected
  <1>2. ASSUME HandleAudioFrame PROVE SizeInv'
    <2>1. Len(chunk') <= Chunk /\ Len(buffer') <= Chunk /\ (at' # "cutting" => Len(buffer') < Chunk)
      <3>1. chunk = <<>> /\ Len(buffer) < Chunk /\ Len(buffer) \in Nat
        BY <1>0, <1>2 DEF HandleAudioFrame, SizeInv, TaskInv
      <3>2. \/ buffer' = Append(buffer, taken + 1) /\ chunk' = chunk /\ at' = "cutting"
            \/ chunk' = <<taken + 1>> /\ buffer' = buffer
        BY <1>2 DEF HandleAudioFrame
      <3>3. Len(Append(buffer, taken + 1)) = Len(buffer) + 1 /\ Len(<<taken + 1>>) = 1 /\ Len(<<>>) = 0
        BY <1>0
      <3>4. CASE buffer' = Append(buffer, taken + 1) /\ chunk' = chunk /\ at' = "cutting"
        BY <1>0, <3>1, <3>3, <3>4
      <3>5. CASE chunk' = <<taken + 1>> /\ buffer' = buffer
        BY <1>0, <3>1, <3>3, <3>5
      <3> QED
        BY <3>2, <3>4, <3>5
    <2> QED
      BY <1>1, <1>2, <2>1 DEF HandleAudioFrame, Connects, Sends, SizeInv
  <1>3. ASSUME Connects PROVE SizeInv'
    <2>1. link'.audio = 0 /\ sent' = sent
      BY <1>3, LinkMoves DEF Connects
    <2>2. at = "connecting" => buffer' = chunk /\ chunk' = <<>> /\ at' = "cutting"
      BY <1>0, <1>3 DEF Connects, TaskInv
    <2>3. at # "connecting" => UNCHANGED <<buffer, chunk>> /\ at # "cutting"
      BY <1>3 DEF Connects
    <2>4. Len(chunk') <= Chunk /\ Len(buffer') <= Chunk /\ (at' # "cutting" => Len(buffer') < Chunk)
      BY <1>0, <2>2, <2>3 DEF SizeInv
    <2> QED
      BY <1>0, <2>1, <2>4 DEF SizeInv, CapRespected
  <1>4. ASSUME Cut PROVE SizeInv'
    <2>1. Len(chunk') <= Chunk /\ Len(buffer') < Chunk
      BY <1>0, <1>4, CutTakesAll DEF SizeInv
    <2>2. (hasSocket' => link'.audio <= sent') /\ CapRespected'
      BY <1>1, <1>4 DEF Cut, Connects, Sends
    <2> QED
      BY <1>0, <2>1, <2>2 DEF SizeInv
  <1>5. ASSUME Sends PROVE SizeInv'
    <2>1. /\ Fits /\ hasSocket /\ at = "sending" /\ sent' = sent + Len(chunk)
          /\ buffer' \in {buffer, <<>>} /\ chunk' = <<>>
      BY <1>5 DEF Sends
    <2>2. link.audio <= sent /\ Len(chunk) \in Nat /\ Len(chunk) <= Chunk /\ Len(buffer) < Chunk
      BY <1>0, <2>1 DEF SizeInv
    <2>3. sent + Len(chunk) <= ServerCap
      BY <1>0, <2>1, <2>2 DEF Fits
    <2>4. link'.audio <= sent + Len(chunk)
      BY <1>0, <1>5, <2>2, LinkMoves
    <2>5. link'.audio \in Nat
      BY LinkMoves DEF Link
    <2> QED
      BY <1>0, <2>1, <2>2, <2>3, <2>4, <2>5 DEF SizeInv, CapRespected
  <1>6. ASSUME CloseRelay PROVE SizeInv'
    <2>1. Len(chunk') <= Chunk /\ Len(buffer') < Chunk
      BY <1>0, <1>6 DEF CloseRelay, SizeInv
    <2>2. (hasSocket' => link'.audio <= sent') /\ CapRespected'
      BY <1>1, <1>6 DEF CloseRelay, Connects, Sends
    <2> QED
      BY <1>0, <2>1, <2>2 DEF SizeInv
  <1>7. ASSUME Closed PROVE SizeInv'
    <2>1. ~hasSocket' /\ UNCHANGED <<buffer, chunk>> /\ at # "cutting" /\ link'.audio = link.audio
      BY <1>7, LinkMoves DEF Closed, Reset, Connects, Sends
    <2> QED
      BY <2>1 DEF SizeInv, CapRespected
  <1>8. ASSUME ConnectFails \/ SendFails \/ FinalizeFails \/ WaitFails \/ CloseFails PROVE SizeInv'
    <2>1. /\ at # "cutting" /\ chunk' = <<>> /\ buffer' = buffer /\ sent' = sent
          /\ (hasSocket' => hasSocket) /\ ~Connects /\ ~Sends
      BY <1>8 DEF ConnectFails, SendFails, FinalizeFails, WaitFails, CloseFails, Raise, Connects, Sends, ChunkSent
    <2> QED
      BY <1>0, <1>1, <2>1 DEF SizeInv
  <1>9. ASSUME Rolls \/ Finalizes \/ SkipsFinal \/ Waited \/ Closes PROVE SizeInv'
    <2>1. /\ at # "cutting" /\ UNCHANGED <<buffer, chunk, sent, hasSocket>> /\ ~Connects /\ ~Sends
      BY <1>9 DEF Rolls, Finalizes, SkipsFinal, Waited, FinalArrives, Closes, Connects, Sends
    <2> QED
      BY <1>1, <2>1 DEF SizeInv
  <1>10. ASSUME PumpReads \/ PumpLosesConnection \/ ServerChats \/ ServerHandles \/ Breaks
         PROVE  SizeInv'
    <2>1. UNCHANGED task
      BY <1>10 DEF PumpReads, PumpLosesConnection, ServerChats, ServerHandles, Breaks
    <2>2. ~Connects /\ (Sends => chunk = <<>>)
      BY <2>1 DEF task, Connects, Sends
    <2>3. ~Sends
      BY <2>2 DEF Sends, TaskInv
    <2> QED
      BY <1>1, <2>1, <2>2, <2>3 DEF task, SizeInv
  <1> QED
    BY <1>2, <1>3, <1>4, <1>5, <1>6, <1>7, <1>8, <1>9, <1>10 DEF Next, TaskStep, PumpStep

\* What a step does with the frames: nothing, the microphone gives one, they move
\* between the buffer and the chunk, the chunk is sent and heard or vanishes, or
\* a call raises and drops it.
Stays ==
    UNCHANGED <<audio, chunk, buffer>> /\ (ending' = "no" => ending = "no")
Arrives ==
    /\ ending = "no" /\ chunk = <<>> /\ taken' = taken + 1 /\ UNCHANGED <<heard, dropped, vanished>>
    /\ \/ chunk' = <<>> /\ buffer' = Append(buffer, taken + 1)
       \/ chunk' = <<taken + 1>> /\ buffer' = buffer
Shifts ==
    /\ ending = "no" /\ UNCHANGED audio
    /\ \/ buffer = <<>> /\ chunk' = <<>> /\ buffer' = chunk
       \/ chunk = <<>> /\ chunk' = buffer /\ buffer' \in {<<>>, buffer}
Leaves ==
    chunk' = <<>> /\ buffer' = <<>> /\ (buffer = <<>> \/ buffer = chunk) /\ UNCHANGED <<taken, dropped>>
Hears ==
    Leaves /\ link.up /\ heard' = heard \o chunk /\ vanished' = vanished
Vanishes ==
    Leaves /\ vanished' = vanished \cup InSeq(chunk) /\ heard' = heard
Drops ==
    /\ chunk' = <<>> /\ buffer' = buffer /\ dropped' = dropped \cup InSeq(chunk)
    /\ UNCHANGED <<taken, heard, vanished>> /\ (ending' = "no" => buffer = <<>>)

LEMMA FrameMoves ==
  ASSUME TypeInv, TaskInv, SizeInv, Next
  PROVE  Stays \/ Arrives \/ Shifts \/ Hears \/ Vanishes \/ Drops
  <1>1. ASSUME HandleAudioFrame PROVE Arrives
    BY <1>1 DEF HandleAudioFrame, TaskInv, Arrives
  <1>2. ASSUME Connects PROVE Shifts \/ Stays
    <2>1. CASE at = "connecting"
      <3>1. buffer = <<>> /\ ending = "no" /\ chunk \in Seq(Nat)
        BY <2>1 DEF TaskInv, TypeInv
      <3>2. buffer \o chunk = chunk
        BY <3>1
      <3> QED
        BY <1>2, <2>1, <3>1, <3>2 DEF Connects, Shifts
    <2>2. CASE at # "connecting"
      BY <1>2, <2>2 DEF Connects, Stays
    <2> QED
      BY <2>1, <2>2
  <1>3. ASSUME Cut PROVE Shifts \/ Stays
    <2>1. ending = "no" /\ chunk = <<>> /\ UNCHANGED <<audio, ending>>
      BY <1>3 DEF Cut, TaskInv
    <2> QED
      BY <1>3, <2>1, CutTakesAll DEF Shifts, Stays
  <1>4. ASSUME Sends PROVE Hears \/ Vanishes
    <2>1. Leaves
      BY <1>4 DEF Sends, TaskInv, Leaves
    <2> QED
      BY <1>4, <2>1 DEF Sends, Hears, Vanishes, InSeq
  <1>5. ASSUME CloseRelay PROVE Shifts \/ Stays
    BY <1>5 DEF CloseRelay, TaskInv, Shifts, Stays
  <1>6. ASSUME ConnectFails \/ SendFails \/ FinalizeFails \/ WaitFails \/ CloseFails PROVE Drops
    <2>1. at \notin {"idle", "cutting"} /\ Raise /\ UNCHANGED <<buffer, taken, heard, vanished>>
      BY <1>6 DEF ConnectFails, SendFails, FinalizeFails, WaitFails, CloseFails
    <2> QED
      BY <2>1 DEF Raise, TaskInv, Drops, InSeq
  <1>7. ASSUME Rolls \/ Finalizes \/ SkipsFinal \/ Waited \/ Closes \/ Closed PROVE Stays
    BY <1>7 DEF Rolls, Finalizes, SkipsFinal, Waited, Closes, Closed, Reset, ClientClosed, Stays
  <1>8. ASSUME PumpReads \/ PumpLosesConnection \/ ServerChats \/ ServerHandles \/ Breaks PROVE Stays
    BY <1>8 DEF PumpReads, PumpLosesConnection, ServerChats, ServerHandles, Breaks, task, Stays
  <1> QED
    BY <1>1, <1>2, <1>3, <1>4, <1>5, <1>6, <1>7, <1>8 DEF Next, TaskStep, PumpStep

LEMMA OrderStep ==
  ASSUME TypeInv, TaskInv, SizeInv, OrderInv, AccountInv, Next
  PROVE  OrderInv'
  <1>0. /\ taken \in Nat /\ heard \in Seq(Nat) /\ chunk \in Seq(Nat) /\ buffer \in Seq(Nat)
        /\ InSeq(heard) \subseteq 1..taken /\ InSeq(buffer) \subseteq 1..taken
    BY DEF TypeInv, AccountInv
  <1>1. CASE Stays
    BY <1>1 DEF Stays, audio, OrderInv
  <1>2. CASE Arrives
    <2> DEFINE n == taken + 1
    <2>1. n \in Nat /\ Before(InSeq(heard), {n}) /\ Before(InSeq(buffer), {n})
      BY <1>0 DEF Before
    <2>2. Increasing(Append(buffer, n)) /\ Increasing(<<n>>) /\ Increasing(<<>>)
      BY <1>0, <2>1, IncreasingEnds DEF OrderInv
    <2>3. InSeq(Append(buffer, n)) = InSeq(buffer) \cup {n} /\ InSeq(<<n>>) = {n} /\ InSeq(<<>>) = {}
      BY <1>0, <2>1, InSeqFacts
    <2>4. Before(InSeq(heard), InSeq(Append(buffer, n)))
      BY <2>1, <2>3 DEF OrderInv, Before
    <2>5. Before(InSeq(heard), InSeq(<<n>>)) /\ Before(InSeq(heard), InSeq(<<>>))
      BY <2>1, <2>3 DEF Before
    <2>6. heard' = heard
      BY <1>2 DEF Arrives
    <2>7. CASE chunk' = <<>> /\ buffer' = Append(buffer, n)
      BY <2>2, <2>4, <2>5, <2>6, <2>7 DEF OrderInv
    <2>8. CASE chunk' = <<n>> /\ buffer' = buffer
      BY <2>2, <2>5, <2>6, <2>8 DEF OrderInv
    <2> QED
      BY <1>2, <2>7, <2>8 DEF Arrives
  <1>3. CASE Shifts
    <2>1. Increasing(<<>>) /\ Before(InSeq(heard), InSeq(<<>>)) /\ heard' = heard
      BY <1>3, InSeqFacts, IncreasingEnds DEF Before, Shifts, audio
    <2> QED
      BY <1>3, <2>1 DEF Shifts, OrderInv
  <1>4. CASE Hears \/ Vanishes
    <2>1. Increasing(heard \o chunk)
      BY <1>0, IncreasingJoined DEF OrderInv
    <2>2. Increasing(<<>>) /\ InSeq(<<>>) = {}
      BY InSeqFacts, IncreasingEnds
    <2> QED
      BY <1>4, <2>1, <2>2 DEF Hears, Vanishes, Leaves, OrderInv, Before
  <1>5. CASE Drops
    <2>1. Increasing(<<>>) /\ Before(InSeq(heard), InSeq(<<>>))
      BY InSeqFacts, IncreasingEnds DEF Before
    <2> QED
      BY <1>5, <2>1 DEF Drops, OrderInv
  <1> QED
    BY <1>1, <1>2, <1>3, <1>4, <1>5, FrameMoves

LEMMA VanishedStep ==
  ASSUME TypeInv, TaskInv, ClientInv, VanishedInv, Next
  PROVE  VanishedInv'
  <1>1. ASSUME Sends PROVE VanishedInv'
    <2>1. /\ at' \in {"cutting", "finalizing"} /\ hasClient'
      BY <1>1 DEF Sends, ChunkSent, ClientInv
    <2>2. CASE link.up
      BY <1>1, <2>1, <2>2 DEF Sends, VanishedInv
    <2>3. CASE ~link.up
      BY <1>1, <2>1, <2>3 DEF Sends, VanishedInv
    <2> QED
      BY <2>2, <2>3
  <1>2. ASSUME ~Sends, vanished' # {} PROVE VanishedInv'
    <2>1. vanished' = vanished
      BY <1>2 DEF Next, TaskStep, PumpStep, HandleAudioFrame, CloseRelay, Connects, ConnectFails, Cut,
         Rolls, SendFails, Finalizes, FinalizeFails, SkipsFinal, Waited, WaitFails, Closes, Closed,
         CloseFails, PumpReads, PumpLosesConnection, ServerChats, ServerHandles, Breaks, audio
    <2>2. /\ ~link.up /\ at \notin {"connecting", "reconnecting", "closing"}
          /\ hasClient \/ ending = "done"
      BY <1>2, <2>1 DEF VanishedInv
    <2>3. ~link'.up
      BY <2>2, LinkMoves DEF Connects
    <2>4. ASSUME Closed PROVE at' = "idle" /\ ending' = "done"
      <3>1. at = "shutting" /\ ~hasSocket
        BY <2>2, <2>4 DEF Closed
      <3>2. chunk = <<>>
        BY <3>1 DEF ClientInv, TaskInv
      <3> QED
        BY <2>4, <3>2 DEF Closed, Reset, ClientClosed
    <2>5. ASSUME HandleAudioFrame PROVE at' = "cutting" /\ hasClient'
      BY <2>2, <2>5 DEF HandleAudioFrame
    <2>6. ASSUME ~Closed, ~HandleAudioFrame
          PROVE  /\ hasClient' = hasClient /\ (ending = "done" => ending' = "done")
                 /\ at' \notin {"connecting", "reconnecting", "closing"}
      BY <1>2, <2>2, <2>6 DEF Next, TaskStep, PumpStep, CloseRelay, Connects, ConnectFails, Cut,
         Rolls, SendFails, Finalizes, FinalizeFails, SkipsFinal, Waited, WaitFails, Closes, Raise,
         CloseFails, PumpReads, PumpLosesConnection, ServerChats, ServerHandles, Breaks, task, TaskInv
    <2> QED
      BY <2>2, <2>3, <2>4, <2>5, <2>6 DEF VanishedInv
  <1> QED
    BY <1>1, <1>2 DEF VanishedInv

LEMMA AccountStep ==
  ASSUME TypeInv, TaskInv, SizeInv, OrderInv, AccountInv, VanishedInv, Next
  PROVE  AccountInv'
  <1>0. /\ taken \in Nat /\ heard \in Seq(Nat) /\ chunk \in Seq(Nat) /\ buffer \in Seq(Nat)
        /\ InSeq(<<>>) = {}
    BY InSeqFacts DEF TypeInv
  <1>1. CASE Stays
    BY <1>1 DEF Stays, audio, AccountInv, Lost
  <1>2. CASE Arrives
    <2> DEFINE n == taken + 1
    <2>1. n \in Nat /\ 1..n = 1..taken \cup {n} /\ n \notin 1..taken
      BY <1>0
    <2>2. InSeq(Append(buffer, n)) = InSeq(buffer) \cup {n} /\ InSeq(<<n>>) = {n}
      BY <1>0, <2>1, InSeqFacts
    <2>3. n \notin Lost
      BY <2>1 DEF AccountInv
    <2>4. InSeq(chunk') \cup InSeq(buffer') = InSeq(chunk) \cup InSeq(buffer) \cup {n}
      BY <1>0, <1>2, <2>2 DEF Arrives
    <2>5. taken' = n /\ heard' = heard /\ Lost' = Lost /\ vanished' = vanished /\ ending = "no"
      BY <1>2 DEF Arrives, Lost
    <2> HIDE DEF n
    <2> QED
      BY <2>1, <2>3, <2>4, <2>5 DEF AccountInv
  <1>3. CASE Shifts
    <2>1. /\ InSeq(chunk') \cup InSeq(buffer') = InSeq(chunk) \cup InSeq(buffer)
      BY <1>0, <1>3 DEF Shifts
    <2>2. taken' = taken /\ heard' = heard /\ Lost' = Lost /\ vanished' = vanished /\ ending = "no"
      BY <1>3 DEF Shifts, Lost, audio
    <2> QED
      BY <2>1, <2>2 DEF AccountInv
  <1>4. CASE Hears
    <2>1. InSeq(heard') = InSeq(heard) \cup InSeq(chunk)
      BY <1>0, <1>4, InSeqFacts DEF Hears
    <2>2. /\ InSeq(chunk') = {} /\ InSeq(buffer') = {} /\ InSeq(buffer) \subseteq InSeq(chunk)
      BY <1>0, <1>4 DEF Hears, Leaves
    <2>3. vanished = {} /\ taken' = taken /\ Lost' = Lost /\ vanished' = vanished
      BY <1>4 DEF Hears, Leaves, Lost, VanishedInv
    <2> QED
      BY <2>1, <2>2, <2>3 DEF AccountInv, Before
  <1>5. CASE Vanishes
    <2>1. /\ InSeq(chunk') = {} /\ InSeq(buffer') = {} /\ InSeq(buffer) \subseteq InSeq(chunk)
      BY <1>0, <1>5 DEF Vanishes, Leaves
    <2>2. /\ taken' = taken /\ heard' = heard /\ Lost' = Lost \cup InSeq(chunk)
          /\ vanished' = vanished \cup InSeq(chunk)
      BY <1>5 DEF Vanishes, Leaves, Lost
    <2>3. InSeq(heard) \cap InSeq(chunk) = {}
      <3>1. ASSUME NEW f \in InSeq(heard), f \in InSeq(chunk) PROVE FALSE
        <4>1. f < f /\ f \in Nat
          BY <1>0, <3>1, InSeqFacts DEF OrderInv, Before
        <4> QED
          BY <4>1
      <3> QED
        BY <3>1
    <2>4. Before(InSeq(heard), vanished \cup InSeq(chunk))
      BY DEF OrderInv, AccountInv, Before
    <2> QED
      BY <2>1, <2>2, <2>3, <2>4 DEF AccountInv
  <1>6. CASE Drops
    <2>1. /\ InSeq(chunk') = {} /\ buffer' = buffer /\ taken' = taken /\ heard' = heard
          /\ vanished' = vanished /\ Lost' = Lost \cup InSeq(chunk)
          /\ ending' = "no" => InSeq(buffer) = {}
      BY <1>0, <1>6 DEF Drops, Lost
    <2>2. InSeq(heard) \cap InSeq(chunk) = {}
      <3>1. ASSUME NEW f \in InSeq(heard), f \in InSeq(chunk) PROVE FALSE
        <4>1. f < f /\ f \in Nat
          BY <1>0, <3>1, InSeqFacts DEF OrderInv, Before
        <4> QED
          BY <4>1
      <3> QED
        BY <3>1
    <2> QED
      BY <2>1, <2>2 DEF AccountInv
  <1> QED
    BY <1>1, <1>2, <1>3, <1>4, <1>5, <1>6, FrameMoves

LEMMA FinalStep ==
  ASSUME TypeInv, TaskInv, ClientInv, FinalInv, Next
  PROVE  FinalInv'
  <1>0. client \in Nat /\ shown \in Seq(Nat \X Kinds) /\ Len(shown) \in Nat /\ DOMAIN shown = 1..Len(shown)
    BY DEF TypeInv
  <1>1. ASSUME Connects PROVE FinalInv'
    <2>1. /\ client' = client + 1 /\ shown' = shown /\ final' = "pending" /\ hasClient'
          /\ at' \in {"cutting", "sending"}
      BY <1>1 DEF Connects
    <2>2. client > 0 => \E i \in DOMAIN shown : shown[i] = <<client, "final">>
      BY <1>1 DEF Connects, ClientInv, TaskInv, FinalInv
    <2>3. FinalsFirst'
      <3>1. ASSUME NEW u \in 1..(client' - 1) PROVE \E i \in DOMAIN shown : shown[i] = <<u, "final">>
        <4>1. u \in 1..(client - 1) \/ (u = client /\ client > 0)
          BY <1>0, <2>1
        <4> QED
          BY <2>2, <4>1 DEF FinalInv, FinalsFirst
      <3> QED
        BY <2>1, <3>1 DEF FinalInv, FinalsFirst
    <2>4. \A i \in DOMAIN shown : shown[i][1] <= client + 1 /\ shown[i] # <<client + 1, "final">>
      <3>1. ASSUME NEW i \in DOMAIN shown PROVE shown[i][1] <= client + 1 /\ shown[i][1] # client + 1
        <4>1. shown[i][1] \in Nat /\ shown[i][1] <= client
          BY <1>0 DEF FinalInv
        <4> QED
          BY <1>0, <4>1
      <3> QED
        BY <3>1
    <2> QED
      BY <2>1, <2>3, <2>4 DEF FinalInv
  <1>2. ASSUME PumpReads PROVE FinalInv'
    <2> DEFINE kind == Head(link.inbox)
               e == <<client, kind>>
    <2>1. /\ pump = "running" /\ final = "pending"
          /\ at \in {"shutting", "closing"} => ending = "last"
          /\ \A i \in DOMAIN shown : shown[i] # <<client, "final">>
          /\ UNCHANGED <<at, ending, client, hasClient>>
      BY <1>2 DEF PumpReads, FinalInv, task
    <2>2. kind \in Kinds
      <3>1. link.inbox \in Seq(Kinds) /\ link.inbox # <<>>
        BY <1>2 DEF PumpReads, TypeInv, Link, Kinds
      <3> QED
        BY <3>1
    <2>3. /\ kind = "final" => final' = "set"
          /\ kind # "final" => final' # "set"
          /\ pump' = "running" => final' = "pending" /\ kind = "partial"
      <3>1. /\ final' = CASE kind = "final" -> "set" [] kind = "error" -> "error" [] OTHER -> final
            /\ pump' = IF kind = "partial" THEN pump ELSE "ended"
        BY <1>2 DEF PumpReads
      <3> HIDE DEF kind
      <3>2. CASE kind = "final"
        BY <3>1, <3>2
      <3>3. CASE kind = "error"
        BY <3>1, <3>3
      <3>4. CASE kind # "final" /\ kind # "error"
        BY <2>1, <3>1, <3>4
      <3> QED
        BY <3>2, <3>3, <3>4
    <2>4. shown' = Append(shown, e) \/ (shown' = shown /\ kind # "final")
      <3>1. kind = "final" => shown = <<>> \/ shown[Len(shown)] # e
        <4>1. shown = <<>> \/ Len(shown) \in DOMAIN shown
          BY <1>0
        <4>2. kind = "final" => e = <<client, "final">>
          OBVIOUS
        <4> QED
          BY <2>1, <4>1, <4>2
      <3> QED
        BY <1>2, <3>1 DEF PumpReads, Passes
    <2>5. ~hasClient /\ ending # "done" => client = 0
      BY <1>0, <2>1 DEF FinalInv
    <2> HIDE DEF kind
    <2>6. CASE shown' = shown /\ kind # "final"
      BY <2>1, <2>3, <2>5, <2>6 DEF FinalInv, FinalsFirst
    <2>7. CASE shown' = Append(shown, e)
      <3>1. /\ DOMAIN shown' = 1..(Len(shown) + 1) /\ shown'[Len(shown) + 1] = e
            /\ \A i \in DOMAIN shown : i \in DOMAIN shown' /\ shown'[i] = shown[i]
        BY <1>0, <2>7
      <3>2. ASSUME NEW i \in DOMAIN shown PROVE shown[i] \in Nat \X Kinds
        BY <1>0
      <3>3. e[1] = client /\ e[2] = kind
        OBVIOUS
      <3> HIDE DEF e
      <3>4. ASSUME NEW i \in DOMAIN shown
            PROVE  shown[i][1] <= client /\ (shown[i][2] = "final" => shown[i][1] < client)
        <4>1. shown[i][1] \in Nat /\ shown[i][1] <= client /\ shown[i] = <<shown[i][1], shown[i][2]>>
          BY <3>2 DEF FinalInv
        <4>2. shown[i][2] = "final" => shown[i][1] # client
          BY <2>1, <4>1
        <4> QED
          BY <1>0, <4>1, <4>2
      <3>5. \A i \in DOMAIN shown' : i \in DOMAIN shown \/ i = Len(shown) + 1
        BY <1>0, <3>1
      <3>6. ASSUME NEW i \in DOMAIN shown', NEW j \in DOMAIN shown', i < j
            PROVE  /\ shown'[i][1] <= shown'[j][1]
                   /\ shown'[i][2] = "final" => shown'[i][1] < shown'[j][1]
        <4>1. i \in DOMAIN shown
          BY <1>0, <3>1, <3>6
        <4>2. CASE j \in DOMAIN shown
          BY <3>1, <3>6, <4>1, <4>2 DEF FinalInv, FinalsFirst
        <4>3. CASE j = Len(shown) + 1
          BY <3>1, <3>3, <3>4, <4>1, <4>3
        <4> QED
          BY <3>5, <4>2, <4>3
      <3>7. FinalsFirst'
        BY <2>1, <3>1, <3>6 DEF FinalInv, FinalsFirst
      <3>8. \A i \in DOMAIN shown' : shown'[i][1] <= client'
        BY <1>0, <2>1, <3>1, <3>3, <3>4, <3>5
      <3>9. final' = "set" => \E i \in DOMAIN shown' : shown'[i] = <<client', "final">>
        <4>1. kind = "final" => e = <<client, "final">>
          BY DEF e
        <4>2. Len(shown) + 1 \in DOMAIN shown'
          BY <1>0, <3>1
        <4> QED
          BY <2>1, <2>3, <3>1, <4>1, <4>2
      <3>10. pump' = "running" =>
               final' = "pending" /\ \A i \in DOMAIN shown' : shown'[i] # <<client', "final">>
        <4>1. kind = "partial" => e # <<client, "final">>
          BY DEF e
        <4> QED
          BY <2>1, <2>3, <3>1, <3>5, <4>1
      <3> QED
        BY <2>1, <2>5, <3>7, <3>8, <3>9, <3>10 DEF FinalInv
    <2> QED
      BY <2>4, <2>6, <2>7
  <1>3. ASSUME ~Connects, ~PumpReads PROVE FinalInv'
    <2>1. /\ UNCHANGED <<client, shown, final>>
          /\ pump' = "running" => pump = "running"
      BY <1>3 DEF Next, TaskStep, PumpStep, HandleAudioFrame, CloseRelay, ConnectFails, Cut, Rolls, Sends,
         SendFails, Finalizes, FinalizeFails, SkipsFinal, Waited, WaitFails, Closes, Closed, Reset,
         CloseFails, PumpLosesConnection, ServerChats, ServerHandles, Breaks, task
    <2>2. ASSUME Closed
          PROVE  at' \notin {"shutting", "closing"} /\ (ending' # "done" => final = "set")
      <3>1. at \in {"shutting", "closing"}
        BY <2>2 DEF Closed
      <3>2. ending = "last" => chunk = <<>>
        BY DEF TaskInv
      <3> QED
        BY <2>2, <3>1, <3>2 DEF Closed, Reset, ClientClosed, FinalInv
    <2>3. ASSUME ~Closed
          PROVE  /\ hasClient' = hasClient /\ (ending = "done" => ending' = "done")
                 /\ at' \in {"shutting", "closing"} /\ ending' # "last" => final = "set"
      BY <1>3, <2>3 DEF Next, TaskStep, PumpStep, HandleAudioFrame, CloseRelay, ConnectFails, Cut, Rolls,
         Sends, ChunkSent, SendFails, Finalizes, FinalizeFails, SkipsFinal, Waited, FinalArrives, WaitFails,
         Closes, CloseFails, Raise, PumpLosesConnection, ServerChats, ServerHandles, Breaks, task, TaskInv,
         FinalInv
    <2>4. /\ at' \in {"shutting", "closing"} /\ ending' # "last" => final' = "set"
          /\ ~hasClient' /\ ending' # "done" /\ client' > 0 => final' = "set"
      BY <2>1, <2>2, <2>3 DEF FinalInv
    <2> QED
      BY <2>1, <2>4 DEF FinalInv, FinalsFirst
  <1> QED
    BY <1>1, <1>2, <1>3

LEMMA RelayInit == Init => RelayInv
  <1> SUFFICES ASSUME Init PROVE RelayInv
    OBVIOUS
  <1>1. /\ at = "idle" /\ ending = "no" /\ buffer = <<>> /\ chunk = <<>> /\ sent = 0
        /\ client = 0 /\ hasClient = FALSE /\ hasSocket = FALSE /\ final = "pending" /\ pump = "none"
        /\ taken = 0 /\ heard = <<>> /\ dropped = {} /\ vanished = {} /\ shown = <<>>
        /\ link = [FreshLink EXCEPT !.up = FALSE]
    BY DEF Init
  <1>2. link \in Link /\ ~link.up /\ link.audio = 0
    <2>1. link = [up |-> FALSE, audio |-> 0, over |-> FALSE, asked |-> <<>>, inbox |-> <<>>]
      BY <1>1 DEF FreshLink
    <2>2. <<>> \in Seq({"finalize", "close"}) /\ <<>> \in Seq({"partial", "final", "error", "closed"})
      OBVIOUS
    <2> QED
      BY <2>1, <2>2 DEF Link
  <1>3. TypeInv
    <2>1. <<>> \in Seq(Nat) /\ <<>> \in Seq(Nat \X Kinds)
      OBVIOUS
    <2> QED
      BY <1>1, <1>2, <2>1 DEF TypeInv, Places
  <1>4. TaskInv /\ ClientInv /\ VanishedInv
    BY <1>1, <1>2 DEF TaskInv, ClientInv, VanishedInv
  <1>5. SizeInv
    BY <1>1, <1>2, RelayAssumption DEF SizeInv, CapRespected
  <1>6. OrderInv
    BY <1>1, InSeqFacts, IncreasingEnds DEF OrderInv, Before
  <1>7. AccountInv
    <2>1. InSeq(<<>>) = {} /\ 1..0 = {}
      BY InSeqFacts
    <2> QED
      BY <1>1, <2>1 DEF AccountInv, Lost, Before
  <1>8. FinalInv
    BY <1>1 DEF FinalInv, FinalsFirst
  <1> QED
    BY <1>3, <1>4, <1>5, <1>6, <1>7, <1>8 DEF RelayInv

LEMMA Inductive == Spec => []RelayInv
  <1>1. RelayInv /\ [Next]_vars => RelayInv'
    <2>1. ASSUME RelayInv, Next PROVE RelayInv'
      BY <2>1, TypeStep, TaskStepInv, ClientStep, SizeStep, OrderStep, AccountStep, VanishedStep, FinalStep
         DEF RelayInv
    <2>2. ASSUME RelayInv, UNCHANGED vars PROVE RelayInv'
      BY <2>2 DEF vars, task, audio, RelayInv, TypeInv, TaskInv, ClientInv, SizeInv, CapRespected, OrderInv,
         AccountInv, Lost, VanishedInv, FinalInv, FinalsFirst
    <2> QED
      BY <2>1, <2>2
  <1> QED
    BY <1>1, RelayInit, PTL DEF Spec
-----------------------------------------------------------------------------
(***************************************************************************)
(* The theorems.                                                           *)
(***************************************************************************)

\* However chunks fall and calls fail, _roll_utterance_if_needed keeps the audio
\* of an utterance within what the server buffers for it.
THEOREM CapKept == Spec => []CapRespected
  <1>1. RelayInv => CapRespected
    BY DEF RelayInv, SizeInv
  <1> QED
    BY <1>1, Inductive, PTL

\* However calls fail, connections break and utterances are rolled, every frame
\* of handle_audio_frame is heard once and in order, or still at hand, or lost in
\* a way that was reported or ended the stream.
THEOREM AudioKept == Spec => []AudioAccounted
  <1>1. ASSUME RelayInv PROVE AudioAccounted
    <2>1. /\ heard \in Seq(Nat) /\ chunk \in Seq(Nat) /\ buffer \in Seq(Nat)
          /\ heard \o chunk \in Seq(Nat)
      BY <1>1 DEF RelayInv, TypeInv
    <2>2. Increasing(heard \o chunk)
      BY <1>1, <2>1, IncreasingJoined DEF RelayInv, OrderInv
    <2>3. ASSUME ending = "no" PROVE Increasing(heard \o chunk \o buffer)
      <3>1. chunk = <<>> \/ buffer = <<>>
        BY <1>1, <2>3 DEF RelayInv, TaskInv
      <3>2. CASE buffer = <<>>
        <4>1. heard \o chunk \o buffer = heard \o chunk
          BY <2>1, <3>2
        <4> QED
          BY <2>2, <4>1
      <3>3. CASE chunk = <<>>
        <4>1. heard \o chunk \o buffer = heard \o buffer
          BY <2>1, <3>3
        <4>2. Increasing(heard \o buffer)
          BY <1>1, <2>1, IncreasingJoined DEF RelayInv, OrderInv
        <4> QED
          BY <4>1, <4>2
      <3> QED
        BY <3>1, <3>2, <3>3
    <2>4. /\ 1..taken = InSeq(heard) \cup InSeq(chunk) \cup InSeq(buffer) \cup dropped \cup vanished
          /\ InSeq(heard) \cap (dropped \cup vanished) = {}
      BY <1>1 DEF RelayInv, AccountInv, Lost
    <2>5. \A f \in vanished : \A i \in DOMAIN heard : heard[i] < f
      BY <1>1 DEF RelayInv, AccountInv, Before, InSeq
    <2>6. ending = "done" => buffer = <<>> \/ dropped # {}
      BY <1>1 DEF RelayInv, TaskInv
    <2> QED
      BY <2>2, <2>3, <2>4, <2>5, <2>6 DEF AudioAccounted
  <1> QED
    BY <1>1, Inductive, PTL

\* Whatever the server answers and when, the browser is shown the final of an
\* utterance before anything of the next, and nothing of it behind its final.
THEOREM FinalsShownFirst == Spec => []FinalsFirst
  <1>1. RelayInv => FinalsFirst
    BY DEF RelayInv, FinalInv
  <1> QED
    BY <1>1, Inductive, PTL
=============================================================================

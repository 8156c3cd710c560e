------------------------ MODULE RawUdsFramingProofs ------------------------
(* Receives that are only ever interrupted where they wait for a header      *)
(* implement FrameChannel, for frames of any shape and number and a stream   *)
(* that is cut up in any way; a clean end loses nothing; and the decoder     *)
(* agrees.  Interrupted before a payload they do not, as TLC shows.          *)
EXTENDS RawUdsFraming, TLAPS, SequenceTheorems, WellFoundedInduction

\* Where the frame after the k-th begins, or will begin.
Boundary(k) == IF k = Len(sent) THEN total ELSE sent[k + 1].from

\* The peer writes frames one behind the other, and no byte arrives that it has
\* not written.
StreamInv ==
    /\ sent \in Seq(Frame)
    /\ {total, reachable, arrived, read} \subseteq Nat
    /\ arrived <= reachable /\ reachable <= total
    /\ Boundary(0) = 0
    /\ \A i \in 1..Len(sent) : Boundary(i) = After(i) /\ After(i) <= total
    /\ \A i, j \in 1..Len(sent) : i < j => After(i) <= sent[j].from

\* What has been received is the beginning of what was sent.
PrefixInv ==
    /\ delivered \in Seq(Frame) /\ Len(delivered) <= Len(sent)
    /\ \A i \in 1..Len(delivered) : delivered[i] = sent[i]

\* The reader is between two frames, or behind the header of the next one.
ReaderInv ==
    /\ reader.at \in {"header", "payload"}
    /\ outcome = "open" /\ reader.at = "header" => read = Boundary(Len(delivered))
    /\ outcome = "open" /\ reader.at = "payload" =>
           /\ Len(delivered) < Len(sent)
           /\ reader.frame = sent[Len(delivered) + 1]
           /\ read = reader.frame.from + HeaderBytes

\* A disconnect was found with nothing left to come.
EndInv ==
    outcome = "disconnected" =>
        /\ ended /\ arrived = reachable /\ read = arrived
        /\ read = Boundary(Len(delivered))

IInv == StreamInv /\ PrefixInv /\ ReaderInv /\ EndInv
-----------------------------------------------------------------------------
(* Sequences and frames *)

LEMMA PrefixIsSubSeq ==
  ASSUME NEW d \in Seq(Frame), NEW s \in Seq(Frame), Len(d) <= Len(s),
         \A i \in 1..Len(d) : d[i] = s[i]
  PROVE  SubSeq(s, 1, Len(d)) = d
<1>0. Len(d) \in Nat /\ Len(s) \in Nat
  BY LenProperties
<1>1. \A i \in 1..Len(d) : s[i] \in Frame
  BY <1>0, ElementOfSeq
<1>2. /\ SubSeq(s, 1, Len(d)) \in Seq(Frame)
      /\ Len(SubSeq(s, 1, Len(d))) = IF 1 <= Len(d) THEN Len(d) - 1 + 1 ELSE 0
      /\ \A i \in 1..(Len(d) - 1 + 1) : SubSeq(s, 1, Len(d))[i] = s[1 + i - 1]
  BY <1>0, <1>1, SubSeqProperties
<1>3. Len(SubSeq(s, 1, Len(d))) = Len(d)
  BY <1>0, <1>2
<1>4. \A i \in 1..Len(d) : SubSeq(s, 1, Len(d))[i] = d[i]
  BY <1>0, <1>2
<1> QED
  BY <1>2, <1>3, <1>4, SeqEqual

LEMMA FrameFields ==
  ASSUME NEW f \in Frame
  PROVE  f.from \in Nat /\ f.length \in Nat
BY DEF Frame

\* A frame of the stream has a position and a length, and ends behind its header.
LEMMA SentFields ==
  ASSUME StreamInv, NEW i \in 1..Len(sent)
  PROVE  /\ sent[i] \in Frame /\ sent[i].from \in Nat /\ sent[i].length \in Nat
         /\ After(i) \in Nat /\ sent[i].from < After(i)
<1>1. sent[i] \in Frame
  BY ElementOfSeq DEF StreamInv
<1>2. sent[i].from \in Nat /\ sent[i].length \in Nat
  BY <1>1, FrameFields
<1>3. HeaderBytes \in Nat \ {0}
  BY FramingAssumption
<1>4. After(i) = sent[i].from + HeaderBytes + sent[i].length
  BY DEF After
<1> QED
  BY <1>1, <1>2, <1>3, <1>4

\* Every frame ends before a boundary or begins behind it.
LEMMA BoundaryParts ==
  ASSUME StreamInv, NEW k \in 0..Len(sent)
  PROVE  /\ Boundary(k) \in Nat /\ Boundary(k) <= total
         /\ \A i \in 1..Len(sent) : i <= k => After(i) <= Boundary(k)
         /\ \A i \in 1..Len(sent) : k < i => Boundary(k) <= sent[i].from
<1>0. Len(sent) \in Nat /\ total \in Nat
  BY LenProperties DEF StreamInv
<1>1. \A i \in 1..Len(sent) : /\ sent[i].from < After(i) /\ After(i) <= total
                              /\ sent[i].from \in Nat /\ After(i) \in Nat
  BY SentFields DEF StreamInv
<1>2. \A i, j \in 1..Len(sent) : i < j => After(i) <= sent[j].from
  BY DEF StreamInv
<1>3. CASE k = Len(sent)
  <2>1. Boundary(k) = total
    BY <1>3 DEF Boundary
  <2> QED
    BY <1>0, <1>1, <1>3, <2>1
<1>4. CASE k # Len(sent)
  <2>1. k + 1 \in 1..Len(sent) /\ Boundary(k) = sent[k + 1].from
    BY <1>0, <1>4 DEF Boundary
  <2>2. Boundary(k) \in Nat /\ Boundary(k) <= total
    BY <1>0, <1>1, <2>1
  <2>3. ASSUME NEW i \in 1..Len(sent), i <= k PROVE After(i) <= Boundary(k)
    <3>1. i < k + 1
      BY <1>0, <2>3
    <3> QED
      BY <1>2, <2>1, <3>1
  <2>4. ASSUME NEW i \in 1..Len(sent), k < i PROVE Boundary(k) <= sent[i].from
    <3>1. CASE i = k + 1
      BY <1>1, <2>1, <3>1
    <3>2. CASE i # k + 1
      <4>1. k + 1 < i
        BY <1>0, <2>4, <3>2
      <4>2. After(k + 1) <= sent[i].from
        BY <1>2, <2>1, <4>1
      <4> QED
        BY <1>1, <2>1, <4>2
    <3> QED
      BY <3>1, <3>2
  <2> QED
    BY <2>2, <2>3, <2>4
<1> QED
  BY <1>3, <1>4

\* The bytes at a boundary are the header of the frame that begins there.
LEMMA HeaderAtBoundary ==
  ASSUME StreamInv, NEW k \in 0..Len(sent), Boundary(k) < total
  PROVE  /\ k < Len(sent) /\ k + 1 \in 1..Len(sent)
         /\ HeaderAt(Boundary(k)) = {sent[k + 1]}
         /\ After(k + 1) = Boundary(k + 1)
         /\ Boundary(k) = sent[k + 1].from
<1>0. Len(sent) \in Nat /\ total \in Nat /\ DOMAIN sent = 1..Len(sent)
  BY LenProperties DEF StreamInv
<1>1. k # Len(sent)
  BY <1>0 DEF Boundary
<1>2. k < Len(sent) /\ k + 1 \in 1..Len(sent) /\ Boundary(k) = sent[k + 1].from
  <2>1. k < Len(sent) /\ k + 1 \in 1..Len(sent)
    <3>1. k \in 0..Len(sent) /\ Len(sent) \in Nat
      BY <1>0
    <3> QED
      BY <1>1, <3>1
  <2> QED
    BY <1>1, <2>1 DEF Boundary
<1>3. ASSUME NEW j \in 1..Len(sent), sent[j].from = Boundary(k) PROVE j = k + 1
  <2>1. ~(j <= k)
    <3>1. j <= k => After(j) <= Boundary(k)
      BY BoundaryParts
    <3>2. sent[j].from < After(j) /\ sent[j].from \in Nat /\ After(j) \in Nat
      BY SentFields
    <3> QED
      BY <1>3, <3>1, <3>2
  <2>2. ~(k + 1 < j)
    <3>1. k + 1 < j => After(k + 1) <= sent[j].from
      BY <1>2 DEF StreamInv
    <3>2. sent[k + 1].from < After(k + 1) /\ sent[k + 1].from \in Nat /\ After(k + 1) \in Nat
      BY <1>2, SentFields
    <3> QED
      BY <1>2, <1>3, <3>1, <3>2
  <2> QED
    BY <1>0, <2>1, <2>2
<1>4. {j \in DOMAIN sent : sent[j].from = Boundary(k)} = {k + 1}
  BY <1>0, <1>2, <1>3
<1>5. HeaderAt(Boundary(k)) = {sent[k + 1]}
  <2>1. {sent[i] : i \in {k + 1}} = {sent[k + 1]}
    OBVIOUS
  <2>2. \E i \in DOMAIN sent : sent[i].from = Boundary(k)
    BY <1>0, <1>2
  <2> QED
    BY <1>4, <2>1, <2>2 DEF HeaderAt
<1>6. After(k + 1) = Boundary(k + 1)
  BY <1>2 DEF StreamInv
<1> QED
  BY <1>2, <1>5, <1>6
\* At the beginning of the next frame there is this frame and no other, once
\* any byte behind it has arrived.
LEMMA HeaderIsNext ==
  ASSUME StreamInv, PrefixInv, read = Boundary(Len(delivered)), read < arrived, NEW h \in HeaderAt(read)
  PROVE  Len(delivered) < Len(sent) /\ h = sent[Len(delivered) + 1] /\ h.from = read
<1>1. Len(delivered) \in 0..Len(sent)
  BY LenProperties DEF PrefixInv, StreamInv
<1>2. Boundary(Len(delivered)) < total
  BY DEF StreamInv
<1> QED
  BY <1>1, <1>2, HeaderAtBoundary
-----------------------------------------------------------------------------
(* Receiving *)

\* Taking the next frame keeps the invariant and is a step of the channel.
LEMMA TakesNext ==
  ASSUME IInv, outcome = "open", Len(delivered) < Len(sent), NEW h, h = sent[Len(delivered) + 1],
         Take(h), UNCHANGED <<peerVars, arrived>>
  PROVE  IInv' /\ Channel!Next
<1> DEFINE n == Len(delivered)
<1>0. n \in Nat /\ Len(sent) \in Nat /\ n + 1 \in 1..Len(sent)
  BY LenProperties DEF IInv, PrefixInv, StreamInv
<1>1. h \in Frame /\ After(n + 1) \in Nat
  BY <1>0, SentFields DEF IInv
<1>2. read' = After(n + 1) /\ reader' = AtHeader
  BY DEF Take, After
<1>3. read' = Boundary(n + 1) /\ read' \in Nat
  BY <1>0, <1>1, <1>2 DEF IInv, StreamInv
<1>4. sent' = sent /\ total' = total /\ reachable' = reachable /\ ended' = ended /\ arrived' = arrived
  BY DEF peerVars
<1>5. StreamInv'
  BY <1>3, <1>4 DEF IInv, StreamInv, Boundary, After
<1>6. CASE h.type = "invalid"
  <2>1. outcome' = "rejected" /\ delivered' = delivered
    BY <1>6 DEF Take
  <2>2. PrefixInv' /\ ReaderInv' /\ EndInv'
    BY <1>2, <1>4, <2>1 DEF IInv, PrefixInv, ReaderInv, EndInv, AtHeader
  <2>3. Channel!End
    BY <1>4, <2>1 DEF Channel!End
  <2> QED
    BY <1>5, <2>2, <2>3 DEF IInv, Channel!Next
<1>7. CASE h.type # "invalid"
  <2>1. outcome' = "open" /\ delivered' = Append(delivered, h)
    BY <1>7 DEF Take
  <2>2. /\ delivered' \in Seq(Frame) /\ Len(delivered') = n + 1
        /\ \A i \in 1..n : delivered'[i] = delivered[i]
        /\ delivered'[n + 1] = h
    BY <1>1, <2>1, AppendProperties DEF IInv, PrefixInv
  <2>3. PrefixInv'
    <3>1. \A i \in 1..(n + 1) : delivered'[i] = sent[i]
      BY <1>0, <2>2 DEF IInv, PrefixInv
    <3> QED
      BY <1>0, <1>4, <2>2, <3>1 DEF PrefixInv
  <2>4. ReaderInv' /\ EndInv'
    BY <1>2, <1>3, <1>4, <2>1, <2>2 DEF ReaderInv, EndInv, AtHeader, Boundary
  <2>5. SubSeq(sent, 1, n + 1) = delivered'
    BY <1>0, <1>4, <2>2, <2>3, PrefixIsSubSeq DEF IInv, StreamInv, PrefixInv
  <2>6. Channel!Get
    <3>1. n + 1 \in Len(delivered)..Len(sent)
      BY <1>0
    <3>2. \E m \in Len(delivered)..Len(sent) : delivered' = SubSeq(sent, 1, m)
      BY <2>5, <3>1
    <3>3. ~(outcome # "open") /\ UNCHANGED <<sent, outcome # "open">>
      BY <1>4, <2>1
    <3> QED
      BY <3>2, <3>3 DEF Channel!Get
  <2> QED
    BY <1>5, <2>3, <2>4, <2>6 DEF IInv, Channel!Next
<1> QED
  BY <1>6, <1>7

\* The channel is ended, or nothing of it has changed.
LEMMA EndsOrStays ==
  ASSUME UNCHANGED <<sent, delivered>>, outcome' = outcome \/ outcome' # "open"
  PROVE  [Channel!Next]_<<sent, delivered, outcome # "open">>
<1>1. CASE (outcome' # "open") = (outcome # "open")
  BY <1>1
<1>2. CASE (outcome' # "open") # (outcome # "open")
  <2>1. (outcome' # "open") = TRUE
    BY <1>2
  <2>2. Channel!End
    BY <2>1 DEF Channel!End
  <2> QED
    BY <2>2 DEF Channel!Next
<1> QED
  BY <1>1, <1>2

ChannelStep == [Channel!Next]_<<sent, delivered, outcome # "open">>

LEMMA ReadsStep ==
  ASSUME IInv, Reads
  PROVE  IInv' /\ ChannelStep
<1>0. UNCHANGED <<sent, total, reachable, ended, arrived>>
  BY DEF Reads, ReadsHeader, ReadsPayload, EndsInHeader, EndsInPayload, peerVars
<1>a. {arrived, read} \subseteq Nat /\ HeaderBytes \in Nat \ {0} /\ outcome = "open"
  BY FramingAssumption DEF IInv, StreamInv, Reads, ReadsHeader, ReadsPayload, EndsInHeader, EndsInPayload
<1>1. CASE ReadsHeader
  <2>1. PICK h \in HeaderAt(read) :
       \/ /\ Bad(h)
          /\ outcome' = (IF h.type = "unknown" THEN "unsupported" ELSE "too_large")
          /\ read' = read + HeaderBytes
          /\ UNCHANGED <<reader, delivered>>
       \/ ~Bad(h) /\ arrived - read - HeaderBytes >= h.length /\ Take(h)
       \/ /\ ~Bad(h) /\ arrived - read - HeaderBytes < h.length
          /\ read' = read + HeaderBytes
          /\ reader' = [at |-> "payload", frame |-> h]
          /\ UNCHANGED <<delivered, outcome>>
    BY <1>1 DEF ReadsHeader
  <2>2. reader.at = "header" /\ arrived - read >= HeaderBytes
    BY <1>1 DEF ReadsHeader
  <2>3. read = Boundary(Len(delivered)) /\ read < arrived
    BY <1>a, <2>2 DEF IInv, ReaderInv
  <2>4. Len(delivered) < Len(sent) /\ h = sent[Len(delivered) + 1] /\ h.from = read
    BY <2>3, HeaderIsNext DEF IInv
  <2>5. CASE Take(h)
    BY <1>0, <1>a, <2>4, <2>5, TakesNext DEF ChannelStep, peerVars
  <2>6. CASE ~Take(h)
    <3>1. read' = read + HeaderBytes /\ read' \in Nat /\ delivered' = delivered
      BY <1>a, <2>1, <2>6
    <3>2. StreamInv' /\ PrefixInv'
      BY <1>0, <3>1 DEF IInv, StreamInv, PrefixInv, Boundary, After
    <3>3. \/ outcome' \notin {"open", "disconnected"} /\ reader' = reader
          \/ outcome' = outcome /\ reader' = [at |-> "payload", frame |-> h]
      BY <2>1, <2>6
    <3>4. ReaderInv' /\ EndInv'
      BY <1>0, <1>a, <2>2, <2>4, <3>1, <3>3 DEF ReaderInv, EndInv
    <3>5. ChannelStep
      BY <1>0, <3>1, <3>3, EndsOrStays DEF ChannelStep
    <3> QED
      BY <3>2, <3>4, <3>5 DEF IInv
  <2> QED
    BY <2>5, <2>6
<1>2. CASE ReadsPayload
  <2>1. reader.at = "payload" /\ Take(reader.frame)
    BY <1>2 DEF ReadsPayload
  <2>2. Len(delivered) < Len(sent) /\ reader.frame = sent[Len(delivered) + 1]
    BY <1>a, <2>1 DEF IInv, ReaderInv
  <2> QED
    BY <1>0, <1>a, <2>1, <2>2, TakesNext DEF ChannelStep, peerVars
<1>3. CASE EndsInHeader \/ EndsInPayload
  <2>1. UNCHANGED <<read, reader, delivered>> /\ outcome' \in {"disconnected", "incomplete"}
    BY <1>3 DEF EndsInHeader, EndsInPayload
  <2>2. StreamInv' /\ PrefixInv'
    BY <1>0, <2>1 DEF IInv, StreamInv, PrefixInv, Boundary, After
  <2>3. ReaderInv'
    BY <2>1 DEF IInv, ReaderInv
  <2>4. EndInv'
    <3> SUFFICES ASSUME outcome' = "disconnected" PROVE EndInv'
      BY DEF EndInv
    <3>1. EndsInHeader /\ arrived = read
      BY <1>3 DEF EndsInHeader, EndsInPayload
    <3>2. ended /\ arrived = reachable /\ reader.at = "header"
      BY <3>1 DEF EndsInHeader, Eof
    <3>3. read = Boundary(Len(delivered))
      BY <1>a, <3>2 DEF IInv, ReaderInv
    <3> QED
      BY <1>0, <2>1, <3>1, <3>2, <3>3 DEF EndInv, Boundary
  <2>5. ChannelStep
    BY <1>0, <2>1, EndsOrStays DEF ChannelStep
  <2> QED
    BY <2>2, <2>3, <2>4, <2>5 DEF IInv
<1> QED
  BY <1>1, <1>2, <1>3 DEF Reads
-----------------------------------------------------------------------------
(* The peer, the stream and the other receiver *)

LEMMA InvInit == Init => IInv
<1> SUFFICES ASSUME Init PROVE IInv
  OBVIOUS
<1>1. sent = <<>> /\ delivered = <<>> /\ Len(<<>>) = 0 /\ <<>> \in Seq(Frame)
  BY DEF Init
<1>2. StreamInv
  BY <1>1 DEF Init, StreamInv, Boundary
<1>3. PrefixInv
  BY <1>1 DEF PrefixInv
<1>4. ReaderInv /\ EndInv
  BY <1>1 DEF Init, ReaderInv, EndInv, Boundary, AtHeader
<1> QED
  BY <1>2, <1>3, <1>4 DEF IInv

\* A frame is written behind the last one.
LEMMA SendsStep ==
  ASSUME IInv, Sends
  PROVE  IInv' /\ ChannelStep
<1>a. PICK n \in Nat : n = Len(sent)
  BY LenProperties DEF IInv, StreamInv
<1>0. n \in Nat /\ n = Len(sent) /\ Len(delivered) \in Nat /\ Len(delivered) <= n
  BY <1>a, LenProperties DEF IInv, PrefixInv
<1>1. PICK shape \in Shapes :
         /\ ~ended
         /\ sent' = Append(sent, [type |-> shape.type, length |-> shape.length, from |-> total])
         /\ total' = total + HeaderBytes + shape.length
  BY DEF Sends
<1> DEFINE f == [type |-> shape.type, length |-> shape.length, from |-> total]
<1>2. UNCHANGED <<ended, arrived, read, reader, delivered, outcome>> /\ reachable' = total'
  BY DEF Sends, readerVars
<1>3. HeaderBytes \in Nat \ {0} /\ shape \in Shape
  BY FramingAssumption
<1>4. shape.type \in {"valid", "unknown", "invalid"} /\ shape.length \in Nat
  BY <1>0, <1>3 DEF Shape
<1>5. {total, reachable, arrived, read} \subseteq Nat /\ arrived <= reachable /\ reachable <= total
  BY <1>0 DEF IInv, StreamInv
<1>6. f \in Frame /\ f.from = total /\ f.length = shape.length
  BY <1>0, <1>4, <1>5 DEF Frame
<1>7. total' \in Nat /\ total <= total' /\ total' = f.from + HeaderBytes + f.length
  BY <1>0, <1>1, <1>3, <1>4, <1>5, <1>6
<1>8. /\ sent' \in Seq(Frame) /\ Len(sent') = n + 1
      /\ \A i \in 1..n : sent'[i] = sent[i]
      /\ sent'[n + 1] = f
  BY <1>0, <1>1, <1>6, AppendProperties DEF IInv, StreamInv
<1>9. \A i \in 1..n : After(i)' = After(i) /\ After(i) \in Nat /\ After(i) <= total
  <2> SUFFICES ASSUME NEW i \in 1..n PROVE After(i)' = After(i) /\ After(i) \in Nat /\ After(i) <= total
    OBVIOUS
  <2>1. After(i) \in Nat
    <3>1. i \in 1..Len(sent)
      BY <1>0
    <3> QED
      BY <3>1, SentFields DEF IInv
  <2>2. After(i) <= total
    BY <1>0 DEF IInv, StreamInv
  <2> QED
    BY <1>0, <1>8, <2>1, <2>2 DEF After
<1>10. After(n + 1)' = total'
  BY <1>0, <1>7, <1>8 DEF After
<1>11. \A k \in 0..n : Boundary(k)' = Boundary(k)
  <2> SUFFICES ASSUME NEW k \in 0..n PROVE Boundary(k)' = Boundary(k)
    OBVIOUS
  <2>1. CASE k = n
    BY <1>0, <1>6, <1>8, <2>1 DEF Boundary
  <2>2. CASE k # n
    <3>1. k + 1 \in 1..n /\ k # n + 1
      BY <1>0, <2>2
    <3> QED
      BY <1>0, <1>8, <2>2, <3>1 DEF Boundary
  <2> QED
    BY <1>0, <2>1, <2>2
<1>12. Boundary(n + 1)' = total'
  BY <1>0, <1>8 DEF Boundary
<1>13. StreamInv'
  <2>1. {total, reachable, arrived, read}' \subseteq Nat /\ arrived' <= reachable' /\ reachable' <= total'
    BY <1>0, <1>2, <1>5, <1>7
  <2>2. Boundary(0)' = 0
    BY <1>0, <1>11 DEF IInv, StreamInv
  <2>3. \A i \in 1..(n + 1) : Boundary(i)' = After(i)' /\ After(i)' <= total'
    <3> SUFFICES ASSUME NEW i \in 1..(n + 1) PROVE Boundary(i)' = After(i)' /\ After(i)' <= total'
      OBVIOUS
    <3>1. CASE i = n + 1
      BY <1>0, <1>7, <1>10, <1>12, <3>1
    <3>2. CASE i # n + 1
      <4>1. i \in 1..n /\ i \in 0..n
        BY <1>0, <3>2
      <4>2. Boundary(i) = After(i)
        BY <1>0, <4>1 DEF IInv, StreamInv
      <4>3. After(i)' = After(i) /\ After(i) \in Nat /\ After(i) <= total /\ Boundary(i)' = Boundary(i)
        BY <1>0, <1>9, <1>11, <4>1
      <4> QED
        BY <1>0, <1>5, <1>7, <4>2, <4>3
    <3> QED
      BY <1>0, <3>1, <3>2
  <2>4. \A i, j \in 1..(n + 1) : i < j => After(i)' <= sent'[j].from
    <3> SUFFICES ASSUME NEW i \in 1..(n + 1), NEW j \in 1..(n + 1), i < j
                 PROVE  After(i)' <= sent'[j].from
      OBVIOUS
    <3>1. i \in 1..n
      BY <1>0
    <3>2. CASE j = n + 1
      BY <1>0, <1>6, <1>8, <1>9, <3>1, <3>2
    <3>3. CASE j # n + 1
      <4>1. j \in 1..n
        BY <1>0, <3>3
      <4>2. After(i) <= sent[j].from
        BY <1>0, <3>1, <4>1 DEF IInv, StreamInv
      <4>3. After(i)' = After(i) /\ sent'[j] = sent[j]
        BY <1>0, <1>8, <1>9, <3>1, <4>1
      <4> QED
        BY <1>0, <4>2, <4>3
    <3> QED
      BY <1>0, <3>2, <3>3
  <2> QED
    BY <1>0, <1>8, <2>1, <2>2, <2>3, <2>4 DEF StreamInv
<1>14. PrefixInv'
  <2>1. \A i \in 1..Len(delivered) : i \in 1..n /\ delivered[i] = sent[i]
    BY <1>0 DEF IInv, PrefixInv
  <2>2. Len(delivered) <= n + 1
    BY <1>0
  <2> QED
    BY <1>0, <1>2, <1>8, <2>1, <2>2 DEF IInv, PrefixInv
<1>15. Boundary(Len(delivered))' = Boundary(Len(delivered))
  BY <1>0, <1>2, <1>11
<1>16. ReaderInv'
  <2>1. reader.at \in {"header", "payload"}
    BY DEF IInv, ReaderInv
  <2>2. outcome = "open" /\ reader.at = "header" => read = Boundary(Len(delivered))
    BY DEF IInv, ReaderInv
  <2>3. ASSUME outcome = "open", reader.at = "payload"
        PROVE  Len(delivered) < n + 1 /\ reader.frame = sent'[Len(delivered) + 1]
                 /\ read = reader.frame.from + HeaderBytes
    <3>1. Len(delivered) < n /\ reader.frame = sent[Len(delivered) + 1]
            /\ read = reader.frame.from + HeaderBytes
      BY <1>0, <2>3 DEF IInv, ReaderInv
    <3>2. Len(delivered) + 1 \in 1..n
      BY <1>0, <3>1
    <3> QED
      BY <1>0, <1>8, <3>1, <3>2
  <2> QED
    BY <1>0, <1>2, <1>8, <1>15, <2>1, <2>2, <2>3 DEF ReaderInv
<1>17. EndInv'
  BY <1>0, <1>1, <1>2 DEF IInv, EndInv
<1>18. ChannelStep
  <2>1. SubSeq(sent', 1, n) = sent
    <3>1. sent' \in Seq(Frame) /\ sent \in Seq(Frame) /\ Len(sent) <= Len(sent')
      BY <1>0, <1>8 DEF IInv, StreamInv
    <3>2. \A i \in 1..Len(sent) : sent[i] = sent'[i]
      BY <1>0, <1>8
    <3> QED
      BY <1>0, <3>1, <3>2, PrefixIsSubSeq
  <2>2. sent'[Len(sent')] \in Frame
    BY <1>0, <1>6, <1>8
  <2>3. UNCHANGED <<delivered, outcome # "open">>
    BY <1>0, <1>2
  <2>4. Channel!Put
    BY <1>0, <1>8, <2>1, <2>2, <2>3 DEF Channel!Put
  <2> QED
    BY <1>0, <2>4 DEF ChannelStep, Channel!Next
<1> QED
  BY <1>0, <1>13, <1>14, <1>16, <1>17, <1>18 DEF IInv

\* Bytes arrive, or the peer goes.
LEMMA StreamStep ==
  ASSUME IInv, HangsUp \/ Arrives
  PROVE  IInv' /\ ChannelStep
<1>1. UNCHANGED <<sent, total, read, reader, delivered, outcome>>
  BY DEF HangsUp, Arrives, peerVars, readerVars
<1>2. {total, reachable, arrived, read} \subseteq Nat /\ arrived <= reachable /\ reachable <= total
  BY DEF IInv, StreamInv
<1>3. /\ reachable' \in Nat /\ arrived' \in Nat
      /\ arrived' <= reachable' /\ reachable' <= total'
  <2>1. CASE HangsUp
    <3>1. reachable' \in arrived..reachable /\ arrived' = arrived /\ total' = total
      BY <2>1 DEF HangsUp
    <3> QED
      BY <1>2, <3>1
  <2>2. CASE Arrives
    <3>1. arrived' \in (arrived + 1)..reachable /\ reachable' = reachable /\ total' = total
      BY <2>2 DEF Arrives, peerVars
    <3> QED
      BY <1>2, <3>1
  <2> QED
    BY <2>1, <2>2
<1>4. StreamInv'
  BY <1>1, <1>2, <1>3 DEF IInv, StreamInv, Boundary, After
<1>5. PrefixInv' /\ ReaderInv'
  BY <1>1 DEF IInv, PrefixInv, ReaderInv, Boundary
<1>6. EndInv'
  <2>1. ASSUME outcome = "disconnected" PROVE FALSE
    <3>1. ended /\ arrived = reachable
      BY <2>1 DEF IInv, EndInv
    <3>2. arrived' \in (arrived + 1)..reachable
      BY <3>1 DEF HangsUp, Arrives
    <3> QED
      BY <1>2, <3>1, <3>2
  <2> QED
    BY <1>1, <2>1 DEF EndInv
<1> QED
  BY <1>1, <1>4, <1>5, <1>6 DEF IInv, ChannelStep

\* A receive interrupted where it waits for a header has taken nothing.
LEMMA InterruptedStep ==
  ASSUME InterruptedAt \subseteq {"header"}, IInv, Interrupted
  PROVE  IInv' /\ ChannelStep
<1>1. UNCHANGED <<sent, total, reachable, ended, arrived, read, delivered, outcome>>
  BY DEF Interrupted, peerVars
<1>2. reader.at = "header" /\ reader' = AtHeader /\ outcome = "open"
  BY DEF Interrupted
<1>3. StreamInv' /\ PrefixInv' /\ EndInv'
  BY <1>1 DEF IInv, StreamInv, PrefixInv, EndInv, Boundary, After
<1>4. ReaderInv'
  BY <1>1, <1>2 DEF IInv, ReaderInv, Boundary, AtHeader
<1> QED
  BY <1>1, <1>3, <1>4 DEF IInv, ChannelStep

LEMMA InvNext ==
  ASSUME InterruptedAt \subseteq {"header"}, IInv, [Next]_vars
  PROVE  IInv' /\ ChannelStep
<1>1. CASE Sends
  BY <1>1, SendsStep
<1>2. CASE HangsUp \/ Arrives
  BY <1>2, StreamStep
<1>3. CASE Reads
  BY <1>3, ReadsStep
<1>4. CASE Interrupted
  BY <1>4, InterruptedStep
<1>5. CASE Feeds \/ Finishes \/ UNCHANGED vars
  <2>1. UNCHANGED <<sent, total, reachable, ended, arrived, read, reader, delivered, outcome>>
    BY <1>5 DEF Feeds, Finishes, vars, peerVars, readerVars
  <2> QED
    BY <2>1 DEF IInv, StreamInv, PrefixInv, ReaderInv, EndInv, Boundary, After, ChannelStep
<1> QED
  BY <1>1, <1>2, <1>3, <1>4, <1>5 DEF Next

LEMMA EndIsClean == IInv => CleanEndLosesNothing
<1> SUFFICES ASSUME IInv, outcome = "disconnected" PROVE CleanEndLosesNothing
  BY DEF CleanEndLosesNothing
<1> DEFINE n == Len(delivered)
<1>0. n \in Nat /\ Len(sent) \in Nat /\ n <= Len(sent) /\ DOMAIN sent = 1..Len(sent)
  BY LenProperties DEF IInv, PrefixInv, StreamInv
<1>1. read = reachable /\ read = Boundary(n)
  BY DEF IInv, EndInv
<1>2. read \in Nat /\ reachable \in Nat
  BY DEF IInv, StreamInv
<1>3. \A i \in 1..Len(sent) : i <= n => After(i) <= reachable
  BY <1>0, <1>1, BoundaryParts DEF IInv
<1>4. \A i \in 1..Len(sent) : ~(i <= n) => reachable <= sent[i].from
  BY <1>0, <1>1, BoundaryParts DEF IInv
<1>5. \A i \in 1..Len(sent) : sent[i].from < After(i) /\ sent[i].from \in Nat /\ After(i) \in Nat
  BY SentFields DEF IInv
<1>6. \A i \in DOMAIN sent : After(i) <= reachable => i <= n
  BY <1>0, <1>2, <1>4, <1>5
<1>7. \A i \in DOMAIN sent : ~(sent[i].from < reachable /\ reachable < After(i))
  BY <1>0, <1>2, <1>3, <1>4, <1>5
<1> QED
  BY <1>1, <1>6, <1>7 DEF CleanEndLosesNothing
-----------------------------------------------------------------------------
(* What the decoder makes of a chunk *)

\* A set of naturals that is not empty has a least element.
LEMMA LeastNat ==
  ASSUME NEW T, T \subseteq Nat, T # {}
  PROVE  \E x \in T : \A y \in T : x <= y
<1> DEFINE R == {ss \in Nat \X Nat : ss[1] < ss[2]}
<1>1. IsWellFoundedOn(R, Nat)
  BY NatLessThanWellFounded DEF OpToRel
<1> HIDE DEF R
<1>2. PICK x \in T : \A y \in T : ~(<<y, x>> \in R)
  BY <1>1, WFMin
<1>3. ASSUME NEW y \in T PROVE x <= y
  <2>1. x \in Nat /\ y \in Nat
    OBVIOUS
  <2>2. ~(y < x)
    BY <1>2, <2>1 DEF R
  <2> QED
    BY <2>1, <2>2
<1> QED
  BY <1>3

Nothing == [frames |-> <<>>, error |-> FALSE]
Refusal == [frames |-> <<>>, error |-> TRUE]

\* The header at q, where it ends with its payload, and what the scan of Frames
\* finds from q on if it finds f from there.
Seen(q) == CHOOSE g \in HeaderAt(q) : TRUE
Behind(q) == q + HeaderBytes + Seen(q).length
Scanned(f, q, end) ==
    IF end - q < HeaderBytes THEN Nothing
    ELSE IF Bad(Seen(q)) THEN Refusal
    ELSE IF Behind(q) > end THEN Nothing
    ELSE [f[Behind(q)] EXCEPT !.frames = <<Seen(q)>> \o @]

LEMMA FramesIsScan ==
  ASSUME NEW p, NEW end
  PROVE  Frames(p, end) = (CHOOSE f : f = [q \in 0..(end + 1) |-> Scanned(f, q, end)])[p]
BY DEF Frames, Scanned, Seen, Behind, Nothing, Refusal

LEMMA SeenHasLength ==
  ASSUME sent \in Seq(Frame), NEW q \in Nat
  PROVE  Seen(q).length \in Nat /\ Behind(q) \in Nat /\ q < Behind(q)
<1>0. MaxPayload \in Nat /\ HeaderBytes \in Nat \ {0}
  BY FramingAssumption
<1>1. Seen(q) \in HeaderAt(q)
  <2>1. CASE \E i \in DOMAIN sent : sent[i].from = q
    BY <2>1 DEF HeaderAt, Seen
  <2>2. CASE ~\E i \in DOMAIN sent : sent[i].from = q
    <3>1. [type |-> "valid", length |-> 0, from |-> q] \in HeaderAt(q)
      BY <1>0, <2>2 DEF HeaderAt
    <3> QED
      BY <3>1 DEF Seen
  <2> QED
    BY <2>1, <2>2
<1>2. HeaderAt(q) \subseteq [type : {"valid", "unknown", "invalid"}, length : Nat, from : Nat]
  <2>1. \A i \in DOMAIN sent : sent[i] \in Frame
    BY ElementOfSeq, LenProperties
  <2> QED
    BY <1>0, <2>1 DEF HeaderAt, Frame
<1>3. Seen(q).length \in Nat
  BY <1>1, <1>2
<1> QED
  BY <1>0, <1>3 DEF Behind

\* The scan of Frames is defined: from the last byte back, each position only
\* asks for what is found behind it.
LEMMA ScanExists ==
  ASSUME sent \in Seq(Frame), NEW end \in Nat
  PROVE  \E f : f = [q \in 0..(end + 1) |-> Scanned(f, q, end)]
<1> DEFINE Part(g, m) == g = [q \in (end + 1 - m)..(end + 1) |-> Scanned(g, q, end)]
<1> DEFINE T == {m \in 0..(end + 1) : \E g : Part(g, m)}
<1>0. HeaderBytes \in Nat \ {0}
  BY FramingAssumption
<1>1. 0 \in T
  <2> DEFINE g == [q \in (end + 1 - 0)..(end + 1) |-> Nothing]
  <2>1. \A q \in (end + 1 - 0)..(end + 1) : Scanned(g, q, end) = Nothing
    BY <1>0 DEF Scanned
  <2>2. g = [q \in (end + 1 - 0)..(end + 1) |-> Scanned(g, q, end)]
    BY <2>1
  <2> HIDE DEF g
  <2>3. Part(g, 0) /\ 0 \in 0..(end + 1)
    BY <2>2
  <2> HIDE DEF Part
  <2> QED
    BY <2>3
<1>2. ASSUME NEW m \in 0..end, m \in T PROVE m + 1 \in T
  <2>1. PICK g : Part(g, m)
    BY <1>2
  <2> DEFINE low == end - m
  <2> DEFINE h == [q \in low..(end + 1) |-> IF q = low THEN Scanned(g, q, end) ELSE g[q]]
  <2>2. low \in 0..end /\ end + 1 - m = low + 1 /\ end + 1 - (m + 1) = low
    OBVIOUS
  <2>3. g = [q \in (low + 1)..(end + 1) |-> Scanned(g, q, end)]
    BY <2>1, <2>2
  <2>4. ASSUME NEW q \in low..(end + 1) PROVE Scanned(h, q, end) = Scanned(g, q, end)
    <3>1. q \in Nat
      BY <2>2
    <3>2. Behind(q) \in Nat /\ q < Behind(q)
      BY <3>1, SeenHasLength
    <3>3. ASSUME ~(Behind(q) > end) PROVE h[Behind(q)] = g[Behind(q)]
      <4>1. Behind(q) \in low..(end + 1) /\ Behind(q) # low
        BY <2>2, <3>1, <3>2, <3>3
      <4> QED
        BY <4>1
    <3> HIDE DEF h
    <3> QED
      BY <3>3 DEF Scanned
  <2>5. \A q \in low..(end + 1) : h[q] = Scanned(g, q, end)
    <3> SUFFICES ASSUME NEW q \in low..(end + 1) PROVE h[q] = Scanned(g, q, end)
      OBVIOUS
    <3>1. CASE q = low
      BY <3>1
    <3>2. CASE q # low
      <4>1. q \in (low + 1)..(end + 1)
        BY <2>2, <3>2
      <4>2. g[q] = Scanned(g, q, end)
        BY <2>3, <4>1
      <4> QED
        BY <3>2, <4>2
    <3> QED
      BY <3>1, <3>2
  <2>6. h = [q \in low..(end + 1) |-> h[q]]
    OBVIOUS
  <2> HIDE DEF h
  <2>7. h = [q \in low..(end + 1) |-> Scanned(h, q, end)]
    BY <2>4, <2>5, <2>6
  <2> HIDE DEF low
  <2>8. Part(h, m + 1)
    BY <2>2, <2>7
  <2>9. m + 1 \in 0..(end + 1)
    OBVIOUS
  <2> QED
    BY <2>8, <2>9
<1> HIDE DEF Part
<1>3. T = 0..(end + 1)
  <2> SUFFICES ASSUME (0..(end + 1)) \ T # {} PROVE FALSE
    OBVIOUS
  <2>1. (0..(end + 1)) \ T \subseteq Nat
    OBVIOUS
  <2>2. PICK k \in (0..(end + 1)) \ T : \A y \in (0..(end + 1)) \ T : k <= y
    BY <2>1, LeastNat
  <2> HIDE DEF T
  <2>3. k # 0
    BY <1>1, <2>2
  <2>4. k - 1 \in 0..end /\ k - 1 \in 0..(end + 1) /\ ~(k <= k - 1) /\ k - 1 + 1 = k
    BY <2>3
  <2>5. k - 1 \in T
    BY <2>2, <2>4
  <2> QED
    BY <1>2, <2>2, <2>4, <2>5
<1>4. end + 1 \in 0..(end + 1)
  OBVIOUS
<1>5. \A m \in T : \E g : Part(g, m)
  OBVIOUS
<1> HIDE DEF T
<1>6. PICK g : Part(g, end + 1)
  BY <1>3, <1>4, <1>5
<1>7. end + 1 - (end + 1) = 0
  OBVIOUS
<1> QED
  BY <1>6, <1>7 DEF Part

\* What is found from q on, in terms of what is found behind its frame.
LEMMA FramesFrom ==
  ASSUME sent \in Seq(Frame), NEW end \in Nat, NEW q \in 0..(end + 1)
  PROVE  /\ end - q < HeaderBytes => Frames(q, end) = Nothing
         /\ end - q >= HeaderBytes /\ Bad(Seen(q)) => Frames(q, end) = Refusal
         /\ end - q >= HeaderBytes /\ ~Bad(Seen(q)) /\ Behind(q) > end => Frames(q, end) = Nothing
         /\ end - q >= HeaderBytes /\ ~Bad(Seen(q)) /\ Behind(q) <= end =>
                Frames(q, end) = [Frames(Behind(q), end) EXCEPT !.frames = <<Seen(q)>> \o @]
<1> DEFINE f == CHOOSE g : g = [p \in 0..(end + 1) |-> Scanned(g, p, end)]
<1>1. f = [p \in 0..(end + 1) |-> Scanned(f, p, end)]
  BY ScanExists
<1>2. \A p : Frames(p, end) = f[p]
  BY FramesIsScan
<1> HIDE DEF f
<1>3. Frames(q, end) = Scanned(f, q, end)
  BY <1>1, <1>2
<1>4. q \in Nat /\ Behind(q) \in Nat /\ HeaderBytes \in Nat
  BY SeenHasLength, FramingAssumption
<1>5. f[Behind(q)] = Frames(Behind(q), end)
  BY <1>2
<1>6. end - q < HeaderBytes => Frames(q, end) = Nothing
  BY <1>3 DEF Scanned
<1>7. end - q >= HeaderBytes /\ Bad(Seen(q)) => Frames(q, end) = Refusal
  BY <1>3, <1>4 DEF Scanned
<1>8. end - q >= HeaderBytes /\ ~Bad(Seen(q)) /\ Behind(q) > end => Frames(q, end) = Nothing
  BY <1>3, <1>4 DEF Scanned
<1>9. ASSUME end - q >= HeaderBytes, ~Bad(Seen(q)), Behind(q) <= end
      PROVE  Frames(q, end) = [Frames(Behind(q), end) EXCEPT !.frames = <<Seen(q)>> \o @]
  <2>1. ~(end - q < HeaderBytes) /\ ~(Behind(q) > end)
    BY <1>4, <1>9
  <2>2. Frames(q, end) = [f[Behind(q)] EXCEPT !.frames = <<Seen(q)>> \o @]
    BY <1>3, <1>9, <2>1 DEF Scanned
  <2> QED
    BY <1>5, <2>2
<1> QED
  BY <1>6, <1>7, <1>8, <1>9
-----------------------------------------------------------------------------
(* The frames in a chunk *)

LEMMA SeenAtBoundary ==
  ASSUME StreamInv, NEW k \in 0..Len(sent), Boundary(k) < total
  PROVE  Seen(Boundary(k)) = sent[k + 1] /\ Behind(Boundary(k)) = After(k + 1)
<1>1. HeaderAt(Boundary(k)) = {sent[k + 1]} /\ Boundary(k) = sent[k + 1].from
  BY HeaderAtBoundary
<1>2. Seen(Boundary(k)) = sent[k + 1]
  BY <1>1 DEF Seen
<1> QED
  BY <1>1, <1>2 DEF Behind, After

\* The frame after the k-th is not there yet, as far as `end'.
Waits(k, end) ==
    k < Len(sent) /\ sent[k + 1].from + HeaderBytes <= end => ~Bad(sent[k + 1]) /\ end < After(k + 1)

\* Behind the k-th frame r has found those up to the m-th, and there it stopped,
\* for good or for now.
Found(k, m, end, r) ==
    /\ r.frames \in Seq(Frame) /\ Len(r.frames) = m - k
    /\ \A i \in 1..(m - k) : r.frames[i] = sent[k + i]
    /\ \A i \in (k + 1)..m : ~Bad(sent[i]) /\ After(i) <= end
    /\ r.error => m < Len(sent) /\ Bad(sent[m + 1]) /\ sent[m + 1].from + HeaderBytes <= end
    /\ ~r.error => Waits(m, end)

LEMMA BehindFirst ==
  ASSUME NEW m \in Nat, NEW k \in Nat, NEW i \in 1..(m - k), i # 1
  PROVE  ~(i <= 1) /\ i - 1 \in 1..(m - (k + 1)) /\ (k + 1) + (i - 1) = k + i
OBVIOUS

\* A frame found in front of what was found behind it.
LEMMA OneMore ==
  ASSUME StreamInv, NEW end \in Nat, NEW k \in 0..Len(sent), k < Len(sent), NEW m \in (k + 1)..Len(sent),
         NEW r \in [frames : Seq(Frame), error : BOOLEAN], Found(k + 1, m, end, r),
         ~Bad(sent[k + 1]), After(k + 1) <= end, NEW s, s = [r EXCEPT !.frames = <<sent[k + 1]>> \o @]
  PROVE  s \in [frames : Seq(Frame), error : BOOLEAN] /\ Found(k, m, end, s)
<1>0. Len(sent) \in Nat /\ k + 1 \in 1..Len(sent) /\ m \in Nat /\ k \in Nat
  BY LenProperties DEF StreamInv
<1>1. sent[k + 1] \in Frame
  BY <1>0, SentFields
<1>2. r.frames \in Seq(Frame) /\ Len(r.frames) = m - (k + 1)
  BY DEF Found
<1>3. s.frames = <<sent[k + 1]>> \o r.frames /\ s.error = r.error
  OBVIOUS
<1>4. <<sent[k + 1]>> \in Seq(Frame) /\ Len(<<sent[k + 1]>>) = 1 /\ <<sent[k + 1]>>[1] = sent[k + 1]
  BY <1>1
<1>5. /\ s.frames \in Seq(Frame) /\ Len(s.frames) = 1 + (m - (k + 1))
      /\ \A i \in 1..(1 + (m - (k + 1))) :
             s.frames[i] = IF i <= 1 THEN <<sent[k + 1]>>[i] ELSE r.frames[i - 1]
  BY <1>2, <1>3, <1>4, ConcatProperties
<1>6. ASSUME NEW i \in 1..(m - k) PROVE s.frames[i] = sent[k + i]
  <2>1. i \in 1..(1 + (m - (k + 1)))
    BY <1>0
  <2>2. CASE i = 1
    BY <1>4, <1>5, <2>1, <2>2
  <2>3. CASE i # 1
    <3>1. ~(i <= 1) /\ i - 1 \in 1..(m - (k + 1)) /\ (k + 1) + (i - 1) = k + i
      BY <1>0, <2>3, BehindFirst
    <3>2. r.frames[i - 1] = sent[(k + 1) + (i - 1)]
      BY <3>1 DEF Found
    <3> QED
      BY <1>5, <2>1, <3>1, <3>2
  <2> QED
    BY <2>2, <2>3
<1>7. ASSUME NEW i \in (k + 1)..m PROVE ~Bad(sent[i]) /\ After(i) <= end
  <2>1. i = k + 1 \/ i \in (k + 1 + 1)..m
    BY <1>0
  <2> QED
    BY <2>1 DEF Found
<1>8. s \in [frames : Seq(Frame), error : BOOLEAN]
  <2>1. ASSUME NEW q \in Seq(Frame)
        PROVE  [r EXCEPT !.frames = q] \in [frames : Seq(Frame), error : BOOLEAN]
    OBVIOUS
  <2>2. <<sent[k + 1]>> \o r.frames \in Seq(Frame)
    BY <1>3, <1>5
  <2> QED
    BY <2>1, <2>2
<1>9. 1 + (m - (k + 1)) = m - k
  BY <1>0
<1>10. Found(k, m, end, s)
  BY <1>3, <1>5, <1>6, <1>7, <1>9 DEF Found
<1> QED
  BY <1>8, <1>10

\* From a boundary on, a chunk is taken apart into the frames that were sent:
\* those that are complete, up to one that is not or that is refused.
LEMMA FramesFound ==
  ASSUME StreamInv, NEW end \in Nat, end <= total, NEW k \in 0..Len(sent), Boundary(k) <= end
  PROVE  \E m \in k..Len(sent) : /\ Frames(Boundary(k), end) \in [frames : Seq(Frame), error : BOOLEAN]
                                 /\ Found(k, m, end, Frames(Boundary(k), end))
<1> DEFINE n == Len(sent)
<1> DEFINE r(x) == Frames(Boundary(x), end)
<1> DEFINE Ok(x) == Boundary(x) <= end =>
                      \E m \in x..n : r(x) \in [frames : Seq(Frame), error : BOOLEAN] /\ Found(x, m, end, r(x))
<1>0. n \in Nat /\ total \in Nat /\ HeaderBytes \in Nat \ {0} /\ sent \in Seq(Frame)
  BY LenProperties, FramingAssumption DEF StreamInv
<1>1. ASSUME NEW x \in 0..n, x < n => Ok(x + 1) PROVE Ok(x)
  <2> SUFFICES ASSUME Boundary(x) <= end
               PROVE  \E m \in x..n : r(x) \in [frames : Seq(Frame), error : BOOLEAN] /\ Found(x, m, end, r(x))
    OBVIOUS
  <2>0. Boundary(x) \in Nat /\ Boundary(x) \in 0..(end + 1) /\ x \in x..n /\ x \in Nat
    BY <1>0, BoundaryParts
  <2>1. CASE Boundary(x) = total
    <3>1. r(x) = Nothing
      <4>1. end - Boundary(x) < HeaderBytes
        BY <1>0, <2>0, <2>1
      <4> QED
        BY <1>0, <2>0, <4>1, FramesFrom
    <3>2. Waits(x, end)
      <4>1. ASSUME x < n PROVE sent[x + 1].from = total
        BY <1>0, <2>1, <4>1 DEF Boundary
      <4> QED
        BY <1>0, <4>1 DEF Waits
    <3> HIDE DEF r
    <3>3. r(x) \in [frames : Seq(Frame), error : BOOLEAN]
      BY <3>1 DEF Nothing
    <3>4. Found(x, x, end, r(x))
      <4>1. r(x).frames = <<>> /\ r(x).error = FALSE /\ <<>> \in Seq(Frame) /\ Len(<<>>) = 0
        BY <3>1 DEF Nothing
      <4>2. x - x = 0 /\ (x + 1)..x = {} /\ 1..0 = {}
        BY <2>0
      <4> QED
        BY <3>2, <4>1, <4>2 DEF Found
    <3> QED
      BY <2>0, <3>3, <3>4
  <2>2. CASE Boundary(x) # total
    <3>1. Boundary(x) < total
      BY <1>0, <2>0, <2>2
    <3>2. /\ x < n /\ x + 1 \in 1..n /\ Seen(Boundary(x)) = sent[x + 1]
          /\ Behind(Boundary(x)) = After(x + 1) /\ After(x + 1) = Boundary(x + 1)
          /\ Boundary(x) = sent[x + 1].from
      BY <3>1, HeaderAtBoundary, SeenAtBoundary
    <3>3. After(x + 1) \in Nat
      BY <3>2, SentFields
    <3>4. CASE ~Bad(sent[x + 1]) /\ After(x + 1) <= end /\ end - Boundary(x) >= HeaderBytes
      <4>1. r(x) = [r(x + 1) EXCEPT !.frames = <<sent[x + 1]>> \o @]
        <5>1. ~Bad(Seen(Boundary(x))) /\ Behind(Boundary(x)) <= end
          BY <3>2, <3>4
        <5>2. Frames(Boundary(x), end) =
                  [Frames(Behind(Boundary(x)), end) EXCEPT !.frames = <<Seen(Boundary(x))>> \o @]
          BY <1>0, <2>0, <3>4, <5>1, FramesFrom
        <5> QED
          BY <3>2, <5>2
      <4>2. Ok(x + 1)
        BY <1>1, <3>2
      <4>3. Boundary(x + 1) <= end
        BY <3>2, <3>4
      <4>4. PICK m \in (x + 1)..n : /\ r(x + 1) \in [frames : Seq(Frame), error : BOOLEAN]
                                    /\ Found(x + 1, m, end, r(x + 1))
        BY <4>2, <4>3
      <4>5. m \in x..n
        BY <2>0
      <4> HIDE DEF r
      <4>6. r(x) \in [frames : Seq(Frame), error : BOOLEAN] /\ Found(x, m, end, r(x))
        BY <3>2, <3>4, <4>1, <4>4, OneMore
      <4> QED
        BY <4>5, <4>6
    <3>5. CASE ~(~Bad(sent[x + 1]) /\ After(x + 1) <= end /\ end - Boundary(x) >= HeaderBytes)
      <4>1. \/ r(x) = Nothing /\ Waits(x, end)
            \/ r(x) = Refusal /\ Bad(sent[x + 1]) /\ sent[x + 1].from + HeaderBytes <= end
        <5>1. CASE end - Boundary(x) < HeaderBytes
          <6>1. r(x) = Nothing
            BY <1>0, <2>0, <5>1, FramesFrom
          <6> QED
            BY <1>0, <2>0, <3>2, <5>1, <6>1 DEF Waits
        <5>2. CASE end - Boundary(x) >= HeaderBytes /\ Bad(sent[x + 1])
          <6>1. r(x) = Refusal
            BY <1>0, <2>0, <3>2, <5>2, FramesFrom
          <6> QED
            BY <1>0, <2>0, <3>2, <5>2, <6>1
        <5>3. CASE end - Boundary(x) >= HeaderBytes /\ ~Bad(sent[x + 1]) /\ After(x + 1) > end
          <6>1. r(x) = Nothing
            BY <1>0, <2>0, <3>2, <5>3, FramesFrom
          <6> QED
            BY <3>3, <5>3, <6>1 DEF Waits
        <5> QED
          BY <1>0, <2>0, <3>3, <3>5, <5>1, <5>2, <5>3
      <4> HIDE DEF r
      <4>2. Nothing \in [frames : Seq(Frame), error : BOOLEAN] /\ Refusal \in [frames : Seq(Frame), error : BOOLEAN]
        BY DEF Nothing, Refusal
      <4>3. r(x) \in [frames : Seq(Frame), error : BOOLEAN]
        BY <4>1, <4>2
      <4>4. r(x).frames = <<>> /\ <<>> \in Seq(Frame) /\ Len(<<>>) = 0
        BY <4>1 DEF Nothing, Refusal
      <4>5. /\ r(x).error => Bad(sent[x + 1]) /\ sent[x + 1].from + HeaderBytes <= end
            /\ ~r(x).error => Waits(x, end)
        BY <4>1 DEF Nothing, Refusal
      <4>6. x - x = 0 /\ (x + 1)..x = {} /\ 1..0 = {}
        BY <2>0
      <4>7. Found(x, x, end, r(x))
        BY <3>2, <4>4, <4>5, <4>6 DEF Found
      <4> QED
        BY <2>0, <4>3, <4>7
    <3> QED
      BY <3>4, <3>5
  <2> QED
    BY <2>1, <2>2
<1> HIDE DEF Ok
<1>2. \A x \in 0..n : Ok(x)
  <2> DEFINE T == {y \in 0..n : ~Ok(n - y)}
  <2>1. T = {}
    <3> SUFFICES ASSUME T # {} PROVE FALSE
      OBVIOUS
    <3>1. T \subseteq Nat
      OBVIOUS
    <3> HIDE DEF T
    <3>2. PICK y \in T : \A z \in T : y <= z
      BY <3>1, LeastNat
    <3>3. y \in 0..n /\ ~Ok(n - y)
      BY DEF T
    <3>4. n - y \in 0..n /\ (n - y < n => y - 1 \in 0..n /\ n - (y - 1) = n - y + 1 /\ ~(y <= y - 1))
      BY <1>0, <3>3
    <3>5. n - y < n => Ok(n - y + 1)
      <4> SUFFICES ASSUME n - y < n PROVE Ok(n - (y - 1))
        BY <3>4
      <4>1. y - 1 \notin T
        BY <3>2, <3>4
      <4> QED
        BY <3>4, <4>1 DEF T
    <3> QED
      BY <1>1, <3>3, <3>4, <3>5
  <2>2. ASSUME NEW x \in 0..n PROVE Ok(x)
    <3>1. n - x \in 0..n /\ n - (n - x) = x
      BY <1>0
    <3> QED
      BY <2>1, <3>1
  <2> QED
    BY <2>2
<1>3. Ok(k)
  BY <1>2
<1> QED
  BY <1>3 DEF Ok
-----------------------------------------------------------------------------
(* The decoder beside the reader *)

\* What was read had arrived, and a refusal of the reader has a frame that is
\* refused behind it.
RefusalInv ==
    /\ read <= arrived
    /\ outcome \in {"open", "disconnected", "incomplete", "unsupported", "too_large", "rejected"}
    /\ outcome \in {"unsupported", "too_large"} =>
           \E i \in 1..Len(sent) : Bad(sent[i]) /\ sent[i].from + HeaderBytes <= arrived

\* What has been decoded is the beginning of what was sent, and the next frame
\* is not complete in the buffer.
DecoderInv ==
    /\ fed \in Nat /\ fed <= arrived
    /\ decoded \in Seq(Frame) /\ Len(decoded) <= Len(sent)
    /\ \A i \in 1..Len(decoded) : decoded[i] = sent[i] /\ ~Bad(sent[i]) /\ After(i) <= fed
    /\ verdict \in {"open", "disconnected", "incomplete", "error"}
    /\ verdict = "open" => first = Boundary(Len(decoded)) /\ Waits(Len(decoded), fed)
    /\ verdict = "disconnected" => ended /\ fed = reachable /\ Boundary(Len(decoded)) = fed
    /\ verdict = "error" => \E i \in 1..Len(sent) : Bad(sent[i]) /\ sent[i].from + HeaderBytes <= fed

DInv == IInv /\ RefusalInv /\ DecoderInv

LEMMA DecoderInit == Init => RefusalInv /\ DecoderInv
<1> SUFFICES ASSUME Init PROVE RefusalInv /\ DecoderInv
  OBVIOUS
<1>1. sent = <<>> /\ decoded = <<>> /\ Len(<<>>) = 0 /\ <<>> \in Seq(Frame)
  BY DEF Init
<1>2. RefusalInv
  BY DEF Init, RefusalInv
<1>3. Boundary(0) = 0 /\ Waits(0, 0)
  BY <1>1 DEF Init, Boundary, Waits
<1> QED
  BY <1>1, <1>2, <1>3 DEF Init, DecoderInv

\* Only a header that has arrived is refused, and it is that of a frame.
LEMMA RefusalStep ==
  ASSUME IInv, RefusalInv, Reads
  PROVE  RefusalInv'
<1>0. UNCHANGED <<sent, arrived>> /\ outcome = "open" /\ arrived \in Nat /\ read \in Nat
  BY DEF Reads, ReadsHeader, ReadsPayload, EndsInHeader, EndsInPayload, peerVars, IInv, StreamInv
<1>1. CASE ReadsHeader
  <2>1. PICK h \in HeaderAt(read) :
       \/ /\ Bad(h)
          /\ outcome' = (IF h.type = "unknown" THEN "unsupported" ELSE "too_large")
          /\ read' = read + HeaderBytes
          /\ UNCHANGED <<reader, delivered>>
       \/ ~Bad(h) /\ arrived - read - HeaderBytes >= h.length /\ Take(h)
       \/ /\ ~Bad(h) /\ arrived - read - HeaderBytes < h.length
          /\ read' = read + HeaderBytes
          /\ reader' = [at |-> "payload", frame |-> h]
          /\ UNCHANGED <<delivered, outcome>>
    BY <1>1 DEF ReadsHeader
  <2>2. reader.at = "header" /\ arrived - read >= HeaderBytes
    BY <1>1 DEF ReadsHeader
  <2>3. arrived \in Nat /\ read \in Nat /\ HeaderBytes \in Nat \ {0}
    BY FramingAssumption DEF IInv, StreamInv
  <2>4. Len(delivered) < Len(sent) /\ h = sent[Len(delivered) + 1] /\ h.from = read
    <3>1. read = Boundary(Len(delivered)) /\ read < arrived
      BY <1>0, <2>2, <2>3 DEF IInv, ReaderInv
    <3> QED
      BY <3>1, HeaderIsNext DEF IInv
  <2>5. h.length \in Nat
    <3>1. Len(delivered) + 1 \in 1..Len(sent)
      BY <2>4, LenProperties DEF IInv, PrefixInv, StreamInv
    <3> QED
      BY <2>4, <3>1, SentFields DEF IInv
  <2>6. read' <= arrived'
    BY <1>0, <2>1, <2>2, <2>3, <2>4, <2>5 DEF Take
  <2>7. CASE Bad(h) /\ outcome' \in {"unsupported", "too_large"}
    <3>1. Len(delivered) + 1 \in 1..Len(sent)
      BY <2>4, LenProperties DEF IInv, PrefixInv, StreamInv
    <3>2. h.from + HeaderBytes <= arrived
      BY <2>2, <2>3, <2>4
    <3> QED
      BY <1>0, <2>7, <2>4, <2>6, <3>1, <3>2 DEF RefusalInv
  <2>8. CASE outcome' \in {"open", "rejected"}
    BY <2>8, <2>6 DEF RefusalInv
  <2> QED
    BY <1>0, <2>1, <2>7, <2>8 DEF Take
<1>2. CASE ReadsPayload \/ EndsInHeader \/ EndsInPayload
  <2>1. outcome' \in {"open", "rejected", "disconnected", "incomplete"}
    BY <1>0, <1>2 DEF ReadsPayload, EndsInHeader, EndsInPayload, Take
  <2>2. read' <= arrived'
    <3>1. CASE ReadsPayload
      <4>1. /\ Len(delivered) < Len(sent) /\ reader.frame = sent[Len(delivered) + 1]
            /\ read = reader.frame.from + HeaderBytes /\ arrived - read >= reader.frame.length
            /\ read' = reader.frame.from + HeaderBytes + reader.frame.length
        BY <3>1 DEF ReadsPayload, Take, IInv, ReaderInv
      <4>2. Len(delivered) + 1 \in 1..Len(sent)
        BY <4>1, LenProperties DEF IInv, PrefixInv, StreamInv
      <4>3. reader.frame.length \in Nat
        BY <4>1, <4>2, SentFields DEF IInv
      <4> QED
        BY <1>0, <4>1, <4>3
    <3>2. CASE EndsInHeader \/ EndsInPayload
      BY <1>0, <3>2 DEF EndsInHeader, EndsInPayload, RefusalInv
    <3> QED
      BY <1>2, <3>1, <3>2
  <2> QED
    BY <2>1, <2>2 DEF RefusalInv
<1> QED
  BY <1>1, <1>2 DEF Reads

\* A chunk is decoded.
LEMMA FeedsStep ==
  ASSUME DInv, Feeds
  PROVE  DecoderInv'
<1>0. UNCHANGED <<sent, total, reachable, ended, arrived>> /\ verdict = "open"
  BY DEF Feeds, peerVars
<1>1. PICK end \in (fed + 1)..arrived :
         LET found == Frames(first, end) IN
         /\ fed' = end
         /\ IF found.error
            THEN verdict' = "error" /\ first' = end /\ UNCHANGED decoded
            ELSE /\ decoded' = decoded \o found.frames
                 /\ first' = IF found.frames = <<>> THEN first
                             ELSE LET h == found.frames[Len(found.frames)]
                                  IN h.from + HeaderBytes + h.length
                 /\ UNCHANGED verdict
  BY DEF Feeds
<1> DEFINE k == Len(decoded)
<1> DEFINE r == Frames(first, end)
<1>2. /\ k \in Nat /\ Len(sent) \in Nat /\ k <= Len(sent) /\ k \in 0..Len(sent)
      /\ fed \in Nat /\ arrived \in Nat /\ arrived <= total /\ total \in Nat
      /\ end \in Nat /\ fed < end /\ end <= arrived /\ end <= total
  <2>1. k \in Nat /\ Len(sent) \in Nat /\ k <= Len(sent)
    BY LenProperties DEF DInv, DecoderInv, IInv, StreamInv
  <2>2. fed \in Nat /\ {arrived, reachable, total} \subseteq Nat /\ arrived <= reachable /\ reachable <= total
    BY DEF DInv, DecoderInv, IInv, StreamInv
  <2>3. end \in Nat /\ fed < end /\ end <= arrived /\ arrived <= total
    BY <2>2
  <2> QED
    BY <2>1, <2>2, <2>3
<1>3. first = Boundary(k) /\ Boundary(k) <= end
  <2>1. first = Boundary(k)
    BY <1>0 DEF DInv, DecoderInv
  <2>2. CASE k = 0
    <3>1. Boundary(k) = 0
      BY <2>2 DEF DInv, IInv, StreamInv
    <3> QED
      BY <1>2, <2>1, <3>1
  <2>3. CASE k # 0
    <3>1. k \in 1..k /\ k \in 1..Len(sent)
      BY <1>2, <2>3
    <3>2. Boundary(k) = After(k) /\ After(k) <= fed
      BY <3>1 DEF DInv, DecoderInv, IInv, StreamInv
    <3>3. After(k) \in Nat
      BY <3>1, SentFields DEF DInv, IInv
    <3> QED
      BY <1>2, <2>1, <3>2, <3>3
  <2> QED
    BY <2>1, <2>2, <2>3
<1>4. PICK m \in k..Len(sent) : r \in [frames : Seq(Frame), error : BOOLEAN] /\ Found(k, m, end, r)
  BY <1>2, <1>3, FramesFound DEF DInv, IInv
<1>5. fed' = end /\ IF r.error THEN verdict' = "error" /\ UNCHANGED decoded
                    ELSE /\ decoded' = decoded \o r.frames /\ UNCHANGED verdict
                         /\ first' = IF r.frames = <<>> THEN first
                                     ELSE LET h == r.frames[Len(r.frames)]
                                          IN h.from + HeaderBytes + h.length
  BY <1>1
<1> HIDE DEF r
<1>6. ASSUME NEW i \in 1..k
      PROVE  decoded[i] = sent[i] /\ ~Bad(sent[i]) /\ After(i) <= end /\ After(i) \in Nat
  <2>1. decoded[i] = sent[i] /\ ~Bad(sent[i]) /\ After(i) <= fed
    BY DEF DInv, DecoderInv
  <2>2. After(i) \in Nat
    BY <1>2, SentFields DEF DInv, IInv
  <2> QED
    BY <1>2, <2>1, <2>2
<1>7. CASE r.error
  <2>1. verdict' = "error" /\ decoded' = decoded
    BY <1>5, <1>7
  <2>2. m + 1 \in 1..Len(sent) /\ Bad(sent[m + 1]) /\ sent[m + 1].from + HeaderBytes <= end
    BY <1>2, <1>4, <1>7 DEF Found
  <2>3. \A i \in 1..k : After(i)' = After(i)
    BY <1>0 DEF After
  <2> QED
    BY <1>0, <1>2, <1>5, <1>6, <2>1, <2>2, <2>3 DEF DInv, DecoderInv
<1>8. CASE ~r.error
  <2>1. verdict' = "open" /\ decoded' = decoded \o r.frames
    BY <1>0, <1>5, <1>8
  <2>2. /\ r.frames \in Seq(Frame) /\ Len(r.frames) = m - k /\ m \in Nat
        /\ \A i \in 1..(m - k) : r.frames[i] = sent[k + i]
        /\ \A i \in (k + 1)..m : ~Bad(sent[i]) /\ After(i) <= end
        /\ Waits(m, end)
    BY <1>2, <1>4, <1>8 DEF Found
  <2>3. /\ decoded' \in Seq(Frame) /\ Len(decoded') = m
        /\ \A i \in 1..m : decoded'[i] = IF i <= k THEN decoded[i] ELSE r.frames[i - k]
    <3>1. decoded \in Seq(Frame) /\ k + (m - k) = m
      BY <1>2, <2>2 DEF DInv, DecoderInv
    <3> QED
      BY <2>1, <2>2, <3>1, ConcatProperties
  <2>4. ASSUME NEW i \in 1..m PROVE decoded'[i] = sent[i] /\ ~Bad(sent[i]) /\ After(i) <= end
    <3>1. CASE i <= k
      <4>1. i \in 1..k
        BY <1>2, <3>1
      <4> QED
        BY <1>6, <2>3, <3>1, <4>1
    <3>2. CASE ~(i <= k)
      <4>1. i - k \in 1..(m - k) /\ k + (i - k) = i /\ i \in (k + 1)..m
        BY <1>2, <2>2, <3>2
      <4>2. r.frames[i - k] = sent[i]
        BY <2>2, <4>1
      <4> QED
        BY <2>2, <2>3, <3>2, <4>1, <4>2
    <3> QED
      BY <3>1, <3>2
  <2>5. first' = Boundary(m)
    <3>1. CASE m = k
      <4>1. r.frames = <<>>
        BY <1>2, <2>2, <3>1, EmptySeq
      <4> QED
        BY <1>3, <1>5, <1>8, <3>1, <4>1
    <3>2. CASE m # k
      <4>1. m - k \in 1..(m - k) /\ k + (m - k) = m /\ m \in 1..Len(sent)
        BY <1>2, <1>4, <2>2, <3>2
      <4>2. r.frames # <<>> /\ r.frames[Len(r.frames)] = sent[m]
        BY <2>2, <4>1
      <4>3. first' = After(m)
        BY <1>5, <1>8, <4>2 DEF After
      <4> QED
        BY <4>1, <4>3 DEF DInv, IInv, StreamInv
    <3> QED
      BY <3>1, <3>2
  <2>6. /\ Boundary(m)' = Boundary(m) /\ Waits(m, end)' = Waits(m, end)
        /\ \A i \in 1..m : After(i)' = After(i)
    BY <1>0 DEF Boundary, Waits, After
  <2>7. m <= Len(sent')
    BY <1>0, <1>4
  <2>8. fed' \in Nat /\ fed' <= arrived'
    BY <1>0, <1>2, <1>5
  <2> HIDE DEF k
  <2>9. first' = Boundary(Len(decoded))' /\ Waits(Len(decoded), fed)'
    BY <1>0, <1>5, <2>2, <2>3, <2>5, <2>6 DEF Boundary, Waits, After
  <2> QED
    BY <1>0, <1>5, <2>1, <2>3, <2>4, <2>6, <2>7, <2>8, <2>9 DEF DecoderInv
<1> QED
  BY <1>7, <1>8

\* The other steps.
LEMMA DecoderKept ==
  ASSUME DInv, Sends \/ HangsUp \/ Arrives \/ Reads \/ Interrupted \/ Finishes \/ UNCHANGED vars
  PROVE  DecoderInv'
<1>1. CASE Sends
  <2>1. PICK shape \in Shapes :
           sent' = Append(sent, [type |-> shape.type, length |-> shape.length, from |-> total])
    BY <1>1 DEF Sends
  <2>2. UNCHANGED <<ended, arrived, fed, first, decoded, verdict>> /\ ~ended
    BY <1>1 DEF Sends, decoderVars
  <2> DEFINE f == [type |-> shape.type, length |-> shape.length, from |-> total]
  <2> DEFINE k == Len(decoded)
  <2>3. /\ Len(sent) \in Nat /\ k \in Nat /\ k <= Len(sent) /\ sent \in Seq(Frame) /\ total \in Nat
        /\ fed \in Nat /\ arrived \in Nat /\ fed <= arrived /\ arrived <= total /\ HeaderBytes \in Nat \ {0}
    <3>1. {total, reachable, arrived} \subseteq Nat /\ arrived <= reachable /\ reachable <= total
      BY DEF DInv, IInv, StreamInv
    <3> QED
      BY <3>1, LenProperties, FramingAssumption DEF DInv, DecoderInv, IInv, StreamInv
  <2>4. f \in Frame /\ f.from = total
    <3>1. shape \in Shape
      BY FramingAssumption
    <3>2. shape.type \in {"valid", "unknown", "invalid"} /\ shape.length \in Nat
      BY <3>1 DEF Shape
    <3> QED
      BY <2>3, <3>2 DEF Frame
  <2>5. /\ Len(sent') = Len(sent) + 1
        /\ \A i \in 1..Len(sent) : sent'[i] = sent[i]
        /\ sent'[Len(sent) + 1] = f
    BY <2>1, <2>3, <2>4, AppendProperties
  <2> HIDE DEF f
  <2>6. \A i \in 1..Len(sent) : i \in 1..Len(sent') /\ After(i)' = After(i)
    BY <2>3, <2>5 DEF After
  <2>7. Boundary(k)' = Boundary(k)
    <3>1. CASE k = Len(sent)
      BY <2>3, <2>4, <2>5, <3>1, <2>2 DEF Boundary
    <3>2. CASE k # Len(sent)
      <4>1. k + 1 \in 1..Len(sent) /\ k # Len(sent) + 1
        BY <2>3, <3>2
      <4> QED
        BY <2>2, <2>5, <3>2, <4>1 DEF Boundary
    <3> QED
      BY <3>1, <3>2
  <2>8. ASSUME Waits(k, fed) PROVE Waits(k, fed)'
    <3>1. CASE k = Len(sent)
      <4>1. ~(total + HeaderBytes <= fed)
        BY <2>3
      <4> QED
        BY <2>2, <2>4, <2>5, <3>1, <4>1 DEF Waits
    <3>2. CASE k # Len(sent)
      <4>1. k + 1 \in 1..Len(sent) /\ k < Len(sent)
        BY <2>3, <3>2
      <4> QED
        BY <2>2, <2>5, <2>6, <2>8, <4>1 DEF Waits
    <3> QED
      BY <3>1, <3>2
  <2>9. \A i \in 1..k : i \in 1..Len(sent)
    BY <2>3
  <2>10. k <= Len(sent')
    BY <2>3, <2>5
  <2>11. decoded' = decoded /\ Len(decoded)' = k /\ decoded \in Seq(Frame)
    BY <2>2 DEF DInv, DecoderInv
  <2>12. \A i \in 1..k : decoded'[i] = sent'[i] /\ ~Bad(sent'[i]) /\ After(i)' <= fed'
    BY <2>2, <2>5, <2>6, <2>9 DEF DInv, DecoderInv
  <2>13. verdict' = "open" => first' = Boundary(k)' /\ Waits(k, fed)'
    BY <2>2, <2>7, <2>8 DEF DInv, DecoderInv
  <2>14. verdict' # "disconnected"
    BY <2>2 DEF DInv, DecoderInv
  <2>15. verdict' = "error" => \E i \in 1..Len(sent') : Bad(sent'[i]) /\ sent'[i].from + HeaderBytes <= fed'
    BY <2>2, <2>5, <2>6 DEF DInv, DecoderInv
  <2>16. Boundary(Len(decoded))' = Boundary(k)' /\ Waits(Len(decoded), fed)' = Waits(k, fed)'
    BY <2>11 DEF Boundary, Waits, After
  <2>17. verdict' \in {"open", "disconnected", "incomplete", "error"} /\ fed' \in Nat /\ fed' <= arrived'
    BY <2>2 DEF DInv, DecoderInv
  <2> HIDE DEF k
  <2> QED
    BY <2>10, <2>11, <2>12, <2>13, <2>14, <2>15, <2>16, <2>17 DEF DecoderInv
<1>2. CASE HangsUp \/ Arrives \/ Reads \/ Interrupted \/ UNCHANGED vars
  <2>1. UNCHANGED <<sent, total, fed, first, decoded, verdict>>
    BY <1>2 DEF HangsUp, Arrives, Reads, ReadsHeader, ReadsPayload, EndsInHeader, EndsInPayload,
                Interrupted, vars, peerVars, decoderVars
  <2>2. arrived' \in Nat /\ arrived <= arrived'
    <3>1. arrived \in Nat /\ reachable \in Nat
      BY DEF DInv, IInv, StreamInv
    <3>2. arrived' = arrived \/ arrived' \in (arrived + 1)..reachable
      BY <1>2 DEF HangsUp, Arrives, Reads, ReadsHeader, ReadsPayload, EndsInHeader, EndsInPayload,
                  Interrupted, vars
    <3> QED
      BY <3>1, <3>2
  <2>3. fed \in Nat /\ arrived \in Nat /\ fed <= arrived
    BY DEF DInv, DecoderInv, IInv, StreamInv
  <2>4. fed' <= arrived'
    BY <2>1, <2>2, <2>3
  <2>5. ended => ended' /\ reachable' = reachable
    BY <1>2 DEF HangsUp, Arrives, Reads, ReadsHeader, ReadsPayload, EndsInHeader, EndsInPayload,
                Interrupted, vars, peerVars
  <2> QED
    BY <2>1, <2>4, <2>5 DEF DInv, DecoderInv, Boundary, Waits, After
<1>3. CASE Finishes
  <2>1. /\ UNCHANGED <<sent, total, reachable, ended, arrived, fed, decoded>>
        /\ verdict = "open" /\ Eof /\ fed = arrived
        /\ verdict' = IF first = fed THEN "disconnected" ELSE "incomplete"
    BY <1>3 DEF Finishes, peerVars
  <2>2. first = Boundary(Len(decoded))
    BY <2>1 DEF DInv, DecoderInv
  <2> QED
    BY <2>1, <2>2 DEF DInv, DecoderInv, Boundary, After, Eof
<1> QED
  BY <1>1, <1>2, <1>3

LEMMA RefusalKept ==
  ASSUME DInv, Sends \/ HangsUp \/ Arrives \/ Interrupted \/ Feeds \/ Finishes \/ UNCHANGED vars
  PROVE  RefusalInv'
<1>1. outcome' = outcome /\ read' = read
  BY DEF Sends, HangsUp, Arrives, Interrupted, Feeds, Finishes, vars, readerVars
<1>2. arrived \in Nat /\ read \in Nat /\ reachable \in Nat /\ Len(sent) \in Nat /\ HeaderBytes \in Nat
  BY LenProperties, FramingAssumption DEF DInv, IInv, StreamInv
<1>3. arrived' \in Nat /\ arrived <= arrived'
  <2>1. arrived' = arrived \/ arrived' \in (arrived + 1)..reachable
    BY DEF Sends, HangsUp, Arrives, Interrupted, Feeds, Finishes, vars
  <2> QED
    BY <1>2, <2>1
<1>4. \A i \in 1..Len(sent) : i \in 1..Len(sent') /\ sent'[i] = sent[i]
  <2>1. CASE Sends
    <3>1. PICK shape \in Shapes :
             sent' = Append(sent, [type |-> shape.type, length |-> shape.length, from |-> total])
      BY <2>1 DEF Sends
    <3>2. [type |-> shape.type, length |-> shape.length, from |-> total] \in Frame
      <4>1. shape \in Shape
        BY FramingAssumption
      <4>2. shape.type \in {"valid", "unknown", "invalid"} /\ shape.length \in Nat
        BY <4>1 DEF Shape
      <4>3. total \in Nat
        BY DEF DInv, IInv, StreamInv
      <4> QED
        BY <4>2, <4>3 DEF Frame
    <3>3. sent \in Seq(Frame)
      BY DEF DInv, IInv, StreamInv
    <3>4. Len(sent') = Len(sent) + 1 /\ \A i \in 1..Len(sent) : sent'[i] = sent[i]
      BY <3>1, <3>2, <3>3, AppendProperties
    <3> QED
      BY <1>2, <3>4
  <2>2. CASE ~Sends
    <3>1. sent' = sent
      BY <2>2 DEF HangsUp, Arrives, Interrupted, Feeds, Finishes, vars, peerVars
    <3> QED
      BY <3>1
  <2> QED
    BY <2>1, <2>2
<1>5. ASSUME NEW i \in 1..Len(sent), Bad(sent[i]), sent[i].from + HeaderBytes <= arrived
      PROVE  \E j \in 1..Len(sent') : Bad(sent'[j]) /\ sent'[j].from + HeaderBytes <= arrived'
  <2>1. sent[i].from \in Nat
    BY SentFields DEF DInv, IInv
  <2>2. sent[i].from + HeaderBytes <= arrived'
    BY <1>2, <1>3, <1>5, <2>1
  <2> QED
    BY <1>4, <1>5, <2>2
<1>6. read' <= arrived'
  BY <1>1, <1>2, <1>3 DEF DInv, RefusalInv
<1> QED
  BY <1>1, <1>5, <1>6 DEF DInv, RefusalInv

LEMMA DNext ==
  ASSUME InterruptedAt \subseteq {"header"}, DInv, [Next]_vars
  PROVE  DInv'
<1>1. IInv'
  BY InvNext DEF DInv
<1>2. RefusalInv'
  BY RefusalStep, RefusalKept DEF DInv, Next
<1>3. DecoderInv'
  BY FeedsStep, DecoderKept DEF Next
<1> QED
  BY <1>1, <1>2, <1>3 DEF DInv

\* The decoder and the reader have seen the same bytes.
LEMMA DecodedAgree == DInv => DecoderAgrees
<1> SUFFICES ASSUME DInv PROVE DecoderAgrees
  OBVIOUS
<1> DEFINE k == Len(decoded)
<1> DEFINE n == Len(delivered)
<1>0. /\ k \in Nat /\ k <= Len(sent) /\ n \in Nat /\ n <= Len(sent) /\ Len(sent) \in Nat
      /\ DOMAIN sent = 1..Len(sent) /\ DOMAIN decoded = 1..k
      /\ decoded \in Seq(Frame) /\ delivered \in Seq(Frame)
      /\ \A i \in 1..k : decoded[i] = sent[i] /\ ~Bad(sent[i]) /\ After(i) <= fed
      /\ \A i \in 1..n : delivered[i] = sent[i]
  BY LenProperties DEF DInv, DecoderInv, IInv, StreamInv, PrefixInv
<1>1. {fed, arrived, read, reachable} \subseteq Nat /\ HeaderBytes \in Nat \ {0}
  BY FramingAssumption DEF DInv, DecoderInv, IInv, StreamInv
<1>2. \A i \in 1..Len(sent) : /\ sent[i].from \in Nat /\ After(i) \in Nat
                              /\ sent[i].from + HeaderBytes <= After(i)
  <2> SUFFICES ASSUME NEW i \in 1..Len(sent)
               PROVE  /\ sent[i].from \in Nat /\ After(i) \in Nat
                      /\ sent[i].from + HeaderBytes <= After(i)
    OBVIOUS
  <2>1. sent[i].from \in Nat /\ sent[i].length \in Nat /\ After(i) \in Nat
    BY SentFields DEF DInv, IInv
  <2> QED
    BY <1>1, <2>1 DEF After
<1>3. \A i \in DOMAIN decoded : i <= Len(sent) /\ decoded[i] = sent[i]
  BY <1>0
<1>4. ASSUME verdict = "open", outcome = "open", fed = arrived, reader = AtHeader, arrived - read < HeaderBytes
      PROVE  decoded = delivered
  <2>1. read = Boundary(n)
    BY <1>4 DEF DInv, IInv, ReaderInv, AtHeader
  <2>2. ~(k < n)
    <3> SUFFICES ASSUME k < n PROVE FALSE
      OBVIOUS
    <3>1. k + 1 \in 1..Len(sent) /\ k + 1 <= n /\ n \in 0..Len(sent)
      BY <1>0
    <3>2. After(k + 1) <= read
      BY <2>1, <3>1, BoundaryParts DEF DInv, IInv
    <3>3. read <= arrived
      BY DEF DInv, RefusalInv
    <3>4. Waits(k, fed)
      BY <1>4 DEF DInv, DecoderInv
    <3> QED
      BY <1>0, <1>1, <1>2, <1>4, <3>1, <3>2, <3>3, <3>4 DEF Waits
  <2>3. ~(n < k)
    <3> SUFFICES ASSUME n < k PROVE FALSE
      OBVIOUS
    <3>1. n + 1 \in 1..Len(sent) /\ n + 1 \in 1..k /\ n # Len(sent)
      BY <1>0
    <3>2. read = sent[n + 1].from /\ After(n + 1) <= fed
      BY <1>0, <2>1, <3>1 DEF Boundary
    <3> QED
      BY <1>1, <1>2, <1>4, <3>1, <3>2
  <2>4. k = n
    BY <1>0, <2>2, <2>3
  <2> QED
    BY <1>0, <2>4, SeqEqual
<1>5. ASSUME verdict = "disconnected" PROVE outcome \notin {"unsupported", "too_large"}
  <2> SUFFICES ASSUME outcome \in {"unsupported", "too_large"} PROVE FALSE
    OBVIOUS
  <2>1. PICK i \in 1..Len(sent) : Bad(sent[i]) /\ sent[i].from + HeaderBytes <= arrived
    BY DEF DInv, RefusalInv
  <2>2. fed = reachable /\ arrived <= reachable /\ Boundary(k) = fed
    BY <1>5 DEF DInv, DecoderInv, IInv, StreamInv
  <2>3. CASE i <= k
    BY <1>0, <2>1, <2>3
  <2>4. CASE ~(i <= k)
    <3>1. Boundary(k) <= sent[i].from
      BY <1>0, <2>4, BoundaryParts DEF DInv, IInv
    <3> QED
      BY <1>1, <1>2, <2>1, <2>2, <3>1
  <2> QED
    BY <2>3, <2>4
<1>6. outcome \in {"open", "disconnected", "incomplete", "unsupported", "too_large", "rejected"}
  BY DEF DInv, RefusalInv
<1>7. verdict = "error" => \E i \in DOMAIN sent : Bad(sent[i]) /\ sent[i].from + HeaderBytes <= fed
  BY <1>0 DEF DInv, DecoderInv
<1> QED
  BY <1>3, <1>4, <1>5, <1>6, <1>7 DEF DecoderAgrees
-----------------------------------------------------------------------------
\* Where receives are cancelled between two frames only, they hand over what
\* was written, in order and without a gap, for frames of any shape and number
\* and however the stream cuts them up (_receive_raw_uds_event, _recv_json).
THEOREM FramesKept ==
  ASSUME InterruptedAt \subseteq {"header"}
  PROVE  Spec => ChannelSpec
<1>1. Init => Channel!Init
  BY DEF Init, Channel!Init
<1>2. IInv /\ [Next]_vars => IInv' /\ ChannelStep
  BY InvNext
<1>3. Init => IInv
  BY InvInit
<1> QED
  BY <1>1, <1>2, <1>3, PTL DEF Spec, ChannelSpec, Channel!Spec, ChannelStep

\* Where receives are cancelled between two frames only, an end taken for a
\* disconnect has lost no frame that could still arrive and cut none in two
\* (RawUdsClientDisconnected in _receive_raw_uds_event).
THEOREM CleanEnds ==
  ASSUME InterruptedAt \subseteq {"header"}
  PROVE  Spec => []CleanEndLosesNothing
<1>1. IInv /\ [Next]_vars => IInv'
  BY InvNext
<1> QED
  BY <1>1, InvInit, EndIsClean, PTL DEF Spec

\* Where receives are cancelled between two frames only, the incremental decoder
\* and the reader agree on the frames, however the stream is cut into arrivals
\* and chunks (RawUdsFrameDecoder.feed against _receive_raw_uds_event).
THEOREM DecodersAgree ==
  ASSUME InterruptedAt \subseteq {"header"}
  PROVE  Spec => []DecoderAgrees
<1>1. Init => DInv
  BY InvInit, DecoderInit DEF DInv
<1>2. DInv /\ [Next]_vars => DInv'
  BY DNext
<1> QED
  BY <1>1, <1>2, DecodedAgree, PTL DEF Spec
=============================================================================

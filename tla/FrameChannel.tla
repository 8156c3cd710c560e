---------------------------- MODULE FrameChannel ----------------------------
(* What framing over a byte stream promises: the receiver gets what the      *)
(* sender put in, in order, nothing twice and nothing made up, until the     *)
(* channel ends.                                                             *)
EXTENDS Naturals, Sequences

CONSTANT Frame

VARIABLES put, got, over

Init == put = <<>> /\ got = <<>> /\ over = FALSE

Put == /\ Len(put') = Len(put) + 1
       /\ SubSeq(put', 1, Len(put)) = put
       /\ put'[Len(put')] \in Frame
       /\ UNCHANGED <<got, over>>

Get == /\ ~over
       /\ \E n \in Len(got)..Len(put) : got' = SubSeq(put, 1, n)
       /\ UNCHANGED <<put, over>>

End == over' = TRUE /\ UNCHANGED <<put, got>>

Next == Put \/ Get \/ End

Spec == Init /\ [][Next]_<<put, got, over>>
=============================================================================

-------------------------- MODULE UtteranceLifecycle --------------------------
(***************************************************************************)
(* What one Local STT v1 connection promises its client, whatever the      *)
(* server does inside: utterances are opened one after the other, each is  *)
(* given transcripts of increasing revision and ends in at most one        *)
(* outcome, a final transcript or a cancellation, after which nothing more *)
(* is said about it.  (docs/local-stt-v1.md, "Connection Lifecycle".)      *)
(*                                                                         *)
(* The state is what the client has been told: utterance[s] for the s-th   *)
(* utterance opened.  Any revision above the last one may come next, so    *)
(* the transcript actions constrain utterance' and do not enumerate it.    *)
(***************************************************************************)
EXTENDS Naturals, Sequences

VARIABLE utterance

Phases == {"active", "final", "canceled"}

Init == utterance = << >>

(* The server answers `start' with `ready': the only active utterance. *)
Open ==
  /\ \A s \in DOMAIN utterance : utterance[s].phase # "active"
  /\ utterance' = Append(utterance, [phase |-> "active", rev |-> 0])

(* A transcript of the active utterance s that leaves it in the given phase. *)
Transcript(s, phase) ==
  /\ utterance[s].phase = "active"
  /\ utterance'[s].rev > utterance[s].rev
  /\ utterance' = [utterance EXCEPT ![s] = [phase |-> phase, rev |-> utterance'[s].rev]]

Partial(s) == Transcript(s, "active")

Final(s) == Transcript(s, "final")

(* The `stream_canceled' warning of the active utterance s. *)
Cancel(s) ==
  /\ utterance[s].phase = "active"
  /\ utterance' = [utterance EXCEPT ![s].phase = "canceled"]

Next ==
  \/ Open
  \/ \E s \in DOMAIN utterance : Partial(s) \/ Final(s) \/ Cancel(s)

Spec == Init /\ [][Next]_utterance
===============================================================================

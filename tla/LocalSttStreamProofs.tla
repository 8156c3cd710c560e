------------------------ MODULE LocalSttStreamProofs ------------------------
(***************************************************************************)
(* Theorems about LocalSttStream, for every value of its constants: its    *)
(* types, what a connection says of an utterance, and what audio and       *)
(* wake-ups it keeps.  OutcomeIsLast and                                   *)
(* RevisionsIncrease are not inductive: that the worker may queue a        *)
(* transcript depends on the flags, and those on where the handler is.     *)
(* ControlInv relates the handler, the tasks, the flags and the stream     *)
(* number; SpeechInv adds what the client has been or will be told.  A     *)
(* step of the worker is first reduced to whether it queues a transcript   *)
(* (WorkerStep).                                                           *)
(***************************************************************************)
EXTENDS LocalSttStream, SequenceTheorems, TLAPS

(***************************************************************************)
(* Type correctness.  The first lemmas say that each update the actions    *)
(* make to a record keeps its type.                                        *)
(***************************************************************************)

(* The methods of StreamRuntime leave flags. *)
LEMMA FlagsTyped ==
  ASSUME rt \in Flags
  PROVE  /\ {NoteAudio, RequestFinalize, RequestCancel, Close, Awake, Recheck} \subseteq Flags
         /\ [Awake EXCEPT !.dirty = FALSE] \in Flags
         /\ [rt EXCEPT !.audioUpdated = TRUE] \in Flags
         /\ \A flags \in Flags : [flags EXCEPT !.final = TRUE, !.closed = TRUE] \in Flags
  <1>1. NoteAudio \in Flags /\ RequestFinalize \in Flags /\ RequestCancel \in Flags
    BY DEF Flags, NoteAudio, RequestFinalize, RequestCancel
  <1>2. Close \in Flags /\ Awake \in Flags /\ [rt EXCEPT !.audioUpdated = TRUE] \in Flags
    BY DEF Flags, Close, Awake
  <1>3. Recheck \in Flags
    BY DEF Flags, Recheck
  <1>4. [Awake EXCEPT !.dirty = FALSE] \in Flags
    BY <1>2 DEF Flags
  <1>5. ASSUME NEW flags \in Flags PROVE [flags EXCEPT !.final = TRUE, !.closed = TRUE] \in Flags
    BY DEF Flags
  <1> QED
    BY <1>1, <1>2, <1>3, <1>4, <1>5

(* What the worker and stop_runtime make of the decoder is a decoder. *)
LEMMA DecoderTyped ==
  /\ {NoDecoder, NewDecoder} \subseteq Decoder
  /\ decoder \in Decoder /\ job \in Job =>
       {DropDecoder, CloseDecoder, Fed, [decoder EXCEPT !.ref = FALSE]} \subseteq Decoder
  <1>1. NoDecoder \in Decoder /\ NewDecoder \in Decoder
    <2>1. NoDecoder \in Decoder
      BY DEF NoDecoder, Decoder
    <2>2. ASSUME NEW d \in Decoder
          PROVE  [d EXCEPT !.ref = TRUE, !.state = "open"] \in Decoder
      BY DEF Decoder
    <2> QED
      BY <2>1, <2>2 DEF NewDecoder
  <1>2. ASSUME NEW d \in Decoder, NEW n \in Nat PROVE [d EXCEPT !.closes = n] \in Decoder
    BY DEF Decoder
  <1>3. ASSUME NEW d \in Decoder PROVE [d EXCEPT !.ref = FALSE] \in Decoder
    BY DEF Decoder
  <1>4. ASSUME NEW d \in Decoder PROVE [d EXCEPT !.state = "closed"] \in Decoder
    BY DEF Decoder
  <1>5. SUFFICES ASSUME decoder \in Decoder, job \in Job
                 PROVE  DropDecoder \in Decoder /\ CloseDecoder \in Decoder /\ Fed \in Decoder
    BY <1>1, <1>3
  <1>6. decoder.closes + 1 \in Nat /\ decoder.offset \in Int /\ decoder.fed \in Int
    BY <1>5 DEF Decoder
  <1>7. CloseDecoder = [[decoder EXCEPT !.state = "closed"] EXCEPT !.closes = decoder.closes + 1]
    BY <1>5 DEF CloseDecoder, Decoder
  <1>8. DropDecoder = [[[decoder EXCEPT !.ref = FALSE] EXCEPT !.state = "closed"]
                         EXCEPT !.closes = decoder.closes + 1]
    BY <1>5 DEF DropDecoder, Decoder
  <1>9. Fed \in Decoder
    <2>1. ASSUME NEW n \in Int PROVE [decoder EXCEPT !.offset = n] \in Decoder
      BY <1>5 DEF Decoder
    <2>2. ASSUME NEW d \in Decoder, NEW n \in Int PROVE [d EXCEPT !.fed = n] \in Decoder
      BY DEF Decoder
    <2>3. job.audio - job.lo \in Int
      BY <1>5 DEF Job
    <2>4. Fed = [[decoder EXCEPT !.offset = decoder.offset + (job.audio - job.lo)]
                   EXCEPT !.fed = decoder.fed + (job.audio - job.lo)]
      BY <1>5 DEF Fed, Decoder
    <2>5. decoder.offset + (job.audio - job.lo) \in Int /\ decoder.fed + (job.audio - job.lo) \in Int
      BY <1>6, <2>3
    <2> QED
      BY <2>1, <2>2, <2>4, <2>5
  <1> QED
    BY <1>2, <1>3, <1>4, <1>5, <1>6, <1>7, <1>8, <1>9

(* What the handler and the worker make of the session is a session. *)
LEMMA SessionTyped ==
  ASSUME session \in Session, job \in Job
  PROVE  /\ \A cfg \in StartConfigs : FreshSession(cfg) \in Session
         /\ DiscardAudio \in Session
         /\ \A size \in Nat : [session EXCEPT !.buffer = @ + size, !.chunks = @ + 1] \in Session
         /\ [session EXCEPT !.lastChunks = job.chunks, !.lastAudio = job.audio] \in Session
         /\ \A range \in AudioRange : RecordPartial(range) \in Session
         /\ \A s \in Session, text \in Texts \cup {NoText} : WithStability(s, text) \in Session
         /\ \A s \in Session : [s EXCEPT !.rev = @ + 1] \in Session
  <1>1. ASSUME NEW cfg \in StartConfigs PROVE FreshSession(cfg) \in Session
    BY DEF FreshSession, Session
  <1>2. DiscardAudio \in Session
    BY DEF DiscardAudio, Session
  <1>3. ASSUME NEW size \in Nat
        PROVE [session EXCEPT !.buffer = @ + size, !.chunks = @ + 1] \in Session
    <2>1. session.buffer + size \in Nat /\ session.chunks + 1 \in Nat
      BY DEF Session
    <2>2. ASSUME NEW m \in Nat, NEW n \in Nat
          PROVE  [session EXCEPT !.buffer = m, !.chunks = n] \in Session
      BY DEF Session
    <2> QED
      BY <2>1, <2>2
  <1>4. [session EXCEPT !.lastChunks = job.chunks, !.lastAudio = job.audio] \in Session
    BY DEF Session, Job
  <1>5. ASSUME NEW range \in AudioRange PROVE RecordPartial(range) \in Session
    <2>1. ASSUME NEW s \in Session
          PROVE  [s EXCEPT !.lastChunks = job.chunks, !.lastAudio = job.audio] \in Session
      BY DEF Session, Job
    <2>2. [session EXCEPT !.result = range] \in Session
      BY DEF Session
    <2>3. RecordPartial(range) = [[session EXCEPT !.result = range]
                                    EXCEPT !.lastChunks = job.chunks, !.lastAudio = job.audio]
      BY DEF RecordPartial
    <2> QED
      BY <2>1, <2>2, <2>3
  <1>6. ASSUME NEW s \in Session, NEW text \in Texts \cup {NoText}
        PROVE WithStability(s, text) \in Session
    <2>1. ASSUME NEW n \in Nat PROVE [s EXCEPT !.text = text, !.stable = n] \in Session
      BY DEF Session
    <2>2. ASSUME NEW n \in Nat PROVE [s EXCEPT !.stable = n] \in Session
      BY DEF Session
    <2>3. s.stable + 1 \in Nat
      BY DEF Session
    <2> QED
      BY <2>1, <2>2, <2>3 DEF WithStability
  <1>7. ASSUME NEW s \in Session PROVE [s EXCEPT !.rev = @ + 1] \in Session
    <2>1. s.rev + 1 \in Nat
      BY DEF Session
    <2>2. ASSUME NEW n \in Nat PROVE [s EXCEPT !.rev = n] \in Session
      BY DEF Session
    <2> QED
      BY <2>1, <2>2
  <1> QED
    BY <1>1, <1>2, <1>3, <1>4, <1>5, <1>6, <1>7

(* Beginning to stop. *)
LEMMA StopTyped ==
  ASSUME HandlerTypeOK, rt \in Flags, runtime' = runtime, streamId' = streamId,
         NEW why \in {"loop", "close", "disconnect", "error"}, BeginStop(why)
  PROVE  HandlerTypeOK' /\ rt' \in Flags
  <1>1. rt' \in Flags
    BY FlagsTyped DEF BeginStop
  <1>2. handler' = "stopWorker" /\ stopFor' = why /\ rx' \in Incoming
    BY DEF BeginStop, Incoming
  <1> QED
    BY <1>1, <1>2 DEF HandlerTypeOK

(* Queueing a transcript. *)
LEMMA EmitTyped ==
  ASSUME TypeOK, NEW why \in {"partial", "auto", "final"}, NEW s \in Session,
         NEW range \in AudioRange, NEW claimed \in Int, Emit(why, s, range, claimed)
  PROVE  queue' \in Seq(Event) /\ session' \in Session
  <1>1. s.rev + 1 \in Nat /\ s.buffer \in Nat /\ streamId \in Nat
    BY DEF Session, TypeOK, HandlerTypeOK
  <1>2. Transcript(why, streamId, s.rev + 1, range, claimed, s.buffer) \in Event
    BY <1>1 DEF Transcript, Event
  <1>3. session' \in Session
    BY SessionTyped DEF Emit, TypeOK, WorkTypeOK
  <1> QED
    BY <1>2, <1>3 DEF Emit, TypeOK, SendTypeOK

(* Ending an utterance by its final transcript, or without. *)
LEMMA FinishTyped ==
  ASSUME TypeOK, NEW flags \in Flags, NEW range \in AudioRange, NEW claimed \in Int,
         FinishUtterance(flags, range, claimed)
  PROVE  queue' \in Seq(Event) /\ session' \in Session /\ rt' \in Flags /\ worker' = "done"
  <1>1. CASE flags.cancel \/ flags.closed
    BY <1>1 DEF FinishUtterance, TypeOK, WorkTypeOK, SendTypeOK
  <1>2. CASE ~(flags.cancel \/ flags.closed)
    <2>1. Emit("final", session, range, claimed) /\ worker' = "done"
          /\ rt' = [flags EXCEPT !.final = TRUE, !.closed = TRUE]
      BY <1>2 DEF FinishUtterance
    <2>2. rt \in Flags /\ session \in Session
      BY DEF TypeOK, WorkTypeOK
    <2> QED
      BY <2>1, <2>2, EmitTyped, FlagsTyped
  <1> QED
    BY <1>1, <1>2

(* A received message has the fields of its type. *)
LEMMA GotTyped ==
  ASSUME TypeOK
  PROVE  /\ Got("start") => rx[1].cfg \in StartConfigs
         /\ Got("audio") => rx[1].size \in Nat
  <1>1. ASSUME Received # "nothing" PROVE rx[1] \in Message \cup {Gone}
    BY <1>1 DEF Received, TypeOK, HandlerTypeOK, Incoming
  <1>2. ASSUME Got("start") PROVE rx[1].cfg \in StartConfigs
    BY <1>1, <1>2 DEF Got, Received, Message, Gone
  <1>3. ASSUME Got("audio") PROVE rx[1].size \in Nat
    <2>1. rx[1].type = "audio" /\ Received # "nothing"
      BY <1>3 DEF Got, Received
    <2>2. rx[1].size \in ChunkSizes
      BY <1>1, <2>1 DEF Message, Gone
    <2> QED
      BY <2>2, ConstantsAssumption
  <1> QED
    BY <1>2, <1>3

(* The client is told of utterances in terms of phases and revisions. *)
LEMMA TellTyped ==
  ASSUME TypeOK, NEW e \in Event, Tell(e)
  PROVE  ToldTypeOK'
  <1>1. utterance \in Seq(Told) /\ pongs \in Nat
    BY DEF TypeOK, ToldTypeOK
  <1>2. ASSUME NEW i, NEW t, i \in DOMAIN utterance => t \in Told
        PROVE [utterance EXCEPT ![i] = t] \in Seq(Told)
    <2>1. CASE i \in DOMAIN utterance
      BY <1>1, <1>2, <2>1, ExceptSeq
    <2>2. CASE i \notin DOMAIN utterance
      <3>1. [utterance EXCEPT ![i] = t] = utterance
        BY <1>1, <2>2
      <3> QED
        BY <1>1, <3>1
    <2> QED
      BY <2>1, <2>2
  <1>3. CASE e.type = "transcript"
    <2>1. e.rev \in Nat
      BY <1>3 DEF Event
    <2>2. [phase |-> "active", rev |-> e.rev] \in Told /\ [phase |-> "final", rev |-> e.rev] \in Told
      BY <2>1 DEF Told
    <2> QED
      BY <1>1, <1>2, <1>3, <2>2 DEF Tell, ToldTypeOK
  <1>4. CASE e.type = "stream_canceled"
    <2>1. ASSUME e.stream \in DOMAIN utterance
          PROVE  [utterance[e.stream] EXCEPT !.phase = "canceled"] \in Told
      <3>1. utterance[e.stream] \in Told
        BY <1>1, <2>1, ElementOfSeq
      <3> QED
        BY <3>1 DEF Told
    <2>2. utterance' = [utterance EXCEPT ![e.stream].phase = "canceled"] /\ UNCHANGED pongs
      BY <1>4 DEF Tell
    <2> QED
      BY <1>1, <1>2, <2>1, <2>2 DEF ToldTypeOK
  <1>5. CASE e.type = "pong"
    BY <1>1, <1>5 DEF Tell, ToldTypeOK
  <1> QED
    BY <1>3, <1>4, <1>5 DEF Event

LEMMA WindowNat ==
  ASSUME session \in Session
  PROVE  session.cfg.window \in Nat
  BY ConstantsAssumption DEF Session

(* Variables that do not change keep their types. *)
LEMMA Frame ==
  ASSUME TypeOK
  PROVE  /\ inbox' = inbox => inbox' \in Incoming
         /\ UNCHANGED clientVars => ClientTypeOK'
         /\ UNCHANGED handlerVars => HandlerTypeOK'
         /\ UNCHANGED workVars => WorkTypeOK'
         /\ UNCHANGED sendVars => SendTypeOK'
         /\ UNCHANGED toldVars => ToldTypeOK'
  BY DEF TypeOK, ClientTypeOK, HandlerTypeOK, WorkTypeOK, SendTypeOK, ToldTypeOK,
         clientVars, handlerVars, workVars, sendVars, toldVars

(* Every step keeps the types, action by action. *)
LEMMA TypeStep ==
  ASSUME TypeOK, [Next]_vars
  PROVE  TypeOK'
  <1> USE DEF TypeOK
  <1>1. ASSUME NEW m \in Message, ClientSends(m) PROVE TypeOK'
    <2>1. inbox' \in Incoming
      BY <1>1 DEF ClientSends, Incoming
    <2>2. ViewAfter(m) \in ClientView
      <3>1. CASE m.type = "start"
        <4>1. m.cfg.maxBuffer \in Nat
          BY <1>1, <3>1, ConstantsAssumption DEF Message
        <4> QED
          BY <3>1, <4>1 DEF ViewAfter, ClientView
      <3>2. CASE m.type = "audio"
        <4>1. m.size \in ChunkSizes
          BY <1>1, <3>2 DEF Message
        <4>2. m.size \in Nat
          BY <4>1, ConstantsAssumption
        <4>3. view.audio + m.size \in Nat /\ view.room - m.size \in Int
          BY <4>2 DEF ClientTypeOK, ClientView
        <4>4. ASSUME NEW a \in Nat, NEW r \in Int
              PROVE  [view EXCEPT !.audio = a, !.room = r] \in ClientView
          BY DEF ClientTypeOK, ClientView
        <4> QED
          BY <3>2, <4>3, <4>4 DEF ViewAfter
      <3>3. CASE m.type \notin {"start", "audio"}
        <4>1. \A p \in {"ending", "closing"} : [view EXCEPT !.phase = p] \in ClientView
          BY DEF ClientTypeOK, ClientView
        <4>2. ViewAfter(m) \in {view, [view EXCEPT !.phase = "ending"],
                                [view EXCEPT !.phase = "closing"]}
          BY <3>3 DEF ViewAfter
        <4> QED
          BY <4>1, <4>2 DEF ClientTypeOK
      <3> QED
        BY <3>1, <3>2, <3>3
    <2>3. ClientTypeOK'
      BY <1>1, <2>2 DEF ClientSends, ClientTypeOK
    <2> QED
      BY <1>1, <2>1, <2>3, Frame DEF ClientSends
  <1>2. ASSUME ClientDrops PROVE TypeOK'
    <2>1. inbox' \in Incoming
      BY <1>2 DEF ClientDrops, Incoming
    <2>2. ClientTypeOK'
      BY <1>2 DEF ClientDrops, ClientTypeOK, clientVars
    <2> QED
      BY <1>2, <2>1, <2>2, Frame DEF ClientDrops
  <1>3. ASSUME ReceiveCompletes PROVE TypeOK'
    <2>1. inbox' \in Incoming
      BY <1>3 DEF ReceiveCompletes, Incoming
    <2>2. HandlerTypeOK'
      BY <1>3 DEF ReceiveCompletes, HandlerTypeOK, Incoming, handlerVars
    <2> QED
      BY <1>3, <2>1, <2>2, Frame DEF ReceiveCompletes
  <1>4. ASSUME WorkerEnded PROVE TypeOK'
    <2>1. HandlerTypeOK' /\ rt' \in Flags
      <3>1. CASE \E why \in {"loop", "close", "disconnect", "error"} : BeginStop(why)
        BY <1>4, <3>1, StopTyped DEF WorkerEnded, WorkTypeOK
      <3>2. CASE handler' = "joinAuto" /\ rx' = << >> /\ UNCHANGED <<stopFor, rt>>
        BY <1>4, <3>2 DEF WorkerEnded, HandlerTypeOK, WorkTypeOK, Incoming
      <3> QED
        BY <1>4, <3>1, <3>2 DEF WorkerEnded
    <2>2. WorkTypeOK'
      BY <1>4, <2>1 DEF WorkerEnded, WorkTypeOK
    <2> QED
      BY <1>4, <2>1, <2>2, Frame DEF WorkerEnded
  <1>5. ASSUME HandleRejected PROVE TypeOK'
    <2>1. HandlerTypeOK' /\ rt' \in Flags
      BY <1>5, StopTyped DEF HandleRejected, WorkTypeOK
    <2>2. WorkTypeOK'
      BY <1>5, <2>1 DEF HandleRejected, WorkTypeOK
    <2> QED
      BY <1>5, <2>1, <2>2, Frame DEF HandleRejected
  <1>6. ASSUME HandleLeaving PROVE TypeOK'
    <2>1. HandlerTypeOK' /\ rt' \in Flags
      BY <1>6, StopTyped DEF HandleLeaving, WorkTypeOK
    <2>2. WorkTypeOK'
      BY <1>6, <2>1 DEF HandleLeaving, WorkTypeOK
    <2> QED
      BY <1>6, <2>1, <2>2, Frame DEF HandleLeaving
  <1>7. ASSUME HandleStart PROVE TypeOK'
    <2>1. HandlerTypeOK'
      BY <1>7 DEF HandleStart, HandlerTypeOK, Incoming, handlerVars
    <2>2. WorkTypeOK'
      BY <1>7, SessionTyped, DecoderTyped, GotTyped DEF HandleStart, WorkTypeOK, FreshRuntime, Flags, workVars
    <2> QED
      BY <1>7, <2>1, <2>2, Frame DEF HandleStart
  <1>8. ASSUME OpenUtterance PROVE TypeOK'
    <2>1. decoder' \in Decoder
      BY <1>8, DecoderTyped DEF OpenUtterance
    <2>2. HandlerTypeOK' /\ rt' \in Flags
      <3>1. CASE handler' = "waiting" /\ UNCHANGED <<rx, stopFor, rt>>
        BY <1>8, <3>1 DEF OpenUtterance, HandlerTypeOK, WorkTypeOK
      <3>2. CASE BeginStop("disconnect")
        BY <1>8, <3>2, StopTyped DEF OpenUtterance, WorkTypeOK
      <3> QED
        BY <1>8, <3>1, <3>2 DEF OpenUtterance
    <2>3. WorkTypeOK' /\ SendTypeOK'
      BY <1>8, <2>1, <2>2 DEF OpenUtterance, WorkTypeOK, SendTypeOK
    <2>4. ToldTypeOK'
      <3>1. [phase |-> "active", rev |-> 0] \in Told
        BY DEF Told
      <3>2. Append(utterance, [phase |-> "active", rev |-> 0]) \in Seq(Told)
        BY <3>1 DEF ToldTypeOK
      <3> QED
        BY <1>8, <3>2 DEF OpenUtterance, ToldTypeOK
    <2>5. ClientTypeOK'
      <3>1. [view EXCEPT !.phase = "active"] \in ClientView
        BY DEF ClientTypeOK, ClientView
      <3> QED
        BY <1>8, <3>1 DEF OpenUtterance, ViewTold, SendRaises, ClientTypeOK
    <2> QED
      BY <1>8, <2>2, <2>3, <2>4, <2>5, Frame DEF OpenUtterance
  <1>9. ASSUME OpenFails PROVE TypeOK'
    <2>1. HandlerTypeOK' /\ rt' \in Flags
      BY <1>9, StopTyped DEF OpenFails, WorkTypeOK
    <2>2. WorkTypeOK'
      BY <1>9, <2>1 DEF OpenFails, WorkTypeOK
    <2> QED
      BY <1>9, <2>1, <2>2, Frame DEF OpenFails
  <1>10. ASSUME HandleAudio PROVE TypeOK'
    <2>1. HandlerTypeOK'
      BY <1>10 DEF HandleAudio, HandlerTypeOK, Incoming, handlerVars
    <2>2. WorkTypeOK'
      BY <1>10, SessionTyped, FlagsTyped, GotTyped DEF HandleAudio, WorkTypeOK, workVars
    <2> QED
      BY <1>10, <2>1, <2>2, Frame DEF HandleAudio
  <1>11. ASSUME HandleFinalize PROVE TypeOK'
    <2>1. HandlerTypeOK'
      BY <1>11 DEF HandleFinalize, HandlerTypeOK, Incoming, handlerVars
    <2>2. WorkTypeOK'
      BY <1>11, FlagsTyped DEF HandleFinalize, WorkTypeOK, workVars
    <2> QED
      BY <1>11, <2>1, <2>2, Frame DEF HandleFinalize
  <1>12. ASSUME HandleCancel PROVE TypeOK'
    <2>1. HandlerTypeOK'
      BY <1>12 DEF HandleCancel, HandlerTypeOK, Incoming, handlerVars
    <2>2. WorkTypeOK'
      BY <1>12, FlagsTyped, SessionTyped DEF HandleCancel, WorkTypeOK, workVars
    <2>3. SendTypeOK'
      BY <1>12 DEF HandleCancel, SendTypeOK, CancelWarning, Event, HandlerTypeOK, sendVars
    <2> QED
      BY <1>12, <2>1, <2>2, <2>3, Frame DEF HandleCancel
  <1>13. ASSUME QueuePong PROVE TypeOK'
    <2>1. HandlerTypeOK'
      BY <1>13 DEF QueuePong, HandlerTypeOK, Incoming, handlerVars
    <2>2. SendTypeOK'
      BY <1>13 DEF QueuePong, SendTypeOK, Pong, Event, sendVars
    <2> QED
      BY <1>13, <2>1, <2>2, Frame DEF QueuePong
  <1>14. ASSUME SendPong PROVE TypeOK'
    <2>1. HandlerTypeOK' /\ rt' \in Flags /\ pongs' \in Nat
      <3>1. CASE handler' = handler /\ stopFor' = stopFor /\ rx' = << >> /\ rt' = rt /\ pongs' = pongs + 1
        BY <1>14, <3>1 DEF SendPong, HandlerTypeOK, WorkTypeOK, ToldTypeOK, Incoming
      <3>2. CASE BeginStop("disconnect") /\ pongs' = pongs
        BY <1>14, <3>2, StopTyped DEF SendPong, WorkTypeOK, ToldTypeOK
      <3> QED
        BY <1>14, <3>1, <3>2 DEF SendPong
    <2>2. WorkTypeOK' /\ ToldTypeOK'
      BY <1>14, <2>1 DEF SendPong, WorkTypeOK, ToldTypeOK
    <2>3. ClientTypeOK'
      BY <1>14 DEF SendPong, SendRaises, ClientTypeOK
    <2> QED
      BY <1>14, <2>1, <2>2, <2>3, Frame DEF SendPong
  <1>15. ASSUME HandlePong PROVE TypeOK'
    <2>1. HandlerTypeOK'
      BY <1>15 DEF HandlePong, HandlerTypeOK, Incoming, handlerVars
    <2> QED
      BY <1>15, <2>1, Frame DEF HandlePong
  <1>16. ASSUME FinalizeDecoded PROVE TypeOK'
    <2>1. HandlerTypeOK' /\ rt' \in Flags
      <3>1. CASE \E why \in {"loop", "close", "disconnect", "error"} : BeginStop(why)
        BY <1>16, <3>1, StopTyped DEF FinalizeDecoded, WorkTypeOK
      <3>2. CASE handler' = "joinFinal" /\ UNCHANGED <<rx, stopFor, rt>>
        BY <1>16, <3>2 DEF FinalizeDecoded, HandlerTypeOK, WorkTypeOK, Incoming
      <3> QED
        BY <1>16, <3>1, <3>2 DEF FinalizeDecoded
    <2>2. WorkTypeOK'
      BY <1>16, <2>1 DEF FinalizeDecoded, WorkTypeOK
    <2> QED
      BY <1>16, <2>1, <2>2, Frame DEF FinalizeDecoded
  <1>17. ASSUME FinalizeJoined PROVE TypeOK'
    <2>1. CASE sender # "dead"
      <3>1. /\ handler' = "waiting" /\ runtime' = FALSE /\ rx' = rx /\ stopFor' = stopFor
            /\ streamId' = streamId /\ rt' = rt /\ worker' = "none"
            /\ sender' = "none" /\ queue' = << >>
        BY <1>17, <2>1 DEF FinalizeJoined
      <3>2. HandlerTypeOK' /\ SendTypeOK'
        <4>1. HandlerTypeOK'
          BY <3>1 DEF HandlerTypeOK
        <4>2. SendTypeOK'
          BY <3>1 DEF SendTypeOK
        <4> QED
          BY <4>1, <4>2
      <3>3. WorkTypeOK'
        BY <1>17, <3>1 DEF FinalizeJoined, WorkTypeOK
      <3> QED
        BY <1>17, <3>2, <3>3, Frame DEF FinalizeJoined
    <2>2. CASE sender = "dead"
      <3>1. BeginStop("disconnect") /\ UNCHANGED <<runtime, worker, sendVars>>
        BY <1>17, <2>2 DEF FinalizeJoined
      <3>2. HandlerTypeOK' /\ rt' \in Flags
        BY <1>17, <3>1, StopTyped DEF FinalizeJoined, WorkTypeOK
      <3>3. WorkTypeOK'
        BY <1>17, <3>1, <3>2 DEF FinalizeJoined, WorkTypeOK
      <3> QED
        BY <1>17, <3>1, <3>2, <3>3, Frame DEF FinalizeJoined
    <2> QED
      BY <2>1, <2>2
  <1>18. ASSUME JoinedThenStop PROVE TypeOK'
    <2>1. HandlerTypeOK' /\ rt' \in Flags
      BY <1>18, StopTyped DEF JoinedThenStop, WorkTypeOK
    <2>2. WorkTypeOK'
      BY <1>18, <2>1 DEF JoinedThenStop, WorkTypeOK
    <2> QED
      BY <1>18, <2>1, <2>2, Frame DEF JoinedThenStop
  <1>19. ASSUME StopWorker PROVE TypeOK'
    <2>1. HandlerTypeOK'
      BY <1>19 DEF StopWorker, HandlerTypeOK, handlerVars
    <2> QED
      BY <1>19, <2>1, Frame DEF StopWorker
  <1>20. ASSUME StopDecoder PROVE TypeOK'
    <2>1. HandlerTypeOK'
      BY <1>20 DEF StopDecoder, HandlerTypeOK, handlerVars
    <2>2. WorkTypeOK'
      BY <1>20, DecoderTyped DEF StopDecoder, WorkTypeOK, workVars
    <2> QED
      BY <1>20, <2>1, <2>2, Frame DEF StopDecoder
  <1>21. ASSUME StopDecoderFails PROVE TypeOK'
    <2>1. HandlerTypeOK' /\ rt' \in Flags
      <3>1. CASE BeginStop("error")
        BY <1>21, <3>1, StopTyped DEF StopDecoderFails, WorkTypeOK
      <3>2. CASE handler' = "done" /\ UNCHANGED <<rx, stopFor, rt>>
        BY <1>21, <3>2 DEF StopDecoderFails, HandlerTypeOK, WorkTypeOK
      <3> QED
        BY <1>21, <3>1, <3>2 DEF StopDecoderFails
    <2>2. WorkTypeOK'
      BY <1>21, <2>1, DecoderTyped DEF StopDecoderFails, WorkTypeOK
    <2> QED
      BY <1>21, <2>1, <2>2, Frame DEF StopDecoderFails
  <1>22. ASSUME StopSender PROVE TypeOK'
    <2>1. HandlerTypeOK'
      BY <1>22 DEF StopSender, HandlerTypeOK, handlerVars
    <2>2. WorkTypeOK'
      BY <1>22 DEF StopSender, WorkTypeOK, workVars
    <2>3. SendTypeOK'
      BY <1>22 DEF StopSender, SendTypeOK, sendVars
    <2> QED
      BY <1>22, <2>1, <2>2, <2>3, Frame DEF StopSender
  <1>23. ASSUME SenderDelivers PROVE TypeOK'
    <2>1. ClientTypeOK'
      BY <1>23 DEF SenderDelivers, ClientTypeOK, Tell, ViewTold, ClientView, clientVars
    <2>2. SendTypeOK'
      BY <1>23 DEF SenderDelivers, SendTypeOK, sendVars
    <2>3. ToldTypeOK'
      BY <1>23, TellTyped DEF SenderDelivers, ToldTypeOK, SendTypeOK, toldVars
    <2> QED
      BY <1>23, <2>1, <2>2, <2>3, Frame DEF SenderDelivers
  <1>24. ASSUME SenderDies PROVE TypeOK'
    <2>1. ClientTypeOK'
      BY <1>24 DEF SenderDies, ClientTypeOK, SendRaises, clientVars
    <2>2. SendTypeOK'
      BY <1>24 DEF SenderDies, SendTypeOK, sendVars
    <2> QED
      BY <1>24, <2>1, <2>2, Frame DEF SenderDies
  <1>25. ASSUME SenderExits PROVE TypeOK'
    <2>1. SendTypeOK'
      BY <1>25 DEF SenderExits, SendTypeOK, sendVars
    <2> QED
      BY <1>25, <2>1, Frame DEF SenderExits
  <1>26. ASSUME WorkerLeaves PROVE TypeOK'
    <2>1. WorkTypeOK'
      BY <1>26, FlagsTyped DEF WorkerLeaves, WorkTypeOK, workVars, workerFrame
    <2> QED
      BY <1>26, <2>1, Frame DEF WorkerLeaves, workerFrame, sendVars
  <1>27. ASSUME WorkerSkips PROVE TypeOK'
    <2>1. WorkTypeOK'
      BY <1>27, FlagsTyped DEF WorkerSkips, WorkTypeOK, workVars, workerFrame
    <2> QED
      BY <1>27, <2>1, Frame DEF WorkerSkips, workerFrame, sendVars
  <1>28. ASSUME WorkerStartsPartial PROVE TypeOK'
    <2>1. session.chunks \in Nat /\ session.buffer \in Nat /\ PartialStart \in Int
      BY WindowNat DEF PartialStart, WorkTypeOK, Session, Decoder
    <2>2. job' \in Job
      BY <1>28, <2>1 DEF WorkerStartsPartial, Job
    <2>3. WorkTypeOK'
      BY <1>28, <2>2, FlagsTyped DEF WorkerStartsPartial, WorkTypeOK
    <2> QED
      BY <1>28, <2>3, Frame DEF WorkerStartsPartial, workerFrame, sendVars
  <1>29. ASSUME WorkerStartsFinal PROVE TypeOK'
    <2>1. /\ session.chunks \in Nat /\ session.buffer \in Nat /\ decoder.offset \in Int
          /\ session.result \in AudioRange \cup {NoResult}
      BY DEF WorkTypeOK, Session, Decoder
    <2>2. job' \in Job
      BY <1>29, <2>1 DEF WorkerStartsFinal, Job
    <2>3. Awake \in Flags
      BY FlagsTyped DEF WorkTypeOK
    <2>4. CASE ~decoder.ref /\ CanReuseLastPartial
      <3>1. /\ FinishUtterance(Awake, session.result, session.buffer)
            /\ session.result \in AudioRange
        BY <1>29, <2>1, <2>4 DEF WorkerStartsFinal, CanReuseLastPartial
      <3>2. queue' \in Seq(Event) /\ session' \in Session /\ rt' \in Flags /\ worker' = "done"
        BY <2>1, <2>3, <3>1, FinishTyped
      <3> QED
        BY <1>29, <2>2, <3>2, Frame DEF WorkerStartsFinal, WorkTypeOK, SendTypeOK, workerFrame
    <2>5. CASE decoder.ref \/ ~CanReuseLastPartial
      <3>1. WorkTypeOK'
        BY <1>29, <2>2, <2>3, <2>5 DEF WorkerStartsFinal, WorkTypeOK
      <3> QED
        BY <1>29, <2>5, <3>1, Frame DEF WorkerStartsFinal, SendTypeOK, workerFrame
    <2> QED
      BY <2>4, <2>5
  <1>30. ASSUME PartialReturns PROVE TypeOK'
    <2> DEFINE covered == IF decoder.ref THEN [lo |-> 0, hi |-> Fed.fed]
                          ELSE [lo |-> job.lo, hi |-> job.audio]
    <2>1. Fed \in Decoder /\ job.lo \in Int /\ job.audio \in Int
      BY DecoderTyped DEF WorkTypeOK, Job
    <2>2. covered \in AudioRange /\ job.audio - job.lo \in Int
      BY <2>1 DEF AudioRange, Decoder
    <2>3. decoder' \in Decoder /\ job' = job
      BY <1>30, <2>1 DEF PartialReturns, WorkTypeOK
    <2>4. ASSUME NEW text \in Texts \cup {NoText}
          PROVE  WithStability(RecordPartial(covered), text) \in Session
      BY <2>2, SessionTyped DEF WorkTypeOK
    <2>5. /\ session' \in Session /\ queue' \in Seq(Event) /\ rt' \in Flags
          /\ worker' \in {"waiting", "done"}
      <3>1. CASE Abandoned
        BY <1>30, <3>1 DEF PartialReturns, WorkTypeOK, SendTypeOK
      <3>2. CASE ~Abandoned /\ decoder.ref /\ worker' = "waiting" /\ queue' = queue
                 /\ session' = [session EXCEPT !.lastChunks = job.chunks, !.lastAudio = job.audio]
                 /\ rt' = Recheck
        BY <3>2, SessionTyped, FlagsTyped DEF WorkTypeOK, SendTypeOK
      <3>3. CASE ~Abandoned /\ rt.finalize /\ worker' = "waiting" /\ queue' = queue
                 /\ session' \in {RecordPartial(covered), session}
                 /\ rt' = [rt EXCEPT !.audioUpdated = TRUE]
        BY <2>2, <3>3, SessionTyped, FlagsTyped DEF WorkTypeOK, SendTypeOK
      <3>4. CASE \E text \in Texts \cup {NoText} :
                   /\ session' = WithStability(RecordPartial(covered), text)
                   /\ rt' = Recheck /\ worker' = "waiting" /\ queue' = queue
        BY <2>4, <3>4, FlagsTyped DEF WorkTypeOK, SendTypeOK
      <3>5. CASE \E text \in Texts \cup {NoText}, why \in {"partial", "auto"} :
                   /\ Emit(why, WithStability(RecordPartial(covered), text), covered,
                           job.audio - job.lo)
                   /\ rt' \in {Recheck, [rt EXCEPT !.final = TRUE, !.closed = TRUE]}
                   /\ worker' \in {"waiting", "done"}
        <4>1. PICK text \in Texts \cup {NoText}, why \in {"partial", "auto"} :
                   /\ Emit(why, WithStability(RecordPartial(covered), text), covered,
                           job.audio - job.lo)
                   /\ rt' \in {Recheck, [rt EXCEPT !.final = TRUE, !.closed = TRUE]}
                   /\ worker' \in {"waiting", "done"}
          BY <3>5
        <4>2. queue' \in Seq(Event) /\ session' \in Session
          <5> DEFINE s == WithStability(RecordPartial(covered), text)
                     claimed == job.audio - job.lo
          <5>1. s \in Session
            BY <2>4, <4>1
          <5>2. covered \in AudioRange /\ claimed \in Int /\ why \in {"partial", "auto", "final"}
            BY <2>2, <4>1
          <5>3. Emit(why, s, covered, claimed)
            BY <4>1
          <5> HIDE DEF s, covered, claimed
          <5> QED
            BY <5>1, <5>2, <5>3, EmitTyped
        <4>3. rt' \in Flags
          BY <4>1, FlagsTyped DEF WorkTypeOK
        <4> QED
          BY <4>1, <4>2, <4>3
      <3> QED
        BY <1>30, <3>1, <3>2, <3>3, <3>4, <3>5 DEF PartialReturns
    <2> QED
      BY <1>30, <2>3, <2>5, Frame DEF PartialReturns, WorkTypeOK, SendTypeOK, workerFrame
  <1>31. ASSUME FlushReturns PROVE TypeOK'
    <2>1. WorkTypeOK'
      BY <1>31, DecoderTyped DEF FlushReturns, WorkTypeOK, workVars, workerFrame
    <2> QED
      BY <1>31, <2>1, Frame DEF FlushReturns, workerFrame, sendVars
  <1>32. ASSUME FinalizeReturns PROVE TypeOK'
    <2>1. WorkTypeOK'
      BY <1>32, DecoderTyped DEF FinalizeReturns, WorkTypeOK, workVars, workerFrame
    <2> QED
      BY <1>32, <2>1, Frame DEF FinalizeReturns, workerFrame, sendVars
  <1>33. ASSUME ReleaseReturns PROVE TypeOK'
    <2>1. [lo |-> 0, hi |-> decoder.fed] \in AudioRange /\ job.audio \in Int
      BY DEF WorkTypeOK, Decoder, Job, AudioRange
    <2>2. queue' \in Seq(Event) /\ session' \in Session /\ rt' \in Flags /\ worker' = "done"
      BY <1>33, <2>1, FinishTyped DEF ReleaseReturns, WorkTypeOK
    <2> QED
      BY <1>33, <2>2, DecoderTyped, Frame DEF ReleaseReturns, WorkTypeOK, SendTypeOK, workerFrame
  <1>34. ASSUME TranscribeReturns PROVE TypeOK'
    <2>1. [lo |-> 0, hi |-> job.audio] \in AudioRange /\ job.audio \in Int
      BY DEF WorkTypeOK, Job, AudioRange
    <2>2. queue' \in Seq(Event) /\ session' \in Session /\ rt' \in Flags /\ worker' = "done"
      BY <1>34, <2>1, FinishTyped DEF TranscribeReturns, WorkTypeOK
    <2> QED
      BY <1>34, <2>2, Frame DEF TranscribeReturns, WorkTypeOK, SendTypeOK, workerFrame
  <1>35. ASSUME DecodeRaises PROVE TypeOK'
    <2>1. WorkTypeOK'
      BY <1>35, DecoderTyped DEF DecodeRaises, WorkTypeOK, workVars, workerFrame
    <2> QED
      BY <1>35, <2>1, Frame DEF DecodeRaises, workerFrame, sendVars
  <1>36. ASSUME UNCHANGED vars PROVE TypeOK'
    BY <1>36, Frame DEF vars
  <1> QED
    BY <1>1, <1>2, <1>3, <1>4, <1>5, <1>6, <1>7, <1>8, <1>9, <1>10, <1>11, <1>12, <1>13, <1>14, <1>15, <1>16, <1>17, <1>18, <1>19, <1>20, <1>21, <1>22, <1>23, <1>24, <1>25, <1>26, <1>27, <1>28, <1>29, <1>30, <1>31, <1>32, <1>33, <1>34, <1>35, <1>36
       DEF Next, Client, Handler, Sender, Worker, Quiet

(* The initial state is typed. *)
LEMMA TypeInit ==
  ASSUME Init
  PROVE  TypeOK
  <1>1. (CHOOSE c \in StartConfigs : TRUE) \in StartConfigs
    BY ConstantsAssumption
  <1>2. session \in Session
    BY <1>1 DEF Init, FreshSession, Session
  <1>3. rt \in Flags /\ job \in Job /\ decoder \in Decoder /\ view \in ClientView
    BY DecoderTyped DEF Init, FreshRuntime, Flags, Job, ClientView
  <1>4. ClientTypeOK
    BY <1>3 DEF Init, ClientTypeOK
  <1>6. HandlerTypeOK
    <2>1. rx \in Incoming
      BY DEF Init, Incoming
    <2>2. runtime \in BOOLEAN /\ streamId \in Nat
      BY DEF Init
    <2>3. handler = "waiting" /\ stopFor = "none"
      BY DEF Init
    <2> QED
      BY <2>1, <2>2, <2>3 DEF HandlerTypeOK
  <1>5. WorkTypeOK
    BY <1>2, <1>3 DEF Init, WorkTypeOK
  <1>7. inbox \in Incoming /\ SendTypeOK /\ ToldTypeOK
    BY DEF Init, Incoming, SendTypeOK, ToldTypeOK
  <1> QED
    BY <1>4, <1>5, <1>6, <1>7 DEF TypeOK

(* Whatever the clients send and however calls end, every variable keeps    *)
(* its type: sessions, runtimes, queued events and what the client is told  *)
(* are well formed.                                                         *)
THEOREM TypeCorrect == Spec => []TypeOK
  BY TypeInit, TypeStep, PTL DEF Spec

(***************************************************************************)
(* Control.                                                                *)
(***************************************************************************)

(* The handler serves an utterance, or none, or is on its way out of one. *)
Serving  == {"waiting", "finalizing", "joinFinal", "joinCancel", "joinAuto"}
Stopping == {"stopWorker", "stopDecoder", "stopSender"}

(* Without an utterance there are no tasks and nothing is queued; while the *)
(* handler serves one there are both.                                       *)
TasksInv ==
  /\ ~runtime \/ handler = "opening" => worker = "none" /\ sender = "none" /\ queue = << >>
  /\ handler = "opening" \/ (handler \in Serving /\ handler # "waiting") => runtime
  /\ handler \in Serving /\ runtime => worker # "none" /\ sender # "none"

(* What the flags say of the place the handler is at. *)
FlagsInv ==
  /\ handler = "opening" => ~rt.cancel /\ ~rt.closed /\ ~rt.final
  /\ handler \in {"waiting", "finalizing"} /\ runtime =>
       ~rt.cancel /\ (rt.closed => worker \in Ended) /\ (worker = "done" => rt.final)
  /\ handler \in {"joinFinal", "joinAuto"} => rt.final
  /\ handler = "joinCancel" => rt.cancel
  /\ rt.final => rt.closed
  /\ handler \in Stopping /\ stopFor = "loop" =>
       runtime /\ rt.closed /\ (rt.final \/ rt.cancel) /\ AllSent
  /\ sender = "exited" => rt.closed /\ queue = << >>

(* The utterance being served is the last one the client was told of. *)
StreamInv ==
  /\ Len(utterance) <= streamId
  /\ handler = "opening" => streamId = Len(utterance) + 1
  /\ runtime => streamId > 0
  /\ handler \in Serving \/ (handler \in Stopping /\ stopFor = "loop") => Len(utterance) = streamId
  /\ \A i \in DOMAIN queue : Speaks(queue[i]) => queue[i].stream = streamId

ControlInv == TasksInv /\ FlagsInv /\ StreamInv

(* What a step of the worker comes to: it says nothing, and ends only when  *)
(* the utterance is over; or it queues the next transcript of the utterance *)
(* being served, and ends with one that is not a partial.                   *)
WorkerQuiet ==
  /\ queue' = queue /\ session'.rev = session.rev
  /\ rt'.closed = rt.closed /\ rt'.final = rt.final
  /\ worker' = "done" => Abandoned

WorkerSays(e) ==
  /\ ~rt.cancel /\ ~rt.closed
  /\ e.type = "transcript" /\ e.stream = streamId /\ e.rev = session.rev + 1
  /\ queue' = Append(queue, e) /\ session'.rev = session.rev + 1
  /\ \/ Closes(e) /\ worker' = "done" /\ rt'.closed /\ rt'.final
     \/ ~Closes(e) /\ worker' # "done" /\ rt'.closed = rt.closed /\ rt'.final = rt.final

WorkerMoves ==
  /\ worker \notin Ended \cup {"none"} /\ worker' # "none"
  /\ UNCHANGED <<handler, stopFor, runtime, streamId, sender, utterance, link>>
  /\ rt'.cancel = rt.cancel
  /\ WorkerQuiet \/ \E e \in Event : WorkerSays(e)

(* What the methods of StreamRuntime do to the flags that control tasks. *)
LEMMA FlagsSet ==
  ASSUME rt \in Flags
  PROVE  /\ \A f \in {NoteAudio, RequestFinalize, Awake, Recheck, [Awake EXCEPT !.dirty = FALSE],
                      [rt EXCEPT !.audioUpdated = TRUE]} :
              f.cancel = rt.cancel /\ f.closed = rt.closed /\ f.final = rt.final
         /\ RequestCancel.cancel /\ RequestCancel.closed = rt.closed /\ RequestCancel.final = rt.final
         /\ Close.closed /\ Close.cancel = rt.cancel /\ Close.final = rt.final
         /\ \A f \in Flags : LET g == [f EXCEPT !.final = TRUE, !.closed = TRUE]
                             IN g.final /\ g.closed /\ g.cancel = f.cancel
  <1>1. NoteAudio.cancel = rt.cancel /\ NoteAudio.closed = rt.closed /\ NoteAudio.final = rt.final
    BY DEF Flags, NoteAudio
  <1>2. /\ RequestFinalize.cancel = rt.cancel /\ RequestFinalize.closed = rt.closed
        /\ RequestFinalize.final = rt.final
    BY DEF Flags, RequestFinalize
  <1>3. Awake.cancel = rt.cancel /\ Awake.closed = rt.closed /\ Awake.final = rt.final /\ Awake \in Flags
    BY DEF Flags, Awake
  <1>4. Recheck.cancel = rt.cancel /\ Recheck.closed = rt.closed /\ Recheck.final = rt.final
    BY DEF Flags, Recheck
  <1>5. \A f \in Flags : LET g == [f EXCEPT !.dirty = FALSE]
                         IN g.cancel = f.cancel /\ g.closed = f.closed /\ g.final = f.final
    BY DEF Flags
  <1>6. LET g == [rt EXCEPT !.audioUpdated = TRUE]
        IN g.cancel = rt.cancel /\ g.closed = rt.closed /\ g.final = rt.final
    BY DEF Flags
  <1>7. RequestCancel.cancel /\ RequestCancel.closed = rt.closed /\ RequestCancel.final = rt.final
    BY DEF Flags, RequestCancel
  <1>8. Close.closed /\ Close.cancel = rt.cancel /\ Close.final = rt.final
    BY DEF Flags, Close
  <1>9. \A f \in Flags : LET g == [f EXCEPT !.final = TRUE, !.closed = TRUE]
                         IN g.final /\ g.closed /\ g.cancel = f.cancel
    BY DEF Flags
  <1> QED
    BY <1>1, <1>2, <1>3, <1>4, <1>5, <1>6, <1>7, <1>8, <1>9

(* Only a transcript that is queued takes a new revision. *)
LEMMA RevisionsTaken ==
  ASSUME session \in Session, job \in Job
  PROVE  /\ [session EXCEPT !.lastChunks = job.chunks, !.lastAudio = job.audio].rev = session.rev
         /\ \A range \in AudioRange : RecordPartial(range).rev = session.rev
         /\ \A s \in Session, text \in Texts \cup {NoText} : WithStability(s, text).rev = s.rev
         /\ \A s \in Session : [s EXCEPT !.rev = @ + 1].rev = s.rev + 1
         /\ \A size \in Nat : [session EXCEPT !.buffer = @ + size, !.chunks = @ + 1].rev = session.rev
         /\ DiscardAudio.rev = session.rev
  <1>1. [session EXCEPT !.lastChunks = job.chunks, !.lastAudio = job.audio].rev = session.rev
    BY DEF Session
  <1>2. ASSUME NEW range \in AudioRange PROVE RecordPartial(range).rev = session.rev
    BY DEF Session, RecordPartial
  <1>3. ASSUME NEW s \in Session, NEW text \in Texts \cup {NoText}
        PROVE  WithStability(s, text).rev = s.rev
    BY DEF Session, WithStability
  <1>4. ASSUME NEW s \in Session PROVE [s EXCEPT !.rev = @ + 1].rev = s.rev + 1
    BY DEF Session
  <1>5. ASSUME NEW size \in Nat
        PROVE  [session EXCEPT !.buffer = @ + size, !.chunks = @ + 1].rev = session.rev
    BY DEF Session
  <1>6. DiscardAudio.rev = session.rev
    BY DEF Session, DiscardAudio
  <1> QED
    BY <1>1, <1>2, <1>3, <1>4, <1>5, <1>6

(* Queueing a transcript as the worker does. *)
LEMMA EmitSays ==
  ASSUME TypeOK, NEW why \in {"partial", "auto", "final"}, NEW s \in Session,
         NEW range \in AudioRange, NEW claimed \in Int, Emit(why, s, range, claimed),
         s.rev = session.rev, ~rt.cancel, ~rt.closed,
         \/ why # "partial" /\ worker' = "done" /\ rt'.closed /\ rt'.final
         \/ why = "partial" /\ worker' # "done" /\ rt'.closed = rt.closed /\ rt'.final = rt.final
  PROVE  \E e \in Event : WorkerSays(e)
  <1> DEFINE e == Transcript(why, streamId, s.rev + 1, range, claimed, s.buffer)
  <1>1. s.rev + 1 \in Nat /\ s.buffer \in Nat /\ streamId \in Nat
    BY DEF Session, TypeOK, HandlerTypeOK
  <1>2. e \in Event
    BY <1>1 DEF Transcript, Event
  <1>3. e.type = "transcript" /\ e.stream = streamId /\ e.rev = session.rev + 1 /\ e.why = why
    BY DEF Transcript
  <1>4. queue' = Append(queue, e) /\ session'.rev = session.rev + 1
    <2>1. session' = [s EXCEPT !.rev = @ + 1] /\ queue' = Append(queue, e)
      BY DEF Emit
    <2> QED
      BY <2>1, RevisionsTaken DEF TypeOK, WorkTypeOK
  <1>5. WorkerSays(e)
    BY <1>3, <1>4 DEF WorkerSays, Closes
  <1> QED
    BY <1>2, <1>5

(* Ending an utterance as the worker does. *)
LEMMA FinishSays ==
  ASSUME TypeOK, NEW flags \in Flags, NEW range \in AudioRange, NEW claimed \in Int,
         flags.cancel = rt.cancel, flags.closed = rt.closed, flags.final = rt.final,
         FinishUtterance(flags, range, claimed)
  PROVE  /\ worker' = "done" /\ rt'.cancel = rt.cancel
         /\ WorkerQuiet \/ \E e \in Event : WorkerSays(e)
  <1>1. CASE flags.cancel \/ flags.closed
    BY <1>1 DEF FinishUtterance, WorkerQuiet, Abandoned
  <1>2. CASE ~(flags.cancel \/ flags.closed)
    <2>1. Emit("final", session, range, claimed) /\ worker' = "done"
          /\ rt' = [flags EXCEPT !.final = TRUE, !.closed = TRUE]
      BY <1>2 DEF FinishUtterance
    <2>2. session \in Session /\ rt \in Flags
      BY DEF TypeOK, WorkTypeOK
    <2>3. rt'.final /\ rt'.closed /\ rt'.cancel = rt.cancel
      BY <2>1, <2>2, FlagsSet
    <2> QED
      BY <1>2, <2>1, <2>2, <2>3, EmitSays
  <1> QED
    BY <1>1, <1>2

(* Every step of the worker is one of these. *)
LEMMA WorkerStep ==
  ASSUME TypeOK, Worker
  PROVE  WorkerMoves
  <1>0. rt \in Flags /\ session \in Session /\ job \in Job /\ Awake \in Flags
    BY FlagsTyped DEF TypeOK, WorkTypeOK
  <1>1. ASSUME WorkerLeaves PROVE WorkerMoves
    BY <1>0, <1>1, FlagsSet
       DEF WorkerLeaves, Woken, Ended, workerFrame, handlerVars, toldVars, clientVars, WorkerMoves, WorkerQuiet
  <1>2. ASSUME WorkerSkips PROVE WorkerMoves
    BY <1>0, <1>2, FlagsSet
       DEF WorkerSkips, Woken, Ended, workerFrame, handlerVars, toldVars, clientVars, WorkerMoves, WorkerQuiet
  <1>3. ASSUME WorkerStartsPartial PROVE WorkerMoves
    BY <1>0, <1>3, FlagsSet
       DEF WorkerStartsPartial, Woken, Ended, workerFrame, handlerVars, toldVars, clientVars, WorkerMoves, WorkerQuiet
  <1>4. ASSUME WorkerStartsFinal PROVE WorkerMoves
    <2>1. /\ worker \notin Ended \cup {"none"}
          /\ UNCHANGED <<handler, stopFor, runtime, streamId, sender, utterance, link>>
      BY <1>4 DEF WorkerStartsFinal, Woken, Ended, workerFrame, handlerVars, toldVars, clientVars
    <2>2. CASE ~decoder.ref /\ CanReuseLastPartial
      <3>1. /\ FinishUtterance(Awake, session.result, session.buffer)
            /\ session.result \in AudioRange /\ session.buffer \in Int
        BY <1>0, <1>4, <2>2 DEF WorkerStartsFinal, CanReuseLastPartial, Session
      <3>2. Awake.cancel = rt.cancel /\ Awake.closed = rt.closed /\ Awake.final = rt.final
        BY <1>0, FlagsSet
      <3> QED
        BY <1>0, <2>1, <3>1, <3>2, FinishSays DEF WorkerMoves
    <2>3. CASE decoder.ref \/ ~CanReuseLastPartial
      <3>1. rt' = Awake /\ worker' \in {"flush", "transcribe"} /\ UNCHANGED <<queue, session>>
        BY <1>4, <2>3 DEF WorkerStartsFinal
      <3> QED
        BY <1>0, <2>1, <3>1, FlagsSet DEF WorkerMoves, WorkerQuiet
    <2> QED
      BY <2>2, <2>3
  <1>5. ASSUME PartialReturns PROVE WorkerMoves
    <2> DEFINE covered == IF decoder.ref THEN [lo |-> 0, hi |-> Fed.fed]
                          ELSE [lo |-> job.lo, hi |-> job.audio]
    <2>1. /\ worker \notin Ended \cup {"none"}
          /\ UNCHANGED <<handler, stopFor, runtime, streamId, sender, utterance, link>>
      BY <1>5 DEF PartialReturns, Ended, workerFrame, handlerVars, toldVars, clientVars
    <2>2. Fed \in Decoder /\ job.lo \in Int /\ job.audio \in Int
      BY <1>0, DecoderTyped DEF TypeOK, WorkTypeOK, Job
    <2>3. covered \in AudioRange /\ job.audio - job.lo \in Int
      BY <2>2 DEF AudioRange, Decoder
    <2>4. ASSUME NEW text \in Texts \cup {NoText}
          PROVE  LET s == WithStability(RecordPartial(covered), text)
                 IN s \in Session /\ s.rev = session.rev
      BY <1>0, <2>3, SessionTyped, RevisionsTaken
    <2>5. CASE Abandoned /\ worker' = "done" /\ UNCHANGED <<session, rt, queue>>
      BY <2>1, <2>5 DEF WorkerMoves, WorkerQuiet
    <2>6. CASE /\ session' \in {[session EXCEPT !.lastChunks = job.chunks, !.lastAudio = job.audio],
                                RecordPartial(covered), session}
               /\ rt' \in {Recheck, [rt EXCEPT !.audioUpdated = TRUE]}
               /\ worker' = "waiting" /\ queue' = queue
      <3>1. session'.rev = session.rev
        <4>1. CASE session' = [session EXCEPT !.lastChunks = job.chunks, !.lastAudio = job.audio]
          BY <1>0, <4>1 DEF Session
        <4>2. CASE session' = RecordPartial(covered)
          BY <1>0, <2>3, <4>2, RevisionsTaken
        <4>3. CASE session' = session
          BY <4>3
        <4> QED
          BY <2>6, <4>1, <4>2, <4>3
      <3>2. rt'.closed = rt.closed /\ rt'.final = rt.final /\ rt'.cancel = rt.cancel
        BY <1>0, <2>6, FlagsSet
      <3> QED
        BY <2>1, <2>6, <3>1, <3>2 DEF WorkerMoves, WorkerQuiet
    <2>7. CASE \E text \in Texts \cup {NoText} :
                 /\ session' = WithStability(RecordPartial(covered), text)
                 /\ rt' = Recheck /\ worker' = "waiting" /\ queue' = queue
      BY <1>0, <2>1, <2>4, <2>7, FlagsSet DEF WorkerMoves, WorkerQuiet
    <2>8. CASE /\ ~Abandoned
               /\ \E text \in Texts \cup {NoText} :
                 LET s == WithStability(RecordPartial(covered), text)
                 IN \/ /\ Emit("partial", s, covered, job.audio - job.lo)
                       /\ rt' = Recheck /\ worker' = "waiting"
                    \/ /\ Emit("auto", s, covered, job.audio - job.lo)
                       /\ rt' = [rt EXCEPT !.final = TRUE, !.closed = TRUE] /\ worker' = "done"
      <3>1. PICK text \in Texts \cup {NoText} :
                 LET s == WithStability(RecordPartial(covered), text)
                 IN \/ /\ Emit("partial", s, covered, job.audio - job.lo)
                       /\ rt' = Recheck /\ worker' = "waiting"
                    \/ /\ Emit("auto", s, covered, job.audio - job.lo)
                       /\ rt' = [rt EXCEPT !.final = TRUE, !.closed = TRUE] /\ worker' = "done"
        BY <2>8
      <3> DEFINE s == WithStability(RecordPartial(covered), text)
      <3>2. s \in Session /\ s.rev = session.rev /\ ~rt.cancel /\ ~rt.closed
        BY <2>4, <2>8 DEF Abandoned
      <3> HIDE DEF s, covered
      <3>3. CASE Emit("partial", s, covered, job.audio - job.lo) /\ rt' = Recheck /\ worker' = "waiting"
        <4>1. rt'.cancel = rt.cancel /\ rt'.closed = rt.closed /\ rt'.final = rt.final
          BY <1>0, <3>3, FlagsSet
        <4>2. \E e \in Event : WorkerSays(e)
          BY <2>3, <3>2, <3>3, <4>1, EmitSays
        <4> QED
          BY <2>1, <3>3, <4>1, <4>2 DEF WorkerMoves
      <3>4. CASE Emit("auto", s, covered, job.audio - job.lo)
                 /\ rt' = [rt EXCEPT !.final = TRUE, !.closed = TRUE] /\ worker' = "done"
        <4>1. rt'.cancel = rt.cancel /\ rt'.closed /\ rt'.final
          BY <1>0, <3>4, FlagsSet
        <4>2. \E e \in Event : WorkerSays(e)
          BY <2>3, <3>2, <3>4, <4>1, EmitSays
        <4> QED
          BY <2>1, <3>4, <4>1, <4>2 DEF WorkerMoves
      <3> QED
        BY <3>1, <3>3, <3>4 DEF s
    <2> QED
      BY <1>5, <2>5, <2>6, <2>7, <2>8 DEF PartialReturns
  <1>6. ASSUME FlushReturns \/ FinalizeReturns \/ DecodeRaises PROVE WorkerMoves
    BY <1>6 DEF FlushReturns, FinalizeReturns, DecodeRaises, Ended, workerFrame, handlerVars, toldVars,
                clientVars, WorkerMoves, WorkerQuiet
  <1>7. ASSUME ReleaseReturns \/ TranscribeReturns PROVE WorkerMoves
    <2>1. /\ worker \notin Ended \cup {"none"}
          /\ UNCHANGED <<handler, stopFor, runtime, streamId, sender, utterance, link>>
      BY <1>7 DEF ReleaseReturns, TranscribeReturns, Ended, workerFrame, handlerVars, toldVars, clientVars
    <2>2. [lo |-> 0, hi |-> decoder.fed] \in AudioRange /\ [lo |-> 0, hi |-> job.audio] \in AudioRange
          /\ job.audio \in Int
      BY DEF TypeOK, WorkTypeOK, Decoder, Job, AudioRange
    <2>3. worker' = "done" /\ rt'.cancel = rt.cancel /\ (WorkerQuiet \/ \E e \in Event : WorkerSays(e))
      BY <1>0, <1>7, <2>2, FinishSays DEF ReleaseReturns, TranscribeReturns
    <2> QED
      BY <2>1, <2>3 DEF WorkerMoves
  <1> QED
    BY <1>1, <1>2, <1>3, <1>4, <1>5, <1>6, <1>7 DEF Worker

(* Every step keeps ControlInv, action by action. *)
LEMMA ControlStep ==
  ASSUME TypeOK, ControlInv, [Next]_vars
  PROVE  ControlInv'
  <1>0. rt \in Flags /\ streamId \in Nat /\ queue \in Seq(Event) /\ utterance \in Seq(Told)
    BY DEF TypeOK, HandlerTypeOK, WorkTypeOK, SendTypeOK, ToldTypeOK
  <1>1. ASSUME ReceiveCompletes PROVE ControlInv'
    <2>1. TasksInv'
      BY <1>0, <1>1, FlagsSet DEF ReceiveCompletes, clientVars, workVars, sendVars, toldVars, ControlInv, TasksInv, FlagsInv, Serving, Stopping
    <2>2. FlagsInv'
      BY <1>0, <1>1, FlagsSet DEF ReceiveCompletes, clientVars, workVars, sendVars, toldVars, ControlInv, TasksInv, FlagsInv, Serving, Stopping, AllSent, Ended
    <2>3. StreamInv'
      BY <1>0, <1>1, FlagsSet DEF ReceiveCompletes, clientVars, workVars, sendVars, toldVars, ControlInv, TasksInv, FlagsInv, StreamInv, Serving, Stopping, Speaks
    <2> QED
      BY <2>1, <2>2, <2>3 DEF ControlInv
  <1>2. ASSUME WorkerEnded PROVE ControlInv'
    <2>1. TasksInv'
      BY <1>0, <1>2, FlagsSet DEF WorkerEnded, BeginStop, clientVars, sendVars, toldVars, Ended, ControlInv, TasksInv, FlagsInv, Serving, Stopping
    <2>2. FlagsInv'
      BY <1>0, <1>2, FlagsSet DEF WorkerEnded, BeginStop, clientVars, sendVars, toldVars, Ended, ControlInv, TasksInv, FlagsInv, Serving, Stopping, AllSent
    <2>3. StreamInv'
      BY <1>0, <1>2, FlagsSet DEF WorkerEnded, BeginStop, clientVars, sendVars, toldVars, Ended, ControlInv, TasksInv, FlagsInv, StreamInv, Serving, Stopping, Speaks
    <2> QED
      BY <2>1, <2>2, <2>3 DEF ControlInv
  <1>3. ASSUME HandleRejected PROVE ControlInv'
    <2>1. TasksInv'
      BY <1>0, <1>3, FlagsSet DEF HandleRejected, BeginStop, Got, clientVars, sendVars, toldVars, Ended, ControlInv, TasksInv, FlagsInv, Serving, Stopping
    <2>2. FlagsInv'
      BY <1>0, <1>3, FlagsSet DEF HandleRejected, BeginStop, Got, clientVars, sendVars, toldVars, Ended, ControlInv, TasksInv, FlagsInv, Serving, Stopping, AllSent
    <2>3. StreamInv'
      BY <1>0, <1>3, FlagsSet DEF HandleRejected, BeginStop, Got, clientVars, sendVars, toldVars, Ended, ControlInv, TasksInv, FlagsInv, StreamInv, Serving, Stopping, Speaks
    <2> QED
      BY <2>1, <2>2, <2>3 DEF ControlInv
  <1>4. ASSUME HandleLeaving PROVE ControlInv'
    <2>1. TasksInv'
      BY <1>0, <1>4, FlagsSet DEF HandleLeaving, BeginStop, Got, clientVars, sendVars, toldVars, Ended, ControlInv, TasksInv, FlagsInv, Serving, Stopping
    <2>2. FlagsInv'
      BY <1>0, <1>4, FlagsSet DEF HandleLeaving, BeginStop, Got, clientVars, sendVars, toldVars, Ended, ControlInv, TasksInv, FlagsInv, Serving, Stopping, AllSent
    <2>3. StreamInv'
      BY <1>0, <1>4, FlagsSet DEF HandleLeaving, BeginStop, Got, clientVars, sendVars, toldVars, Ended, ControlInv, TasksInv, FlagsInv, StreamInv, Serving, Stopping, Speaks
    <2> QED
      BY <2>1, <2>2, <2>3 DEF ControlInv
  <1>5. ASSUME HandleStart PROVE ControlInv'
    <2>1. TasksInv'
      BY <1>0, <1>5, FlagsSet DEF HandleStart, Got, FreshRuntime, clientVars, sendVars, toldVars, Ended, ControlInv, TasksInv, FlagsInv, Serving, Stopping
    <2>2. FlagsInv'
      BY <1>0, <1>5, FlagsSet DEF HandleStart, Got, FreshRuntime, clientVars, sendVars, toldVars, Ended, ControlInv, TasksInv, FlagsInv, Serving, Stopping, AllSent
    <2>3. StreamInv'
      BY <1>0, <1>5, FlagsSet DEF HandleStart, Got, FreshRuntime, clientVars, sendVars, toldVars, Ended, ControlInv, TasksInv, FlagsInv, StreamInv, Serving, Stopping, Speaks
    <2> QED
      BY <2>1, <2>2, <2>3 DEF ControlInv
  <1>6. ASSUME OpenUtterance PROVE ControlInv'
    <2>1. TasksInv'
      BY <1>0, <1>6, FlagsSet DEF OpenUtterance, BeginStop, ControlInv, TasksInv, FlagsInv, Serving, Stopping
    <2>2. FlagsInv'
      BY <1>0, <1>6, FlagsSet DEF OpenUtterance, BeginStop, ControlInv, TasksInv, FlagsInv, Serving, Stopping, AllSent, Ended
    <2>3. StreamInv'
      BY <1>0, <1>6, FlagsSet DEF OpenUtterance, BeginStop, ControlInv, TasksInv, FlagsInv, StreamInv, Serving, Stopping, Speaks
    <2> QED
      BY <2>1, <2>2, <2>3 DEF ControlInv
  <1>7. ASSUME OpenFails PROVE ControlInv'
    <2>1. TasksInv'
      BY <1>0, <1>7, FlagsSet DEF OpenFails, BeginStop, clientVars, sendVars, toldVars, ControlInv, TasksInv, FlagsInv, Serving, Stopping
    <2>2. FlagsInv'
      BY <1>0, <1>7, FlagsSet DEF OpenFails, BeginStop, clientVars, sendVars, toldVars, ControlInv, TasksInv, FlagsInv, Serving, Stopping, AllSent, Ended
    <2>3. StreamInv'
      BY <1>0, <1>7, FlagsSet DEF OpenFails, BeginStop, clientVars, sendVars, toldVars, ControlInv, TasksInv, FlagsInv, StreamInv, Serving, Stopping, Speaks
    <2> QED
      BY <2>1, <2>2, <2>3 DEF ControlInv
  <1>8. ASSUME HandleAudio PROVE ControlInv'
    <2>1. TasksInv'
      BY <1>0, <1>8, FlagsSet DEF HandleAudio, Got, clientVars, sendVars, toldVars, Ended, ControlInv, TasksInv, FlagsInv, Serving, Stopping
    <2>2. FlagsInv'
      BY <1>0, <1>8, FlagsSet DEF HandleAudio, Got, clientVars, sendVars, toldVars, Ended, ControlInv, TasksInv, FlagsInv, Serving, Stopping, AllSent
    <2>3. StreamInv'
      BY <1>0, <1>8, FlagsSet DEF HandleAudio, Got, clientVars, sendVars, toldVars, Ended, ControlInv, TasksInv, FlagsInv, StreamInv, Serving, Stopping, Speaks
    <2> QED
      BY <2>1, <2>2, <2>3 DEF ControlInv
  <1>9. ASSUME HandleFinalize PROVE ControlInv'
    <2>1. TasksInv'
      BY <1>0, <1>9, FlagsSet DEF HandleFinalize, Got, clientVars, sendVars, toldVars, Ended, ControlInv, TasksInv, FlagsInv, Serving, Stopping
    <2>2. FlagsInv'
      BY <1>0, <1>9, FlagsSet DEF HandleFinalize, Got, clientVars, sendVars, toldVars, Ended, ControlInv, TasksInv, FlagsInv, Serving, Stopping, AllSent
    <2>3. StreamInv'
      BY <1>0, <1>9, FlagsSet DEF HandleFinalize, Got, clientVars, sendVars, toldVars, Ended, ControlInv, TasksInv, FlagsInv, StreamInv, Serving, Stopping, Speaks
    <2> QED
      BY <2>1, <2>2, <2>3 DEF ControlInv
  <1>10. ASSUME HandleCancel PROVE ControlInv'
    <2>1. TasksInv'
      BY <1>0, <1>10, FlagsSet DEF HandleCancel, Got, CancelWarning, clientVars, toldVars, Ended, ControlInv, TasksInv, FlagsInv, Serving, Stopping
    <2>2. FlagsInv'
      BY <1>0, <1>10, FlagsSet DEF HandleCancel, Got, CancelWarning, clientVars, toldVars, Ended, ControlInv, TasksInv, FlagsInv, Serving, Stopping, AllSent
    <2>3. StreamInv'
      BY <1>0, <1>10, FlagsSet DEF HandleCancel, Got, CancelWarning, clientVars, toldVars, Ended, ControlInv, TasksInv, FlagsInv, StreamInv, Serving, Stopping, Speaks
    <2> QED
      BY <2>1, <2>2, <2>3 DEF ControlInv
  <1>11. ASSUME QueuePong PROVE ControlInv'
    <2>1. TasksInv'
      BY <1>0, <1>11, FlagsSet DEF QueuePong, Got, Pong, clientVars, workVars, toldVars, Ended, ControlInv, TasksInv, FlagsInv, Serving, Stopping
    <2>2. FlagsInv'
      BY <1>0, <1>11, FlagsSet DEF QueuePong, Got, Pong, clientVars, workVars, toldVars, Ended, ControlInv, TasksInv, FlagsInv, Serving, Stopping, AllSent
    <2>3. StreamInv'
      BY <1>0, <1>11, FlagsSet DEF QueuePong, Got, Pong, clientVars, workVars, toldVars, Ended, ControlInv, TasksInv, FlagsInv, StreamInv, Serving, Stopping, Speaks
    <2> QED
      BY <2>1, <2>2, <2>3 DEF ControlInv
  <1>12. ASSUME SendPong PROVE ControlInv'
    <2>1. TasksInv'
      BY <1>0, <1>12, FlagsSet DEF SendPong, BeginStop, Got, sendVars, Ended, ControlInv, TasksInv, FlagsInv, Serving, Stopping
    <2>2. FlagsInv'
      BY <1>0, <1>12, FlagsSet DEF SendPong, BeginStop, Got, sendVars, Ended, ControlInv, TasksInv, FlagsInv, Serving, Stopping, AllSent
    <2>3. StreamInv'
      BY <1>0, <1>12, FlagsSet DEF SendPong, BeginStop, Got, sendVars, Ended, ControlInv, TasksInv, FlagsInv, StreamInv, Serving, Stopping, Speaks
    <2> QED
      BY <2>1, <2>2, <2>3 DEF ControlInv
  <1>13. ASSUME HandlePong PROVE ControlInv'
    <2>1. TasksInv'
      BY <1>0, <1>13, FlagsSet DEF HandlePong, Got, clientVars, workVars, sendVars, toldVars, Ended, ControlInv, TasksInv, FlagsInv, Serving, Stopping
    <2>2. FlagsInv'
      BY <1>0, <1>13, FlagsSet DEF HandlePong, Got, clientVars, workVars, sendVars, toldVars, Ended, ControlInv, TasksInv, FlagsInv, Serving, Stopping, AllSent
    <2>3. StreamInv'
      BY <1>0, <1>13, FlagsSet DEF HandlePong, Got, clientVars, workVars, sendVars, toldVars, Ended, ControlInv, TasksInv, FlagsInv, StreamInv, Serving, Stopping, Speaks
    <2> QED
      BY <2>1, <2>2, <2>3 DEF ControlInv
  <1>14. ASSUME FinalizeDecoded PROVE ControlInv'
    <2>1. TasksInv'
      BY <1>0, <1>14, FlagsSet DEF FinalizeDecoded, BeginStop, clientVars, sendVars, toldVars, Ended, ControlInv, TasksInv, FlagsInv, Serving, Stopping
    <2>2. FlagsInv'
      BY <1>0, <1>14, FlagsSet DEF FinalizeDecoded, BeginStop, clientVars, sendVars, toldVars, Ended, ControlInv, TasksInv, FlagsInv, Serving, Stopping, AllSent
    <2>3. StreamInv'
      BY <1>0, <1>14, FlagsSet DEF FinalizeDecoded, BeginStop, clientVars, sendVars, toldVars, Ended, ControlInv, TasksInv, FlagsInv, StreamInv, Serving, Stopping, Speaks
    <2> QED
      BY <2>1, <2>2, <2>3 DEF ControlInv
  <1>15. ASSUME FinalizeJoined PROVE ControlInv'
    <2>1. TasksInv'
      BY <1>0, <1>15, FlagsSet DEF FinalizeJoined, BeginStop, AllSent, clientVars, sendVars, toldVars, ControlInv, TasksInv, FlagsInv, Serving, Stopping
    <2>2. FlagsInv'
      BY <1>0, <1>15, FlagsSet DEF FinalizeJoined, BeginStop, AllSent, clientVars, sendVars, toldVars, ControlInv, TasksInv, FlagsInv, Serving, Stopping, Ended
    <2>3. StreamInv'
      BY <1>0, <1>15, FlagsSet DEF FinalizeJoined, BeginStop, AllSent, clientVars, sendVars, toldVars, ControlInv, TasksInv, FlagsInv, StreamInv, Serving, Stopping, Speaks
    <2> QED
      BY <2>1, <2>2, <2>3 DEF ControlInv
  <1>16. ASSUME JoinedThenStop PROVE ControlInv'
    <2>1. TasksInv'
      BY <1>0, <1>16, FlagsSet DEF JoinedThenStop, BeginStop, AllSent, clientVars, sendVars, toldVars, ControlInv, TasksInv, FlagsInv, Serving, Stopping
    <2>2. FlagsInv'
      BY <1>0, <1>16, FlagsSet DEF JoinedThenStop, BeginStop, AllSent, clientVars, sendVars, toldVars, ControlInv, TasksInv, FlagsInv, Serving, Stopping, Ended
    <2>3. StreamInv'
      BY <1>0, <1>16, FlagsSet DEF JoinedThenStop, BeginStop, AllSent, clientVars, sendVars, toldVars, ControlInv, TasksInv, FlagsInv, StreamInv, Serving, Stopping, Speaks
    <2> QED
      BY <2>1, <2>2, <2>3 DEF ControlInv
  <1>17. ASSUME StopWorker PROVE ControlInv'
    <2>1. TasksInv'
      BY <1>0, <1>17, FlagsSet DEF StopWorker, clientVars, workVars, sendVars, toldVars, Ended, ControlInv, TasksInv, FlagsInv, Serving, Stopping
    <2>2. FlagsInv'
      BY <1>0, <1>17, FlagsSet DEF StopWorker, clientVars, workVars, sendVars, toldVars, Ended, ControlInv, TasksInv, FlagsInv, Serving, Stopping, AllSent
    <2>3. StreamInv'
      BY <1>0, <1>17, FlagsSet DEF StopWorker, clientVars, workVars, sendVars, toldVars, Ended, ControlInv, TasksInv, FlagsInv, StreamInv, Serving, Stopping, Speaks
    <2> QED
      BY <2>1, <2>2, <2>3 DEF ControlInv
  <1>18. ASSUME StopDecoder PROVE ControlInv'
    <2>1. TasksInv'
      BY <1>0, <1>18, FlagsSet DEF StopDecoder, clientVars, sendVars, toldVars, ControlInv, TasksInv, FlagsInv, Serving, Stopping
    <2>2. FlagsInv'
      BY <1>0, <1>18, FlagsSet DEF StopDecoder, clientVars, sendVars, toldVars, ControlInv, TasksInv, FlagsInv, Serving, Stopping, AllSent, Ended
    <2>3. StreamInv'
      BY <1>0, <1>18, FlagsSet DEF StopDecoder, clientVars, sendVars, toldVars, ControlInv, TasksInv, FlagsInv, StreamInv, Serving, Stopping, Speaks
    <2> QED
      BY <2>1, <2>2, <2>3 DEF ControlInv
  <1>19. ASSUME StopDecoderFails PROVE ControlInv'
    <2>1. TasksInv'
      BY <1>0, <1>19, FlagsSet DEF StopDecoderFails, BeginStop, clientVars, sendVars, toldVars, ControlInv, TasksInv, FlagsInv, Serving, Stopping
    <2>2. FlagsInv'
      BY <1>0, <1>19, FlagsSet DEF StopDecoderFails, BeginStop, clientVars, sendVars, toldVars, ControlInv, TasksInv, FlagsInv, Serving, Stopping, AllSent, Ended
    <2>3. StreamInv'
      BY <1>0, <1>19, FlagsSet DEF StopDecoderFails, BeginStop, clientVars, sendVars, toldVars, ControlInv, TasksInv, FlagsInv, StreamInv, Serving, Stopping, Speaks
    <2> QED
      BY <2>1, <2>2, <2>3 DEF ControlInv
  <1>20. ASSUME StopSender PROVE ControlInv'
    <2>1. TasksInv'
      BY <1>0, <1>20, FlagsSet DEF StopSender, clientVars, toldVars, ControlInv, TasksInv, FlagsInv, Serving, Stopping
    <2>2. FlagsInv'
      BY <1>0, <1>20, FlagsSet DEF StopSender, clientVars, toldVars, ControlInv, TasksInv, FlagsInv, Serving, Stopping, AllSent, Ended
    <2>3. StreamInv'
      BY <1>0, <1>20, FlagsSet DEF StopSender, clientVars, toldVars, ControlInv, TasksInv, FlagsInv, StreamInv, Serving, Stopping, Speaks
    <2> QED
      BY <2>1, <2>2, <2>3 DEF ControlInv
  <1>21. ASSUME SenderDelivers PROVE ControlInv'
    <2>1. TasksInv'
      BY <1>0, <1>21, FlagsSet DEF SenderDelivers, Tell, handlerVars, workVars, ControlInv, TasksInv, FlagsInv, Serving, Stopping
    <2>2. FlagsInv'
      BY <1>0, <1>21, FlagsSet DEF SenderDelivers, Tell, handlerVars, workVars, ControlInv, TasksInv, FlagsInv, Serving, Stopping, AllSent, Ended
    <2>3. StreamInv'
      BY <1>0, <1>21, FlagsSet DEF SenderDelivers, Tell, handlerVars, workVars, ControlInv, TasksInv, FlagsInv, StreamInv, Serving, Stopping, Speaks
    <2> QED
      BY <2>1, <2>2, <2>3 DEF ControlInv
  <1>22. ASSUME SenderDies PROVE ControlInv'
    <2>1. TasksInv'
      BY <1>0, <1>22, FlagsSet DEF SenderDies, handlerVars, workVars, toldVars, ControlInv, TasksInv, FlagsInv, Serving, Stopping
    <2>2. FlagsInv'
      BY <1>0, <1>22, FlagsSet DEF SenderDies, handlerVars, workVars, toldVars, ControlInv, TasksInv, FlagsInv, Serving, Stopping, AllSent, Ended
    <2>3. StreamInv'
      BY <1>0, <1>22, FlagsSet DEF SenderDies, handlerVars, workVars, toldVars, ControlInv, TasksInv, FlagsInv, StreamInv, Serving, Stopping, Speaks
    <2> QED
      BY <2>1, <2>2, <2>3 DEF ControlInv
  <1>23. ASSUME SenderExits PROVE ControlInv'
    <2>1. TasksInv'
      BY <1>0, <1>23, FlagsSet DEF SenderExits, clientVars, handlerVars, workVars, toldVars, ControlInv, TasksInv, FlagsInv, Serving, Stopping
    <2>2. FlagsInv'
      BY <1>0, <1>23, FlagsSet DEF SenderExits, clientVars, handlerVars, workVars, toldVars, ControlInv, TasksInv, FlagsInv, Serving, Stopping, AllSent, Ended
    <2>3. StreamInv'
      BY <1>0, <1>23, FlagsSet DEF SenderExits, clientVars, handlerVars, workVars, toldVars, ControlInv, TasksInv, FlagsInv, StreamInv, Serving, Stopping, Speaks
    <2> QED
      BY <2>1, <2>2, <2>3 DEF ControlInv
  <1>24. ASSUME Worker PROVE ControlInv'
    <2>1. WorkerMoves
      BY <1>24, WorkerStep
    <2>2. TasksInv'
      BY <2>1 DEF WorkerMoves, ControlInv, TasksInv
    <2>3. FlagsInv'
      BY <2>1 DEF WorkerMoves, WorkerQuiet, WorkerSays, ControlInv, TasksInv, FlagsInv, Stopping, Serving, AllSent, Ended, Abandoned
    <2>4. StreamInv'
      BY <1>0, <2>1 DEF WorkerMoves, WorkerQuiet, WorkerSays, ControlInv, StreamInv, Serving, Stopping, Speaks
    <2> QED
      BY <2>2, <2>3, <2>4 DEF ControlInv
  <1>25. ASSUME UNCHANGED <<handlerVars, workVars, sendVars, toldVars>> PROVE ControlInv'
    <2>1. TasksInv'
      BY <1>25 DEF handlerVars, workVars, sendVars, ControlInv, TasksInv
    <2>2. FlagsInv'
      BY <1>25 DEF handlerVars, workVars, sendVars, ControlInv, FlagsInv, AllSent
    <2>3. StreamInv'
      BY <1>25 DEF handlerVars, sendVars, toldVars, ControlInv, StreamInv
    <2> QED
      BY <2>1, <2>2, <2>3 DEF ControlInv
  <1> QED
    BY <1>1, <1>2, <1>3, <1>4, <1>5, <1>6, <1>7, <1>8, <1>9, <1>10, <1>11, <1>12, <1>13, <1>14, <1>15, <1>16, <1>17, <1>18, <1>19, <1>20, <1>21, <1>22, <1>23, <1>24, <1>25 DEF Next, Client, ClientSends, ClientDrops, Handler, Sender, Quiet, vars

(* Nothing before control starts. *)
LEMMA ControlInit ==
  ASSUME Init
  PROVE  ControlInv
  BY DEF Init, FreshRuntime, ControlInv, TasksInv, FlagsInv, StreamInv, Serving, Stopping, AllSent

(***************************************************************************)
(* Speech.                                                                 *)
(***************************************************************************)

(* The worker may still say something. *)
MaySpeak == worker \notin Ended \cup {"none"} /\ ~rt.cancel /\ ~rt.closed

(* The utterance was ended or canceled; no utterance is open. *)
Over == runtime /\ (rt.final \/ rt.cancel)
Idle == handler = "opening" \/ (handler = "waiting" /\ ~runtime)

Silent == \A i \in DOMAIN queue : ~Closes(queue[i])
Settled(s) == utterance[s].phase # "active"

(* A worker that may still speak works for an active utterance whose        *)
(* outcome has not been queued.                                             *)
SpeakerInv ==
  MaySpeak => Len(utterance) = streamId /\ utterance[streamId].phase = "active" /\ Silent

(* An utterance that is over has its outcome told or queued, unless the     *)
(* connection is broken; all the earlier ones are settled, and so is the    *)
(* last before another is opened.                                           *)
OutcomeInv ==
  /\ Over => link = "broken" \/ ~Silent \/ (Len(utterance) = streamId /\ Settled(streamId))
  /\ \A s \in 1..(Len(utterance) - 1) : Settled(s)
  /\ Idle => link = "broken" \/ \A s \in 1..Len(utterance) : Settled(s)

(* No revision is ahead of the session's. *)
RevisionInv ==
  /\ \A i \in DOMAIN queue : queue[i].type = "transcript" => queue[i].rev <= session.rev
  /\ Len(utterance) = streamId /\ streamId > 0 => utterance[streamId].rev <= session.rev

SpeechInv == OutcomeIsLast /\ RevisionsIncrease /\ SpeakerInv /\ OutcomeInv /\ RevisionInv

(* A step that tells and queues nothing, lets nobody speak who might not    *)
(* before, and neither ends nor opens an utterance.                         *)
Calm ==
  /\ UNCHANGED <<queue, utterance, streamId>> /\ session'.rev = session.rev
  /\ link = "broken" => link' = "broken"
  /\ MaySpeak' => MaySpeak
  /\ Over' => Over
  /\ Idle' => Idle

(* A calm step keeps SpeechInv. *)
LEMMA SpeechFrame ==
  ASSUME SpeechInv, Calm
  PROVE  SpeechInv'
  <1>1. OutcomeIsLast' /\ RevisionsIncrease'
    BY DEF Calm, SpeechInv, OutcomeIsLast, RevisionsIncrease
  <1>2. Silent' = Silent
    BY DEF Calm, Silent
  <1>3. SpeakerInv'
    BY <1>2 DEF Calm, SpeechInv, SpeakerInv
  <1>4. OutcomeInv'
    BY <1>2 DEF Calm, SpeechInv, OutcomeInv, Settled
  <1>5. RevisionInv'
    BY DEF Calm, SpeechInv, RevisionInv
  <1> QED
    BY <1>1, <1>3, <1>4, <1>5 DEF SpeechInv

(* Appending an event. *)
LEMMA Appended ==
  ASSUME NEW q \in Seq(Event), NEW e \in Event
  PROVE  LET r == Append(q, e)
         IN /\ DOMAIN q = 1..Len(q) /\ Len(q) \in Nat
            /\ DOMAIN r = 1..(Len(q) + 1) /\ r[Len(q) + 1] = e
            /\ \A i \in DOMAIN q : r[i] = q[i]
  BY AppendProperties

(* Queueing an event the client is still to be told. *)
LEMMA SpeechQueued ==
  ASSUME TypeOK, ControlInv, SpeechInv, NEW e \in Event, queue' = Append(queue, e),
         UNCHANGED <<utterance, streamId, link>>, session'.rev \in Nat, session'.rev >= session.rev,
         Speaks(e) => e.stream = streamId /\ Silent
                        /\ streamId \in DOMAIN utterance /\ ~Settled(streamId),
         e.type = "transcript" => e.rev = session'.rev /\ e.rev > session.rev,
         MaySpeak' => MaySpeak /\ ~Closes(e),
         Over' => Over \/ Closes(e), ~Idle'
  PROVE  SpeechInv'
  <1> DEFINE n == Len(queue) + 1
  <1>0. /\ queue \in Seq(Event) /\ utterance \in Seq(Told) /\ session \in Session /\ streamId \in Nat
        /\ session.rev \in Nat
    BY DEF TypeOK, SendTypeOK, ToldTypeOK, WorkTypeOK, HandlerTypeOK, Session
  <1>1. /\ DOMAIN queue = 1..Len(queue) /\ Len(queue) \in Nat /\ DOMAIN queue' = 1..n
        /\ queue'[n] = e /\ \A i \in DOMAIN queue : queue'[i] = queue[i]
    BY <1>0, Appended
  <1>2. \A i \in DOMAIN queue' : i \in DOMAIN queue \/ i = n
    BY <1>1
  <1>3. \A i \in DOMAIN queue : \A j \in 1..(i - 1) : j \in DOMAIN queue /\ j < i
    BY <1>1
  <1>4. OutcomeIsLast'
    <2> SUFFICES ASSUME NEW i \in DOMAIN queue', Speaks(queue'[i])
                 PROVE  /\ queue'[i].stream \in DOMAIN utterance
                        /\ utterance[queue'[i].stream].phase = "active"
                        /\ \A j \in 1..(i - 1) : ~Closes(queue'[j])
      BY DEF OutcomeIsLast, Speaks, Closes
    <2>1. CASE i \in DOMAIN queue
      <3>1. /\ queue[i].stream \in DOMAIN utterance /\ utterance[queue[i].stream].phase = "active"
            /\ \A j \in 1..(i - 1) : ~Closes(queue[j])
        BY <1>1, <2>1 DEF SpeechInv, OutcomeIsLast
      <3> QED
        BY <1>1, <1>3, <2>1, <3>1
    <2>2. CASE i = n
      <3>1. Speaks(e) /\ queue'[i] = e
        BY <1>1, <2>2
      <3>2. \A j \in 1..(i - 1) : j \in DOMAIN queue
        BY <1>1, <2>2
      <3>3. \A j \in 1..(i - 1) : ~Closes(queue'[j])
        BY <1>1, <3>1, <3>2 DEF Silent
      <3> QED
        BY <3>1, <3>3 DEF Settled
    <2> QED
      BY <1>2, <2>1, <2>2
  <1>5. RevisionInv'
    <2>1. \A i \in DOMAIN queue : queue[i].type = "transcript" => queue[i] \in Event /\ queue[i].rev \in Nat
      BY <1>0, ElementOfSeq DEF Event
    <2>2. ASSUME NEW i \in DOMAIN queue', queue'[i].type = "transcript"
          PROVE  queue'[i].rev <= session'.rev
      <3>1. CASE i \in DOMAIN queue
        <4>1. queue[i].rev <= session.rev /\ queue[i].rev \in Nat /\ queue'[i] = queue[i]
          BY <1>1, <2>1, <2>2, <3>1 DEF SpeechInv, RevisionInv
        <4> QED
          BY <1>0, <4>1
      <3>2. CASE i = n
        BY <1>1, <2>2, <3>2
      <3> QED
        BY <1>2, <3>1, <3>2
    <2>3. Len(utterance) = streamId /\ streamId > 0 => utterance[streamId].rev <= session'.rev
      <3>1. ASSUME Len(utterance) = streamId, streamId > 0 PROVE utterance[streamId].rev \in Nat
        <4>1. utterance[streamId] \in Told
          BY <1>0, <3>1, ElementOfSeq
        <4> QED
          BY <4>1 DEF Told
      <3> QED
        BY <1>0, <3>1 DEF SpeechInv, RevisionInv
    <2> QED
      BY <2>2, <2>3 DEF RevisionInv
  <1>6. RevisionsIncrease'
    <2> SUFFICES ASSUME NEW i \in DOMAIN queue', queue'[i].type = "transcript"
                 PROVE  /\ queue'[i].rev > utterance[queue'[i].stream].rev
                        /\ \A j \in 1..(i - 1) : queue'[j].type = "transcript"
                                                   => queue'[j].rev < queue'[i].rev
      BY DEF RevisionsIncrease
    <2>1. CASE i \in DOMAIN queue
      <3>1. /\ queue[i].rev > utterance[queue[i].stream].rev
            /\ \A j \in 1..(i - 1) : queue[j].type = "transcript" => queue[j].rev < queue[i].rev
        BY <1>1, <2>1 DEF SpeechInv, RevisionsIncrease
      <3> QED
        BY <1>1, <1>3, <2>1, <3>1
    <2>2. CASE i = n
      <3>1. e.type = "transcript" /\ queue'[i] = e
        BY <1>1, <2>2
      <3>2. e.stream = streamId /\ streamId \in DOMAIN utterance /\ e.rev > session.rev /\ e.rev \in Nat
        BY <3>1 DEF Speaks
      <3>3. Len(utterance) = streamId /\ streamId > 0 /\ utterance[streamId].rev \in Nat
        <4>1. DOMAIN utterance = 1..Len(utterance) /\ Len(utterance) \in Nat
          BY <1>0
        <4>2. utterance[streamId] \in Told
          BY <1>0, <3>2, ElementOfSeq
        <4>3. Len(utterance) <= streamId /\ utterance[streamId].rev \in Nat
          BY <4>2 DEF ControlInv, StreamInv, Told
        <4>4. streamId \in 1..Len(utterance)
          BY <3>2, <4>1
        <4>5. Len(utterance) \in Nat /\ streamId \in Nat
          BY <1>0, <4>1
        <4> QED
          BY <4>3, <4>4, <4>5
      <3>4. utterance[streamId].rev <= session.rev
        BY <3>3 DEF SpeechInv, RevisionInv
      <3>5. ASSUME NEW j \in 1..(i - 1), queue'[j].type = "transcript" PROVE queue'[j].rev < e.rev
        <4>1. j \in DOMAIN queue /\ queue'[j] = queue[j]
          BY <1>1, <2>2
        <4>2. queue[j].rev <= session.rev /\ queue[j] \in Event
          BY <1>0, <3>5, <4>1, ElementOfSeq DEF SpeechInv, RevisionInv
        <4>3. queue[j].rev \in Nat
          BY <3>5, <4>1, <4>2 DEF Event
        <4> QED
          BY <1>0, <3>2, <4>1, <4>2, <4>3
      <3> QED
        BY <1>0, <3>1, <3>2, <3>3, <3>4, <3>5
    <2> QED
      BY <1>2, <2>1, <2>2
  <1>7. Silent' <=> Silent /\ ~Closes(e)
    <2>1. n \in DOMAIN queue' /\ DOMAIN queue \subseteq DOMAIN queue'
      BY <1>1
    <2> QED
      BY <1>1, <1>2, <2>1 DEF Silent, Closes
  <1>8. SpeakerInv'
    BY <1>7 DEF SpeechInv, SpeakerInv
  <1>9. OutcomeInv'
    BY <1>7 DEF SpeechInv, OutcomeInv, Settled
  <1> QED
    BY <1>4, <1>5, <1>6, <1>8, <1>9 DEF SpeechInv

(* What a client that is sent e makes of its utterance.                     *)
Heard(e) ==
  /\ Len(utterance') = Len(utterance) /\ DOMAIN utterance' = DOMAIN utterance
  /\ \A s \in DOMAIN utterance : s # streamId => utterance'[s] = utterance[s]
  /\ Speaks(e) => streamId \in DOMAIN utterance
  /\ streamId \notin DOMAIN utterance => utterance' = utterance
  /\ streamId \in DOMAIN utterance =>
       /\ (utterance'[streamId].phase = "active") <=>
            (utterance[streamId].phase = "active" /\ ~Closes(e))
       /\ utterance'[streamId].rev = IF e.type = "transcript" THEN e.rev ELSE utterance[streamId].rev

(* What Tell does is heard. *)
LEMMA TellHeard ==
  ASSUME TypeOK, ControlInv, SpeechInv, queue # << >>, Tell(Head(queue))
  PROVE  Heard(Head(queue))
  <1> DEFINE h == Head(queue)
  <1>0. queue \in Seq(Event) /\ utterance \in Seq(Told) /\ streamId \in Nat
    BY DEF TypeOK, HandlerTypeOK, SendTypeOK, ToldTypeOK
  <1>1. 1 \in DOMAIN queue /\ h = queue[1] /\ h \in Event
    BY <1>0
  <1>2. ASSUME Speaks(h)
        PROVE  /\ h.stream = streamId /\ streamId \in DOMAIN utterance
               /\ utterance[streamId].phase = "active" /\ utterance[streamId] \in Told
    BY <1>0, <1>1, <1>2, ElementOfSeq DEF ControlInv, StreamInv, SpeechInv, OutcomeIsLast
  <1>3. DOMAIN utterance = 1..Len(utterance)
    BY <1>0
  <1>4. ASSUME NEW t, streamId \in DOMAIN utterance, utterance' = [utterance EXCEPT ![streamId] = t]
        PROVE  /\ DOMAIN utterance' = DOMAIN utterance /\ Len(utterance') = Len(utterance)
               /\ utterance'[streamId] = t
               /\ \A s \in DOMAIN utterance : s # streamId => utterance'[s] = utterance[s]
    <2>1. /\ DOMAIN utterance' = DOMAIN utterance /\ utterance'[streamId] = t
          /\ \A s \in DOMAIN utterance : s # streamId => utterance'[s] = utterance[s]
      BY <1>4
    <2>2. Len(utterance') = Len(utterance)
      BY <1>0, <1>4, <2>1
    <2> QED
      BY <2>1, <2>2
  <1>5. CASE h.type = "transcript" /\ h.why = "partial"
    <2>1. utterance' = [utterance EXCEPT ![streamId] = [phase |-> "active", rev |-> h.rev]]
      BY <1>2, <1>5 DEF Tell, Speaks
    <2> QED
      BY <1>2, <1>4, <1>5, <2>1 DEF Heard, Speaks, Closes
  <1>6. CASE h.type = "transcript" /\ h.why # "partial"
    <2>1. utterance' = [utterance EXCEPT ![streamId] = [phase |-> "final", rev |-> h.rev]]
      BY <1>2, <1>6 DEF Tell, Speaks
    <2> QED
      BY <1>2, <1>4, <1>6, <2>1 DEF Heard, Speaks, Closes
  <1>7. CASE h.type = "stream_canceled"
    <2>1. utterance' = [utterance EXCEPT ![streamId] = [utterance[streamId] EXCEPT !.phase = "canceled"]]
      BY <1>2, <1>7 DEF Tell, Speaks
    <2>2. LET t == [utterance[streamId] EXCEPT !.phase = "canceled"]
          IN t.phase = "canceled" /\ t.rev = utterance[streamId].rev
      BY <1>2, <1>7 DEF Speaks, Told
    <2> QED
      BY <1>2, <1>4, <1>7, <2>1, <2>2 DEF Heard, Speaks, Closes
  <1>8. CASE h.type = "pong"
    BY <1>8 DEF Tell, Heard, Speaks, Closes
  <1> QED
    BY <1>1, <1>5, <1>6, <1>7, <1>8 DEF Event

(* Sending the head of the queue, or losing it with the connection.         *)
LEMMA SpeechSent ==
  ASSUME TypeOK, ControlInv, SpeechInv, queue # << >>, queue' = Tail(queue),
         UNCHANGED <<handler, runtime, streamId, session, rt, worker>>,
         \/ link' = link /\ Heard(Head(queue))
         \/ link' = "broken" /\ utterance' = utterance
  PROVE  SpeechInv'
  <1> DEFINE h == Head(queue)
  <1>0. /\ queue \in Seq(Event) /\ utterance \in Seq(Told) /\ session \in Session /\ streamId \in Nat
        /\ session.rev \in Nat /\ queue' \in Seq(Event)
    BY DEF TypeOK, SendTypeOK, ToldTypeOK, WorkTypeOK, HandlerTypeOK, Session
  <1>1. /\ DOMAIN queue = 1..Len(queue) /\ Len(queue) \in Nat /\ 1 \in DOMAIN queue
        /\ DOMAIN queue' = 1..(Len(queue) - 1) /\ h = queue[1] /\ h \in Event
    BY <1>0
  <1>2. ASSUME NEW i \in DOMAIN queue'
        PROVE  i + 1 \in DOMAIN queue /\ queue'[i] = queue[i + 1] /\ 1 \in 1..((i + 1) - 1)
    BY <1>0, <1>1
  <1>3. ASSUME NEW i \in DOMAIN queue, i # 1
        PROVE  i - 1 \in DOMAIN queue' /\ queue'[i - 1] = queue[i]
    BY <1>0, <1>1, <1>3
  <1>4. DOMAIN utterance' = DOMAIN utterance /\ Len(utterance') = Len(utterance)
    BY DEF Heard
  <1>5. DOMAIN utterance = 1..Len(utterance) /\ Len(utterance) \in Nat
    BY <1>0
  <1>6. ASSUME NEW i \in DOMAIN queue', Speaks(queue'[i])
        PROVE  /\ queue'[i].stream = streamId /\ streamId \in DOMAIN utterance
               /\ utterance[streamId].phase = "active" /\ ~Closes(h)
    BY <1>1, <1>2, <1>6 DEF ControlInv, StreamInv, SpeechInv, OutcomeIsLast
  <1>7. OutcomeIsLast'
    <2> SUFFICES ASSUME NEW i \in DOMAIN queue', Speaks(queue'[i])
                 PROVE  /\ queue'[i].stream \in DOMAIN utterance'
                        /\ utterance'[queue'[i].stream].phase = "active"
                        /\ \A j \in 1..(i - 1) : ~Closes(queue'[j])
      BY DEF OutcomeIsLast, Speaks, Closes
    <2>1. ASSUME NEW j \in 1..(i - 1) PROVE ~Closes(queue'[j])
      <3>1. j \in DOMAIN queue' /\ j + 1 \in 1..((i + 1) - 1)
        BY <1>1
      <3> QED
        BY <1>2, <3>1 DEF SpeechInv, OutcomeIsLast
    <2> QED
      BY <1>4, <1>6, <2>1 DEF Heard
  <1>8. RevisionsIncrease'
    <2> SUFFICES ASSUME NEW i \in DOMAIN queue', queue'[i].type = "transcript"
                 PROVE  /\ queue'[i].rev > utterance'[queue'[i].stream].rev
                        /\ \A j \in 1..(i - 1) : queue'[j].type = "transcript"
                                                   => queue'[j].rev < queue'[i].rev
      BY DEF RevisionsIncrease
    <2>1. /\ queue'[i].rev > utterance[queue'[i].stream].rev
          /\ \A j \in 1..((i + 1) - 1) : queue[j].type = "transcript" => queue[j].rev < queue'[i].rev
      BY <1>2 DEF SpeechInv, RevisionsIncrease
    <2>2. ASSUME NEW j \in 1..(i - 1), queue'[j].type = "transcript" PROVE queue'[j].rev < queue'[i].rev
      <3>1. j \in DOMAIN queue' /\ j + 1 \in 1..((i + 1) - 1)
        BY <1>1
      <3> QED
        BY <1>2, <2>1, <2>2, <3>1
    <2>3. queue'[i].rev > utterance'[queue'[i].stream].rev
      <3>1. queue'[i].stream = streamId /\ streamId \in DOMAIN utterance
        BY <1>6 DEF Speaks
      <3>2. h.type = "transcript" => h.rev < queue'[i].rev
        BY <1>1, <1>2, <2>1
      <3>3. queue'[i].rev \in Nat /\ (h.type = "transcript" => h.rev \in Nat)
        <4>1. queue'[i] \in Event
          BY <1>0, ElementOfSeq
        <4> QED
          BY <1>1, <4>1 DEF Event
      <3>4. utterance[streamId] \in Told
        BY <1>0, <3>1, ElementOfSeq
      <3>5. utterance[streamId].rev \in Nat
        BY <3>4 DEF Told
      <3> QED
        BY <2>1, <3>1, <3>2, <3>3, <3>5 DEF Heard
    <2> QED
      BY <2>2, <2>3
  <1>9. RevisionInv'
    <2>1. ASSUME NEW i \in DOMAIN queue', queue'[i].type = "transcript"
          PROVE  queue'[i].rev <= session'.rev
      BY <1>2, <2>1 DEF SpeechInv, RevisionInv
    <2>2. ASSUME Len(utterance') = streamId', streamId' > 0
          PROVE  utterance'[streamId'].rev <= session'.rev
      <3>1. streamId \in DOMAIN utterance /\ utterance[streamId].rev <= session.rev
        BY <1>0, <1>4, <1>5, <2>2 DEF SpeechInv, RevisionInv
      <3>2. h.type = "transcript" => h.rev <= session.rev
        BY <1>1 DEF SpeechInv, RevisionInv
      <3> QED
        BY <3>1, <3>2 DEF Heard
    <2> QED
      BY <2>1, <2>2 DEF RevisionInv
  <1>10. Silent' <=> \A i \in DOMAIN queue : i # 1 => ~Closes(queue[i])
    <2>1. ASSUME \A i \in DOMAIN queue : i # 1 => ~Closes(queue[i]), NEW i \in DOMAIN queue'
          PROVE  ~Closes(queue'[i])
      <3>1. i + 1 \in DOMAIN queue /\ i + 1 # 1 /\ queue'[i] = queue[i + 1]
        BY <1>1, <1>2
      <3> QED
        BY <2>1, <3>1
    <2>2. ASSUME \A i \in DOMAIN queue' : ~Closes(queue'[i]), NEW i \in DOMAIN queue, i # 1
          PROVE  ~Closes(queue[i])
      BY <1>3, <2>2
    <2> QED
      BY <2>1, <2>2 DEF Silent, Closes
  <1>11. Silent <=> Silent' /\ ~Closes(h)
    BY <1>1, <1>10 DEF Silent
  <1>12. SpeakerInv'
    <2> SUFFICES ASSUME MaySpeak'
                 PROVE  Len(utterance') = streamId /\ utterance'[streamId].phase = "active" /\ Silent'
      BY DEF SpeakerInv
    <2>1. /\ Len(utterance) = streamId /\ utterance[streamId].phase = "active" /\ Silent
          /\ worker # "none"
      BY DEF MaySpeak, SpeechInv, SpeakerInv
    <2>2. \/ utterance' = utterance
          \/ streamId \in DOMAIN utterance /\ Heard(h)
      BY DEF Heard
    <2> QED
      BY <1>4, <1>11, <2>1, <2>2 DEF Heard
  <1>13. OutcomeInv'
    <2>1. ASSUME Over'
          PROVE  link' = "broken" \/ ~Silent' \/ (Len(utterance') = streamId /\ Settled(streamId)')
      <3>1. link = "broken" \/ ~Silent \/ (Len(utterance) = streamId /\ Settled(streamId))
        BY <2>1 DEF Over, SpeechInv, OutcomeInv
      <3>2. CASE link' = "broken"
        BY <3>2
      <3>3. CASE link' = link /\ Heard(h) /\ link # "broken" /\ ~Silent
        <4>1. CASE ~Closes(h)
          BY <1>11, <3>3, <4>1
        <4>2. CASE Closes(h)
          <5>1. streamId \in DOMAIN utterance
            BY <3>3, <4>2 DEF Heard, Closes, Speaks
          <5>2. Len(utterance) <= streamId
            BY DEF ControlInv, StreamInv
          <5>3. Len(utterance) = streamId
            <6>1. streamId \in 1..Len(utterance)
              BY <1>5, <5>1
            <6>2. Len(utterance) \in Nat /\ streamId \in Nat
              BY <1>0, <1>5
            <6> QED
              BY <5>2, <6>1, <6>2
          <5> QED
            BY <1>4, <3>3, <4>2, <5>1, <5>3 DEF Heard, Settled
        <4> QED
          BY <4>1, <4>2
      <3>4. CASE link' = link /\ Heard(h) /\ Len(utterance) = streamId /\ Settled(streamId)
        <4>1. CASE streamId \in DOMAIN utterance
          BY <1>4, <3>4, <4>1 DEF Heard, Settled
        <4>2. CASE streamId \notin DOMAIN utterance
          BY <3>4, <4>2 DEF Heard, Settled
        <4> QED
          BY <4>1, <4>2
      <3> QED
        BY <3>1, <3>2, <3>3, <3>4
    <2>2. ASSUME NEW s \in 1..(Len(utterance') - 1) PROVE Settled(s)'
      <3>1. Settled(s) /\ s \in DOMAIN utterance
        BY <1>4, <1>5 DEF SpeechInv, OutcomeInv
      <3> QED
        BY <3>1 DEF Heard, Settled
    <2>3. ~Idle'
      BY DEF Idle, ControlInv, TasksInv
    <2> QED
      BY <2>1, <2>2, <2>3 DEF OutcomeInv
  <1> QED
    BY <1>7, <1>8, <1>9, <1>12, <1>13 DEF SpeechInv

(* An utterance that is over, its outcome told, or the end of everything.   *)
LEMMA SpeechClosed ==
  ASSUME TypeOK, SpeechInv, queue' = << >>, worker' = "none", runtime' = FALSE,
         UNCHANGED <<utterance, streamId, session, link>>,
         handler' # "opening", handler' = "waiting" => Over /\ queue = << >>
  PROVE  SpeechInv'
  <1>0. utterance \in Seq(Told) /\ Len(utterance) \in Nat
    BY DEF TypeOK, ToldTypeOK
  <1>1. OutcomeIsLast' /\ RevisionsIncrease'
    BY DEF OutcomeIsLast, RevisionsIncrease
  <1>2. SpeakerInv'
    BY DEF SpeakerInv, MaySpeak
  <1>3. RevisionInv'
    BY DEF SpeechInv, RevisionInv
  <1>4. \A s \in 1..(Len(utterance) - 1) : Settled(s)
    BY DEF SpeechInv, OutcomeInv
  <1>5. ASSUME handler' = "waiting", link # "broken", NEW s \in 1..Len(utterance)
        PROVE  Settled(s)
    <2>1. Over /\ Silent
      BY <1>5 DEF Silent
    <2>2. Len(utterance) = streamId /\ Settled(streamId)
      BY <1>5, <2>1 DEF SpeechInv, OutcomeInv
    <2>3. s \in 1..(Len(utterance) - 1) \/ s = streamId
      BY <1>0, <2>2
    <2> QED
      BY <1>4, <2>2, <2>3
  <1>6. OutcomeInv'
    BY <1>4, <1>5 DEF OutcomeInv, Over, Idle, Settled
  <1> QED
    BY <1>1, <1>2, <1>3, <1>6 DEF SpeechInv

(* Every step keeps SpeechInv: most are calm, the others queue or send an  *)
(* event, or open or close an utterance.                                   *)
LEMMA SpeechStep ==
  ASSUME TypeOK, ControlInv, SpeechInv, [Next]_vars
  PROVE  SpeechInv'
  <1>0. /\ rt \in Flags /\ session \in Session /\ job \in Job /\ session.rev \in Nat
        /\ streamId \in Nat /\ queue \in Seq(Event) /\ utterance \in Seq(Told)
        /\ Len(utterance) \in Nat /\ DOMAIN utterance = 1..Len(utterance)
    BY DEF TypeOK, HandlerTypeOK, WorkTypeOK, SendTypeOK, ToldTypeOK, Session
  <1>a. ASSUME MaySpeak
        PROVE  Silent /\ streamId \in DOMAIN utterance /\ ~Settled(streamId) /\ ~Idle
    <2>1. Len(utterance) = streamId /\ utterance[streamId].phase = "active" /\ Silent
      BY <1>a DEF SpeechInv, SpeakerInv
    <2>2. runtime /\ handler # "opening"
      BY <1>a DEF MaySpeak, ControlInv, TasksInv
    <2>3. streamId > 0
      BY <2>2 DEF ControlInv, StreamInv
    <2> QED
      BY <1>0, <2>1, <2>2, <2>3 DEF Settled, Idle
  <1>1. ASSUME ReceiveCompletes PROVE Calm
    BY <1>0, <1>1 DEF ReceiveCompletes, clientVars, workVars, sendVars, toldVars, Calm, MaySpeak, Over, Idle
  <1>2. ASSUME WorkerEnded PROVE Calm
    BY <1>0, <1>2, FlagsSet DEF WorkerEnded, BeginStop, clientVars, sendVars, toldVars, Calm, MaySpeak, Over, Idle
  <1>3. ASSUME HandleRejected PROVE Calm
    BY <1>0, <1>3, FlagsSet DEF HandleRejected, BeginStop, Got, clientVars, sendVars, toldVars, Calm, MaySpeak, Over, Idle
  <1>4. ASSUME HandleLeaving PROVE Calm
    BY <1>0, <1>4, FlagsSet DEF HandleLeaving, BeginStop, Got, clientVars, sendVars, toldVars, Calm, MaySpeak, Over, Idle
  <1>5. ASSUME OpenFails PROVE Calm
    BY <1>0, <1>5, FlagsSet DEF OpenFails, BeginStop, clientVars, sendVars, toldVars, Calm, MaySpeak, Over, Idle
  <1>6. ASSUME HandleAudio PROVE Calm
    BY <1>0, <1>6, FlagsSet, GotTyped, RevisionsTaken DEF HandleAudio, Got, clientVars, sendVars, toldVars, Calm, MaySpeak, Over, Idle
  <1>7. ASSUME HandleFinalize PROVE Calm
    BY <1>0, <1>7, FlagsSet DEF HandleFinalize, Got, clientVars, sendVars, toldVars, Calm, MaySpeak, Over, Idle
  <1>8. ASSUME SendPong PROVE Calm
    BY <1>0, <1>8, FlagsSet DEF SendPong, BeginStop, Got, SendRaises, sendVars, Calm, MaySpeak, Over, Idle
  <1>9. ASSUME HandlePong PROVE Calm
    BY <1>0, <1>9 DEF HandlePong, Got, clientVars, workVars, sendVars, toldVars, Calm, MaySpeak, Over, Idle
  <1>10. ASSUME FinalizeDecoded PROVE Calm
    BY <1>0, <1>10, FlagsSet DEF FinalizeDecoded, BeginStop, clientVars, sendVars, toldVars, Calm, MaySpeak, Over, Idle
  <1>11. ASSUME JoinedThenStop PROVE Calm
    BY <1>0, <1>11, FlagsSet DEF JoinedThenStop, BeginStop, clientVars, sendVars, toldVars, Calm, MaySpeak, Over, Idle
  <1>12. ASSUME StopWorker PROVE Calm
    BY <1>0, <1>12 DEF StopWorker, clientVars, workVars, sendVars, toldVars, Calm, MaySpeak, Over, Idle
  <1>13. ASSUME StopDecoder PROVE Calm
    BY <1>0, <1>13 DEF StopDecoder, clientVars, sendVars, toldVars, Calm, MaySpeak, Over, Idle
  <1>14. ASSUME StopDecoderFails PROVE Calm
    BY <1>0, <1>14, FlagsSet DEF StopDecoderFails, BeginStop, clientVars, sendVars, toldVars, Calm, MaySpeak, Over, Idle
  <1>15. ASSUME SenderExits PROVE Calm
    BY <1>0, <1>15 DEF SenderExits, clientVars, handlerVars, workVars, toldVars, Calm, MaySpeak, Over, Idle
  <1>16. ASSUME ClientDrops PROVE Calm
    BY <1>0, <1>16 DEF ClientDrops, handlerVars, workVars, sendVars, toldVars, Calm, MaySpeak, Over, Idle
  <1>17. ASSUME NEW m \in Message, ClientSends(m) PROVE Calm
    BY <1>17 DEF ClientSends, handlerVars, workVars, sendVars, toldVars, Calm, MaySpeak, Over, Idle
  <1>18. ASSUME UNCHANGED vars PROVE Calm
    BY <1>18 DEF vars, clientVars, handlerVars, workVars, sendVars, toldVars, Calm, MaySpeak, Over, Idle
  <1>19. ASSUME HandleStart PROVE SpeechInv'
    <2>1. queue' = << >> /\ worker' = "none" /\ ~Over' /\ Idle /\ utterance' = utterance /\ link' = link
      BY <1>19 DEF HandleStart, Got, clientVars, sendVars, toldVars, FreshRuntime, Over, Idle, ControlInv, TasksInv
    <2>2. OutcomeIsLast' /\ RevisionsIncrease'
      BY <2>1 DEF OutcomeIsLast, RevisionsIncrease
    <2>3. SpeakerInv'
      BY <2>1 DEF SpeakerInv, MaySpeak
    <2>4. OutcomeInv'
      BY <2>1 DEF SpeechInv, OutcomeInv, Settled
    <2>5. RevisionInv'
      <3>1. Len(utterance') # streamId'
        <4>1. streamId' = streamId + 1 /\ Len(utterance') = Len(utterance) /\ Len(utterance) <= streamId
          BY <1>19, <2>1 DEF HandleStart, ControlInv, StreamInv
        <4>2. Len(utterance) \in Nat /\ streamId \in Nat
          BY <1>0
        <4> QED
          BY <4>1, <4>2
      <3> QED
        BY <2>1, <3>1 DEF RevisionInv
    <2> QED
      BY <2>2, <2>3, <2>4, <2>5 DEF SpeechInv
  <1>20. ASSUME OpenUtterance PROVE SpeechInv'
    <2>1. /\ queue = << >> /\ runtime /\ ~rt.cancel /\ ~rt.final /\ ~rt.closed
          /\ streamId = Len(utterance) + 1 /\ Idle
      BY <1>20 DEF OpenUtterance, Idle, ControlInv, TasksInv, FlagsInv, StreamInv
    <2>2. UNCHANGED <<queue, runtime, streamId, session>> /\ worker' = "waiting"
      BY <1>20 DEF OpenUtterance
    <2>3. CASE SendRaises /\ BeginStop("disconnect") /\ utterance' = utterance
      <3>1. Calm
        BY <1>0, <2>1, <2>2, <2>3, FlagsSet DEF SendRaises, BeginStop, Calm, MaySpeak, Over, Idle
      <3> QED
        BY <3>1, SpeechFrame
    <2>4. CASE /\ SendWorks /\ utterance' = Append(utterance, [phase |-> "active", rev |-> 0])
               /\ handler' = "waiting" /\ UNCHANGED <<rt, link>>
      <3>1. /\ Len(utterance') = streamId /\ utterance'[streamId] = [phase |-> "active", rev |-> 0]
            /\ \A s \in 1..Len(utterance) : utterance'[s] = utterance[s]
        BY <1>0, <2>1, <2>4, AppendProperties
      <3>2. OutcomeIsLast' /\ RevisionsIncrease'
        BY <2>1, <2>2 DEF OutcomeIsLast, RevisionsIncrease
      <3>3. SpeakerInv'
        BY <2>1, <2>2, <3>1 DEF SpeakerInv, Silent
      <3>4. OutcomeInv'
        <4>1. ~Over' /\ ~Idle'
          BY <2>1, <2>2, <2>4 DEF Over, Idle
        <4>2. \A s \in 1..Len(utterance) : Settled(s)
          BY <2>1, <2>4 DEF SendWorks, SpeechInv, OutcomeInv
        <4>3. Len(utterance') - 1 = Len(utterance)
          BY <1>0, <2>1, <3>1
        <4>4. \A s \in 1..(Len(utterance') - 1) : Settled(s)'
          BY <3>1, <4>2, <4>3 DEF Settled
        <4> QED
          BY <4>1, <4>4 DEF OutcomeInv
      <3>5. RevisionInv'
        BY <1>0, <2>1, <2>2, <3>1 DEF RevisionInv
      <3> QED
        BY <3>2, <3>3, <3>4, <3>5 DEF SpeechInv
    <2> QED
      BY <1>20, <2>3, <2>4 DEF OpenUtterance
  <1>21. ASSUME HandleCancel PROVE SpeechInv'
    <2>1. MaySpeak
      BY <1>21 DEF HandleCancel, Got, MaySpeak, ControlInv, TasksInv, FlagsInv, Serving
    <2>2. /\ CancelWarning \in Event /\ Closes(CancelWarning) /\ CancelWarning.stream = streamId
          /\ CancelWarning.type # "transcript"
      BY <1>0 DEF CancelWarning, Event, Closes
    <2>3. /\ queue' = Append(queue, CancelWarning) /\ UNCHANGED <<utterance, streamId, link, runtime>>
          /\ handler' = "joinCancel" /\ rt' = RequestCancel /\ session' = DiscardAudio
      BY <1>21 DEF HandleCancel, clientVars, toldVars
    <2>4. session'.rev = session.rev
      BY <1>0, <2>3, RevisionsTaken
    <2>5. ~MaySpeak' /\ ~Idle'
      BY <1>0, <2>3, FlagsSet DEF MaySpeak, Idle
    <2> QED
      BY <1>0, <1>a, <2>1, <2>2, <2>3, <2>4, <2>5, SpeechQueued
  <1>22. ASSUME QueuePong PROVE SpeechInv'
    <2>1. Pong \in Event /\ ~Closes(Pong) /\ ~Speaks(Pong) /\ Pong.type # "transcript"
      BY DEF Pong, Event, Closes, Speaks
    <2>2. /\ queue' = Append(queue, Pong) /\ UNCHANGED <<utterance, streamId, link, session>>
          /\ (MaySpeak' => MaySpeak) /\ (Over' => Over) /\ ~Idle'
      BY <1>22 DEF QueuePong, Got, clientVars, workVars, toldVars, MaySpeak, Over, Idle
    <2> QED
      BY <1>0, <2>1, <2>2, SpeechQueued
  <1>23. ASSUME FinalizeJoined PROVE SpeechInv'
    <2>1. CASE sender # "dead"
      <3>1. Over /\ queue = << >>
        BY <1>23 DEF FinalizeJoined, AllSent, Over, ControlInv, TasksInv, FlagsInv, Serving
      <3>2. /\ queue' = << >> /\ worker' = "none" /\ runtime' = FALSE /\ handler' = "waiting"
            /\ UNCHANGED <<utterance, streamId, session, link>>
        BY <1>23, <2>1 DEF FinalizeJoined, clientVars, toldVars
      <3> QED
        BY <3>1, <3>2, SpeechClosed
    <2>2. CASE sender = "dead"
      <3>1. Calm
        BY <1>0, <1>23, <2>2, FlagsSet
           DEF FinalizeJoined, BeginStop, clientVars, sendVars, toldVars, Calm, MaySpeak, Over, Idle
      <3> QED
        BY <3>1, SpeechFrame
    <2> QED
      BY <2>1, <2>2
  <1>24. ASSUME StopSender PROVE SpeechInv'
    <2>1. stopFor = "loop" => Over /\ queue = << >>
      BY <1>24 DEF StopSender, Over, AllSent, ControlInv, FlagsInv, Stopping
    <2>2. /\ queue' = << >> /\ worker' = "none" /\ runtime' = FALSE /\ handler' # "opening"
          /\ (handler' = "waiting" => stopFor = "loop")
          /\ UNCHANGED <<utterance, streamId, session, link>>
      BY <1>24 DEF StopSender, clientVars, toldVars
    <2> QED
      BY <2>1, <2>2, SpeechClosed
  <1>25. ASSUME SenderDelivers PROVE SpeechInv'
    <2>1. Heard(Head(queue))
      BY <1>25, TellHeard DEF SenderDelivers
    <2> QED
      BY <1>25, <2>1, SpeechSent DEF SenderDelivers, handlerVars, workVars
  <1>26. ASSUME SenderDies PROVE SpeechInv'
    BY <1>26, SpeechSent DEF SenderDies, SendRaises, handlerVars, workVars, toldVars
  <1>27. ASSUME Worker PROVE SpeechInv'
    <2>1. WorkerMoves
      BY <1>27, WorkerStep
    <2>2. CASE WorkerQuiet
      <3>1. Calm
        BY <2>1, <2>2 DEF WorkerMoves, WorkerQuiet, Calm, MaySpeak, Over, Idle
      <3> QED
        BY <3>1, SpeechFrame
    <2>3. ASSUME NEW e \in Event, WorkerSays(e) PROVE SpeechInv'
      <3>1. MaySpeak
        BY <2>1, <2>3 DEF WorkerMoves, WorkerSays, MaySpeak
      <3>2. /\ MaySpeak' => ~Closes(e)
            /\ Over' => Over \/ Closes(e)
            /\ Idle' => Idle
        BY <2>1, <2>3 DEF WorkerMoves, WorkerSays, MaySpeak, Over, Idle
      <3>3. /\ queue' = Append(queue, e) /\ UNCHANGED <<utterance, streamId, link>>
            /\ e.stream = streamId /\ e.rev = session.rev + 1 /\ session'.rev = session.rev + 1
        BY <2>1, <2>3 DEF WorkerMoves, WorkerSays
      <3>4. session'.rev \in Nat /\ session'.rev > session.rev
        BY <1>0, <3>3
      <3> QED
        BY <1>0, <1>a, <3>1, <3>2, <3>3, <3>4, SpeechQueued
    <2> QED
      BY <2>1, <2>2, <2>3 DEF WorkerMoves
  <1> QED
    BY <1>1, <1>2, <1>3, <1>4, <1>5, <1>6, <1>7, <1>8, <1>9, <1>10, <1>11, <1>12, <1>13, <1>14, <1>15, <1>16, <1>17, <1>18, <1>19, <1>20, <1>21, <1>22, <1>23, <1>24, <1>25, <1>26, <1>27, SpeechFrame
       DEF Next, Client, Handler, Sender, Quiet

(* Nothing is said before the first utterance. *)
LEMMA SpeechInit ==
  ASSUME Init
  PROVE  SpeechInv
  BY DEF Init, SpeechInv, OutcomeIsLast, RevisionsIncrease, SpeakerInv, MaySpeak, OutcomeInv, Over, Idle,
         RevisionInv

(* The invariant of the whole connection. *)
IInv == TypeOK /\ ControlInv /\ SpeechInv

(* Every reachable state satisfies the invariant. *)
LEMMA Inductive == Spec => []IInv
  <1>1. Init => IInv
    BY TypeInit, ControlInit, SpeechInit DEF IInv
  <1>2. IInv /\ [Next]_vars => IInv'
    BY TypeStep, ControlStep, SpeechStep DEF IInv
  <1> QED
    BY <1>1, <1>2, PTL DEF Spec

(* Whatever the client sends, however decodes and sends end and whichever   *)
(* way the three tasks interleave, nothing more is queued about an          *)
(* utterance behind its final transcript or the warning that it was         *)
(* canceled, or sent once the client has it.                                *)
THEOREM OutcomeLast == Spec => []OutcomeIsLast
  <1>1. IInv => OutcomeIsLast
    BY DEF IInv, SpeechInv
  <1> QED
    BY <1>1, Inductive, PTL

(* The revisions of an utterance's transcripts reach the client in strictly *)
(* increasing order.                                                        *)
THEOREM RevisionsRise == Spec => []RevisionsIncrease
  <1>1. IInv => RevisionsIncrease
    BY DEF IInv, SpeechInv
  <1> QED
    BY <1>1, Inductive, PTL

(* What the client is told follows UtteranceLifecycle: an utterance is only  *)
(* opened when none is active, each transcript raises the revision of the    *)
(* active utterance, and an outcome ends it.                                 *)
THEOREM Refinement == Spec => LifecycleSpec
  <1>1. Init => Lifecycle!Init
    BY DEF Init, Lifecycle!Init
  <1>2. ASSUME IInv, [Next]_vars PROVE [Lifecycle!Next]_utterance
    <2>0. /\ queue \in Seq(Event) /\ utterance \in Seq(Told) /\ streamId \in Nat
          /\ DOMAIN utterance = 1..Len(utterance) /\ Len(utterance) \in Nat
      BY <1>2 DEF IInv, TypeOK, HandlerTypeOK, SendTypeOK, ToldTypeOK
    <2>1. ASSUME OpenUtterance, utterance' # utterance PROVE Lifecycle!Open
      <3>1. /\ handler = "opening" /\ link # "broken"
            /\ utterance' = Append(utterance, [phase |-> "active", rev |-> 0])
        BY <2>1 DEF OpenUtterance, SendWorks
      <3>2. \A s \in 1..Len(utterance) : Settled(s)
        BY <1>2, <3>1 DEF IInv, SpeechInv, OutcomeInv, Idle
      <3> QED
        BY <2>0, <3>1, <3>2 DEF Lifecycle!Open, Settled
    <2>2. ASSUME SenderDelivers, utterance' # utterance
          PROVE  \E s \in DOMAIN utterance :
                   Lifecycle!Partial(s) \/ Lifecycle!Final(s) \/ Lifecycle!Cancel(s)
      <3> DEFINE h == Head(queue)
      <3>1. queue # << >> /\ Tell(h)
        BY <2>2 DEF SenderDelivers
      <3>2. 1 \in DOMAIN queue /\ h = queue[1] /\ h \in Event
        BY <2>0, <3>1
      <3>3. Speaks(h)
        BY <2>2, <3>1, <3>2 DEF Tell, Event, Speaks
      <3>4. h.stream \in DOMAIN utterance /\ utterance[h.stream].phase = "active"
        BY <1>2, <3>2, <3>3 DEF IInv, SpeechInv, OutcomeIsLast
      <3>5. h.type = "transcript" => h.rev > utterance[h.stream].rev
        BY <1>2, <3>2 DEF IInv, SpeechInv, RevisionsIncrease
      <3>6. ASSUME NEW phase,
                   utterance' = [utterance EXCEPT ![h.stream] = [phase |-> phase, rev |-> h.rev]],
                   h.type = "transcript"
            PROVE  Lifecycle!Transcript(h.stream, phase)
        <4>1. utterance'[h.stream].rev = h.rev
          BY <2>0, <3>4, <3>6
        <4> QED
          BY <3>4, <3>5, <3>6, <4>1 DEF Lifecycle!Transcript
      <3>7. CASE h.type = "transcript"
        BY <3>1, <3>4, <3>6, <3>7 DEF Tell, Lifecycle!Partial, Lifecycle!Final
      <3>8. CASE h.type = "stream_canceled"
        BY <3>1, <3>4, <3>8 DEF Tell, Lifecycle!Cancel
      <3> QED
        BY <3>3, <3>7, <3>8 DEF Speaks
    <2>3. ASSUME ~OpenUtterance, ~SenderDelivers PROVE utterance' = utterance
      <3>1. ASSUME Worker PROVE utterance' = utterance
        BY <1>2, <3>1, WorkerStep DEF IInv, WorkerMoves
      <3>2. ASSUME Handler PROVE utterance' = utterance
        BY <2>3, <3>2 DEF Handler, ReceiveCompletes, WorkerEnded, HandleRejected, HandleLeaving,
           HandleStart, OpenFails, HandleAudio, HandleFinalize, HandleCancel, QueuePong, SendPong,
           HandlePong, FinalizeDecoded, FinalizeJoined, JoinedThenStop, StopWorker, StopDecoder,
           StopDecoderFails, StopSender, toldVars
      <3> QED
        BY <1>2, <2>3, <3>1, <3>2 DEF Next, Client, ClientSends, ClientDrops, Sender, SenderDies,
           SenderExits, Quiet, vars, toldVars
    <2> QED
      BY <1>2, <2>1, <2>2, <2>3 DEF Lifecycle!Next
  <1> QED
    BY <1>1, <1>2, Inductive, PTL DEF Spec, LifecycleSpec, Lifecycle!Spec

(* When sends do not fail while the handler runs, the handler never waits in *)
(* join() for a sender that has gone.                                        *)
THEOREM JoinServed ==
  ASSUME ~SendsFail
  PROVE  Spec => []JoinHasSender
  <1> DEFINE DeadInv == sender = "dead" => handler = "done"
  <1>1. Init => DeadInv
    BY DEF Init
  <1>2. ASSUME IInv, DeadInv, [Next]_vars PROVE DeadInv'
    <2>1. CASE Handler
      <3>1. handler # "done" /\ (sender' = "dead" => sender = "dead")
        BY <2>1 DEF Handler, ReceiveCompletes, WorkerEnded, HandleRejected, HandleLeaving, Got,
           HandleStart, OpenUtterance, OpenFails, HandleAudio, HandleFinalize, HandleCancel, QueuePong,
           SendPong, HandlePong, FinalizeDecoded, FinalizeJoined, JoinedThenStop, StopWorker,
           StopDecoder, StopDecoderFails, StopSender, sendVars
      <3> QED
        BY <1>2, <3>1
    <2>2. CASE Sender
      BY <1>2, <2>2 DEF Sender, SenderDelivers, SenderDies, SenderExits, SendRaises, handlerVars
    <2>3. CASE Worker
      BY <1>2, <2>3, WorkerStep DEF IInv, WorkerMoves
    <2>4. CASE Client \/ UNCHANGED vars
      BY <1>2, <2>4 DEF Client, ClientSends, ClientDrops, vars, handlerVars, sendVars
    <2> QED
      BY <1>2, <2>1, <2>2, <2>3, <2>4 DEF Next, Quiet
  <1>3. IInv /\ DeadInv => JoinHasSender
    <2> SUFFICES ASSUME IInv, DeadInv, handler \in {"joinFinal", "joinCancel", "joinAuto"}, queue # << >>
                 PROVE  sender = "running"
      BY DEF JoinHasSender, AllSent
    <2>1. sender # "dead" /\ sender # "exited" /\ sender # "none"
      BY DEF IInv, ControlInv, TasksInv, FlagsInv, Serving
    <2> QED
      BY <2>1 DEF IInv, TypeOK, SendTypeOK
  <1> QED
    BY <1>1, <1>2, <1>3, Inductive, PTL DEF Spec

-----------------------------------------------------------------------------
(***************************************************************************)
(* What the worker of LocalSttStream is woken for, what its decodes cover, *)
(* and what becomes of the recognizer, for every value of the constants.   *)
(* FlowInv says where handler and worker may be together, DecoderInv who   *)
(* holds the recognizer, WakeInv what a worker that is not to be woken has *)
(* seen, and AudioInv which audio its snapshot and the last partial cover. *)
(***************************************************************************)

FinalDecodes == {"flush", "finalize", "release", "transcribe"}

(* Handler and worker. *)
FlowInv ==
  /\ handler = "opening" =>
       rt = FreshRuntime /\ decoder = NoDecoder /\ \E cfg \in StartConfigs : session = FreshSession(cfg)
  /\ runtime /\ handler \in {"waiting", "joinCancel", "joinAuto"} => ~rt.finalize
  /\ handler \in Stopping \cup {"done"} /\ worker # "none" => rt.closed
  /\ handler \in {"stopDecoder", "stopSender", "done"} => worker \in Ended \cup {"none"}
  /\ handler = "joinFinal" => worker = "done"
  /\ handler = "finalizing" => rt.finalize
  /\ worker \in FinalDecodes => handler = "finalizing"

(* The runtime or the worker holds an open recognizer, and there is none    *)
(* once the handler has nothing left that would close it.                   *)
DecoderInv ==
  /\ decoder.ref => decoder.state = "open"
  /\ decoder.state = "open" => decoder.ref \/ worker = "release"
  /\ decoder.closes = IF decoder.state = "closed" THEN 1 ELSE 0
  /\ worker \in {"flush", "finalize"} => decoder.ref
  /\ worker = "release" => decoder.state = "open" /\ ~decoder.ref
  /\ worker = "transcribe" => ~decoder.ref
  /\ ~runtime \/ handler \in {"stopSender", "done"} => decoder.state # "open"
  /\ handler \in {"finalizing", "joinFinal"} /\ worker = "done" => decoder.state # "open"

(* A worker that decodes a partial, and will not look again behind it, has  *)
(* all there is in its snapshot.                                            *)
WakeInv ==
  /\ NoLostWakeup
  /\ worker = "partial" /\ ~rt.audioUpdated =>
       ~rt.finalize /\ session.chunks = job.chunks /\ session.buffer = job.audio

(* Where a partial of the first n units begins, without a recognizer. *)
WindowStart(n) == IF n <= session.cfg.window THEN 0 ELSE n - session.cfg.window

(* The snapshot of the worker, what its recognizer was fed, and the audio of *)
(* a last partial that is not older than the session.                        *)
AudioInv ==
  /\ session.lastChunks <= session.chunks
  /\ decoder.offset = decoder.fed
  /\ worker = "partial" =>
       /\ job.chunks <= session.chunks
       /\ ~rt.cancel /\ job.chunks = session.chunks => job.audio = session.buffer
       /\ job.lo = IF decoder.ref THEN decoder.offset ELSE WindowStart(job.audio)
  /\ worker \in FinalDecodes => job.audio = session.buffer
  /\ worker = "flush" => job.lo = decoder.offset
  /\ worker \in {"finalize", "release"} => decoder.fed = job.audio
  /\ worker \in {"waiting", "partial"} /\ ~decoder.ref /\ session.lastChunks = session.chunks =>
       session.result \in {NoResult, [lo |-> WindowStart(session.buffer), hi |-> session.buffer]}

CoverInv == FlowInv /\ DecoderInv /\ WakeInv /\ AudioInv
(***************************************************************************)
(* What the updates of the records leave in their fields.                  *)
(***************************************************************************)

LEMMA DecoderFields ==
  ASSUME decoder \in Decoder, job \in Job
  PROVE  /\ ~NoDecoder.ref /\ NoDecoder.state = "none" /\ NoDecoder.closes = 0
         /\ NoDecoder.offset = 0 /\ NoDecoder.fed = 0
         /\ NewDecoder.ref /\ NewDecoder.state = "open" /\ NewDecoder.closes = 0
         /\ NewDecoder.offset = 0 /\ NewDecoder.fed = 0
         /\ ~DropDecoder.ref /\ DropDecoder.state = "closed" /\ DropDecoder.closes = decoder.closes + 1
         /\ DropDecoder.offset = decoder.offset /\ DropDecoder.fed = decoder.fed
         /\ CloseDecoder.ref = decoder.ref /\ CloseDecoder.state = "closed"
         /\ CloseDecoder.closes = decoder.closes + 1
         /\ CloseDecoder.offset = decoder.offset /\ CloseDecoder.fed = decoder.fed
         /\ Fed.ref = decoder.ref /\ Fed.state = decoder.state /\ Fed.closes = decoder.closes
         /\ Fed.offset = decoder.offset + (job.audio - job.lo)
         /\ Fed.fed = decoder.fed + (job.audio - job.lo)
  <1>1. /\ ~NoDecoder.ref /\ NoDecoder.state = "none" /\ NoDecoder.closes = 0
        /\ NoDecoder.offset = 0 /\ NoDecoder.fed = 0
    BY DEF NoDecoder
  <1>2. /\ NewDecoder.ref /\ NewDecoder.state = "open" /\ NewDecoder.closes = 0
        /\ NewDecoder.offset = 0 /\ NewDecoder.fed = 0
    BY DEF NewDecoder, NoDecoder
  <1>3. /\ ~DropDecoder.ref /\ DropDecoder.state = "closed" /\ DropDecoder.closes = decoder.closes + 1
        /\ DropDecoder.offset = decoder.offset /\ DropDecoder.fed = decoder.fed
    BY DEF DropDecoder, Decoder
  <1>4. /\ CloseDecoder.ref = decoder.ref /\ CloseDecoder.state = "closed"
        /\ CloseDecoder.closes = decoder.closes + 1
        /\ CloseDecoder.offset = decoder.offset /\ CloseDecoder.fed = decoder.fed
    BY DEF CloseDecoder, Decoder
  <1>5. /\ Fed.ref = decoder.ref /\ Fed.state = decoder.state /\ Fed.closes = decoder.closes
        /\ Fed.offset = decoder.offset + (job.audio - job.lo)
        /\ Fed.fed = decoder.fed + (job.audio - job.lo)
    BY DEF Fed, Decoder
  <1> QED
    BY <1>1, <1>2, <1>3, <1>4, <1>5

(* The audio and the chunks of a session, and the last partial, when it has *)
(* been created, has taken a chunk, and has been discarded.                 *)
LEMMA SessionFields ==
  ASSUME session \in Session
  PROVE  /\ \A cfg \in StartConfigs :
              LET s == FreshSession(cfg)
              IN s.cfg = cfg /\ s.buffer = 0 /\ s.chunks = 0 /\ s.lastChunks = 0 /\ s.lastAudio = 0
                   /\ s.result = NoResult
         /\ \A size \in Nat :
              LET s == [session EXCEPT !.buffer = @ + size, !.chunks = @ + 1]
              IN /\ s.buffer = session.buffer + size /\ s.chunks = session.chunks + 1
                 /\ s.cfg = session.cfg /\ s.lastChunks = session.lastChunks
                 /\ s.lastAudio = session.lastAudio /\ s.result = session.result
         /\ DiscardAudio.buffer = 0 /\ DiscardAudio.result = NoResult
         /\ DiscardAudio.chunks = session.chunks /\ DiscardAudio.lastChunks = session.lastChunks
         /\ DiscardAudio.cfg = session.cfg
  <1>1. ASSUME NEW cfg \in StartConfigs
        PROVE  LET s == FreshSession(cfg)
               IN s.cfg = cfg /\ s.buffer = 0 /\ s.chunks = 0 /\ s.lastChunks = 0 /\ s.lastAudio = 0
                    /\ s.result = NoResult
    BY DEF FreshSession
  <1>2. ASSUME NEW size \in Nat
        PROVE  LET s == [session EXCEPT !.buffer = @ + size, !.chunks = @ + 1]
               IN /\ s.buffer = session.buffer + size /\ s.chunks = session.chunks + 1
                  /\ s.cfg = session.cfg /\ s.lastChunks = session.lastChunks
                  /\ s.lastAudio = session.lastAudio /\ s.result = session.result
    BY DEF Session
  <1>3. /\ DiscardAudio.buffer = 0 /\ DiscardAudio.result = NoResult
        /\ DiscardAudio.chunks = session.chunks /\ DiscardAudio.lastChunks = session.lastChunks
        /\ DiscardAudio.cfg = session.cfg
    BY DEF DiscardAudio, Session
  <1> QED
    BY <1>1, <1>2, <1>3

(* A decode changes no audio: only the counters of the last partial.        *)
SameAudio(s) == s.buffer = session.buffer /\ s.chunks = session.chunks /\ s.cfg = session.cfg

(* What the worker makes of the session when a partial has returned. *)
LEMMA PartialFields ==
  ASSUME session \in Session, job \in Job
  PROVE  /\ LET s == [session EXCEPT !.lastChunks = job.chunks, !.lastAudio = job.audio]
            IN SameAudio(s) /\ s.lastChunks = job.chunks /\ s.lastAudio = job.audio
                 /\ s.result = session.result
         /\ \A range \in AudioRange, text \in Texts \cup {NoText} :
              \A s \in {RecordPartial(range), WithStability(RecordPartial(range), text)} :
                 s \in Session /\ SameAudio(s) /\ s.lastChunks = job.chunks /\ s.lastAudio = job.audio
                   /\ s.result = range
         /\ \A s \in Session :
              LET t == [s EXCEPT !.rev = @ + 1]
              IN t.buffer = s.buffer /\ t.chunks = s.chunks /\ t.cfg = s.cfg /\ t.lastChunks = s.lastChunks
                   /\ t.lastAudio = s.lastAudio /\ t.result = s.result
  <1>1. LET s == [session EXCEPT !.lastChunks = job.chunks, !.lastAudio = job.audio]
        IN SameAudio(s) /\ s.lastChunks = job.chunks /\ s.lastAudio = job.audio
             /\ s.result = session.result
    BY DEF Session, SameAudio
  <1>2. ASSUME NEW range \in AudioRange
        PROVE  /\ RecordPartial(range) \in Session /\ SameAudio(RecordPartial(range))
               /\ RecordPartial(range).lastChunks = job.chunks
               /\ RecordPartial(range).lastAudio = job.audio /\ RecordPartial(range).result = range
    <2>1. RecordPartial(range) \in Session
      BY SessionTyped
    <2>2. /\ SameAudio(RecordPartial(range)) /\ RecordPartial(range).lastChunks = job.chunks
          /\ RecordPartial(range).lastAudio = job.audio /\ RecordPartial(range).result = range
      BY DEF RecordPartial, Session, SameAudio
    <2> QED
      BY <2>1, <2>2
  <1>3. ASSUME NEW s \in Session, NEW text \in Texts \cup {NoText}
        PROVE  LET t == WithStability(s, text)
               IN t.buffer = s.buffer /\ t.chunks = s.chunks /\ t.cfg = s.cfg /\ t.lastChunks = s.lastChunks
                    /\ t.lastAudio = s.lastAudio /\ t.result = s.result
    BY DEF WithStability, Session
  <1>4. ASSUME NEW range \in AudioRange, NEW text \in Texts \cup {NoText}
        PROVE  LET s == WithStability(RecordPartial(range), text)
               IN s \in Session /\ SameAudio(s) /\ s.lastChunks = job.chunks /\ s.lastAudio = job.audio
                    /\ s.result = range
    <2>1. WithStability(RecordPartial(range), text) \in Session
      BY <1>2, SessionTyped
    <2> QED
      BY <1>2, <1>3, <2>1 DEF SameAudio
  <1>5. ASSUME NEW s \in Session
        PROVE  LET t == [s EXCEPT !.rev = @ + 1]
               IN t.buffer = s.buffer /\ t.chunks = s.chunks /\ t.cfg = s.cfg /\ t.lastChunks = s.lastChunks
                    /\ t.lastAudio = s.lastAudio /\ t.result = s.result
    BY DEF Session
  <1> QED
    BY <1>1, <1>2, <1>4, <1>5

(* Queueing a transcript changes nothing of the session but its revision, and *)
(* the end of an utterance nothing of the flags but final and closed.         *)
LEMMA EmitFields ==
  ASSUME NEW why, NEW s \in Session, NEW range, NEW claimed, Emit(why, s, range, claimed)
  PROVE  /\ session'.buffer = s.buffer /\ session'.chunks = s.chunks /\ session'.cfg = s.cfg
         /\ session'.lastChunks = s.lastChunks /\ session'.lastAudio = s.lastAudio
         /\ session'.result = s.result
  BY DEF Emit, Session

LEMMA FinishFields ==
  ASSUME session \in Session, NEW flags \in Flags, NEW range, NEW claimed,
         FinishUtterance(flags, range, claimed)
  PROVE  /\ worker' = "done" /\ SameAudio(session') /\ session'.lastChunks = session.lastChunks
         /\ rt'.finalize = flags.finalize /\ (flags.closed => rt'.closed)
  <1>1. CASE flags.cancel \/ flags.closed
    BY <1>1 DEF FinishUtterance, SameAudio
  <1>2. CASE ~(flags.cancel \/ flags.closed)
    <2>1. /\ worker' = "done" /\ Emit("final", session, range, claimed)
          /\ rt' = [flags EXCEPT !.final = TRUE, !.closed = TRUE]
      BY <1>2 DEF FinishUtterance
    <2>2. rt'.finalize = flags.finalize
      BY <2>1 DEF Flags
    <2> QED
      BY <1>2, <2>1, <2>2, EmitFields DEF SameAudio
  <1> QED
    BY <1>1, <1>2

(* What the return of a partial comes to: the worker has the snapshot counted *)
(* as heard before it sleeps with audio_updated clear, and remembers as last  *)
(* partial either what it did before or the range of its snapshot.            *)
LEMMA PartialEffect ==
  ASSUME TypeOK, PartialReturns
  PROVE  /\ worker = "partial" /\ UNCHANGED <<handler, runtime, job>>
         /\ decoder' = IF decoder.ref THEN Fed ELSE decoder
         /\ SameAudio(session') /\ session'.lastChunks \in {session.lastChunks, job.chunks}
         /\ rt'.finalize = rt.finalize /\ (rt.closed => rt'.closed)
         /\ \/ worker' = "done" /\ (Abandoned \/ ~rt.finalize)
            \/ /\ worker' = "waiting" /\ ~Abandoned
               /\ rt'.closed = rt.closed /\ rt'.final = rt.final /\ rt'.cancel = rt.cancel
               /\ ~rt'.audioUpdated =>
                    ~rt.audioUpdated /\ session'.lastChunks = job.chunks /\ session'.lastAudio = job.audio
               /\ ~decoder.ref =>
                    \/ session' = session
                    \/ session'.lastChunks = job.chunks /\ session'.result = [lo |-> job.lo, hi |-> job.audio]
  <1> DEFINE covered == IF decoder.ref THEN [lo |-> 0, hi |-> Fed.fed] ELSE [lo |-> job.lo, hi |-> job.audio]
  <1>0. rt \in Flags /\ session \in Session /\ decoder \in Decoder /\ job \in Job
    BY DEF TypeOK, WorkTypeOK
  <1>1. /\ worker = "partial" /\ UNCHANGED <<handler, runtime, job>>
        /\ decoder' = IF decoder.ref THEN Fed ELSE decoder
    BY DEF PartialReturns, workerFrame, handlerVars
  <1>2. covered \in AudioRange /\ (~decoder.ref => covered = [lo |-> job.lo, hi |-> job.audio])
    <2>1. Fed.fed \in Int /\ job.lo \in Int /\ job.audio \in Int
      BY <1>0, DecoderTyped DEF Job, Decoder
    <2> QED
      BY <2>1 DEF AudioRange
  <1>3. /\ Recheck.finalize = rt.finalize /\ Recheck.cancel = rt.cancel
        /\ Recheck.closed = rt.closed /\ Recheck.final = rt.final
        /\ (~Recheck.audioUpdated => ~rt.audioUpdated)
    BY <1>0 DEF Recheck, Flags
  <1>4. CASE Abandoned /\ worker' = "done" /\ UNCHANGED <<session, rt, queue>>
    BY <1>1, <1>4 DEF SameAudio
  <1>5. CASE /\ ~Abandoned /\ decoder.ref /\ rt' = Recheck /\ worker' = "waiting"
             /\ session' = [session EXCEPT !.lastChunks = job.chunks, !.lastAudio = job.audio]
    BY <1>0, <1>1, <1>3, <1>5, PartialFields
  <1>6. CASE /\ ~Abandoned /\ rt.finalize /\ worker' = "waiting"
             /\ rt' = [rt EXCEPT !.audioUpdated = TRUE]
             /\ session' = session \/ session' = RecordPartial(covered)
    <2>1. /\ rt'.finalize = rt.finalize /\ rt'.cancel = rt.cancel /\ rt'.closed = rt.closed
          /\ rt'.final = rt.final /\ rt'.audioUpdated
      BY <1>0, <1>6 DEF Flags
    <2>2. CASE session' = session
      BY <1>1, <1>6, <2>1, <2>2 DEF SameAudio
    <2>3. CASE session' = RecordPartial(covered)
      <3>1. /\ SameAudio(session') /\ session'.lastChunks = job.chunks /\ session'.result = covered
        BY <1>0, <1>2, <2>3, PartialFields
      <3> QED
        BY <1>1, <1>2, <1>6, <2>1, <3>1
    <2> QED
      BY <1>6, <2>2, <2>3
  <1>7. ASSUME NEW text \in Texts \cup {NoText}, NEW s, s = WithStability(RecordPartial(covered), text),
               ~Abandoned, ~rt.finalize,
               \/ session' = s /\ rt' = Recheck /\ worker' = "waiting"
               \/ Emit("partial", s, covered, job.audio - job.lo) /\ rt' = Recheck /\ worker' = "waiting"
               \/ /\ Emit("auto", s, covered, job.audio - job.lo)
                  /\ rt' = [rt EXCEPT !.final = TRUE, !.closed = TRUE] /\ worker' = "done"
        PROVE  /\ SameAudio(session') /\ session'.lastChunks = job.chunks
               /\ session'.lastAudio = job.audio /\ session'.result = covered
               /\ rt'.finalize = rt.finalize /\ (rt.closed => rt'.closed)
               /\ \/ worker' = "done"
                  \/ worker' = "waiting" /\ rt' = Recheck
    <2>1. /\ s \in Session /\ SameAudio(s) /\ s.lastChunks = job.chunks
          /\ s.lastAudio = job.audio /\ s.result = covered
      BY <1>0, <1>2, <1>7, PartialFields
    <2>2. /\ SameAudio(session') /\ session'.lastChunks = job.chunks
          /\ session'.lastAudio = job.audio /\ session'.result = covered
      BY <1>7, <2>1, EmitFields DEF SameAudio
    <2>3. /\ rt'.finalize = rt.finalize /\ (rt.closed => rt'.closed)
          /\ (worker' = "done" \/ (worker' = "waiting" /\ rt' = Recheck))
      BY <1>0, <1>3, <1>7 DEF Flags
    <2> QED
      BY <2>2, <2>3
  <1>8. CASE /\ ~Abandoned /\ ~rt.finalize
             /\ \E text \in Texts \cup {NoText} :
                  LET s == WithStability(RecordPartial(covered), text)
                  IN \/ session' = s /\ rt' = Recheck /\ worker' = "waiting"
                     \/ Emit("partial", s, covered, job.audio - job.lo) /\ rt' = Recheck /\ worker' = "waiting"
                     \/ /\ Emit("auto", s, covered, job.audio - job.lo)
                        /\ rt' = [rt EXCEPT !.final = TRUE, !.closed = TRUE] /\ worker' = "done"
    <2>1. /\ SameAudio(session') /\ session'.lastChunks = job.chunks
          /\ session'.lastAudio = job.audio /\ session'.result = covered
          /\ rt'.finalize = rt.finalize /\ (rt.closed => rt'.closed)
          /\ \/ worker' = "done"
             \/ worker' = "waiting" /\ rt' = Recheck
      BY <1>7, <1>8
    <2> QED
      BY <1>1, <1>2, <1>3, <1>8, <2>1
  <1> QED
    <2>1. \/ Abandoned /\ worker' = "done" /\ UNCHANGED <<session, rt, queue>>
          \/ /\ ~Abandoned /\ decoder.ref /\ rt' = Recheck /\ worker' = "waiting"
             /\ session' = [session EXCEPT !.lastChunks = job.chunks, !.lastAudio = job.audio]
          \/ /\ ~Abandoned /\ rt.finalize /\ worker' = "waiting"
             /\ rt' = [rt EXCEPT !.audioUpdated = TRUE]
             /\ session' = session \/ session' = RecordPartial(covered)
          \/ /\ ~Abandoned /\ ~rt.finalize
             /\ \E text \in Texts \cup {NoText} :
                  LET s == WithStability(RecordPartial(covered), text)
                  IN \/ session' = s /\ rt' = Recheck /\ worker' = "waiting"
                     \/ Emit("partial", s, covered, job.audio - job.lo) /\ rt' = Recheck /\ worker' = "waiting"
                     \/ /\ Emit("auto", s, covered, job.audio - job.lo)
                        /\ rt' = [rt EXCEPT !.final = TRUE, !.closed = TRUE] /\ worker' = "done"
      BY Zenon DEF PartialReturns
    <2> HIDE DEF covered
    <2> QED
      BY <1>4, <1>5, <1>6, <1>8, <2>1

LEMMA ConfigFields ==
  ASSUME session \in Session
  PROVE  session.cfg.interval \in Nat \ {0} /\ session.cfg.window \in Nat
  BY ConstantsAssumption DEF Session
-------------------------------------------------------------------------------
LEMMA CoverStep ==
  ASSUME TypeOK, ControlInv, CoverInv, [Next]_vars
  PROVE  CoverInv'
  <1>0. rt \in Flags /\ session \in Session /\ decoder \in Decoder /\ job \in Job
    BY DEF TypeOK, WorkTypeOK
  <1>1. ASSUME ReceiveCompletes PROVE CoverInv'
    <2>1. FlowInv'
      BY <1>1 DEF ReceiveCompletes, workVars, CoverInv, FlowInv
    <2>2. DecoderInv'
      BY <1>1 DEF ReceiveCompletes, workVars, CoverInv, DecoderInv
    <2>3. WakeInv'
      BY <1>1 DEF ReceiveCompletes, workVars, CoverInv, Abandoned, WakeInv, NoLostWakeup, PartialDue
    <2>4. AudioInv'
      BY <1>1 DEF ReceiveCompletes, workVars, CoverInv, AudioInv, WindowStart
    <2> QED
      BY <2>1, <2>2, <2>3, <2>4 DEF CoverInv
  <1>2. ASSUME WorkerEnded PROVE CoverInv'
    <2>1. FlowInv'
      BY <1>0, <1>2
         DEF WorkerEnded, BeginStop, Close, CoverInv, FlowInv, Flags, ControlInv, TasksInv,
             FlagsInv
    <2>2. DecoderInv'
      BY <1>2 DEF WorkerEnded, BeginStop, CoverInv, DecoderInv
    <2>3. WakeInv'
      BY <1>2 DEF WorkerEnded, Ended, CoverInv, WakeInv, NoLostWakeup
    <2>4. AudioInv'
      BY <1>2 DEF WorkerEnded, Ended, CoverInv, AudioInv
    <2> QED
      BY <2>1, <2>2, <2>3, <2>4 DEF CoverInv
  <1>3. ASSUME HandleRejected PROVE CoverInv'
    <2>1. FlowInv'
      BY <1>3 DEF HandleRejected, Got, BeginStop, Close, CoverInv, FlowInv, ControlInv, TasksInv
    <2>2. DecoderInv'
      BY <1>3 DEF HandleRejected, BeginStop, CoverInv, DecoderInv
    <2>3. WakeInv'
      BY <1>3
         DEF HandleRejected, BeginStop, Close, CoverInv, Abandoned, WakeInv, NoLostWakeup,
             PartialDue
    <2>4. AudioInv'
      BY <1>3 DEF HandleRejected, BeginStop, Close, CoverInv, AudioInv, WindowStart
    <2> QED
      BY <2>1, <2>2, <2>3, <2>4 DEF CoverInv
  <1>4. ASSUME HandleLeaving PROVE CoverInv'
    <2>1. FlowInv'
      BY <1>0, <1>4
         DEF HandleLeaving, Got, BeginStop, Close, CoverInv, FlowInv, Flags, ControlInv,
             TasksInv
    <2>2. DecoderInv'
      BY <1>4 DEF HandleLeaving, BeginStop, CoverInv, DecoderInv
    <2>3. WakeInv'
      BY <1>0, <1>4
         DEF HandleLeaving, BeginStop, Close, CoverInv, Abandoned, WakeInv, NoLostWakeup,
             PartialDue, Flags
    <2>4. AudioInv'
      BY <1>0, <1>4 DEF HandleLeaving, BeginStop, Close, CoverInv, AudioInv, WindowStart, Flags
    <2> QED
      BY <2>1, <2>2, <2>3, <2>4 DEF CoverInv
  <1>5. ASSUME HandleStart PROVE CoverInv'
    <2>1. /\ handler' = "opening" /\ runtime' /\ rt' = FreshRuntime /\ decoder' = NoDecoder
          /\ worker' = worker /\ session' = FreshSession(rx[1].cfg)
      BY <1>5 DEF HandleStart
    <2>2. rx[1].cfg \in StartConfigs /\ worker = "none"
      BY <1>5, GotTyped DEF HandleStart, ControlInv, TasksInv
    <2>3. session'.lastChunks = 0 /\ session'.chunks = 0
      BY <1>0, <2>1, <2>2, SessionFields
    <2>4. FlowInv'
      BY <2>1, <2>2 DEF FlowInv, Stopping, FinalDecodes
    <2>5. DecoderInv'
      BY <1>0, <2>1, <2>2, DecoderFields DEF DecoderInv
    <2>6. WakeInv'
      BY <2>1, <2>2 DEF WakeInv, NoLostWakeup
    <2>7. AudioInv'
      BY <1>0, <2>1, <2>2, <2>3, DecoderFields DEF AudioInv, FinalDecodes
    <2> QED
      BY <2>4, <2>5, <2>6, <2>7 DEF CoverInv
  <1>6. ASSUME OpenUtterance PROVE CoverInv'
    <2>1. /\ handler = "opening" /\ worker' = "waiting" /\ decoder' \in {NewDecoder, NoDecoder}
          /\ UNCHANGED <<runtime, session, job>>
      BY <1>6 DEF OpenUtterance
    <2>2. PICK cfg \in StartConfigs : rt = FreshRuntime /\ session = FreshSession(cfg)
      BY <2>1 DEF CoverInv, FlowInv
    <2>3. /\ session.buffer = 0 /\ session.chunks = 0 /\ session.lastChunks = 0
          /\ session.lastAudio = 0 /\ session.result = NoResult
      BY <1>0, <2>2, SessionFields
    <2>4. runtime
      BY <2>1 DEF ControlInv, TasksInv
    <2>5. \/ handler' = "waiting" /\ rt' = rt
          \/ handler' = "stopWorker" /\ rt' = Close
      BY <1>6, <2>4 DEF OpenUtterance, BeginStop
    <2>6. ~rt.finalize /\ ~rt.cancel /\ ~rt.closed /\ ~rt.final
      BY <2>2 DEF FreshRuntime
    <2>7. Close.closed /\ Close.audioUpdated
      BY <1>0 DEF Close, Flags
    <2>8. /\ decoder'.ref => decoder'.state = "open"
          /\ ~decoder'.ref => decoder'.state = "none"
          /\ decoder'.closes = 0 /\ decoder'.offset = decoder'.fed
      BY <1>0, <2>1, DecoderFields
    <2>9. FlowInv'
      BY <2>1, <2>5, <2>6, <2>7 DEF FlowInv, Stopping, FinalDecodes
    <2>10. DecoderInv'
      BY <2>1, <2>4, <2>5, <2>8 DEF DecoderInv
    <2>11. WakeInv'
      <3>1. ~PartialDue'
        BY <1>0, <2>1, <2>3, ConfigFields DEF PartialDue
      <3> QED
        BY <2>1, <2>5, <2>6, <2>7, <3>1 DEF WakeInv, NoLostWakeup, Abandoned
    <2>12. AudioInv'
      BY <2>1, <2>3, <2>8 DEF AudioInv, FinalDecodes
    <2> QED
      BY <2>9, <2>10, <2>11, <2>12 DEF CoverInv
  <1>7. ASSUME OpenFails PROVE CoverInv'
    <2>1. FlowInv'
      BY <1>7 DEF OpenFails, BeginStop, CoverInv, FlowInv, ControlInv, TasksInv
    <2>2. DecoderInv'
      BY <1>7 DEF OpenFails, BeginStop, CoverInv, DecoderInv
    <2>3. WakeInv'
      BY <1>7
         DEF OpenFails, BeginStop, Close, CoverInv, Abandoned, WakeInv, NoLostWakeup, PartialDue
    <2>4. AudioInv'
      BY <1>7 DEF OpenFails, BeginStop, Close, CoverInv, AudioInv, WindowStart
    <2> QED
      BY <2>1, <2>2, <2>3, <2>4 DEF CoverInv
  <1>8. ASSUME HandleAudio PROVE CoverInv'
    <2>1. FlowInv'
      BY <1>8 DEF HandleAudio, Got, CoverInv, NoteAudio, FlowInv
    <2>2. DecoderInv'
      BY <1>8 DEF HandleAudio, CoverInv, DecoderInv
    <2>3. WakeInv'
      BY <1>8 DEF HandleAudio, CoverInv, NoteAudio, WakeInv, NoLostWakeup
    <2>4. AudioInv'
      <3>1. rx[1].size \in Nat
        BY <1>8, GotTyped DEF HandleAudio
      <3>2. /\ session'.chunks = session.chunks + 1 /\ session'.lastChunks = session.lastChunks
            /\ session'.cfg = session.cfg
        BY <1>0, <1>8, <3>1, SessionFields DEF HandleAudio
      <3>3. worker \notin FinalDecodes
        BY <1>8 DEF HandleAudio, Got, CoverInv, FlowInv
      <3>4. UNCHANGED <<worker, job, decoder>>
        BY <1>8 DEF HandleAudio
      <3>5. session.chunks \in Nat /\ session.lastChunks \in Nat /\ job.chunks \in Nat
        BY <1>0 DEF Session, Job
      <3>6. session.lastChunks <= session.chunks /\ (worker = "partial" => job.chunks <= session.chunks)
        BY DEF CoverInv, AudioInv
      <3>7. session'.lastChunks < session'.chunks /\ (worker = "partial" => job.chunks < session'.chunks)
        BY <3>2, <3>5, <3>6
      <3> QED
        BY <3>2, <3>3, <3>4, <3>5, <3>7 DEF CoverInv, AudioInv, FinalDecodes, WindowStart
    <2> QED
      BY <2>1, <2>2, <2>3, <2>4 DEF CoverInv
  <1>9. ASSUME HandleFinalize PROVE CoverInv'
    <2>1. FlowInv'
      BY <1>9 DEF HandleFinalize, Stopping, CoverInv, RequestFinalize, FlowInv
    <2>2. DecoderInv'
      BY <1>9 DEF HandleFinalize, Got, Ended, CoverInv, DecoderInv
    <2>3. WakeInv'
      BY <1>9 DEF HandleFinalize, CoverInv, RequestFinalize, WakeInv, NoLostWakeup
    <2>4. AudioInv'
      BY <1>9 DEF HandleFinalize, CoverInv, RequestFinalize, AudioInv, WindowStart
    <2> QED
      BY <2>1, <2>2, <2>3, <2>4 DEF CoverInv
  <1>10. ASSUME HandleCancel PROVE CoverInv'
    <2>1. FlowInv'
      BY <1>10 DEF HandleCancel, Got, Stopping, CoverInv, RequestCancel, FlowInv
    <2>2. DecoderInv'
      BY <1>10 DEF HandleCancel, CoverInv, DecoderInv
    <2>3. WakeInv'
      BY <1>10 DEF HandleCancel, CoverInv, RequestCancel, WakeInv, NoLostWakeup
    <2>4. AudioInv'
      <3>1. /\ session'.chunks = session.chunks /\ session'.lastChunks = session.lastChunks
            /\ session'.cfg = session.cfg /\ session'.result = NoResult
        BY <1>0, <1>10, SessionFields DEF HandleCancel
      <3>2. worker \notin FinalDecodes
        BY <1>10 DEF HandleCancel, Got, CoverInv, FlowInv
      <3>3. UNCHANGED <<worker, job, decoder>> /\ rt'.cancel
        BY <1>0, <1>10, FlagsSet DEF HandleCancel
      <3> QED
        BY <3>1, <3>2, <3>3 DEF CoverInv, AudioInv, FinalDecodes, WindowStart
    <2> QED
      BY <2>1, <2>2, <2>3, <2>4 DEF CoverInv
  <1>11. ASSUME QueuePong PROVE CoverInv'
    <2>1. FlowInv'
      BY <1>11 DEF QueuePong, workVars, CoverInv, FlowInv
    <2>2. DecoderInv'
      BY <1>11 DEF QueuePong, workVars, CoverInv, DecoderInv
    <2>3. WakeInv'
      BY <1>11 DEF QueuePong, workVars, CoverInv, Abandoned, WakeInv, NoLostWakeup, PartialDue
    <2>4. AudioInv'
      BY <1>11 DEF QueuePong, workVars, CoverInv, AudioInv, WindowStart
    <2> QED
      BY <2>1, <2>2, <2>3, <2>4 DEF CoverInv
  <1>12. ASSUME SendPong PROVE CoverInv'
    <2>1. FlowInv'
      BY <1>12 DEF SendPong, BeginStop, CoverInv, FlowInv, ControlInv, TasksInv, Serving
    <2>2. DecoderInv'
      BY <1>12 DEF SendPong, CoverInv, DecoderInv
    <2>3. WakeInv'
      BY <1>12 DEF SendPong, BeginStop, CoverInv, Abandoned, WakeInv, NoLostWakeup, PartialDue
    <2>4. AudioInv'
      BY <1>12 DEF SendPong, BeginStop, CoverInv, AudioInv, WindowStart
    <2> QED
      BY <2>1, <2>2, <2>3, <2>4 DEF CoverInv
  <1>13. ASSUME HandlePong PROVE CoverInv'
    <2>1. FlowInv'
      BY <1>13 DEF HandlePong, workVars, CoverInv, FlowInv
    <2>2. DecoderInv'
      BY <1>13 DEF HandlePong, workVars, CoverInv, DecoderInv
    <2>3. WakeInv'
      BY <1>13 DEF HandlePong, workVars, CoverInv, Abandoned, WakeInv, NoLostWakeup, PartialDue
    <2>4. AudioInv'
      BY <1>13 DEF HandlePong, workVars, CoverInv, AudioInv, WindowStart
    <2> QED
      BY <2>1, <2>2, <2>3, <2>4 DEF CoverInv
  <1>14. ASSUME FinalizeDecoded PROVE CoverInv'
    <2>1. FlowInv'
      BY <1>0, <1>14
         DEF FinalizeDecoded, BeginStop, Close, FinalDecodes, CoverInv, FlowInv, Flags,
             ControlInv, TasksInv, FlagsInv
    <2>2. DecoderInv'
      BY <1>14 DEF FinalizeDecoded, BeginStop, CoverInv, DecoderInv
    <2>3. WakeInv'
      BY <1>14 DEF FinalizeDecoded, CoverInv, WakeInv, NoLostWakeup
    <2>4. AudioInv'
      BY <1>14 DEF FinalizeDecoded, CoverInv, AudioInv
    <2> QED
      BY <2>1, <2>2, <2>3, <2>4 DEF CoverInv
  <1>15. ASSUME FinalizeJoined PROVE CoverInv'
    <2>1. FlowInv'
      BY <1>0, <1>15
         DEF FinalizeJoined, BeginStop, Close, FinalDecodes, CoverInv, FlowInv, Flags,
             ControlInv, FlagsInv
    <2>2. DecoderInv'
      <3>1. decoder' = decoder /\ decoder.state # "open" /\ ~decoder.ref /\ worker = "done"
        BY <1>15 DEF FinalizeJoined, CoverInv, FlowInv, DecoderInv
      <3>2. worker' \in {"none", "done"}
        BY <1>15, <3>1 DEF FinalizeJoined
      <3> QED
        BY <3>1, <3>2 DEF CoverInv, DecoderInv
    <2>3. WakeInv'
      BY <1>0, <1>15
         DEF FinalizeJoined, BeginStop, Close, CoverInv, Abandoned, WakeInv, NoLostWakeup,
             PartialDue, Flags
    <2>4. AudioInv'
      <3>1. worker' \in {"none", "done"} /\ UNCHANGED <<session, job, decoder>>
        BY <1>15 DEF FinalizeJoined, CoverInv, FlowInv
      <3> QED
        BY <3>1 DEF CoverInv, AudioInv, FinalDecodes
    <2> QED
      BY <2>1, <2>2, <2>3, <2>4 DEF CoverInv
  <1>16. ASSUME JoinedThenStop PROVE CoverInv'
    <2>1. FlowInv'
      BY <1>16 DEF JoinedThenStop, BeginStop, Close, CoverInv, FlowInv, ControlInv, TasksInv
    <2>2. DecoderInv'
      BY <1>16 DEF JoinedThenStop, BeginStop, CoverInv, DecoderInv
    <2>3. WakeInv'
      BY <1>16
         DEF JoinedThenStop, BeginStop, Close, CoverInv, Abandoned, WakeInv, NoLostWakeup,
             PartialDue
    <2>4. AudioInv'
      BY <1>16 DEF JoinedThenStop, BeginStop, Close, CoverInv, AudioInv, WindowStart
    <2> QED
      BY <2>1, <2>2, <2>3, <2>4 DEF CoverInv
  <1>17. ASSUME StopWorker PROVE CoverInv'
    <2>1. FlowInv'
      BY <1>17 DEF StopWorker, workVars, Stopping, CoverInv, FlowInv
    <2>2. DecoderInv'
      BY <1>17 DEF StopWorker, workVars, CoverInv, DecoderInv
    <2>3. WakeInv'
      BY <1>17 DEF StopWorker, workVars, Ended, CoverInv, WakeInv, NoLostWakeup
    <2>4. AudioInv'
      BY <1>17 DEF StopWorker, workVars, CoverInv, AudioInv, WindowStart
    <2> QED
      BY <2>1, <2>2, <2>3, <2>4 DEF CoverInv
  <1>18. ASSUME StopDecoder PROVE CoverInv'
    <2>0. /\ handler = "stopDecoder" /\ UNCHANGED <<session, worker, job, runtime>>
          /\ worker \in Ended \cup {"none"}
      BY <1>18 DEF StopDecoder, StopDecoderFails, CoverInv, FlowInv
    <2>d. /\ ~decoder'.ref /\ decoder'.state # "open" /\ decoder'.offset = decoder'.fed
          /\ decoder'.closes = IF decoder'.state = "closed" THEN 1 ELSE 0
      <3>1. worker # "release"
        BY <2>0 DEF Ended
      <3>2. CASE decoder.ref
        <4>1. decoder' = DropDecoder
          BY <1>18, <3>2 DEF StopDecoder, StopDecoderFails
        <4>2. decoder.closes = 0 /\ decoder.offset = decoder.fed
          BY <3>2 DEF CoverInv, DecoderInv, AudioInv
        <4> QED
          BY <1>0, <4>1, <4>2, DecoderFields
      <3>3. CASE ~decoder.ref
        <4>1. decoder' = decoder
          BY <1>18, <3>3 DEF StopDecoder, StopDecoderFails
        <4> QED
          BY <3>1, <3>3, <4>1 DEF CoverInv, DecoderInv, AudioInv
      <3> QED
        BY <3>2, <3>3
    <2>1. FlowInv'
      BY <1>18 DEF StopDecoder, Stopping, CoverInv, FlowInv
    <2>2. DecoderInv'
      BY <2>0, <2>d DEF DecoderInv, Ended
    <2>3. WakeInv'
      BY <1>18 DEF StopDecoder, CoverInv, Abandoned, WakeInv, NoLostWakeup, PartialDue
    <2>4. AudioInv'
      BY <2>0, <2>d DEF CoverInv, AudioInv, FinalDecodes, Ended
    <2> QED
      BY <2>1, <2>2, <2>3, <2>4 DEF CoverInv
  <1>19. ASSUME StopDecoderFails PROVE CoverInv'
    <2>0. /\ handler = "stopDecoder" /\ UNCHANGED <<session, worker, job, runtime>>
          /\ worker \in Ended \cup {"none"}
      BY <1>19 DEF StopDecoder, StopDecoderFails, CoverInv, FlowInv
    <2>d. /\ ~decoder'.ref /\ decoder'.state # "open" /\ decoder'.offset = decoder'.fed
          /\ decoder'.closes = IF decoder'.state = "closed" THEN 1 ELSE 0
      <3>1. worker # "release"
        BY <2>0 DEF Ended
      <3>2. CASE decoder.ref
        <4>1. decoder' = DropDecoder
          BY <1>19, <3>2 DEF StopDecoder, StopDecoderFails
        <4>2. decoder.closes = 0 /\ decoder.offset = decoder.fed
          BY <3>2 DEF CoverInv, DecoderInv, AudioInv
        <4> QED
          BY <1>0, <4>1, <4>2, DecoderFields
      <3>3. CASE ~decoder.ref
        <4>1. decoder' = decoder
          BY <1>19, <3>3 DEF StopDecoder, StopDecoderFails
        <4> QED
          BY <3>1, <3>3, <4>1 DEF CoverInv, DecoderInv, AudioInv
      <3> QED
        BY <3>2, <3>3
    <2>1. FlowInv'
      BY <1>0, <1>19 DEF StopDecoderFails, BeginStop, Close, Stopping, CoverInv, FlowInv, Flags
    <2>2. DecoderInv'
      BY <2>0, <2>d DEF DecoderInv, Ended
    <2>3. WakeInv'
      BY <1>0, <1>19
         DEF StopDecoderFails, BeginStop, Close, CoverInv, Abandoned, WakeInv, NoLostWakeup,
             PartialDue, Flags
    <2>4. AudioInv'
      BY <2>0, <2>d DEF CoverInv, AudioInv, FinalDecodes, Ended
    <2> QED
      BY <2>1, <2>2, <2>3, <2>4 DEF CoverInv
  <1>20. ASSUME StopSender PROVE CoverInv'
    <2>1. FlowInv'
      BY <1>20 DEF StopSender, FinalDecodes, CoverInv, FlowInv
    <2>2. DecoderInv'
      BY <1>20 DEF StopSender, CoverInv, DecoderInv
    <2>3. WakeInv'
      BY <1>20 DEF StopSender, CoverInv, WakeInv, NoLostWakeup
    <2>4. AudioInv'
      BY <1>20 DEF StopSender, FinalDecodes, CoverInv, AudioInv
    <2> QED
      BY <2>1, <2>2, <2>3, <2>4 DEF CoverInv
  <1>21. ASSUME SenderDelivers PROVE CoverInv'
    <2>1. FlowInv'
      BY <1>21 DEF SenderDelivers, handlerVars, workVars, CoverInv, FlowInv
    <2>2. DecoderInv'
      BY <1>21 DEF SenderDelivers, handlerVars, workVars, CoverInv, DecoderInv
    <2>3. WakeInv'
      BY <1>21 DEF SenderDelivers, workVars, CoverInv, Abandoned, WakeInv, NoLostWakeup, PartialDue
    <2>4. AudioInv'
      BY <1>21 DEF SenderDelivers, workVars, CoverInv, AudioInv, WindowStart
    <2> QED
      BY <2>1, <2>2, <2>3, <2>4 DEF CoverInv
  <1>22. ASSUME SenderDies PROVE CoverInv'
    <2>1. FlowInv'
      BY <1>22 DEF SenderDies, handlerVars, workVars, CoverInv, FlowInv
    <2>2. DecoderInv'
      BY <1>22 DEF SenderDies, handlerVars, workVars, CoverInv, DecoderInv
    <2>3. WakeInv'
      BY <1>22 DEF SenderDies, workVars, CoverInv, Abandoned, WakeInv, NoLostWakeup, PartialDue
    <2>4. AudioInv'
      BY <1>22 DEF SenderDies, workVars, CoverInv, AudioInv, WindowStart
    <2> QED
      BY <2>1, <2>2, <2>3, <2>4 DEF CoverInv
  <1>23. ASSUME SenderExits PROVE CoverInv'
    <2>1. FlowInv'
      BY <1>23 DEF SenderExits, handlerVars, workVars, CoverInv, FlowInv
    <2>2. DecoderInv'
      BY <1>23 DEF SenderExits, handlerVars, workVars, CoverInv, DecoderInv
    <2>3. WakeInv'
      BY <1>23 DEF SenderExits, workVars, CoverInv, Abandoned, WakeInv, NoLostWakeup
    <2>4. AudioInv'
      BY <1>23 DEF SenderExits, workVars, CoverInv, AudioInv, WindowStart
    <2> QED
      BY <2>1, <2>2, <2>3, <2>4 DEF CoverInv
  <1>24. ASSUME WorkerLeaves PROVE CoverInv'
    <2>1. FlowInv'
      BY <1>24
         DEF WorkerLeaves, handlerVars, workerFrame, Woken, Awake, Ended, FinalDecodes,
             CoverInv, Abandoned, FlowInv, ControlInv, FlagsInv
    <2>2. DecoderInv'
      <3>1. handler \notin {"finalizing", "joinFinal"}
        BY <1>24
           DEF WorkerLeaves, Woken, Abandoned, Ended, CoverInv, FlowInv, ControlInv, TasksInv,
               FlagsInv
      <3>2. worker' = "done" /\ worker = "waiting" /\ UNCHANGED <<decoder, handler, runtime>>
        BY <1>24 DEF WorkerLeaves, Woken, workerFrame, handlerVars
      <3> QED
        BY <3>1, <3>2 DEF CoverInv, DecoderInv
    <2>3. WakeInv'
      BY <1>24 DEF WorkerLeaves, CoverInv, WakeInv, NoLostWakeup
    <2>4. AudioInv'
      BY <1>24 DEF WorkerLeaves, FinalDecodes, CoverInv, AudioInv
    <2> QED
      BY <2>1, <2>2, <2>3, <2>4 DEF CoverInv
  <1>25. ASSUME WorkerSkips PROVE CoverInv'
    <2>1. FlowInv'
      BY <1>25
         DEF WorkerSkips, handlerVars, workerFrame, Woken, Awake, CoverInv, FlowInv, ControlInv,
             TasksInv
    <2>2. DecoderInv'
      BY <1>25 DEF WorkerSkips, handlerVars, workerFrame, CoverInv, DecoderInv
    <2>3. WakeInv'
      BY <1>25 DEF WorkerSkips, Woken, Awake, CoverInv, Abandoned, WakeInv, NoLostWakeup, PartialDue
    <2>4. AudioInv'
      BY <1>25 DEF WorkerSkips, Awake, CoverInv, AudioInv, WindowStart
    <2> QED
      BY <2>1, <2>2, <2>3, <2>4 DEF CoverInv
  <1>26. ASSUME WorkerStartsPartial PROVE CoverInv'
    <2>1. FlowInv'
      BY <1>26
         DEF WorkerStartsPartial, handlerVars, workerFrame, Woken, Awake, Ended, FinalDecodes,
             CoverInv, FlowInv, ControlInv, TasksInv
    <2>2. DecoderInv'
      BY <1>26 DEF WorkerStartsPartial, handlerVars, workerFrame, Woken, CoverInv, DecoderInv
    <2>3. WakeInv'
      BY <1>26 DEF WorkerStartsPartial, Awake, CoverInv, WakeInv, NoLostWakeup
    <2>4. AudioInv'
      <3>1. /\ job' = [chunks |-> session.chunks, audio |-> session.buffer, lo |-> PartialStart]
            /\ worker' = "partial" /\ worker = "waiting" /\ UNCHANGED <<session, decoder>>
        BY <1>26 DEF WorkerStartsPartial, Woken
      <3>2. job'.chunks = session.chunks /\ job'.audio = session.buffer /\ job'.lo = PartialStart
        BY <3>1
      <3>3. session.chunks \in Nat
        BY <1>0 DEF Session
      <3>4. job'.lo = IF decoder.ref THEN decoder.offset ELSE WindowStart(session.buffer)
        BY <3>2 DEF PartialStart, WindowStart
      <3> QED
        BY <3>1, <3>2, <3>3, <3>4 DEF CoverInv, AudioInv, FinalDecodes, WindowStart
    <2> QED
      BY <2>1, <2>2, <2>3, <2>4 DEF CoverInv
  <1>27. ASSUME WorkerStartsFinal PROVE CoverInv'
    <2>1. /\ worker = "waiting" /\ ~Abandoned /\ rt.finalize
          /\ UNCHANGED <<handler, runtime, decoder>>
      BY <1>27 DEF WorkerStartsFinal, Woken, workerFrame, handlerVars
    <2>2. /\ job'.audio = session.buffer
          /\ decoder.ref => job'.lo = decoder.offset
      BY <1>27 DEF WorkerStartsFinal
    <2>3. handler = "finalizing" /\ runtime
      BY <2>1
         DEF CoverInv, FlowInv, ControlInv, TasksInv, TypeOK, HandlerTypeOK, Stopping, Abandoned
    <2>4. /\ SameAudio(session') /\ session'.lastChunks = session.lastChunks /\ rt'.finalize
          /\ \/ worker' = "done" /\ ~decoder.ref
             \/ worker' = "flush" /\ decoder.ref
             \/ worker' = "transcribe" /\ ~decoder.ref
      <3>1. Awake \in Flags /\ Awake.finalize
        BY <1>0, <2>1, FlagsTyped DEF Awake, Flags
      <3>2. CASE ~decoder.ref /\ CanReuseLastPartial
        <4>1. FinishUtterance(Awake, session.result, session.buffer)
          BY <1>27, <3>2 DEF WorkerStartsFinal
        <4> QED
          BY <1>0, <3>1, <3>2, <4>1, FinishFields
      <3>3. CASE decoder.ref \/ ~CanReuseLastPartial
        BY <1>27, <3>1, <3>3 DEF WorkerStartsFinal, SameAudio
      <3> QED
        BY <3>2, <3>3
    <2>5. FlowInv'
      BY <2>1, <2>3, <2>4 DEF FlowInv, Stopping
    <2>6. DecoderInv'
      BY <2>1, <2>3, <2>4 DEF CoverInv, DecoderInv
    <2>7. WakeInv'
      BY <2>4 DEF WakeInv, NoLostWakeup
    <2>8. AudioInv'
      BY <2>1, <2>2, <2>4 DEF CoverInv, AudioInv, FinalDecodes, SameAudio
    <2> QED
      BY <2>5, <2>6, <2>7, <2>8 DEF CoverInv
  <1>28. ASSUME PartialReturns PROVE CoverInv'
    <2> DEFINE Ends == worker' = "done" /\ (Abandoned \/ ~rt.finalize)
               Sleeps == /\ worker' = "waiting" /\ ~Abandoned
                         /\ rt'.closed = rt.closed /\ rt'.final = rt.final /\ rt'.cancel = rt.cancel
                         /\ ~rt'.audioUpdated =>
                              ~rt.audioUpdated /\ session'.lastChunks = job.chunks /\ session'.lastAudio = job.audio
                         /\ ~decoder.ref =>
                              \/ session' = session
                              \/ session'.lastChunks = job.chunks /\ session'.result = [lo |-> job.lo, hi |-> job.audio]
    <2>1. /\ worker = "partial" /\ UNCHANGED <<handler, runtime, job>>
          /\ SameAudio(session') /\ session'.lastChunks \in {session.lastChunks, job.chunks}
          /\ rt'.finalize = rt.finalize /\ (rt.closed => rt'.closed)
      BY <1>28, PartialEffect
    <2>2. Ends \/ Sleeps
      BY <1>28, PartialEffect
    <2>3. /\ decoder'.ref = decoder.ref /\ decoder'.state = decoder.state
          /\ decoder'.closes = decoder.closes /\ decoder'.offset = decoder'.fed
      BY <1>0, <1>28, PartialEffect, DecoderFields DEF CoverInv, AudioInv
    <2>4. handler # "opening" /\ handler # "joinFinal" /\ runtime
      BY <2>1 DEF CoverInv, FlowInv, ControlInv, TasksInv
    <2>5. handler = "finalizing" => ~Ends
      BY <2>1, <2>4 DEF CoverInv, FlowInv, ControlInv, FlagsInv, Abandoned, Ended
    <2>6. FlowInv'
      BY <2>1, <2>2, <2>4 DEF CoverInv, FlowInv, Stopping, Ended, FinalDecodes
    <2>7. DecoderInv'
      <3>1. decoder.state = "open" => decoder.ref
        BY <2>1 DEF CoverInv, DecoderInv
      <3> QED
        BY <2>1, <2>2, <2>3, <2>4, <2>5, <3>1 DEF CoverInv, DecoderInv
    <2>8. WakeInv'
      <3> SUFFICES ASSUME worker' = "waiting", ~rt'.audioUpdated
                   PROVE  ~rt'.finalize /\ ~Abandoned' /\ ~PartialDue'
        BY <2>2 DEF WakeInv, NoLostWakeup
      <3>1. /\ ~Abandoned /\ rt'.closed = rt.closed /\ rt'.final = rt.final /\ rt'.cancel = rt.cancel
            /\ ~rt.audioUpdated /\ session'.lastChunks = job.chunks /\ session'.lastAudio = job.audio
        BY <2>2
      <3>2. ~rt.finalize /\ session.chunks = job.chunks /\ session.buffer = job.audio
        BY <2>1, <3>1 DEF CoverInv, WakeInv
      <3>3. job.chunks \in Nat /\ job.audio \in Nat
        BY <1>0 DEF Job
      <3>4. ~PartialDue'
        BY <1>0, <2>1, <3>1, <3>2, <3>3, ConfigFields DEF PartialDue, SameAudio
      <3> QED
        BY <2>1, <3>1, <3>2, <3>4 DEF Abandoned
    <2>9. AudioInv'
      <3>1. session'.lastChunks <= session'.chunks
        BY <2>1 DEF CoverInv, AudioInv, SameAudio
      <3>2. ASSUME Sleeps, ~decoder.ref, session'.lastChunks = session'.chunks
            PROVE  session'.result \in {NoResult, [lo |-> WindowStart(session.buffer), hi |-> session.buffer]}
        <4>1. CASE session' = session
          BY <2>1, <3>2, <4>1 DEF CoverInv, AudioInv
        <4>2. CASE session'.lastChunks = job.chunks /\ session'.result = [lo |-> job.lo, hi |-> job.audio]
          <5>1. ~rt.cancel /\ job.chunks = session.chunks
            BY <2>1, <3>2, <4>2 DEF Abandoned, SameAudio
          <5>2. job.audio = session.buffer /\ job.lo = WindowStart(job.audio)
            BY <2>1, <3>2, <5>1 DEF CoverInv, AudioInv
          <5> QED
            BY <4>2, <5>2
        <4> QED
          BY <3>2, <4>1, <4>2
      <3>3. WindowStart(session.buffer)' = WindowStart(session.buffer) /\ session'.buffer = session.buffer
        BY <2>1 DEF WindowStart, SameAudio
      <3>4. worker' \notin FinalDecodes /\ worker' # "partial"
        BY <2>2 DEF FinalDecodes
      <3> HIDE DEF WindowStart
      <3>5. worker' = "waiting" => Sleeps
        BY <2>2
      <3> HIDE DEF Sleeps, Ends
      <3> QED
        BY <2>3, <3>1, <3>2, <3>3, <3>4, <3>5 DEF AudioInv, FinalDecodes
    <2> QED
      BY <2>6, <2>7, <2>8, <2>9 DEF CoverInv
  <1>29. ASSUME FlushReturns PROVE CoverInv'
    <2>1. FlowInv'
      BY <1>29 DEF FlushReturns, handlerVars, workerFrame, FinalDecodes, CoverInv, FlowInv
    <2>2. DecoderInv'
      BY <1>0, <1>29, DecoderFields DEF FlushReturns, handlerVars, workerFrame, CoverInv, DecoderInv
    <2>3. WakeInv'
      BY <1>29 DEF FlushReturns, CoverInv, WakeInv, NoLostWakeup
    <2>4. AudioInv'
      <3>1. worker = "flush" /\ worker' = "finalize" /\ decoder' = Fed /\ UNCHANGED <<session, job>>
        BY <1>29 DEF FlushReturns
      <3>2. decoder.offset = decoder.fed /\ job.lo = decoder.offset /\ job.audio = session.buffer
        BY <3>1 DEF CoverInv, AudioInv, FinalDecodes
      <3>3. decoder.offset \in Int /\ job.audio \in Int
        BY <1>0 DEF Decoder, Job
      <3>4. decoder'.offset = decoder'.fed /\ decoder'.fed = job.audio
        BY <1>0, <3>1, <3>2, <3>3, DecoderFields
      <3> QED
        BY <3>1, <3>2, <3>4 DEF CoverInv, AudioInv, FinalDecodes
    <2> QED
      BY <2>1, <2>2, <2>3, <2>4 DEF CoverInv
  <1>30. ASSUME FinalizeReturns PROVE CoverInv'
    <2>1. FlowInv'
      BY <1>30 DEF FinalizeReturns, handlerVars, workerFrame, FinalDecodes, CoverInv, FlowInv
    <2>2. DecoderInv'
      BY <1>30 DEF FinalizeReturns, handlerVars, workerFrame, CoverInv, DecoderInv
    <2>3. WakeInv'
      BY <1>30 DEF FinalizeReturns, CoverInv, WakeInv, NoLostWakeup
    <2>4. AudioInv'
      BY <1>30 DEF FinalizeReturns, FinalDecodes, CoverInv, AudioInv
    <2> QED
      BY <2>1, <2>2, <2>3, <2>4 DEF CoverInv
  <1>31. ASSUME ReleaseReturns PROVE CoverInv'
    <2>1. /\ worker = "release" /\ handler = "finalizing" /\ UNCHANGED <<handler, runtime, job>>
      BY <1>31 DEF ReleaseReturns, workerFrame, handlerVars, CoverInv, FlowInv, FinalDecodes
    <2>2. /\ worker' = "done" /\ SameAudio(session') /\ session'.lastChunks = session.lastChunks
          /\ rt'.finalize
      BY <1>0, <1>31, <2>1, FinishFields DEF ReleaseReturns, CoverInv, FlowInv
    <2>3. runtime
      BY <2>1 DEF ControlInv, TasksInv, Serving
    <2>4. /\ ~decoder'.ref /\ decoder'.state # "open" /\ decoder'.offset = decoder'.fed
          /\ decoder'.closes = IF decoder'.state = "closed" THEN 1 ELSE 0
      BY <1>0, <1>31, <2>1, DecoderFields DEF ReleaseReturns, CoverInv, DecoderInv, AudioInv
    <2>5. FlowInv'
      BY <2>1, <2>2, <2>3 DEF FlowInv, Stopping, FinalDecodes
    <2>6. DecoderInv'
      BY <2>1, <2>2, <2>3, <2>4 DEF DecoderInv
    <2>7. WakeInv'
      BY <2>2 DEF WakeInv, NoLostWakeup
    <2>8. AudioInv'
      BY <2>2, <2>4 DEF CoverInv, AudioInv, FinalDecodes, SameAudio
    <2> QED
      BY <2>5, <2>6, <2>7, <2>8 DEF CoverInv
  <1>32. ASSUME TranscribeReturns PROVE CoverInv'
    <2>1. /\ worker = "transcribe" /\ handler = "finalizing" /\ UNCHANGED <<handler, runtime, job>>
      BY <1>32 DEF TranscribeReturns, workerFrame, handlerVars, CoverInv, FlowInv, FinalDecodes
    <2>2. /\ worker' = "done" /\ SameAudio(session') /\ session'.lastChunks = session.lastChunks
          /\ rt'.finalize
      BY <1>0, <1>32, <2>1, FinishFields DEF TranscribeReturns, CoverInv, FlowInv
    <2>3. runtime
      BY <2>1 DEF ControlInv, TasksInv, Serving
    <2>4. /\ ~decoder'.ref /\ decoder'.state # "open" /\ decoder'.offset = decoder'.fed
          /\ decoder'.closes = IF decoder'.state = "closed" THEN 1 ELSE 0
      BY <1>0, <1>32, <2>1, DecoderFields DEF TranscribeReturns, CoverInv, DecoderInv, AudioInv
    <2>5. FlowInv'
      BY <2>1, <2>2, <2>3 DEF FlowInv, Stopping, FinalDecodes
    <2>6. DecoderInv'
      BY <2>1, <2>2, <2>3, <2>4 DEF DecoderInv
    <2>7. WakeInv'
      BY <2>2 DEF WakeInv, NoLostWakeup
    <2>8. AudioInv'
      BY <2>2, <2>4 DEF CoverInv, AudioInv, FinalDecodes, SameAudio
    <2> QED
      BY <2>5, <2>6, <2>7, <2>8 DEF CoverInv
  <1>33. ASSUME DecodeRaises PROVE CoverInv'
    <2>1. FlowInv'
      BY <1>33 DEF DecodeRaises, handlerVars, workerFrame, Ended, FinalDecodes, CoverInv, FlowInv
    <2>2. DecoderInv'
      BY <1>0, <1>33, DecoderFields DEF DecodeRaises, handlerVars, workerFrame, CoverInv, DecoderInv
    <2>3. WakeInv'
      BY <1>33 DEF DecodeRaises, CoverInv, WakeInv, NoLostWakeup
    <2>4. AudioInv'
      BY <1>0, <1>33, DecoderFields DEF DecodeRaises, FinalDecodes, CoverInv, AudioInv
    <2> QED
      BY <2>1, <2>2, <2>3, <2>4 DEF CoverInv
  <1>34. ASSUME Client \/ Quiet \/ UNCHANGED vars PROVE CoverInv'
    <2>1. UNCHANGED <<handlerVars, workVars, sendVars>>
      BY <1>34 DEF Client, ClientSends, ClientDrops, Quiet, vars
    <2> QED
      BY <2>1
         DEF handlerVars, workVars, CoverInv, FlowInv, DecoderInv, WakeInv, NoLostWakeup,
             Abandoned, PartialDue, AudioInv, WindowStart
  <1> QED
    <2>1. ASSUME Handler PROVE CoverInv'
      BY <2>1, <1>1, <1>2, <1>3, <1>4, <1>5, <1>6, <1>7, <1>8, <1>9, <1>10, <1>11, <1>12, <1>13, <1>14, <1>15, <1>16, <1>17, <1>18, <1>19, <1>20 DEF Handler
    <2>2. ASSUME Sender PROVE CoverInv'
      BY <2>2, <1>21, <1>22, <1>23 DEF Sender
    <2>3. ASSUME Worker PROVE CoverInv'
      BY <2>3, <1>24, <1>25, <1>26, <1>27, <1>28, <1>29, <1>30, <1>31, <1>32, <1>33 DEF Worker
    <2> QED
      BY <1>34, <2>1, <2>2, <2>3 DEF Next

LEMMA CoverInit == Init => CoverInv
  <1> SUFFICES ASSUME Init PROVE CoverInv
    OBVIOUS
  <1>1. /\ handler = "waiting" /\ runtime = FALSE /\ worker = "none" /\ decoder = NoDecoder
        /\ session = FreshSession(CHOOSE c \in StartConfigs : TRUE)
    BY DEF Init
  <1>2. /\ ~decoder.ref /\ decoder.state = "none" /\ decoder.closes = 0 /\ decoder.offset = decoder.fed
        /\ session.lastChunks = 0 /\ session.chunks = 0
    BY <1>1 DEF NoDecoder, FreshSession
  <1>3. FlowInv
    BY <1>1 DEF FlowInv, Stopping, FinalDecodes
  <1>4. DecoderInv
    BY <1>1, <1>2 DEF DecoderInv
  <1>5. WakeInv
    BY <1>1 DEF WakeInv, NoLostWakeup
  <1>6. AudioInv
    BY <1>1, <1>2 DEF AudioInv, FinalDecodes
  <1> QED
    BY <1>3, <1>4, <1>5, <1>6 DEF CoverInv

(* A final transcript of everything received. *)
Whole(e) ==
  e.type = "transcript" /\ e.why = "final" =>
    e.range = [lo |-> 0, hi |-> e.received] /\ e.claimed = e.received

(* A step queues whole transcripts only, when all that are queued are. *)
LEMMA WholeStep ==
  ASSUME TypeOK, CoverInv, FinalCoversUtterance, [Next]_vars
  PROVE  FinalCoversUtterance'
  <1>0. queue \in Seq(Event) /\ session \in Session /\ job \in Job
    BY DEF TypeOK, SendTypeOK, WorkTypeOK
  <1>1. ASSUME queue' = queue \/ queue' = << >> PROVE FinalCoversUtterance'
    BY <1>1 DEF FinalCoversUtterance
  <1>2. ASSUME NEW e, queue' = Append(queue, e), Whole(e) PROVE FinalCoversUtterance'
    <2> SUFFICES ASSUME NEW i \in DOMAIN queue' PROVE Whole(queue'[i])
      BY DEF FinalCoversUtterance, Whole
    <2>1. CASE i \in DOMAIN queue
      <3>1. queue'[i] = queue[i]
        BY <1>0, <1>2, <2>1
      <3> QED
        BY <2>1, <3>1 DEF FinalCoversUtterance, Whole
    <2>2. CASE i \notin DOMAIN queue
      <3>1. queue'[i] = e
        BY <1>0, <1>2, <2>2
      <3> QED
        BY <1>2, <3>1
    <2> QED
      BY <2>1, <2>2
  <1>3. ASSUME queue # << >>, queue' = Tail(queue) PROVE FinalCoversUtterance'
    <2> SUFFICES ASSUME NEW i \in DOMAIN queue' PROVE Whole(queue'[i])
      BY DEF FinalCoversUtterance, Whole
    <2>1. i + 1 \in DOMAIN queue /\ queue'[i] = queue[i + 1]
      BY <1>0, <1>3
    <2> QED
      BY <2>1 DEF FinalCoversUtterance, Whole
  <1>4. ASSUME NEW why \in {"partial", "auto"}, NEW s, NEW range, NEW claimed, Emit(why, s, range, claimed)
        PROVE  FinalCoversUtterance'
    <2>1. Whole(Transcript(why, streamId, s.rev + 1, range, claimed, s.buffer))
      BY DEF Whole, Transcript
    <2> QED
      BY <1>2, <1>4, <2>1 DEF Emit
  <1>5. ASSUME NEW flags, NEW range, NEW claimed, FinishUtterance(flags, range, claimed),
               range = [lo |-> 0, hi |-> session.buffer], claimed = session.buffer
        PROVE  FinalCoversUtterance'
    <2>1. Whole(Transcript("final", streamId, session.rev + 1, range, claimed, session.buffer))
      BY <1>5 DEF Whole, Transcript
    <2> QED
      BY <1>1, <1>2, <1>5, <2>1 DEF FinishUtterance, Emit
  <1>6. ASSUME WorkerStartsFinal PROVE FinalCoversUtterance'
    <2>1. CASE ~decoder.ref /\ CanReuseLastPartial
      <3>1. FinishUtterance(Awake, session.result, session.buffer) /\ worker = "waiting"
        BY <1>6, <2>1 DEF WorkerStartsFinal, Woken
      <3>2. session.result = [lo |-> WindowStart(session.buffer), hi |-> session.buffer]
        BY <2>1, <3>1 DEF CanReuseLastPartial, CoverInv, AudioInv
      <3>3. WindowStart(session.buffer) = 0
        BY <2>1 DEF CanReuseLastPartial, CoversFullBuffer, WindowStart
      <3> QED
        BY <1>5, <3>1, <3>2, <3>3
    <2>2. CASE decoder.ref \/ ~CanReuseLastPartial
      BY <1>1, <1>6, <2>2 DEF WorkerStartsFinal
    <2> QED
      BY <2>1, <2>2
  <1>7. ASSUME PartialReturns PROVE FinalCoversUtterance'
    BY <1>1, <1>4, <1>7 DEF PartialReturns
  <1>8. ASSUME ReleaseReturns \/ TranscribeReturns PROVE FinalCoversUtterance'
    BY <1>5, <1>8 DEF ReleaseReturns, TranscribeReturns, CoverInv, AudioInv, FinalDecodes
  <1>9. ASSUME Worker, ~WorkerStartsFinal, ~PartialReturns, ~ReleaseReturns, ~TranscribeReturns
        PROVE  FinalCoversUtterance'
    BY <1>1, <1>9 DEF Worker, WorkerLeaves, WorkerSkips, WorkerStartsPartial, FlushReturns,
       FinalizeReturns, DecodeRaises
  <1>10. ASSUME Handler PROVE FinalCoversUtterance'
    <2>1. Whole(CancelWarning) /\ Whole(Pong)
      BY DEF Whole, CancelWarning, Pong
    <2> QED
      BY <1>1, <1>2, <1>10, <2>1
         DEF Handler, ReceiveCompletes, WorkerEnded, HandleRejected, HandleLeaving, HandleStart,
             OpenUtterance, OpenFails, HandleAudio, HandleFinalize, HandleCancel, QueuePong,
             SendPong, HandlePong, FinalizeDecoded, FinalizeJoined, JoinedThenStop, StopWorker,
             StopDecoder, StopDecoderFails, StopSender, sendVars
  <1>11. ASSUME Sender \/ Client \/ Quiet \/ UNCHANGED vars PROVE FinalCoversUtterance'
    BY <1>1, <1>3, <1>11
       DEF Sender, SenderDelivers, SenderDies, SenderExits, Client, ClientSends, ClientDrops,
           Quiet, vars, sendVars
  <1> QED
    BY <1>6, <1>7, <1>8, <1>9, <1>10, <1>11 DEF Next
-------------------------------------------------------------------------------
(***************************************************************************)
(* The theorems.                                                           *)
(***************************************************************************)
LEMMA Covered == Spec => [](CoverInv /\ FinalCoversUtterance)
  <1>1. Init => CoverInv /\ FinalCoversUtterance
    BY CoverInit DEF Init, FinalCoversUtterance
  <1>2. IInv /\ (CoverInv /\ FinalCoversUtterance) /\ [Next]_vars => (CoverInv /\ FinalCoversUtterance)'
    BY CoverStep, WholeStep DEF IInv
  <1> QED
    BY <1>1, <1>2, Inductive, PTL DEF Spec

(* However audio, finalize and cancel fall between the looks of             *)
(* _local_stt_asr_worker at its flags, it never sleeps with audio_updated    *)
(* clear while there is something for it to do.                             *)
THEOREM NoWakeupLost == Spec => []NoLostWakeup
  <1>1. CoverInv => NoLostWakeup
    BY DEF CoverInv, WakeInv
  <1> QED
    BY <1>1, Covered, PTL

(* Whatever chunks a client streams and whenever it finalizes, the final     *)
(* transcript is decoded from all the audio of the utterance, each part      *)
(* once: a partial that _local_stt_asr_worker reuses saw the whole buffer,   *)
(* and a streaming recognizer has been pushed exactly what it lacked.        *)
THEOREM FinalCovers == Spec => []FinalCoversUtterance
  BY Covered, PTL

(* Whichever of the worker and stop_runtime ends an utterance, and even when *)
(* their calls raise, a recognizer is closed exactly once, before the        *)
(* runtime is given up, and no reference to a closed one is kept.            *)
THEOREM RecognizerClosed == Spec => []RecognizerReleased
  <1>1. CoverInv => RecognizerReleased
    BY DEF CoverInv, DecoderInv, RecognizerReleased
  <1> QED
    BY <1>1, Covered, PTL
===============================================================================

---------------------------- MODULE LocalSttStream ----------------------------
(***************************************************************************)
(* One Local STT v1 connection of the server: the websocket handler, the   *)
(* ASR worker task and the sender task it starts for each utterance, their *)
(* shared StreamRuntime and StreamSession, and the per-utterance decoder   *)
(* of a stateful backend (src/src/main.py).                                *)
(*                                                                         *)
(* The three tasks are coroutines of one event loop, so an action is what  *)
(* one of them does between two awaits.  A decoder or transcription call   *)
(* runs in a thread while its caller awaits: its start and its end are     *)
(* separate actions.  Audio is measured in units of the smallest chunk.    *)
(***************************************************************************)
EXTENDS Integers, Sequences

CONSTANTS
  StartConfigs,   \* the session configurations a client may start with
  ChunkSizes,     \* sizes of the audio chunks a client may send
  Texts,          \* the non-empty hypotheses a decode may return
  NoText,         \* the empty hypothesis
  NoResult,       \* StreamSession.last_partial_result = None
  ClientTypes,    \* the types of the messages the client sends
  MaxMessages,    \* bound: messages the client sends on the connection
  MaxInbox,       \* bound: messages on their way to the server
  Disciplined,    \* TRUE: the client sends only what its own view allows
  Stateful,       \* TRUE: the backend offers start_stream
  DecodesFail,    \* TRUE: a decoder or transcription call may raise
  ClientLeaves,   \* TRUE: the client may drop the connection
  SendsFail       \* TRUE: a send to a client that has left may raise

MessageTypes ==
  {"start", "audio", "finalize", "cancel", "ping", "pong", "close", "malformed"}

(* A range of an utterance's audio: units lo + 1 to hi. *)
AudioRange == [lo : Int, hi : Int]

ASSUME ConstantsAssumption ==
  /\ StartConfigs # {}
  /\ \A c \in StartConfigs :
       /\ c.interim \in BOOLEAN /\ c.byAudio \in BOOLEAN /\ c.autoFinal \in BOOLEAN
       /\ c.interval \in Nat \ {0} /\ c.window \in Nat \ {0}
       /\ c.maxBuffer \in Nat \ {0} /\ c.cycles \in Nat \ {0}
  /\ ChunkSizes \subseteq Nat \ {0}
  /\ NoText \notin Texts
  /\ NoResult \notin AudioRange
  /\ ClientTypes \subseteq MessageTypes
  /\ MaxMessages \in Nat /\ MaxInbox \in Nat
  /\ {Disciplined, Stateful, DecodesFail, ClientLeaves, SendsFail} \subseteq BOOLEAN

VARIABLES
  inbox,      \* client messages the websocket has not yet handed to a receive
  sent,       \* number of messages the client has sent
  view,       \* what the client knows: its utterance and the audio it has sent
  link,       \* "up", "left" by the client, "broken" once a send has raised
  handler,    \* where websocket_stream_v1 is
  rx,         \* receive_task: << >> while pending, << message >> once done
  stopFor,    \* why stop_runtime is being run
  runtime,    \* `runtime is not None' in the handler
  streamId,   \* the stream number last given out
  session,    \* the StreamSession
  rt,         \* the flags of the StreamRuntime
  worker,     \* where _local_stt_asr_worker is
  job,        \* the worker's snapshot of the session when its decode began
  decoder,    \* the streaming decoder and the runtime's reference to it
  queue,      \* outgoing_events, with the event the sender is sending
  sender,     \* the state of the sender task
  utterance,  \* history: what the client has been told of each stream, by number
  pings,      \* history: pings sent by the client
  pongs       \* history: pongs delivered to it

clientVars  == <<sent, view, link, pings>>
handlerVars == <<handler, rx, stopFor, runtime, streamId>>
workVars    == <<session, rt, worker, job, decoder>>
sendVars    == <<queue, sender>>
toldVars    == <<utterance, pongs>>
vars == <<inbox, clientVars, handlerVars, workVars, sendVars, toldVars>>
-------------------------------------------------------------------------------
(* The client's messages.  Gone is the disconnect its websocket reports. *)
Message ==
  [type : {"start"}, cfg : StartConfigs] \cup [type : {"audio"}, size : ChunkSizes]
    \cup [type : MessageTypes \ {"start", "audio"}]

Gone == [type |-> "disconnect"]

(* Events of outgoing_events.  A transcript carries the range of the        *)
(* utterance's audio its text was decoded from (lo, hi), the amount it      *)
(* claims to cover and the amount received when it was built; `why' tells   *)
(* a partial from a final asked for and from one by stability.              *)
Transcript(why, stream, rev, range, claimed, received) ==
  [type |-> "transcript", why |-> why, stream |-> stream, rev |-> rev,
   range |-> range, claimed |-> claimed, received |-> received]

CancelWarning == [type |-> "stream_canceled", stream |-> streamId]

Pong == [type |-> "pong"]

(* As if task_done() were called when the sender takes an event. *)
AllSent_WhenTaken == Len(queue) <= 1

(* Every event put is sent and answered by task_done(), in order, so the    *)
(* queue empty is what outgoing_events.join() waits for.                    *)
AllSent == queue = << >>

Ended == {"done", "failed"}

(* A session just created by _create_local_stt_stream_session. *)
FreshSession(cfg) ==
  [cfg |-> cfg, buffer |-> 0, chunks |-> 0, lastChunks |-> 0, lastAudio |-> 0,
   result |-> NoResult, text |-> NoText, stable |-> 0, rev |-> 0]

FreshRuntime ==
  [audioUpdated |-> FALSE, finalize |-> FALSE, cancel |-> FALSE,
   dirty |-> FALSE, closed |-> FALSE, final |-> FALSE]

NoDecoder == [ref |-> FALSE, state |-> "none", offset |-> 0, fed |-> 0, closes |-> 0]
NewDecoder == [NoDecoder EXCEPT !.ref = TRUE, !.state = "open"]

Init ==
  /\ inbox = << >> /\ sent = 0 /\ link = "up"
  /\ view = [phase |-> "idle", audio |-> 0, room |-> 0]
  /\ handler = "waiting" /\ rx = << >> /\ stopFor = "none"
  /\ runtime = FALSE /\ streamId = 0
  /\ session = FreshSession(CHOOSE c \in StartConfigs : TRUE) /\ rt = FreshRuntime
  /\ worker = "none" /\ job = [chunks |-> 0, audio |-> 0, lo |-> 0]
  /\ decoder = NoDecoder
  /\ queue = << >> /\ sender = "none"
  /\ utterance = << >> /\ pings = 0 /\ pongs = 0
-------------------------------------------------------------------------------
(***************************************************************************)
(* The client.  A disciplined one starts an utterance only when it knows   *)
(* of no other, streams within the buffer limit and ends each utterance    *)
(* once; the others send anything at any time.                             *)
(***************************************************************************)
ViewAllows(m) ==
  \/ m.type \in {"ping", "pong", "close"} /\ view.phase # "closing"
  \/ m.type = "start" /\ view.phase = "idle"
  \/ m.type = "audio" /\ view.phase = "active" /\ m.size <= view.room
  \/ m.type = "finalize" /\ view.phase = "active" /\ view.audio > 0
  \/ m.type = "cancel" /\ view.phase = "active"

ViewAfter(m) ==
  CASE m.type = "start" -> [phase |-> "starting", audio |-> 0, room |-> m.cfg.maxBuffer]
    [] m.type = "audio" -> [view EXCEPT !.audio = @ + m.size, !.room = @ - m.size]
    [] m.type \in {"finalize", "cancel"} -> [view EXCEPT !.phase = "ending"]
    [] m.type = "close" -> [view EXCEPT !.phase = "closing"]
    [] OTHER -> view

ClientSends(m) ==
  /\ link = "up" /\ handler # "done"
  /\ m.type \in ClientTypes
  /\ sent < MaxMessages /\ Len(inbox) < MaxInbox
  /\ Disciplined => ViewAllows(m)
  /\ view' = IF Disciplined THEN ViewAfter(m) ELSE view
  /\ sent' = sent + 1
  /\ inbox' = Append(inbox, m)
  /\ pings' = IF m.type = "ping" THEN pings + 1 ELSE pings
  /\ UNCHANGED <<link, handlerVars, workVars, sendVars, toldVars>>

ClientDrops ==
  /\ ClientLeaves /\ link = "up" /\ handler # "done"
  /\ link' = "left"
  /\ inbox' = Append(inbox, Gone)
  /\ UNCHANGED <<sent, view, pings, handlerVars, workVars, sendVars, toldVars>>

(* What a client makes of `ready' and of the end of its utterance. *)
ViewTold(phase) ==
  view' = IF Disciplined /\ view.phase # "closing" THEN [view EXCEPT !.phase = phase] ELSE view
(* A send to a client that has left may raise; then, or when the handler    *)
(* has ended and the websocket is closed, every later one does.             *)
SendWorks == link # "broken"
SendRaises ==
  /\ (SendsFail /\ link # "up") \/ handler = "done"
  /\ link' = "broken"
-------------------------------------------------------------------------------
(***************************************************************************)
(* The handler: asyncio.wait on receive_task and the worker, then one      *)
(* branch per message.                                                     *)
(***************************************************************************)

(* As if note_audio did not set audio_updated. *)
NoteAudio_Silent == [rt EXCEPT !.dirty = TRUE]

(* The methods of StreamRuntime that signal the worker. *)
NoteAudio       == [rt EXCEPT !.dirty = TRUE, !.audioUpdated = TRUE]
RequestFinalize == [rt EXCEPT !.finalize = TRUE, !.audioUpdated = TRUE]
RequestCancel   == [rt EXCEPT !.cancel = TRUE, !.audioUpdated = TRUE]
Close           == [rt EXCEPT !.closed = TRUE, !.audioUpdated = TRUE]

(* As if last_partial_result were reset to the empty text. *)
DiscardAudio_ToText ==
  [session EXCEPT !.buffer = 0, !.result = NoText, !.text = NoText, !.stable = 0]

(* request_cancel also forgets the audio and what was heard in it. *)
DiscardAudio ==
  [session EXCEPT !.buffer = 0, !.result = NoResult, !.text = NoText, !.stable = 0]

(* runtime.close(), the first step of stop_runtime. *)
BeginStop(why) ==
  /\ handler' = "stopWorker" /\ stopFor' = why /\ rx' = << >>
  /\ rt' = IF runtime THEN Close ELSE rt

Received == IF rx = << >> THEN "nothing" ELSE rx[1].type

(* receive_task completes with the next message. *)
ReceiveCompletes ==
  /\ handler = "waiting" /\ rx = << >> /\ inbox # << >>
  /\ rx' = << Head(inbox) >> /\ inbox' = Tail(inbox)
  /\ UNCHANGED <<clientVars, handler, stopFor, runtime, streamId, workVars, sendVars, toldVars>>

(* The worker finished by itself: receive_task is cancelled.  If it was     *)
(* done already its exception is raised, but its message is dropped.        *)
WorkerEnded ==
  /\ handler = "waiting" /\ worker \in Ended
  /\ \/ Received = "disconnect" /\ BeginStop("disconnect")
     \/ /\ Received = "malformed" \/ (worker = "failed" /\ Received # "disconnect")
        /\ BeginStop("error")
     \/ /\ Received \notin {"disconnect", "malformed"} /\ worker = "done"
        /\ handler' = "joinAuto" /\ rx' = << >>
        /\ UNCHANGED <<stopFor, rt>>
  /\ UNCHANGED <<inbox, clientVars, runtime, streamId, session, worker, job, decoder,
                 sendVars, toldVars>>

(* The handler resumes with a message and a worker that has not ended. *)
Got(type) ==
  /\ handler = "waiting" /\ worker \notin Ended
  /\ Received = type

(* Branches that raise LocalSttProtocolError, WebSocketDisconnect, or close. *)
HandleRejected ==
  /\ \/ Got("malformed")
     \/ Got("start") /\ runtime
     \/ Got("audio") /\ ~runtime
     \/ Got("audio") /\ runtime /\ session.buffer + rx[1].size > session.cfg.maxBuffer
     \/ Got("finalize") /\ ~runtime
     \/ Got("finalize") /\ runtime /\ session.buffer = 0
     \/ Got("cancel") /\ ~runtime
  /\ BeginStop("error")
  /\ UNCHANGED <<inbox, clientVars, runtime, streamId, session, worker, job, decoder,
                 sendVars, toldVars>>

HandleLeaving ==
  /\ \/ Got("disconnect") /\ BeginStop("disconnect")
     \/ Got("close") /\ BeginStop("close")
  /\ UNCHANGED <<inbox, clientVars, runtime, streamId, session, worker, job, decoder,
                 sendVars, toldVars>>

HandleStart ==
  /\ Got("start") /\ ~runtime
  /\ runtime' = TRUE /\ streamId' = streamId + 1
  /\ session' = FreshSession(rx[1].cfg) /\ rt' = FreshRuntime
  /\ decoder' = NoDecoder
  /\ handler' = "opening" /\ rx' = << >>
  /\ UNCHANGED <<inbox, clientVars, stopFor, worker, job, sendVars, toldVars>>

(* start_stream returns, maybe None: the two tasks are created and `ready' is sent. *)
OpenUtterance ==
  /\ handler = "opening"
  /\ decoder' \in IF Stateful THEN {NewDecoder, NoDecoder} ELSE {NoDecoder}
  /\ worker' = "waiting" /\ sender' = "running"
  /\ \/ /\ SendWorks
        /\ utterance' = Append(utterance, [phase |-> "active", rev |-> 0])
        /\ ViewTold("active")
        /\ handler' = "waiting"
        /\ UNCHANGED <<rx, stopFor, rt, link>>
     \/ /\ SendRaises
        /\ BeginStop("disconnect")
        /\ UNCHANGED <<utterance, view>>
  /\ UNCHANGED <<inbox, sent, pings, runtime, streamId, session, job,
                 queue, pongs>>

OpenFails ==
  /\ handler = "opening" /\ Stateful /\ DecodesFail
  /\ BeginStop("error")
  /\ UNCHANGED <<inbox, clientVars, runtime, streamId, session, worker, job, decoder,
                 sendVars, toldVars>>

(* append_audio and note_audio. *)
HandleAudio ==
  /\ Got("audio") /\ runtime
  /\ session.buffer + rx[1].size <= session.cfg.maxBuffer
  /\ session' = [session EXCEPT !.buffer = @ + rx[1].size, !.chunks = @ + 1]
  /\ rt' = NoteAudio
  /\ rx' = << >>
  /\ UNCHANGED <<inbox, clientVars, handler, stopFor, runtime, streamId, worker, job, decoder,
                 sendVars, toldVars>>

HandleFinalize ==
  /\ Got("finalize") /\ runtime /\ session.buffer > 0
  /\ rt' = RequestFinalize
  /\ handler' = "finalizing" /\ rx' = << >>
  /\ UNCHANGED <<inbox, clientVars, stopFor, runtime, streamId, session, worker, job, decoder,
                 sendVars, toldVars>>

(* request_cancel, and the warning that acknowledges it. *)
HandleCancel ==
  /\ Got("cancel") /\ runtime
  /\ rt' = RequestCancel
  /\ session' = DiscardAudio
  /\ queue' = Append(queue, CancelWarning)
  /\ handler' = "joinCancel" /\ rx' = << >>
  /\ UNCHANGED <<inbox, clientVars, stopFor, runtime, streamId, worker, job, decoder,
                 sender, toldVars>>

(* As if a ping were only answered between utterances. *)
QueuePong_Dropped ==
  /\ Got("ping") /\ runtime
  /\ rx' = << >>
  /\ UNCHANGED <<inbox, clientVars, handler, stopFor, runtime, streamId, workVars, sendVars,
                 toldVars>>

(* A pong goes through the queue of the active utterance, or else straight out. *)
QueuePong ==
  /\ Got("ping") /\ runtime
  /\ queue' = Append(queue, Pong) /\ rx' = << >>
  /\ UNCHANGED <<inbox, clientVars, handler, stopFor, runtime, streamId, workVars, sender,
                 toldVars>>

SendPong ==
  /\ Got("ping") /\ ~runtime
  /\ \/ /\ SendWorks
        /\ pongs' = pongs + 1 /\ rx' = << >>
        /\ UNCHANGED <<handler, stopFor, rt, link>>
     \/ /\ SendRaises
        /\ BeginStop("disconnect")
        /\ UNCHANGED pongs
  /\ UNCHANGED <<inbox, sent, view, pings, runtime, streamId, session, worker, job, decoder,
                 sendVars, utterance>>

HandlePong ==
  /\ Got("pong")
  /\ rx' = << >>
  /\ UNCHANGED <<inbox, clientVars, handler, stopFor, runtime, streamId, workVars, sendVars,
                 toldVars>>
-------------------------------------------------------------------------------
(* After `finalize': await worker_task, then outgoing_events.join(). *)
FinalizeDecoded ==
  /\ handler = "finalizing" /\ worker \in Ended
  /\ \/ /\ worker = "done"
        /\ handler' = "joinFinal"
        /\ UNCHANGED <<rx, stopFor, rt>>
     \/ worker = "failed" /\ BeginStop("error")
  /\ UNCHANGED <<inbox, clientVars, runtime, streamId, session, worker, job, decoder,
                 sendVars, toldVars>>

(* The sender is cancelled; the exception of one that died is raised here. *)
FinalizeJoined ==
  /\ handler = "joinFinal" /\ AllSent
  /\ \/ /\ sender # "dead"
        /\ handler' = "waiting" /\ runtime' = FALSE
        /\ worker' = "none" /\ sender' = "none" /\ queue' = << >>
        /\ UNCHANGED <<rx, stopFor, rt>>
     \/ /\ sender = "dead"
        /\ BeginStop("disconnect")
        /\ UNCHANGED <<runtime, worker, sendVars>>
  /\ UNCHANGED <<inbox, clientVars, streamId, session, job, decoder, toldVars>>

(* After `cancel', or after a worker that ended by itself. *)
JoinedThenStop ==
  /\ handler \in {"joinCancel", "joinAuto"} /\ AllSent
  /\ BeginStop("loop")
  /\ UNCHANGED <<inbox, clientVars, runtime, streamId, session, worker, job, decoder,
                 sendVars, toldVars>>

(* As if the decoder were forgotten without close(). *)
DropDecoder_NotClosed == [decoder EXCEPT !.ref = FALSE]

(* The decoder as _close_streaming_decoder_async leaves it. *)
DropDecoder == [decoder EXCEPT !.ref = FALSE, !.state = "closed", !.closes = @ + 1]

(* stop_runtime: the worker is awaited, then the decoder is closed, then    *)
(* the sender is cancelled with whatever it has not sent.                   *)
StopWorker ==
  /\ handler = "stopWorker" /\ worker \in Ended \cup {"none"}
  /\ handler' = "stopDecoder"
  /\ UNCHANGED <<inbox, clientVars, rx, stopFor, runtime, streamId, workVars, sendVars, toldVars>>

StopDecoder ==
  /\ handler = "stopDecoder"
  /\ decoder' = IF decoder.ref THEN DropDecoder ELSE decoder
  /\ handler' = "stopSender"
  /\ UNCHANGED <<inbox, clientVars, rx, stopFor, runtime, streamId, session, rt, worker, job,
                 sendVars, toldVars>>

(* decoder.cancel or decoder.close raises: in the loop's own stop_runtime   *)
(* this is one more internal error, in an except clause it ends the handler.*)
StopDecoderFails ==
  /\ handler = "stopDecoder" /\ decoder.ref /\ DecodesFail
  /\ decoder' = DropDecoder
  /\ \/ stopFor \in {"loop", "close"} /\ BeginStop("error")
     \/ /\ stopFor \in {"error", "disconnect"}
        /\ handler' = "done"
        /\ UNCHANGED <<rx, stopFor, rt>>
  /\ UNCHANGED <<inbox, clientVars, runtime, streamId, session, worker, job, sendVars, toldVars>>

(* As if stop_runtime did not end with runtime = None. *)
StopSender_KeepsRuntime ==
  /\ handler = "stopSender"
  /\ sender' = "none" /\ queue' = << >> /\ worker' = "none"
  /\ handler' = IF stopFor = "loop" THEN "waiting" ELSE "done"
  /\ UNCHANGED <<inbox, clientVars, rx, stopFor, runtime, streamId, session, rt, job, decoder,
                 toldVars>>

(* Then back to the loop, or an `error' or `closed' event and the end. *)
StopSender ==
  /\ handler = "stopSender"
  /\ sender' = "none" /\ queue' = << >>
  /\ runtime' = FALSE /\ worker' = "none"
  /\ handler' = IF stopFor = "loop" THEN "waiting" ELSE "done"
  /\ UNCHANGED <<inbox, clientVars, rx, stopFor, streamId, session, rt, job, decoder, toldVars>>
-------------------------------------------------------------------------------
(***************************************************************************)
(* The sender: takes an event, sends it, until closed and nothing is left. *)
(***************************************************************************)

(* The handler wakes two turns of the loop after the worker ends, before    *)
(* an event that the worker queued last can have reached the client.        *)
HandlerDue == handler = "waiting" /\ worker \in Ended

(* The client is told the event in flight. *)
Tell(e) ==
  \/ /\ e.type = "transcript" /\ e.why = "partial"
     /\ utterance' = [utterance EXCEPT ![e.stream] = [phase |-> "active", rev |-> e.rev]]
     /\ UNCHANGED <<view, pongs>>
  \/ /\ e.type = "transcript" /\ e.why # "partial"
     /\ utterance' = [utterance EXCEPT ![e.stream] = [phase |-> "final", rev |-> e.rev]]
     /\ ViewTold("idle")
     /\ UNCHANGED pongs
  \/ /\ e.type = "stream_canceled"
     /\ utterance' = [utterance EXCEPT ![e.stream].phase = "canceled"]
     /\ ViewTold("idle")
     /\ UNCHANGED pongs
  \/ /\ e.type = "pong"
     /\ pongs' = pongs + 1
     /\ UNCHANGED <<utterance, view>>

SenderDelivers ==
  /\ sender = "running" /\ queue # << >> /\ handler # "done"
  /\ ~HandlerDue /\ SendWorks
  /\ Tell(Head(queue))
  /\ queue' = Tail(queue)
  /\ UNCHANGED <<inbox, sent, link, pings, handlerVars, workVars, sender>>

(* send_json raises: the task ends and nobody is told. *)
SenderDies ==
  /\ sender = "running" /\ queue # << >>
  /\ SendRaises
  /\ sender' = "dead" /\ queue' = Tail(queue)
  /\ UNCHANGED <<inbox, sent, view, pings, handlerVars, workVars, toldVars>>

(* As if the sender stopped once closed, whatever is queued. *)
SenderExits_AtOnce ==
  /\ sender = "running" /\ rt.closed
  /\ sender' = "exited"
  /\ UNCHANGED <<inbox, clientVars, handlerVars, workVars, queue, toldVars>>

SenderExits ==
  /\ sender = "running" /\ rt.closed /\ queue = << >>
  /\ sender' = "exited"
  /\ UNCHANGED <<inbox, clientVars, handlerVars, workVars, queue, toldVars>>
-------------------------------------------------------------------------------
(***************************************************************************)
(* The worker.                                                             *)
(***************************************************************************)

(* A partial decode is due: the interval is counted in chunks or in audio. *)
PartialDue ==
  /\ session.cfg.interim
  /\ IF session.cfg.byAudio
     THEN session.buffer >= session.lastAudio + session.cfg.interval
     ELSE session.chunks >= session.lastChunks + session.cfg.interval

(* partial_audio_bytes, or the audio the streaming decoder has not had. *)
PartialStart ==
  IF decoder.ref THEN decoder.offset
  ELSE IF session.buffer <= session.cfg.window THEN 0
  ELSE session.buffer - session.cfg.window

CoversFullBuffer == session.buffer <= session.cfg.window

(* As if the chunks received since the partial were not counted. *)
CanReuseLastPartial_Stale == session.result # NoResult /\ CoversFullBuffer

CanReuseLastPartial ==
  /\ session.result # NoResult
  /\ session.lastChunks = session.chunks
  /\ CoversFullBuffer

(* record_partial with the counters of the worker's snapshot. *)
RecordPartial(range) ==
  [session EXCEPT !.result = range, !.lastChunks = job.chunks, !.lastAudio = job.audio]

(* record_transcript_stability. *)
WithStability(s, text) ==
  IF text = NoText THEN [s EXCEPT !.text = NoText, !.stable = 0]
  ELSE IF text = s.text THEN [s EXCEPT !.stable = @ + 1]
  ELSE [s EXCEPT !.text = text, !.stable = 1]

Stable(s) == s.cfg.autoFinal /\ s.stable >= s.cfg.cycles

(* As if next_transcript_revision did not increment. *)
Emit_SameRevision(why, s, range, claimed) ==
  /\ queue' = Append(queue, Transcript(why, streamId, s.rev + 1, range, claimed, s.buffer))
  /\ session' = s

Emit(why, s, range, claimed) ==
  /\ queue' = Append(queue, Transcript(why, streamId, s.rev + 1, range, claimed, s.buffer))
  /\ session' = [s EXCEPT !.rev = @ + 1]

(* The final transcript is queued, unless the utterance was given up; flags *)
(* is the runtime as the worker finds it.                                   *)
FinishUtterance(flags, range, claimed) ==
  /\ worker' = "done"
  /\ IF flags.cancel \/ flags.closed
     THEN rt' = flags /\ UNCHANGED <<queue, session>>
     ELSE /\ Emit("final", session, range, claimed)
          /\ rt' = [flags EXCEPT !.final = TRUE, !.closed = TRUE]

workerFrame == <<inbox, clientVars, handlerVars, sender, toldVars>>

(* As if the worker did not look at cancel_requested. *)
Abandoned_NoCancel == rt.final \/ rt.closed

Woken == worker = "waiting" /\ rt.audioUpdated
Awake == [rt EXCEPT !.audioUpdated = FALSE]
Abandoned == rt.cancel \/ rt.final \/ rt.closed

WorkerLeaves ==
  /\ Woken /\ Abandoned
  /\ worker' = "done" /\ rt' = Awake
  /\ UNCHANGED <<workerFrame, session, job, decoder, queue>>

WorkerSkips ==
  /\ Woken /\ ~Abandoned /\ ~rt.finalize /\ ~PartialDue
  /\ rt' = [Awake EXCEPT !.dirty = FALSE]
  /\ UNCHANGED <<workerFrame, session, worker, job, decoder, queue>>

WorkerStartsPartial ==
  /\ Woken /\ ~Abandoned /\ ~rt.finalize /\ PartialDue
  /\ rt' = [Awake EXCEPT !.dirty = FALSE]
  /\ job' = [chunks |-> session.chunks, audio |-> session.buffer, lo |-> PartialStart]
  /\ worker' = "partial"
  /\ UNCHANGED <<workerFrame, session, decoder, queue>>

WorkerStartsFinal ==
  /\ Woken /\ ~Abandoned /\ rt.finalize
  /\ job' = [chunks |-> session.chunks, audio |-> session.buffer,
             lo |-> IF decoder.ref THEN decoder.offset ELSE 0]
  /\ \/ /\ ~decoder.ref /\ CanReuseLastPartial
        /\ FinishUtterance(Awake, session.result, session.buffer)
     \/ /\ decoder.ref \/ ~CanReuseLastPartial
        /\ rt' = Awake
        /\ worker' = IF decoder.ref THEN "flush" ELSE "transcribe"
        /\ UNCHANGED <<queue, session>>
  /\ UNCHANGED <<workerFrame, decoder>>

(* The worker looks again if audio arrived while it was decoding. *)
Recheck == [rt EXCEPT !.audioUpdated = @ \/ rt.dirty]

(* As if streaming_decode_offset did not advance. *)
Fed_SameOffset == [decoder EXCEPT !.fed = @ + (job.audio - job.lo)]

(* push_audio has returned. *)
Fed == [decoder EXCEPT !.offset = @ + (job.audio - job.lo), !.fed = @ + (job.audio - job.lo)]

(* The partial decode returns its text, or None from a streaming decoder. *)
PartialReturns ==
  /\ worker = "partial"
  /\ decoder' = IF decoder.ref THEN Fed ELSE decoder
  /\ LET covered == IF decoder.ref THEN [lo |-> 0, hi |-> Fed.fed]
                    ELSE [lo |-> job.lo, hi |-> job.audio]
     IN \/ /\ Abandoned
           /\ worker' = "done"
           /\ UNCHANGED <<session, rt, queue>>
        \/ /\ ~Abandoned /\ decoder.ref     \* None
           /\ session' = [session EXCEPT !.lastChunks = job.chunks, !.lastAudio = job.audio]
           /\ rt' = Recheck
           /\ worker' = "waiting"
           /\ UNCHANGED queue
        \/ /\ ~Abandoned /\ rt.finalize
           /\ session' = IF job.chunks = session.chunks /\ CoversFullBuffer
                         THEN RecordPartial(covered) ELSE session
           /\ rt' = [rt EXCEPT !.audioUpdated = TRUE]
           /\ worker' = "waiting"
           /\ UNCHANGED queue
        \/ /\ ~Abandoned /\ ~rt.finalize
           /\ \E text \in Texts \cup {NoText} :
                LET s == WithStability(RecordPartial(covered), text)
                IN \/ /\ text = NoText
                      /\ session' = s
                      /\ rt' = Recheck
                      /\ worker' = "waiting"
                      /\ UNCHANGED queue
                   \/ /\ text # NoText /\ ~Stable(s)
                      /\ Emit("partial", s, covered, job.audio - job.lo)
                      /\ rt' = Recheck
                      /\ worker' = "waiting"
                   \/ /\ text # NoText /\ Stable(s)
                      /\ Emit("auto", s, covered, job.audio - job.lo)
                      /\ rt' = [rt EXCEPT !.final = TRUE, !.closed = TRUE]
                      /\ worker' = "done"
  /\ UNCHANGED <<workerFrame, job>>

(* _finalize_streaming_decoder_async: push the rest, finalize, close. *)
FlushReturns ==
  /\ worker = "flush"
  /\ decoder' = Fed
  /\ worker' = "finalize"
  /\ UNCHANGED <<workerFrame, session, rt, job, queue>>

(* As if the runtime kept the decoder it has finalized. *)
FinalizeReturns_KeepsDecoder ==
  /\ worker = "finalize"
  /\ worker' = "release"
  /\ UNCHANGED <<workerFrame, session, rt, job, decoder, queue>>

FinalizeReturns ==
  /\ worker = "finalize"
  /\ decoder' = [decoder EXCEPT !.ref = FALSE]
  /\ worker' = "release"
  /\ UNCHANGED <<workerFrame, session, rt, job, queue>>

CloseDecoder == [decoder EXCEPT !.state = "closed", !.closes = @ + 1]

ReleaseReturns ==
  /\ worker = "release"
  /\ decoder' = CloseDecoder
  /\ FinishUtterance(rt, [lo |-> 0, hi |-> decoder.fed], job.audio)
  /\ UNCHANGED <<workerFrame, job>>

(* The transcription of the whole buffer returns. *)
TranscribeReturns ==
  /\ worker = "transcribe"
  /\ FinishUtterance(rt, [lo |-> 0, hi |-> job.audio], job.audio)
  /\ UNCHANGED <<workerFrame, job, decoder>>

(* The call the worker awaits raises, and so does the worker. *)
DecodeRaises ==
  /\ DecodesFail
  /\ worker \in {"partial", "flush", "finalize", "release", "transcribe"}
  /\ worker' = "failed"
  /\ decoder' = IF worker = "release" THEN CloseDecoder ELSE decoder
  /\ UNCHANGED <<workerFrame, session, rt, job, queue>>
-------------------------------------------------------------------------------
Client == ClientDrops \/ \E m \in Message : ClientSends(m)

Handler ==
  \/ ReceiveCompletes \/ WorkerEnded
  \/ HandleRejected \/ HandleLeaving \/ HandleStart \/ OpenUtterance \/ OpenFails
  \/ HandleAudio \/ HandleFinalize \/ HandleCancel \/ QueuePong \/ SendPong \/ HandlePong
  \/ FinalizeDecoded \/ FinalizeJoined \/ JoinedThenStop
  \/ StopWorker \/ StopDecoder \/ StopDecoderFails \/ StopSender

Sender == SenderDelivers \/ SenderDies \/ SenderExits

Worker ==
  \/ WorkerLeaves \/ WorkerSkips \/ WorkerStartsPartial \/ WorkerStartsFinal
  \/ PartialReturns \/ FlushReturns \/ FinalizeReturns \/ ReleaseReturns
  \/ TranscribeReturns \/ DecodeRaises

(* Nothing more happens on a connection that is over, or whose client is quiet. *)
Quiet ==
  /\ handler = "done" \/ (handler = "waiting" /\ rx = << >> /\ inbox = << >>)
  /\ UNCHANGED vars

Next == Client \/ Handler \/ Sender \/ Worker \/ Quiet

Spec == Init /\ [][Next]_vars

(* The event loop runs every task that is ready, a call in a thread ends,   *)
(* and a client that has not left reads what it is sent.  The client itself *)
(* need not do anything.                                                    *)
FairSpec == Spec /\ WF_vars(Handler) /\ WF_vars(Sender) /\ WF_vars(Worker)
-------------------------------------------------------------------------------
(***************************************************************************)
(* Properties.                                                             *)
(***************************************************************************)

Incoming == Seq(Message \cup {Gone})

ClientView ==
  [phase : {"idle", "starting", "active", "ending", "closing"}, audio : Nat, room : Int]

Session ==
  [cfg : StartConfigs, buffer : Nat, chunks : Nat, lastChunks : Nat, lastAudio : Nat,
   result : AudioRange \cup {NoResult}, text : Texts \cup {NoText}, stable : Nat, rev : Nat]

Flags ==
  [audioUpdated : BOOLEAN, finalize : BOOLEAN, cancel : BOOLEAN,
   dirty : BOOLEAN, closed : BOOLEAN, final : BOOLEAN]

Job == [chunks : Nat, audio : Nat, lo : Int]

Decoder ==
  [ref : BOOLEAN, state : {"none", "open", "closed"}, offset : Int, fed : Int, closes : Nat]

Event ==
  [type : {"transcript"}, why : {"partial", "auto", "final"}, stream : Nat, rev : Nat,
   range : AudioRange, claimed : Int, received : Nat]
    \cup [type : {"stream_canceled"}, stream : Nat] \cup [type : {"pong"}]

Told == [phase : {"active", "final", "canceled"}, rev : Nat]

ClientTypeOK ==
  sent \in Nat /\ view \in ClientView /\ link \in {"up", "left", "broken"} /\ pings \in Nat

HandlerTypeOK ==
  /\ handler \in {"waiting", "opening", "finalizing", "joinFinal", "joinCancel", "joinAuto",
                  "stopWorker", "stopDecoder", "stopSender", "done"}
  /\ stopFor \in {"none", "loop", "close", "disconnect", "error"}
  /\ rx \in Incoming /\ runtime \in BOOLEAN /\ streamId \in Nat

WorkTypeOK ==
  /\ session \in Session /\ rt \in Flags /\ job \in Job /\ decoder \in Decoder
  /\ worker \in {"none", "waiting", "partial", "flush", "finalize", "release",
                 "transcribe", "done", "failed"}

SendTypeOK == queue \in Seq(Event) /\ sender \in {"none", "running", "exited", "dead"}

ToldTypeOK == utterance \in Seq(Told) /\ pongs \in Nat

(* The types of all variables.                                             *)
TypeOK ==
  inbox \in Incoming /\ ClientTypeOK /\ HandlerTypeOK /\ WorkTypeOK /\ SendTypeOK /\ ToldTypeOK

(* No wake-up is lost: a worker asleep with audio_updated clear has nothing  *)
(* to do.  Audio, finalize and cancel arrive while it decodes, and it clears *)
(* the event before it looks at the flags (_local_stt_asr_worker).           *)
NoLostWakeup ==
  worker = "waiting" /\ ~rt.audioUpdated => ~rt.finalize /\ ~Abandoned /\ ~PartialDue

Speaks(e) == e.type \in {"transcript", "stream_canceled"}
Closes(e) == e.type = "stream_canceled" \/ (e.type = "transcript" /\ e.why # "partial")

(* The outcome of an utterance, its final transcript or the warning that it  *)
(* was canceled, is the last thing said of it: nothing more about it is      *)
(* queued behind the outcome or still unsent once the client has it, however *)
(* a decode that was in flight ends ("cancel discards the active utterance").*)
OutcomeIsLast ==
  \A i \in DOMAIN queue :
    Speaks(queue[i]) =>
      /\ queue[i].stream \in DOMAIN utterance
      /\ utterance[queue[i].stream].phase = "active"
      /\ \A j \in 1..(i - 1) : ~Closes(queue[j])

(* Revisions reach the client in strictly increasing order within an         *)
(* utterance ("revision: monotonic positive integer per utterance").         *)
RevisionsIncrease ==
  \A i \in DOMAIN queue :
    queue[i].type = "transcript" =>
      /\ queue[i].rev > utterance[queue[i].stream].rev
      /\ \A j \in 1..(i - 1) : queue[j].type = "transcript" => queue[j].rev < queue[i].rev

(* The transcript that answers `finalize' is decoded from all the audio of   *)
(* the utterance, each part once: a partial is only reused for it when it    *)
(* saw the whole buffer, and a streaming decoder has been fed the rest.      *)
FinalCoversUtterance ==
  \A i \in DOMAIN queue :
    queue[i].type = "transcript" /\ queue[i].why = "final" =>
      /\ queue[i].range = [lo |-> 0, hi |-> queue[i].received]
      /\ queue[i].claimed = queue[i].received

(* Each streaming decoder is closed exactly once, by the worker or by        *)
(* stop_runtime: none survives its utterance, and no reference to a closed   *)
(* one is kept for another call.                                             *)
RecognizerReleased ==
  /\ ~runtime => decoder.state # "open"
  /\ decoder.ref => decoder.state = "open"
  /\ decoder.closes <= 1

(* join() is never left to wait for a sender that has gone, unless a send    *)
(* raised in it: it exits only when closed and empty, and nothing is queued  *)
(* after that.                                                               *)
JoinHasSender ==
  handler \in {"joinFinal", "joinCancel", "joinAuto"} /\ ~AllSent => sender = "running"

(* A client that follows the protocol is never rejected, whenever its        *)
(* messages arrive: its `start' after an outcome finds the runtime gone, its *)
(* `finalize' and `cancel' an utterance with audio.  Except under automatic  *)
(* finals: what it sent before it learned of one meets no utterance.         *)
DisciplinedNeverRejected ==
  [][Disciplined /\ HandleRejected => session.cfg.autoFinal /\ ~runtime /\ Received # "start"]_vars

(* What the client is told is what UtteranceLifecycle promises.              *)
Lifecycle == INSTANCE UtteranceLifecycle WITH utterance <- utterance
LifecycleSpec == Lifecycle!Spec

(* `finalize' is answered by the final transcript, unless the connection     *)
(* ends: the handler waits for a worker that may be asleep or in a call of   *)
(* the backend, which is taken to end.                                       *)
FinalizeAnswered ==
  (handler = "finalizing") ~>
    (handler = "done" \/ (streamId \in DOMAIN utterance /\ utterance[streamId].phase = "final"))

(* Every ping is answered by a pong while the connection lasts ("The service *)
(* echoes ping_id ... in the matching pong"), if none of the connection's    *)
(* sessions has automatic finals: under those WorkerEnded may drop the ping. *)
PingAnswered ==
  [](runtime => ~session.cfg.autoFinal) => ((pings > pongs) ~> (pings = pongs \/ handler = "done"))

(* A dropped connection is noticed and its decoder released ("releases the   *)
(* recognizer on finalize, cancel, close, disconnect, or error").  It is so  *)
(* when calls of the backend end and no send raises in the sender.           *)
DisconnectReleases == (link # "up") ~> (handler = "done" /\ decoder.state # "open")
===============================================================================

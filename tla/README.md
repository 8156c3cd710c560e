# rtc-asr in TLA+

TLA+ modules, TLC runs and TLAPS proofs for rtc-asr, a speech recognition
service with a streaming protocol ("Local STT v1") over websockets and Unix
sockets, its clients, a Pipecat plugin, a browser demo and the tools that
benchmark it. Paths are relative to the repository; `main.py` is `src/main.py`,
`service.py` is `pipecat-local-stt/src/pipecat_local_stt/service.py`, the tools
are under `scripts/`.

## The system

| Component | State | Operations | Talks to | What is hard | What makes it correct |
| --- | --- | --- | --- | --- | --- |
| Local STT v1 stream runtime (`main.py` 430-565, 867-1075, 1338-1520) | `StreamSession` (buffer, counters, last partial, stability, revision), `StreamRuntime` (events, flags, outgoing queue, decoder), two tasks per utterance | start, audio, finalize, cancel, ping, close; decode; send | websocket client, backend thread | three coroutines and a thread share the runtime; cancels and disconnects during a decode; joins on a queue | one outcome per utterance, said last; finals cover all audio; recognizer closed once; no lost wake-up; finalize answered |
| Pipecat plugin (`service.py`) | generation, queue and its milliseconds, waiters, locks, connection | audio, start, finalize, cancel, stop, cleanup, reconnect | pipeline, server | two loops per connection, timeouts, reconnects, bounded queue | nothing stale is sent; accounts are exact; waiters are released; one connection; one reader, unless it reconnects |
| Raw UDS framing (`main.py` 1082-1336, `rtc_client.py`, `protocols/local_stt_v1.py`) | byte stream, reader, decoder buffer | send, read header, read payload, feed, finish | both ends | frames cut anywhere, a receive cancelled between header and payload, ends inside a frame | the receiver gets the frames that were sent |
| Process (`main.py` 128-146, 418-421, 581-629, 2000-2108, `model_loader.py`) | socket path, model, executor, `preload_error` | start, preload, bind, stop, crash, load, decode | other instances, all requests | check-then-act in threads; one path for two instances; an error set and cleared by concurrent calls | reachable; loaded once; 503 only with a cause |
| Demo relay (`pipecat_bridge.py`) | client, buffer, bytes sent, final event | audio, roll over, close, pump | server, browser | finalize between two chunks, while anything may fail | within the server's buffer, no audio lost in silence, finals in order, no call hangs but on a server that never answers `close` |
| Benchmark site (`build_benchmark_manifest.py`, `report_stale_benchmark_artifacts.py`, `prerender_benchmark_homepage.py`, `Makefile`) | artifacts, manifest, homepage, detail pages, sitemap, `llms.txt`, a report | measure, build, prerender, report, clean up, check | each other, by files | files of different ages; two scripts that must agree on what is stale | what passes the checks is true; nothing in use is removed |
| Transport benchmark (`bench_local_stt_stream.py`, `compare_local_stt_transports.py`) | a session's counters, artifacts, a comparison | send, receive, finalize, summarise, compare | server, each other by files | two tasks share the counters; five pieces of code decide the same thing | no silent failure; one decision, and an earned one |
| Legacy endpoints, configuration, audio preparation, other scripts | none over time | | | | see "Not modelled" |

The server runs on one asyncio event loop. A websocket connection has a handler
coroutine; each `start` gives it a worker task, which decodes, and a sender
task, which empties `outgoing_events`. They share one `StreamRuntime`, signal
each other by `asyncio.Event`s and are awaited by the handler. A decode runs in a
thread while the worker awaits it, so anything may happen to the session
meanwhile. A raw UDS connection has the same runtime behind a loop that reads
frames. The plugin is the mirror image: a pipeline task feeds a bounded queue, a
send loop and a receive loop per connection, and any of them may reconnect or
disconnect the service while the others are suspended. `PROJECT.json` lists what
is hard to test under "hazards", at its line, with the properties that cover it.

## Modules

| Module | What it is |
| --- | --- |
| `UtteranceLifecycle` | the abstract promise of a connection to its client: utterances one after the other, transcripts of increasing revision, at most one outcome, nothing after it |
| `LocalSttStream` | one connection of the server, detailed |
| `LocalSttStreamProofs` | theorems about it: its types, what it says, what audio and wake-ups it keeps |
| `LocalSttService` | the plugin's service, with the server it talks to |
| `LocalSttServiceProofs` | theorems about it: its queue, its waits and its connection |
| `LocalSttServiceSteady` | theorems about a connection it keeps: the order of its audio, who closes what, who is left to send what is queued |
| `LocalSttServiceStale` | theorem about utterances that are not cancelled either: whose audio a server gets |
| `FrameChannel` | the abstract promise of framing: what is received is a prefix of what was sent |
| `RawUdsFraming` | the two readers of the byte stream |
| `RawUdsFramingProofs` | the refinement and the decoder, for all frames and cuts |
| `AsrProcess` | instances that start, load, decode, stop and crash |
| `AsrProcessProofs` | theorems about it |
| `DemoRelay` | the relay of the demo, with its server and network |
| `DemoRelayProofs` | theorems about it |
| `SortedSets` | Python's `sorted`: the elements of a set in the order of their keys |
| `BenchmarkManifest`, `StaleReport` | what two scripts compute from the artifacts, as operators |
| `BenchmarkSite` | composes them: the files on disk, the pages, and who writes and removes what |
| `BenchmarkRun` | one session of the transport benchmark |
| `TransportDecision` | composes it with the summary of the sessions and the comparison |
| `BenchmarkToolsProofs` | theorems about both: what is published and what is removed, the sample a session leaves and what a comparison says |
| `MCLocalSttStream`, `MCLocalSttService`, `MCRawUdsFraming`, `MCAsrProcess`, `MCTools` | the small instances for TLC; the last one checks the two groups of tools and the demo's relay side by side |

### LocalSttStream and the code

| Variable | Code |
| --- | --- |
| `inbox`, `rx` | messages before and after `receive_task` has taken them |
| `handler` | the await at which `websocket_stream_v1` is; `stopFor` says who called `stop_runtime` |
| `runtime`, `streamId` | `runtime is not None`, the last `next_stream_id` used |
| `session` | `StreamSession`: `audio_buffer` (its length), `chunks_received`, `last_partial_*`, stability text and count, revision |
| `rt` | the events and flags of `StreamRuntime` |
| `worker`, `job` | the await at which the worker is, and what it read before it |
| `decoder` | the runtime's reference (`ref`), the recognizer's state, `streaming_decode_offset`, the audio it was fed, the number of `close()` calls |
| `queue`, `sender` | `outgoing_events` with the event being sent, and the sender task |
| `utterance`, `pongs`, `pings`, `sent`, `view`, `link` | the client: what it was told and what it sent |

Actions are named after the branch or the await they stand for: `HandleStart`
and `OpenUtterance` are the `start` branch before and after `start_stream`
returns; `HandleFinalize`, `FinalizeDecoded`, `FinalizeJoined` are the `finalize`
branch and its two awaits; `StopWorker`, `StopDecoder`, `StopSender` are the three
awaits of `stop_runtime`; `WorkerLeaves`, `WorkerSkips`, `WorkerStartsPartial`,
`WorkerStartsFinal` are what the worker may do on a wake-up, and `...Returns` what
it does when its thread ends.

Abstractions. Audio is a number of units and a decode is the range of units it
was given, so "which audio does this text come from" stays visible and the text
itself is one of a few hypotheses. Milliseconds are the same units.
`_normalize_stability_text` is left to the choice of hypotheses. The awaits of
`put` on an unbounded queue and of `close()` inside `stop_runtime` do not let
anything relevant in and are one step with what precedes them.
`streaming_decoder_lock` is never contended: the worker is awaited before
`stop_runtime` closes the decoder. Metrics are left out.

Two facts about asyncio are built in. A task that waits in `asyncio.wait` for a
worker that has ended is woken before an event that worker queued last can reach
the client (`HandlerDue`): ready callbacks run in order, and the sender needs a
turn to be given the event and another for its send. And `cancel()` of a
finished task does nothing: `WorkerEnded` drops a message received in the same turn,
as the code does.

The client is not part of the server. It may send any message at any time, or
(`Disciplined`) only those its own view of the utterance allows. It may leave, and
sends to a client that has left may raise (`SendsFail`).

### LocalSttService and the code

A task is a stack of frames, one for each coroutine it is inside of, and a frame
says at which `await` the coroutine goes on: so `_ensure_utterance_started`,
`_disconnect` or `_send_json` are modelled once and entered from every task
that calls them, and an exception unwinds frame by frame through the handlers
and `finally` clauses of the code (`Unwinds`). Only the task that is `running`
moves until it reaches an await that suspends. The tasks are the pipeline
(`process_frame`, with what it calls), a controller (cancel and cleanup) and a
send and a receive loop for each connection.

| Variable | Code |
| --- | --- |
| `svc` | the attributes: websocket, closed, `_utterance_active`, `_generation`, which tasks are its loops |
| `buf` | `_send_queue`, its unfinished count, `_queued_audio_ms`, the aggregate and the pre-roll buffer, all in frames of audio |
| `waiters`, `finalSet`, `readySet` | `_final_events`, and which events are set |
| `connectLock`, `startLock` | holders and waiters of the two locks |
| `stack`, `result`, `cancelled`, `running` | the tasks |
| `conn`, `closers`, `inbox`, `server` | each connection, who waits for its close, and the server behind it |

A timer, a connect or a handshake is over only when no ready task is left
waiting (`TimePasses`): timeouts here are seconds and a turn of the loop is not.
The `server` answers `start` and `finalize`, refuses what is out of order, may
say partials and pings, and its answers may be late, or lost with the
connection. Its promise is that of `UtteranceLifecycle`.

### RawUdsFraming and the code

Bytes are positions of the stream. `ReadsHeader`, `ReadsPayload`, `EndsInHeader`
and `EndsInPayload` are `_receive_raw_uds_event`, the client's `_recv_json` and
the plugin's `RawUdsConnectionAdapter.recv`, which are alike; `Interrupted` is a
cancel of the receive (server) or its timeout (clients), and the constant
`InterruptedAt` says where it may fall. A payload may look like any header
(`HeaderAt`). `Feeds` and `Finishes` are `RawUdsFrameDecoder`, fed with chunks
cut anywhere; it sees the same bytes as the reader.

### AsrProcess and the code

`Starts`, `Preloads`, `PreloadFails`, `Binds`, `Stops` are `lifespan` with
`_prepare_uds_socket`; `Crashes` cleans nothing up. A call of the backend goes
`Begins`, `Looks` (`_load_model` finds a model or not), `Loads`, `Returns` or
`Raises`, `Records` (`_record_lazy_load_failure`). Calls of the HTTP endpoints
and of `/ws/stream` block the event loop, those of Local STT v1 run in threads.
An adapter is three facts about it (`stateful`, `oneWorker`, `useRaises`), read
from its code.

### DemoRelay and the code

`at` is the await at which `handle_audio_frame` or `close` is, `pump` is
`_pump_events`. Frames of the microphone are numbered, so it can be said which
were heard, dropped by a call that raised, or sent into a connection that was
already broken. The frame processor calls one at a time; `close` comes after
the last frame.

### The tools and the code

An artifact is a number (its place among the file names) and a record of what
decides. The computations of the scripts are operators of the same names
(`BuildManifest`, `StaleArtifacts`, `StaleSummary`, `GateBlockers`,
`CompareArtifacts`, ...); texts are members of a small ordered set, with
constants that say what contains what and how a path splits. `BenchmarkSite` has
the files, the manifest, the homepage with its sitemap and `llms.txt`, the detail
pages and a report as variables, and `Measure`, `Build`, `Prerender`, `Report`,
`CleanUp` as actions in any order. `BenchmarkRun` is the sender and the receive
loop of `_run_once`, one action per await that ends; `TransportDecision` makes
artifacts of the sessions and compares them with others, which may have been
written by hand.

### Definitions named with an underscore

`NoteAudio_Silent`, `AllSent_WhenTaken` and so on are the definition before the underscore
with a plausible mistake in it. They are used by nothing: replacing the definition by
one of them makes TLC find a property violated, which shows that the property
depends on that part of the code.

## Runs

| Run | Question | Instance |
| --- | --- | --- |
| `stream_rolling` | do wake-ups get lost, what audio do transcripts cover, is the outcome said once and last, with a rolling-window backend; the refinement of `UtteranceLifecycle` | 5 configurations (full window, short window, interval by audio, no partials, automatic finals), chunks of 1 and 2 units, buffer of 3, two hypotheses, any 5 messages, failing decodes, client may leave |
| `stream_stateful` | the same coverage for a streaming recognizer, and its release | `start_stream` may return None or raise, every call may raise, sends may raise |
| `stream_live` | when is a client that follows the protocol refused; are finalize and, without automatic finals, ping answered; is a disconnect noticed | utterances with and without automatic finals, 5 messages, stateful, failing calls, fairness |
| `stream_leaked_decoder` | violated: a sender that dies before the cancel warning | 4 messages |
| `service_safe` | account and bound of the queue, waits that will end, generation of audio, connections, and, unless it reconnects, order of audio and readers | 5 scenarios: drop with a cancel, stop beside cleanup, raise with room for two, block with a pre-roll larger than the queue, reconnect; 2 connections, 1 break, 2 generations |
| `service_live` | do the pipeline, a cancel and cleanup return | drop_oldest, fairness: aggregation of 2 with one break and one cancel; cleanup at any moment |
| `service_lost_join` | violated: finalize that waits for room while the connection is lost | block, 3 frames |
| `service_two_readers` | violated: a pong that cannot be sent, with `reconnect` | 2 connections, 1 break, 1 server message |
| `framing` | are frames received whole, in order and once; are ends told apart; do the two readers agree | payloads of 0 to 2 bytes behind headers of 2, three kinds of frames that are refused, 3 frames, every cut and every end, one receive cancelled before a header |
| `framing_interrupted` | violated: a receive cancelled before a payload | one cancel |
| `process` | who can be reached, how often the model is loaded, when `/ready` says 503 | two instances on a path, 5 settings of 5 adapters, 2 threads and the loop, 3 starts, 3 calls |
| `tools` | what passes the checks, what a clean-up removes, what a report adds up to; failures of a session, one decision, an earned one; and of the relay: buffer limit, lost audio, order of finals, calls that hang | 3 lanes, 3 artifacts in up to 3 measurements; three transports, one session followed step by step, artifacts of other tools that differ in one field each, beside benchmarks in which all went well, 5 options; chunks of 3, limits of 7 and 14 frames for the relay (two rolls, and a roll while `close` flushes), with a server that may fall silent |

Bounds. In the stream runs `MaxMessages` bounds what the client sends, `MaxInbox`
what is on its way (2 is enough for a message to be behind another in every race
of the code, which takes them one at a time); chunk sizes and the buffer limit
of 3 units allow a partial on part, on a window and on all of the audio, a chunk
that is refused and one that exactly fits. In the service runs a second
connection is the first that a reconnect can make, a second generation the
first for which anything can be stale, and each scenario spends its audio,
breaks, server messages and cancels whenever it likes; the scenarios are chosen so that
every branch of the policies, the locks and the exception handlers is taken by one. Headers of two bytes can
be split in the middle. Three starts let one instance take the path from the other and
be restarted. Fourteen frames make a relay roll twice with a rest of a chunk
in its buffer, and let the rest that `close` flushes meet the limit. Three measurements of three artifacts let a report be made of
artifacts, one of them be replaced, and the report be used. `CHECK_DEADLOCK FALSE`
stands where the system really may rest: a stream that is over, processes that
are down, a spent allowance, and in `stream_stateful` and
`stream_leaked_decoder` a handler that waits for a sender that died. In the other stream
runs a connection may only rest when it is over or waits for its client (`Quiet`).

Fairness. In `LocalSttStream` the event loop runs each task that is ready, and calls in a
thread end, so `Handler`, `Sender` and `Worker` are weakly fair; the sender is fair
because a client that has not left reads its socket. In `LocalSttService` each
task has strong fairness: a task is enabled only while no other one is
`running`, so what the loop's queue gives every ready task, a turn after finitely many
turns of others, is strong and not weak fairness of its steps. A connect and the waits
for ready and for a final have timeouts in the code; that a send leaves its
drain and a close its handshake is assumed of the transport. In `RawUdsFraming` bytes
that were written arrive and a receive is under way; in `DemoRelay` the two tasks run, and nothing is
assumed of the server or the network. Clients and servers need not do anything else. A
backend call that hangs is outside these assumptions: nothing in the code bounds it.

### What the four violated runs show

1. `stream_leaked_decoder`: `main.py` 1066-1075 with 920, 993 and 1014. When a send raises, the sender ends with events behind
   the failed one; `join()` waits for their `task_done()` for ever, `stop_runtime` is not
   reached and the recognizer stays open, against `docs/local-stt-v1.md:88`.
2. `service_lost_join`: `service.py` 245 and 152. Under the block policy finalize may wait
   for room for its last chunk; the connection is lost meanwhile, the queue
   cleared and the send loop ended, and the chunk is queued and joined with
   nobody to take it.
3. `framing_interrupted`: `main.py` 1117-1122 cancels a receive that may have taken a
   header and not its payload, and goes on using the connection.
4. `service_two_readers`: `service.py` 374 and 512. A pong that cannot be sent reconnects inside the
   receive loop of the old connection, which then reads the new one beside the new loop;
   `pipecat-local-stt/tests/test_backpressure.py:479` expects the old reader of a reconnect to exit.

### Other disagreements

Met while modelling, and not the subject of a run; the constants that reproduce them:

- With automatic finals (`AutoFinal` of `MCLocalSttStream`) a client that follows the protocol may be refused:
  what it sent while the server finalized by itself is received when the runtime is gone,
  `invalid_state` is raised (`main.py` 960-964 for audio) and the connection closed, which
  `docs/local-stt-v1.md:244` calls reusable. `DisciplinedNeverRejected` allows exactly this.
- With automatic finals a ping received in the turn in which the worker ended is dropped
  (`main.py` 913-922), where `docs/local-stt-v1.md:186` says that it is echoed: `PingAnswered`
  excludes connections with such a session.
- The plugin with `reconnect`, three connections, two breaks and a cancel breaks `OneReader`
  without a ping, too: the cancel whose
  send failed closes, and waits for a loop that itself reconnects meanwhile; the close then goes
  on with the new socket, whose receive loop it never cancelled and which reads the next one.
  Hence the excuse in `SecondReaderHasCause`; one reader is claimed for a service that does not
  reconnect.
- The plugin with `cancels = 1` or `reconnect` breaks `AudioUnderItsStart`, which
  `StaleAudioHasCause` excuses there: a cancel while a start waits for ready is undone
  by `_utterance_active = True` (`service.py:321`); a chunk compared with the
  generation before a reconnect is sent after it under the next start. A start that timed out
  waiting for ready leaves the server with a start, and the next one is refused.
  With `block`, `maxQueue = 1`, three frames and a cleanup it fails without either: the poll of `_enqueue_chunk`
  outlives the disconnect, queues its chunk under the old generation, which is still the current one, and
  the next frame connects; the new send loop sends it to a server that had no start.
- The plugin with `reconnect`, `maxQueue = 2`, aggregation of 1, two frames and one break fails
  `AudioInOrder`: a send loop whose send failed reconnects and waits for ready
  (`service.py` 501-520); the new connection's own send loop takes and sends
  the second chunk meanwhile; then the first sends the first chunk again (323-345). Hence
  the excuse in `LateAudioHasCause`; the order is claimed for a service that does not reconnect.
- The plugin with `reconnect` breaks `JoinNotAbandoned`: a receive loop that
  tried in vain ends without clearing the queue.
- `/ready` (`main.py` 144-145): opening recognizers does not clear `preload_error`, so
  with a stateful backend 503 outlives the failure, where
  `docs/troubleshooting.md:19` describes it as the state of the backend;
  `NotReadyHasCause` names the causes.
- The relay closes a client without a timeout (`rtc_client.py:549` under `pipecat_bridge.py`
  402-403). `[]<>(at = "idle")` fails without any fairness of the server: chunk sent, final waited
  for, and then the answer to `close` does not come. The repository promises nothing here;
  `FrameReturns` says that this is the only wait that may not end.
- The relay leaves the websocket of a start that failed open (`pipecat_bridge.py`
  317-321); when the close handshake fails in a roll, its client stays set without a
  websocket and every later frame raises without a message to the browser.
- The gate of the transports compares a win rounded to tenths of a millisecond, the summary beside it an
  exact one: a win of 4.96 ms passes a gate of 5 (`docs/local-stt-v1.md:53` says
  "at least 5 ms"), hence the `- 5` in `RecommendationEarned`.
- A benchmark over raw UDS polls with timeouts of 50 ms (`bench_local_stt_stream.py:1002`), each of
  which may fall between header and payload: the third violated run again, on the side of the client.

### Facts about the relay and the tools that the models keep

Not disagreements with a statement of the repository, but what a reader of the
properties will meet:

- The relay counts the bytes it was given, so a stereo track would let it count
  twice what the server's buffer gets. `close` is assumed not to be concurrent with a frame.
- `--sort` in descending order compares texts character by character backwards: a
  text still comes before what it begins, and artifacts without a page come
  first (`TextOrderDown`). "none" and "missing" are read as "untracked".
- A lane whose catalog says `"compute": null` matches no artifact, and the
  highlight of the homepage may be a blocked lane when none is validated. An artifact without a
  date is of 1970. A manifest given by `--manifest` may be older than the files it names.
- A benchmark session that is given a final before it finalizes counts as successful, with frames
  dropped and no final latency. A target named `tcp`, `websocket` or `ws` directly is kept under that
  name and reported as unexpected. Backend and model of an artifact stand in its scorecard,
  which the comparison does not read. The recommendation lists gaps in an order that is not the one in
  which `next_action` picks one.
- Averages of the stale report are compared in thousandths, texts are lower case,
  `llms.txt` is not cut at its 8 and 12 entries, and a session's p95 of a handful of queue depths is
  their maximum.

## Proofs

Eight modules hold theorems, for every value of the constants that their module's
assumption admits.

`LocalSttStreamProofs`, from `ConstantsAssumption` alone: configurations with
positive intervals, windows, limits and cycles, positive chunk sizes, and constants
that are distinct from what they stand beside.

- `TypeCorrect`: `Spec => []TypeOK`. The type invariant is inductive as it stands:
  quantities that are differences (`job.lo`, decoder offsets, claimed audio) are typed as
  integers, and that they are never negative is left to the coverage invariant.
  One lemma per record says that every update keeps its type; `TypeStep` then has one
  step per action, which says only which of the five groups of variables it disturbs.

What a connection says of an utterance, in the same module:

- `OutcomeLast` and `RevisionsRise`: `Spec => []OutcomeIsLast`, `Spec => []RevisionsIncrease`.
- `Refinement`: `Spec => LifecycleSpec`, so everything `UtteranceLifecycle` promises
  holds of the server with any number of messages, in any order.
- `JoinServed`: `Spec => []JoinHasSender` when `SendsFail` is FALSE. With it the statement
  is false: that is the first violated run.

The two invariants are not inductive: that the worker may still queue a transcript depends
on the flags, the flags on where the handler is, and the next `start` on
what was said before. `IInv` adds `ControlInv` (who has a task and a queue, which flags go
with which place of the handler, that the stream number is that of the last utterance
told) and `SpeechInv` (a worker that may speak has an active utterance and no outcome
queued; an utterance that is over has its outcome told or queued, unless the connection
broke; no revision is ahead of the session's). `WorkerStep` reduces the ten actions of the worker to
whether they queue a transcript; most actions of the handler are `Calm`; what is left
is queueing (`SpeechQueued`), sending (`SpeechSent`), and opening and closing an utterance.

The audio of an utterance and who is woken for it, in the same module and under the same
assumptions:

- `NoWakeupLost`: `Spec => []NoLostWakeup`.
- `FinalCovers`: `Spec => []FinalCoversUtterance`.
- `RecognizerClosed`: `Spec => []RecognizerReleased`.

`CoverInv` stands on `ControlInv` and has four parts. `FlowInv` says where handler and
worker may be together: a final decode only runs while the handler waits for it, and
nothing is left of the worker once its recognizer may be closed. `WakeInv` adds to
`NoLostWakeup` the worker that is in a decode: if no flag will make it look again, its
snapshot is all there is. `DecoderInv` says that the runtime or the worker holds an open
recognizer, one of them closes it, and nobody twice. `AudioInv` says what audio the snapshot, the
recognizer and a last partial that is still current cover, which is what a final without a
decode of its own is made of.

`RawUdsFramingProofs`, from `FramingAssumption` (a header has at least one byte):

- `FramesKept`: `Spec => ChannelSpec`, the refinement of `FrameChannel`.
- `CleanEnds`: `Spec => []CleanEndLosesNothing`.
- `DecodersAgree`: `Spec => []DecoderAgrees`, the incremental decoder against the reader.

All assume `InterruptedAt \subseteq {"header"}`. With "payload" in it they are false,
which is the third violated run: the theorems say that this is the only place
where a cancelled or timed-out receive does harm, for payloads of any length, any
number of frames and every way the stream cuts them up. The invariant says
where each frame begins (`Boundary`: behind the one before it, the first at 0), that
what was received is the beginning of what was sent, and that the reader is at the boundary
of the next frame or behind its header. `HeaderIsNext` then shows that a receive
at a boundary can only take that frame for the next one, although elsewhere any bytes look
like a header; `TakesNext` does the step both kinds of read share.

For the decoder, `FramesFound` says what the scan of a chunk yields: the frames that were sent and
are complete, up to one that is not or that is refused. The scan is a recursive function, so
that it exists at all has to be proved (`ScanExists`, from the last byte back). `DecoderInv`
adds that the next frame is never complete in the buffer, `RefusalInv` that a refusal of the
reader has a frame behind it. `LeastNat` takes the place of induction: a set of naturals that is
not empty has a least element, which follows from `NatLessThanWellFounded`.

`AsrProcessProofs`, from `ProcessAssumption` (finitely many threads; an executor of one thread
only where the adapter has one):

- `Reachable`: `Spec => []PathReachable`, for any number of instances, starts and crashes.
- `LoadsBounded`: `Spec => []LoadedOnce`.
- `NotReadyExplained`: `Spec => []NotReadyHasCause`.

`IInv` adds to the type invariant who owns the bound socket (`SocketInv`) and, for each
instance, `ModelInv`: nothing is under way before it serves, an executor of one thread has
one call inside, which makes a model only when there is none (`UseInv`), the loads made and those
under way are together within the limit (`CountInv`), and an error that is recorded beside a
loaded model has a load or an opening of a recognizer that failed behind it (`ErrorInv`).

`DemoRelayProofs`, from `RelayAssumption` (chunks and limits are numbers, and neither a
chunk nor the relay's limit is larger than the server's buffer):

- `CapKept`: `Spec => []CapRespected`.
- `AudioKept`: `Spec => []AudioAccounted`.
- `FinalsShownFirst`: `Spec => []FinalsFirst`.

`RelayInv` adds what the task holds at each of its awaits and who has the client, the
websocket and the connection (`TaskInv`, `ClientInv`), that the server has had no more than
the relay counts (`SizeInv`), that what was heard comes before what is at hand or buffered
(`OrderInv`), that every frame is somewhere and none both heard and lost
(`AccountInv`), that a connection into which frames vanished is not made again
(`VanishedInv`), and that a client is only replaced after its final was shown (`FinalInv`). The
attempt showed two things: that the server's limit is a number was nowhere said,
and the first bounds of the run never let `close` roll while it flushes.

`LocalSttServiceProofs`, from `ServiceAssumption` alone, so for every policy,
aggregation, pre-roll, number of connections, breaks and cancels, with and without `reconnect`:

- `AccountKept`: `Spec => []QueueAccounted`, `_queued_audio_ms` is the audio in the queue.
- `QueueWithinLimit`: `Spec => []QueueBounded`.
- `FinalStaysReachable`: `Spec => []FinalReachable`, whoever waits for a final waits on the
  waiter that the next final wakes, or that a disconnect has woken.
- `OneConnectionKept`: `Spec => []OneConnection`, at every step and not only at rest.

`Inv` is the types, which say what frames a stack may hold (`TypeInv`), that each kind of
frame is in the stacks of its own tasks and at most once there (`TaskInv`), the account and the
limit at every step and not only at rest (`AccountInv`), that a send loop about to take a
chunk finds one (`TakeInv`), and that the event of a finalize on its way to the wait is set or can be
(`FinalInv`). The
model has some sixty actions; the proof does not take them one at a time. Each is a `Move`: it
replaces the first frames of one stack. Most are a `QuietStep`, which leaves the queue alone or clears it, loses no event of
a final that is set or can be, and puts no frame on a stack that the invariant speaks of; they are
proved to be so, and one lemma says that such a step keeps `Inv`. What is left is taking, putting, dropping and
clearing, and the steps that make, wake and forget a waiter.

The durations are folds, and a fold is a recursive function: `LeastNat` again takes the place of induction, and
`FoldExists` and the `Duration` lemmas follow from it. The attempt found that a cancel was delivered
to a task that had ended (`Alive` now guards it) and that an exception could unwind the frame of
a task that had none below.

`OneConnection` has an invariant of its own, `ConnInv`, on top of `Inv`: a connection that is open is
the current one (`CurrentInv`); who waits for the connect lock is in it and who is past it is
first; a handshake is only under way while there is no websocket; past a close the websocket
is gone, and until then it is the one that is being closed (`Placed`). That a reconnect on one task
cannot forget a connection that another task has just made is the heart of it, and
nothing but timing protects it: between the close and `_websocket = None` there is no `await`, and the
handshake of a new connection takes time, so that none ends while a task with its close behind it
could run (`TimePasses`; `ConnectedConn`). `Neat` says that only an innermost frame, or one
below a close, is at such a place. Most actions are `Free`: they leave the wire alone and their task where
nothing is said.

`LocalSttServiceSteady`, from `ServiceAssumption`, the order of audio:

- `AudioOrderKept`: `Spec => []LateAudioHasCause`, audio reaches the servers in the order it was heard,
  unless `reconnect` is set: with it a send that is repeated may come late, see
  "Other disagreements".

`AudioInv` says where audio is: `Line` lists nine places, from the last frame a server has heard over a
send, the queue, a chunk on its way there, the aggregate, frames to be aggregated, the
pre-roll and a frame in hand to the next that will be heard, and `InOrder` that what is at one
place comes before all that is at a later one. Each of the fifty actions that do not touch audio is
`Calmly`: places keep what they have or are emptied. The others move a part of the line to
an earlier place when nothing stands between (`Shifts`), put a new frame last (`HeardLine`), or
take the head of the queue (`TakenLine`). Two facts make that true, and neither is near the code that
needs it. A task sends one thing at a time, and none has a send under way while another
starts one, so that the place of sends is empty when the next chunk is taken
(`SendFirst`). And the pre-roll is empty while an utterance is active, except between the `ready` that
made it so and the step that queues the pre-roll (`PrerollInv`): there is no `await` between the two. For both, a
stack has to have the shape the calls give it: `Nesting` lists who may stand on whom, `Straight` and
`Ground` say that a stack does. Without `reconnect` no task is at a place that only a
reconnect leads to; a send that a reconnect repeats is what breaks the order. The invariant
was checked by TLC on the scenarios without `reconnect` first, which showed that it had to
say what the outermost frame may be (`Ground`).

In the same module, who closes what:

- `OneReaderKept`: `Spec => []SecondReaderHasCause`. No two receive loops read one
  connection, unless a reconnect makes one inside the loop of the old.

`_disconnect` may be under way in several tasks at once: cancel and cleanup of the controller, the
pipeline, and the two loops, each of which disconnects when it ends by itself. A close cancels the
other loops and awaits them one by one, and they may be in a close that awaits it.
`CloseInv` says how this stays in order. `HomeInv`: a loop that closes has nothing below the
close, so that its own end is all that can follow. `EraInv`: the loops there are, and all
loops that any close still awaits, are those of one connection. `WaitInv`: a close that awaits
tasks has every loop left among them, and those that still work are cancelled; once a task is
past that point, no loop is current; and two loops that await each other do not both go on, as one of them is
cancelled. `WorkInv`, which gives the theorem: a loop that works and is not cancelled is one of the
current connection. It needs the others, because a new connection makes two loops while old ones may still be
ending: those are cancelled (`WaitInv`) and about the connection before (`EraInv`). That a
close which was itself cancelled does not leave a loop behind is the hardest step. The
cancel goes along the chain of tasks that await one another (`CancelTarget`), a recursive
function again: that it exists follows from `LeastNat`, and `TargetIs` says where it leads. It
had two arguments before, which the prover does not support.

And who is left:

- `JoinLossKept`: `Spec => []JoinLossHasCause`. A finalize that joins the queue is never alone with chunks
  that nobody will send or clear, unless a reconnect failed or the `block` policy queued
  a chunk after a disconnect; for those two it can be (`service_lost_join`, "Other disagreements").

The argument is about whoever will do something. `Busy`: there is a websocket, and its ready event
is set, an utterance is active or audio is queued. Then some task `Minds` (`MindInv`): a loop that works and is
not cancelled, one whose send has failed or whose connection is lost and that is on its way to a
close, or any task inside a close or just past it. Once the service is closed it has to
be of the last kind (`LeaveInv`), as a loop that works may stop when it sees that. That is inductive
only with what `EndingInv` says of how loops come to an end: only loops that work are ever
cancelled (`CancelInv`), so that a cancel never hits a task that is on its way to clear the
queue (`TargetsWork`, the chain of awaits once more); none ends with an error, which its close would
raise where it should go on (`ErrorInv`); nobody awaits a loop that is about to close itself
(`AloneInv`); and after a close none goes on but to find that out (`EndInv`). And `ReadyInv` says where
chunks may come from: without a websocket the queue is empty and no utterance active
(`EmptyInv`), so that whoever queues a chunk does it while somebody minds (`ActInv`). An utterance is
active once a ready event is set, which is that of the current connection and of one that
is not gone yet (`LinkInv`, `StartInv`): a close that ends while the start waits for it lets the
start go first, as timers do (`TimePasses`). TLC has checked these invariants on the
scenarios of the runs before the proof was tried; they fail with `block`, whose poll outlives
the connection.

`LocalSttServiceStale`, from the same assumption, whose audio a server gets:

- `StaleAudioKept`: `Spec => []StaleAudioHasCause`. No server gets audio of one utterance under the start of
  another or under none, unless there was a cancel, the service reconnects, or the `block` policy is set;
  each of the three has a trace that does it ("Other disagreements").

`StaleInv` is about who knows of the current utterance. `Own`: the server of the connection, while that is open,
has its start. Whoever has anything to send has to imply that: a chunk of it in the queue (`Mine`), an
active utterance (`ActiveOwn`, but for the moment between the finalize and its return), a send loop about to send
(`Said`), and a start that was sent while the ready event it will wait for is set or a `ready` for it is in an
inbox (`Awaited`, `Told`). Nothing is of an utterance to come (`GenInv`), so that `SpeechStarts` leaves nothing of
the new utterance anywhere, and no `ready` of it is under way before its start is sent (`Early`,
`Greeted`). The generation of a chunk is compared before the `await` of the send, and what
makes that enough is that a task which is about to send holds the event loop until it has (`OtherSaid`). A
finalize takes the start away from the server, and may, as the queue is empty then and the utterance is over
before anybody else fills it (`Says`). Most steps are `Mute`, they bring no chunk, no answer and no
start, and `Meek`, they do not lead where the invariant says something of the place. A cancel is neither: it is
counted, and the theorem says nothing after it. TLC has checked `StaleInv` on the scenarios without
`reconnect` and `block`.

`BenchmarkToolsProofs`, of the transports, from `RunAssumption` (audio is cut into numbers of frames, latencies and
the limit of partials are numbers) and `DecisionAssumption` (a benchmark has a run, `positive_int`;
the counts and times that artifacts and options give are numbers):

- `SessionsHonest`: `DecisionSpec => []SampleHonest`, for any chunks, limits, runs and answers.
- `ComparisonsDecideOnce`: `DecisionSpec => []OneDecision`, and `RecommendationsEarned`:
  `DecisionSpec => []RecommendationEarned`, for any artifacts, aliases and options.

`RunInv` says what sender and receive task have recorded (`Record`), that every frame is sent,
dropped or still to be sent, and that the sender leaves its chunks only when none is left
(`AudioInv`), and that a receive task that has ended has a cause, a final or an error that is
recorded, and takes one final at most (`EndInv`). A chunk is cut into frames by a
fold, counted as above. The attempt
found that the arms of five `CASE`s overlapped: TLC takes the first that holds, as the code does,
but TLA+ leaves it open which. They are stated as alternatives now.

`DecisionInv` (TLC has checked it on `tools`) says that every artifact is `WellFormed` and that the
last comparison was made of the artifacts there are and was not refused; the rest is about the
operators. `Passes` lists what an empty list of blockers means; `FlagFollowsGate`, `NextFollowsGate`,
`TextFollowsGate` and `ExitFollowsGate` lead each of the other four answers back to it, though the
text keeps an order of its own. `TenthsIs` bounds what rounding may move, which gives the win and its
sign; `TotalRead` and `PercentileIsValue` say that a total of nothing leaves no sample with an error and
that a percentile is one of the values. For this the lists that are only asked for their first
item are sets with an order (`FirstOf`), and a percentile is the least value of its rank, not
the item of a sorted list. The attempt found that TLAPS and TLC took `UNION A \cup B` in `BlockingGaps`
differently (it has parentheses now), and what the assumption is needed for: `json.loads`
also reads `NaN`, a difference with which is neither absent nor below any limit, so
that the gate would pass.

In the same module, of the site, from `SiteAssumption` (files are numbered from 1, dates and scores
are numbers, the catalogue is a list) and, for the second theorem, `ReportAssumption` (paths of artifacts
are texts and distinct, `results_dir.glob("*.json")` of one directory; pages are in another,
one for an artifact, `detail_page_path`; sizes, times and limits are numbers):

- `ChecksAreHonest`: `SiteSpec => []ChecksHonest`, for any lanes, artifacts and order of steps.
- `RemovalSpares`: `SiteSpec => CurrentSurvives`, the same for what a cleanup removes.

The scripts sort everything they write, and the provers know nothing of `SortSeq`, `SelectSeq` and
`@@`: `SortedSets` has the sequence of a set whose keys ascend, and `SortedIs` says that every element gets
a place of its own in it. It rests on keys being in one order (`KeysDiffer`, the first number in
which they differ) and on `LeastNat`; for the report, whose options choose among twenty keys, on
each of them ending with the path (`StaleKeysEnd`). `ManifestIs` then says what readers of a manifest rely
on: an entry for each file and one for each lane, which agree. With `FilesInv` that is all
`ChecksAreHonest` needs, since a check compares with what would be written now.

A removal is of files as they were when the report was made. `RemovalInv` (TLC has checked it with
`FilesInv` on the instance of `tools`) says what is left of that: there is a set of files, all of them still there
and none measured again, of which every path of a fresh report names one no lane showed, or its page. `ShownKept` is
the argument: of more files a lane may show another, but when it shows one of those it showed
that one before, and it keeps showing it when others are removed.

Of the safety invariants the runs check only one is not proved for all instances: of
`BenchmarkSite`, that a report adds up (`ReportAccounts`, sums over buckets of sorted lists). Out of the
prover's reach: everything about liveness, and ENABLED, which `Quiet` and the deadlock checks amount to.

## What remains to be done

1. `LocalSttService` with a reconnect: which of its properties hold at all then. The theorems about audio,
   readers and joins exclude it.
2. `ReportAccounts` of `BenchmarkSite`: sums over sets, which the community modules fold, and `SelectSeq`, which
   the provers do not know, would have to be stated with lemmas of their own.
3. A composition of the plugin with the detailed server in place of the promise
   that stands for it, and of the loop of the raw UDS server with its framing.
4. The agreement of server, client and plugin on which fields of a message are valid.

## Not modelled

- The legacy endpoints beyond their calls of the backend and what these leave in
  `preload_error`: each request is one coroutine that shares nothing else.
- `config.py` and `audio_processor.py`: functions of the environment and of floating-point samples.
- The fields of messages and their validation (`protocols/local_stt_v1.py`, the plugin's
  `messages.py`): stateless, one check after the other.
- What a recognizer makes of samples, and the joining of the segments of Vosk, which
  depends on texts the repository says nothing of.
- `app.py` of the demo and the set-up of its pipeline: calls of libraries.
- Metrics, logs, report texts, HTML.
- The barrier of concurrent sessions of the transport benchmark.
- `report_compose_image_sizes.py`, `compare_local_stt_backends.py`,
  `compare_streaming_backend_artifacts.py`, `benchmark_mlx_asr.py`, `tests/benchmark.py`:
  one pass over a file or over the output of a command, printed; nothing is kept and no
  other part reads it. Deployment files and documentation.

----------------------------- MODULE AsrProcess -----------------------------
(* The service as a process: start-up with or without preload, the socket    *)
(* path of the raw UDS listener, the model that several threads load lazily, *)
(* and what the calls leave in preload_error for /ready.  Two instances may  *)
(* be started on one path, and any of them may crash.                        *)
EXTENDS Naturals, FiniteSets

CONSTANTS
    Servers,      \* instances that share a socket path
    Called,       \* those that get calls (calls of two do not interact)
    Workers,      \* worker threads of an instance (asyncio.to_thread)
    Loop,         \* its event loop thread
    Settings,     \* the configurations an instance may be started with
    Nothing,      \* no entry at the path; no listener; nobody on the executor
    File,         \* an entry that is not a socket
    MaxStarts,    \* bound: starts of all instances
    MaxCalls      \* bound: calls of an instance

\* What tells the adapters apart.  stateful: it has start_stream.  oneWorker: its
\* calls go through an executor with one thread.  useRaises: what may be raised
\* once the model is there; in making the model anything may.
Adapter == [stateful : BOOLEAN, oneWorker : BOOLEAN, useRaises : SUBSET {"unavailable", "exception"}]

FasterWhisperAdapter == [stateful |-> FALSE, oneWorker |-> FALSE, useRaises |-> {"exception"}]
QwenASRAdapter       == [stateful |-> FALSE, oneWorker |-> FALSE, useRaises |-> {"exception"}]
ParakeetAdapter      == [stateful |-> FALSE, oneWorker |-> FALSE, useRaises |-> {"exception"}]
VoxtralAdapter       == [stateful |-> FALSE, oneWorker |-> FALSE, useRaises |-> {"exception"}]
\* A NeMo model that does not take arrays is found out when it is used.
ParakeetNemoAdapter  == [stateful |-> FALSE, oneWorker |-> FALSE,
                         useRaises |-> {"unavailable", "exception"}]
\* mlx and soundfile are imported when they are used.
ParakeetMLXAdapter   == [stateful |-> FALSE, oneWorker |-> TRUE,
                         useRaises |-> {"unavailable", "exception"}]
VoxtralMLXAdapter    == [stateful |-> FALSE, oneWorker |-> TRUE,
                         useRaises |-> {"unavailable", "exception"}]
VoskAdapter          == [stateful |-> TRUE, oneWorker |-> FALSE, useRaises |-> {"exception"}]

\* AppConfig's part in this.
Setting == [preload : BOOLEAN, failFast : BOOLEAN, rawUds : BOOLEAN, backend : Adapter]

\* The listening socket made by the n-th start.
Socket == [of : Servers, start : 1..MaxStarts]

ASSUME ProcessAssumption ==
    /\ Settings \subseteq Setting /\ Called \subseteq Servers
    /\ Loop \notin Workers
    /\ IsFiniteSet(Workers)
    /\ Nothing \notin Servers \cup Workers \cup {Loop, File} \cup Socket
    /\ File \notin Servers \cup Socket
    /\ MaxStarts \in Nat /\ MaxCalls \in Nat

Threads == Workers \cup {Loop}

\* Where a call is: before the check of _model, in the constructor of the model,
\* decoding, or raised and not yet recorded.
Call == [at : {"idle", "entered", "loading", "using", "unavailable", "exception"},
         kind : {"http", "decode", "open"}]
Idle == [at |-> "idle", kind |-> "http"]

VARIABLES
    setting,    \* of each instance
    phase,      \* "down", "preloading", "binding" or "serving"
    path,       \* what is at the socket path
    socket,     \* the listener of each instance
    starts,     \* starts so far
    error,      \* preload_error is set
    loads,      \* times the model was loaded: is_loaded() when it is not 0
    executor,   \* thread whose call holds the one-thread executor
    call,       \* the call of each thread
    calls,      \* calls so far
    \* History:
    disturbed,  \* another instance bound or stopped since this one bound
    crashed,    \* the sockets whose process crashed
    last,       \* how the last call that returned or raised ended
    late        \* a failure was recorded after a later call had succeeded

pathVars  == <<path, socket, starts, disturbed, crashed>>
modelVars == <<error, loads, executor, call, calls, last, late>>
vars == <<setting, phase, pathVars, modelVars>>
-----------------------------------------------------------------------------
(* create_app's lifespan *)

Reset(s) ==
    /\ error' = [error EXCEPT ![s] = FALSE]
    /\ loads' = [loads EXCEPT ![s] = 0]
    /\ executor' = [executor EXCEPT ![s] = Nothing]
    /\ call' = [call EXCEPT ![s] = [t \in Threads |-> Idle]]
    /\ calls' = [calls EXCEPT ![s] = 0]
    /\ last' = [last EXCEPT ![s] = "none"]
    /\ late' = [late EXCEPT ![s] = FALSE]

Starts(s) ==
    /\ phase[s] = "down" /\ starts < MaxStarts
    /\ starts' = starts + 1
    /\ phase' = [phase EXCEPT ![s] = IF setting[s].preload THEN "preloading" ELSE "binding"]
    /\ Reset(s)
    /\ UNCHANGED <<setting, path, socket, disturbed, crashed>>

Preloads(s) ==
    /\ phase[s] = "preloading"
    /\ phase' = [phase EXCEPT ![s] = "binding"]
    /\ loads' = [loads EXCEPT ![s] = 1]
    /\ UNCHANGED <<setting, pathVars, error, executor, call, calls, last, late>>

\* With ASR_FAIL_FAST the exception ends the process.
PreloadFails(s) ==
    /\ phase[s] = "preloading"
    /\ error' = [error EXCEPT ![s] = TRUE]
    /\ phase' = [phase EXCEPT ![s] = IF setting[s].failFast THEN "down" ELSE "binding"]
    /\ UNCHANGED <<setting, pathVars, loads, executor, call, calls, last, late>>

\* _prepare_uds_socket: a socket at the path is removed, whoever listens on it;
\* anything else is not.
Prepared(s) == path # File

\* To whom it may happen that the path is no longer theirs.
OthersDisturbed(s) == [o \in Servers |-> disturbed[o] \/ o # s]

Binds(s) ==
    /\ phase[s] = "binding"
    /\ IF ~setting[s].rawUds
       THEN phase' = [phase EXCEPT ![s] = "serving"] /\ UNCHANGED <<path, socket, disturbed>>
       ELSE IF Prepared(s)
       THEN /\ path' = [of |-> s, start |-> starts]
            /\ socket' = [socket EXCEPT ![s] = path']
            /\ disturbed' = [OthersDisturbed(s) EXCEPT ![s] = FALSE]
            /\ phase' = [phase EXCEPT ![s] = "serving"]
       ELSE phase' = [phase EXCEPT ![s] = "down"] /\ UNCHANGED <<path, socket, disturbed>>
    /\ UNCHANGED <<setting, starts, crashed, modelVars>>

\* As if the socket were left behind.
Unlinked_Never == path

\* The path is unlinked, whatever is there by now.
Unlinked == Nothing

Stops(s) ==
    /\ phase[s] = "serving"
    /\ \A t \in Threads : call[s][t].at = "idle"
    /\ phase' = [phase EXCEPT ![s] = "down"]
    /\ socket' = [socket EXCEPT ![s] = Nothing]
    /\ IF setting[s].rawUds
       THEN path' = Unlinked /\ disturbed' = OthersDisturbed(s)
       ELSE UNCHANGED <<path, disturbed>>
    /\ UNCHANGED <<setting, starts, crashed, modelVars>>

\* Nothing is cleaned up.
Crashes(s) ==
    /\ phase[s] # "down"
    /\ phase' = [phase EXCEPT ![s] = "down"]
    /\ socket' = [socket EXCEPT ![s] = Nothing]
    /\ crashed' = crashed \cup ({socket[s]} \ {Nothing})
    /\ UNCHANGED <<setting, path, starts, disturbed, modelVars>>

-----------------------------------------------------------------------------
(* Calls of the backend *)

\* A step of thread t in its call; the other variables of the instance change by
\* the other conjuncts of the action.
Goes(s, t, at) == call' = [call EXCEPT ![s][t].at = at]

\* /api/transcribe, /api/stream and /ws/stream decode on the event loop, which
\* does nothing else meanwhile; Local STT v1 decodes and opens recognizers in
\* worker threads.
Begins(s, t) ==
    /\ phase[s] = "serving" /\ s \in Called /\ calls[s] < MaxCalls
    /\ call[s][t].at = "idle" /\ call[s][Loop].at = "idle"
    /\ \E kind \in IF t = Loop THEN {"http"}
                   ELSE IF setting[s].backend.stateful THEN {"open"} ELSE {"decode"} :
           call' = [call EXCEPT ![s][t] = [at |-> "entered", kind |-> kind]]
    /\ calls' = [calls EXCEPT ![s] = @ + 1]
    /\ UNCHANGED <<setting, phase, pathVars, error, loads, executor, last, late>>

\* The audio cannot be decoded: a 400, before the model is looked at.
Refused(s, t) ==
    /\ call[s][t].at = "entered" /\ call[s][t].kind = "http"
    /\ call' = [call EXCEPT ![s][t] = Idle]
    /\ UNCHANGED <<setting, phase, pathVars, error, loads, executor, calls, last, late>>

\* As if each thread had a worker of its own.
MayEnter_Always(s, t) == TRUE

\* _run_on_worker: one call at a time.
MayEnter(s, t) == setting[s].backend.oneWorker => executor[s] = Nothing

Taken(s, t) == IF setting[s].backend.oneWorker THEN [executor EXCEPT ![s] = t] ELSE executor

Freed(s) == [executor EXCEPT ![s] = Nothing]

\* _load_model and _load_pipeline: return what is there, or make one.
Looks(s, t) ==
    /\ call[s][t].at = "entered" /\ MayEnter(s, t)
    /\ executor' = Taken(s, t)
    /\ Goes(s, t, IF loads[s] > 0 THEN "using" ELSE "loading")
    /\ UNCHANGED <<setting, phase, pathVars, error, loads, calls, last, late>>

Loads(s, t) ==
    /\ call[s][t].at = "loading"
    /\ loads' = [loads EXCEPT ![s] = @ + 1]
    /\ Goes(s, t, "using")
    /\ UNCHANGED <<setting, phase, pathVars, error, executor, calls, last, late>>

\* ASRUnavailableError for a package that is missing or does not fit, any other
\* exception from the package itself.
Raises(s, t) ==
    /\ call[s][t].at \in {"loading", "using"}
    /\ \E failure \in IF call[s][t].at = "loading" THEN {"unavailable", "exception"}
                      ELSE setting[s].backend.useRaises : Goes(s, t, failure)
    /\ executor' = Freed(s)
    /\ last' = [last EXCEPT ![s] = "failed"]
    /\ UNCHANGED <<setting, phase, pathVars, error, loads, calls, late>>

\* As if only a decode on the loop cleared the error.
Clears_HttpOnly(kind) == kind = "http"

\* _run_transcription clears it, in the thread; opening a recognizer does not.
Clears(kind) == kind # "open"

Returns(s, t) ==
    /\ call[s][t].at = "using"
    /\ call' = [call EXCEPT ![s][t] = Idle]
    /\ executor' = Freed(s)
    /\ LET clears == Clears(call[s][t].kind) IN
       /\ error' = [error EXCEPT ![s] = @ /\ ~clears]
       /\ late' = [late EXCEPT ![s] = @ /\ ~clears]
    /\ last' = [last EXCEPT ![s] = IF call[s][t].kind = "open" THEN "opened" ELSE "decoded"]
    /\ UNCHANGED <<setting, phase, pathVars, loads, calls>>

\* _record_lazy_load_failure: an exception counts only if there is no model.
Degrades(s, failure) == failure = "unavailable" \/ loads[s] = 0

\* The except clauses of _transcribe_bytes and of the handlers, on the loop.
Records(s, t) ==
    /\ call[s][t].at \in {"unavailable", "exception"}
    /\ t = Loop \/ call[s][Loop].at = "idle"
    /\ error' = [error EXCEPT ![s] = @ \/ Degrades(s, call[s][t].at)]
    /\ late' = [late EXCEPT ![s] = @ \/ (last[s] # "failed" /\ Degrades(s, call[s][t].at))]
    /\ call' = [call EXCEPT ![s][t] = Idle]
    /\ UNCHANGED <<setting, phase, pathVars, loads, executor, calls, last>>
-----------------------------------------------------------------------------
Init ==
    /\ setting \in [Servers -> Settings]
    /\ phase = [s \in Servers |-> "down"]
    /\ path \in {Nothing, File}
    /\ socket = [s \in Servers |-> Nothing]
    /\ starts = 0
    /\ error = [s \in Servers |-> FALSE]
    /\ loads = [s \in Servers |-> 0]
    /\ executor = [s \in Servers |-> Nothing]
    /\ call = [s \in Servers |-> [t \in Threads |-> Idle]]
    /\ calls = [s \in Servers |-> 0]
    /\ disturbed = [s \in Servers |-> FALSE]
    /\ crashed = {}
    /\ last = [s \in Servers |-> "none"]
    /\ late = [s \in Servers |-> FALSE]

Lifespan(s) == Starts(s) \/ Preloads(s) \/ PreloadFails(s) \/ Binds(s) \/ Stops(s) \/ Crashes(s)

CallStep(s, t) ==
    /\ phase[s] = "serving"
    /\ \/ Begins(s, t) \/ Refused(s, t) \/ Looks(s, t) \/ Loads(s, t)
       \/ Raises(s, t) \/ Returns(s, t) \/ Records(s, t)

Next == \E s \in Servers : Lifespan(s) \/ \E t \in Threads : CallStep(s, t)

Spec == Init /\ [][Next]_vars
-----------------------------------------------------------------------------
(* _backend_status, _accepting_traffic *)

Status(s) == IF error[s] THEN "degraded" ELSE IF loads[s] > 0 THEN "ready" ELSE "loading"

Accepting(s) == ~error[s] /\ (setting[s].preload => loads[s] > 0)
-----------------------------------------------------------------------------
(* Properties *)

TypeOK ==
    /\ setting \in [Servers -> Settings]
    /\ phase \in [Servers -> {"down", "preloading", "binding", "serving"}]
    /\ path \in Socket \cup {Nothing, File}
    /\ socket \in [Servers -> Socket \cup {Nothing}]
    /\ starts \in 0..MaxStarts
    /\ error \in [Servers -> BOOLEAN]
    /\ loads \in [Servers -> Nat]
    /\ executor \in [Servers -> Threads \cup {Nothing}]
    /\ call \in [Servers -> [Threads -> Call]]
    /\ calls \in [Servers -> Nat]
    /\ disturbed \in [Servers -> BOOLEAN] /\ crashed \subseteq Socket
    /\ last \in [Servers -> {"none", "failed", "decoded", "opened"}]
    /\ late \in [Servers -> BOOLEAN]

\* A listener can be reached at the path unless another instance has bound or
\* stopped since, which takes the path away for good; and only a crash leaves a
\* socket there that nobody listens on (_prepare_uds_socket, and the finally of
\* lifespan).
PathReachable ==
    /\ \A s \in Servers :
          phase[s] = "serving" /\ setting[s].rawUds /\ ~disturbed[s] => path = socket[s]
    /\ path \in Socket => path = socket[path.of] \/ path \in crashed

\* A backend with a one-thread executor loads its model once.  Any other may
\* load it once for each thread that looked before the first load was done
\* (_load_model is not locked), never more.
LoadedOnce ==
    \A s \in Servers :
        LET loading == {t \in Threads : call[s][t].at = "loading"} IN
        loads[s] + Cardinality(loading)
            <= IF setting[s].backend.oneWorker THEN 1 ELSE Cardinality(Threads)

\* When nothing is under way, /ready says 503 only if the backend is not usable,
\* which is what the last call found; or because opening recognizers succeeds
\* without clearing the error, or a failure was recorded after a later success.
NotReadyHasCause ==
    \A s \in Servers :
        phase[s] = "serving" /\ ~Accepting(s) /\ (\A t \in Threads : call[s][t].at = "idle")
            => loads[s] = 0 \/ last[s] \in {"failed", "opened"} \/ late[s]
=============================================================================

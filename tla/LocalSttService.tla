-------------------------- MODULE LocalSttService --------------------------
(* LocalStreamingSTTService of the Pipecat plugin (service.py): asyncio      *)
(* tasks that share one object.  The pipeline task feeds audio and VAD       *)
(* events, a controller cancels or cleans up at any time, and every          *)
(* connection brings a send loop and a receive loop, any of which may        *)
(* reconnect or disconnect the service while the others are suspended.       *)
(*                                                                           *)
(* A task is a stack of frames, one per coroutine it is inside of, and each  *)
(* frame says where that coroutine continues.  Only the task `running` holds *)
(* moves, until it reaches an `await` that suspends; then any task whose     *)
(* await is over may resume.                                                 *)
EXTENDS Naturals, Sequences, FiniteSets, SequencesExt

CONSTANTS
    Scenarios,     \* configurations, each with what may happen under it
    MaxConns,      \* bound: connections that may succeed
    MaxGen         \* bound: generations

\* LocalSTTConfig as far as it matters, durations in frames of audio.
Config == [policy : {"drop_oldest", "block", "raise"}, reconnect : BOOLEAN,
           maxQueue : Nat \ {0}, aggregation : Nat \ {0}, preRoll : Nat]

\* Bounds of a scenario: frames of audio, connections that break, partial
\* transcripts and pings of the server, calls of cancel_current_utterance, and
\* which of stop and cleanup may be called.
Allowance == [frames : Nat, breaks : Nat, chatter : Nat, cancels : Nat,
              shutdown : SUBSET {"stop", "cleanup"}]

ASSUME ServiceAssumption ==
    /\ \A s \in Scenarios : s.config \in Config /\ s.allows \in Allowance
    /\ MaxConns \in Nat \ {0} /\ MaxGen \in Nat

Conns == 1..MaxConns
Gens  == 0..MaxGen

Pipeline    == <<"pipeline", 0>>
Controller  == <<"controller", 0>>
SendTask(k) == <<"send", k>>
RecvTask(k) == <<"recv", k>>
NoTask      == <<"none", 0>>
Loops == {SendTask(k) : k \in Conns} \cup {RecvTask(k) : k \in Conns}
Tasks == Loops \cup {Pipeline, Controller}

VARIABLES
    svc,          \* the service's attributes that are not audio
    buf,          \* its audio: send queue, aggregate buffer, pre-roll
    waiters,      \* keys of _final_events
    finalSet,     \* generations whose final event is set
    readySet,     \* connections whose ready event is set
    connectLock,  \* holder, then waiters, of _connect_lock
    startLock,    \* holder, then waiters, of _start_lock
    stack,        \* the frames of each task, innermost first
    result,       \* how a task ended: "none" while it has not
    cancelled,    \* tasks with a cancellation to be delivered
    running,      \* the task that holds the event loop
    conn,         \* state of each connection
    closers,      \* tasks that wait for a connection to be closed, in order
    inbox,        \* what the server sent and nobody has received
    server,       \* what the server has of each connection
    heard,        \* history: what the servers made of the audio they got
    budget        \* history: what the environment has used up

eventVars   == <<waiters, finalSet, readySet>>
lockVars    == <<connectLock, startLock>>
syncVars    == <<eventVars, lockVars>>
serviceVars == <<svc, buf, syncVars>>
taskVars    == <<stack, result, cancelled, running>>
wireVars    == <<conn, closers, inbox, server>>
historyVars == <<heard, budget>>
outsideVars == <<wireVars, historyVars>>
vars == <<serviceVars, taskVars, wireVars, historyVars>>

-----------------------------------------------------------------------------
(* Tasks and frames *)

At(l) == [at |-> l]

\* Where a coroutine may be suspended; at any other place its task runs on.
Awaits == {"idle", "ended", "connect_lock", "connecting", "start_lock", "start_wait",
           "sending", "close_await", "closing", "sleep", "join", "final_wait",
           "s_new", "s_get", "r_new", "r_recv", "r_push"}

IsAt(t, l)   == stack[t] # <<>> /\ Head(stack[t]).at = l
Runs(t, l)   == running = t /\ IsAt(t, l)
Wakes(t, l)  == running = NoTask /\ IsAt(t, l) /\ t \notin cancelled
Frame(t)     == Head(stack[t])
Callers(t)   == Tail(stack[t])
Alive(t)     == t # NoTask /\ stack[t] # <<>>

\* Task t continues with frames s; it gives the event loop up if it suspends.
Becomes(t, s) ==
    /\ stack' = [stack EXCEPT ![t] = s]
    /\ running' = IF Head(s).at \in Awaits THEN NoTask ELSE t
    /\ UNCHANGED result

Goto(t, f)    == Becomes(t, <<f>> \o Callers(t))
Call(t, g, f) == Becomes(t, <<g, f>> \o Callers(t))   \* call g, then continue at f
Return(t)     == Becomes(t, Callers(t))
Raise(t, e)   == Goto(t, [at |-> "raise", exc |-> e])

\* The coroutine of task t is over.
Ends(t, r) == /\ stack' = [stack EXCEPT ![t] = <<>>]
              /\ result' = [result EXCEPT ![t] = r]
              /\ running' = NoTask

\* Task t can run as soon as the event loop comes to it.
Ready(t) ==
    \/ t \in cancelled /\ Alive(t)
    \/ IsAt(t, "s_new") \/ IsAt(t, "r_new")
    \/ IsAt(t, "connect_lock") /\ Head(connectLock) = t
    \/ IsAt(t, "start_lock") /\ Head(startLock) = t
    \/ IsAt(t, "start_wait") /\ Frame(t).event \in readySet
    \/ IsAt(t, "final_wait") /\ Frame(t).gen \in finalSet
    \/ IsAt(t, "join") /\ buf.unfinished = 0
    \/ IsAt(t, "s_get") /\ buf.queue # <<>>
    \/ IsAt(t, "close_await") /\ ~Alive(Head(Frame(t).todo))
    \/ IsAt(t, "closing") /\ conn[Frame(t).conn] = "gone"

\* What takes time, a timer or a handshake, is over only when no task that
\* could run is left waiting.
TimePasses == \A t \in Tasks : ~Ready(t)

\* deque.remove
Without(lock, t) == RemoveFirst(lock, t)

-----------------------------------------------------------------------------
(* The server of a connection, as the plugin sees it: it answers start with  *)
(* ready and finalize with a final transcript, rejects what comes out of     *)
(* order, and hangs up after that and after close.  An answer that is late   *)
(* is one that stays in the inbox.                                           *)

Silent == [utterance |-> 0, phase |-> "none"]

\* What a server in state s makes of message m, and what it answers.
Serves(s, m) ==
    CASE m.type = "start" /\ s.phase = "none" ->
             [then |-> [utterance |-> m.gen, phase |-> "live"], says |-> "ready"]
      [] m.type = "audio" /\ s.phase = "live" -> [then |-> s, says |-> "nothing"]
      [] m.type = "finalize" /\ s.phase = "live" -> [then |-> Silent, says |-> "final"]
      [] m.type = "cancel" -> [then |-> Silent, says |-> "nothing"]
      [] m.type = "close" -> [then |-> [s EXCEPT !.phase = "closed"], says |-> "closed"]
      [] m.type = "pong" -> [then |-> s, says |-> "nothing"]
      [] OTHER -> [then |-> [s EXCEPT !.phase = "closed"], says |-> "error"]

Reply(w, type, gen) == [inbox EXCEPT ![w] = Append(@, [type |-> type, gen |-> gen])]

\* Message m reaches the server of connection w.  The history keeps the last
\* frame of audio any server got, whether a frame came after a later one, and
\* whether it came under another utterance's start.
Deliver(w, m) ==
    LET served == Serves(server[w], m)
        audio  == m.type = "audio"
    IN
    /\ server' = [server EXCEPT ![w] = served.then]
    /\ inbox' = IF served.says = "nothing" THEN inbox
                ELSE Reply(w, served.says, IF m.type = "start" THEN m.gen ELSE server[w].utterance)
    /\ heard' = [last |-> IF audio THEN Last(m.frames) ELSE heard.last,
                 late |-> heard.late \/ (audio /\ Head(m.frames) < heard.last),
                 stale |-> heard.stale \/ (audio /\ m.gen # server[w].utterance)]

ServerChats(w, type) ==
    /\ running = NoTask /\ conn[w] = "open" /\ budget.chatter < budget.allows.chatter
    /\ server[w].phase # "closed" /\ (type = "partial" => server[w].phase = "live")
    /\ inbox' = Reply(w, type, server[w].utterance)
    /\ budget' = [budget EXCEPT !.chatter = @ + 1]
    /\ UNCHANGED <<serviceVars, taskVars, conn, closers, server, heard>>

HangsUp(w) ==
    /\ running = NoTask /\ conn[w] = "open" /\ server[w].phase = "closed"
    /\ conn' = [conn EXCEPT ![w] = "broken"]
    /\ UNCHANGED <<serviceVars, taskVars, closers, inbox, server, historyVars>>

\* The connection breaks: the last answers may be lost.
Breaks(w) ==
    /\ running = NoTask /\ conn[w] = "open" /\ budget.breaks < budget.allows.breaks
    /\ conn' = [conn EXCEPT ![w] = "broken"]
    /\ \E n \in 0..Len(inbox[w]) : inbox' = [inbox EXCEPT ![w] = SubSeq(@, 1, n)]
    /\ server' = [server EXCEPT ![w] = Silent]
    /\ budget' = [budget EXCEPT !.breaks = @ + 1]
    /\ UNCHANGED <<serviceVars, taskVars, closers, heard>>

-----------------------------------------------------------------------------
(* _ensure_connection: nothing to do when there is a websocket. *)

\* Continue with frames s once there is a connection.
OnceConnected(s) == IF svc.ws # 0 THEN s ELSE <<At("connect")>> \o s

Connect(t) ==
    /\ Runs(t, "connect")
    /\ connectLock' = Append(connectLock, t)
    /\ Goto(t, At(IF connectLock = <<>> THEN "connect_locked" ELSE "connect_lock"))
    /\ UNCHANGED <<svc, buf, eventVars, startLock, cancelled, outsideVars>>

ConnectGranted(t) ==
    /\ Wakes(t, "connect_lock") /\ Head(connectLock) = t
    /\ Goto(t, At("connect_locked"))
    /\ UNCHANGED <<serviceVars, cancelled, outsideVars>>

ConnectLocked(t) ==
    /\ Runs(t, "connect_locked")
    /\ IF svc.ws # 0
       THEN Return(t) /\ connectLock' = Tail(connectLock) /\ UNCHANGED svc
       ELSE Goto(t, At("connecting")) /\ svc' = [svc EXCEPT !.closed = FALSE] /\ UNCHANGED connectLock
    /\ UNCHANGED <<buf, eventVars, startLock, cancelled, outsideVars>>

Connected(t) ==
    \E w \in Conns :
    /\ Wakes(t, "connecting") /\ TimePasses
    /\ conn[w] = "none" /\ \A v \in 1..(w - 1) : conn[v] # "none"
    /\ conn' = [conn EXCEPT ![w] = "open"]
    /\ svc' = [svc EXCEPT !.ws = w, !.readyOf = w,
                          !.sendTask = SendTask(w), !.recvTask = RecvTask(w)]
    /\ connectLock' = Tail(connectLock)
    /\ stack' = [stack EXCEPT ![t] = Callers(t), ![SendTask(w)] = <<At("s_new")>>,
                              ![RecvTask(w)] = <<At("r_new")>>]
    /\ running' = IF Head(Callers(t)).at \in Awaits THEN NoTask ELSE t
    /\ UNCHANGED <<buf, eventVars, startLock, result, cancelled, closers, inbox, server, historyVars>>

\* The connection is refused or takes longer than connect_timeout_s.
ConnectFails(t) ==
    /\ Wakes(t, "connecting") /\ TimePasses
    /\ connectLock' = Tail(connectLock)
    /\ Raise(t, "error")
    /\ UNCHANGED <<svc, buf, eventVars, startLock, cancelled, outsideVars>>

-----------------------------------------------------------------------------
(* _ensure_utterance_started *)

\* A call of _send_ws with message m: may it be sent once more after a reconnect,
\* and does the reconnect start the utterance again?
SendCall(m, replay, begin) == [at |-> "send", conn |-> 0, msg |-> m, replay |-> replay,
                               begin |-> begin, retry |-> TRUE]

Start(t) ==
    /\ Runs(t, "start")
    /\ IF svc.active THEN Return(t) /\ UNCHANGED startLock
       ELSE /\ startLock' = Append(startLock, t)
            /\ Goto(t, At(IF startLock = <<>> THEN "start_locked" ELSE "start_lock"))
    /\ UNCHANGED <<svc, buf, eventVars, connectLock, cancelled, outsideVars>>

StartGranted(t) ==
    /\ Wakes(t, "start_lock") /\ Head(startLock) = t
    /\ Goto(t, At("start_locked"))
    /\ UNCHANGED <<serviceVars, cancelled, outsideVars>>

StartLocked(t) ==
    /\ Runs(t, "start_locked")
    /\ IF svc.active THEN Return(t) /\ startLock' = Tail(startLock)
       ELSE Becomes(t, OnceConnected(<<At("start_connected")>> \o Callers(t))) /\ UNCHANGED startLock
    /\ UNCHANGED <<svc, buf, eventVars, connectLock, cancelled, outsideVars>>

StartConnected(t) ==
    /\ Runs(t, "start_connected")
    /\ readySet' = readySet \ {svc.readyOf}
    /\ svc' = [svc EXCEPT !.suppress = FALSE]
    /\ Call(t, SendCall([type |-> "start", gen |-> svc.gen], TRUE, FALSE), At("start_sent"))
    /\ UNCHANGED <<buf, waiters, finalSet, lockVars, cancelled, outsideVars>>

\* It waits for the ready event that is current when the start has been sent.
StartSent(t) ==
    /\ Runs(t, "start_sent")
    /\ Goto(t, [at |-> "start_wait", event |-> svc.readyOf])
    /\ UNCHANGED <<serviceVars, cancelled, outsideVars>>

StartReady(t) ==
    /\ Wakes(t, "start_wait") /\ Frame(t).event \in readySet
    /\ svc' = [svc EXCEPT !.active = TRUE]
    /\ startLock' = Tail(startLock)
    /\ Return(t)
    /\ UNCHANGED <<buf, eventVars, connectLock, cancelled, outsideVars>>

StartTimesOut(t) ==
    /\ Wakes(t, "start_wait") /\ Frame(t).event \notin readySet /\ TimePasses
    /\ startLock' = Tail(startLock)
    /\ Raise(t, "error")
    /\ UNCHANGED <<svc, buf, eventVars, connectLock, cancelled, outsideVars>>

-----------------------------------------------------------------------------
(* _send_ws: a send that fails reconnects, and sends once more if it may be  *)
(* replayed.                                                                 *)

Reconnecting(begin) == <<[at |-> "close", forGood |-> FALSE],
                         [at |-> "reconnect_closed", begin |-> begin]>>
Disconnecting == <<[at |-> "close", forGood |-> TRUE], At("disconnected")>>

SendFails(t) ==
    IF svc.config.reconnect /\ Frame(t).retry
    THEN Becomes(t, Reconnecting(Frame(t).begin)
                    \o <<[Frame(t) EXCEPT !.at = "send_again", !.retry = FALSE]>> \o Callers(t))
    ELSE Raise(t, "error")

Send(t) ==
    /\ Runs(t, "send")
    /\ IF svc.ws # 0 /\ conn[svc.ws] = "open"
       THEN Deliver(svc.ws, Frame(t).msg) /\ Goto(t, [Frame(t) EXCEPT !.at = "sending", !.conn = svc.ws])
       ELSE IF svc.ws = 0 THEN Raise(t, "error") /\ UNCHANGED <<server, inbox, heard>>
            ELSE SendFails(t) /\ UNCHANGED <<server, inbox, heard>>
    /\ UNCHANGED <<serviceVars, cancelled, conn, closers, budget>>

Sent(t) ==
    /\ Wakes(t, "sending")
    /\ IF conn[Frame(t).conn] = "open" THEN Return(t) ELSE SendFails(t)
    /\ UNCHANGED <<serviceVars, cancelled, outsideVars>>

SendAgain(t) ==
    /\ Runs(t, "send_again")
    /\ IF Frame(t).replay THEN Goto(t, [Frame(t) EXCEPT !.at = "send"]) ELSE Return(t)
    /\ UNCHANGED <<serviceVars, cancelled, outsideVars>>

-----------------------------------------------------------------------------
(* _reconnect, _disconnect and _close_socket_and_tasks *)

ReconnectClosed(t) ==
    /\ Runs(t, "reconnect_closed")
    /\ svc' = [svc EXCEPT !.ws = 0, !.active = FALSE]
    /\ Becomes(t, <<At("connect")>> \o (IF Frame(t).begin THEN <<At("start")>> ELSE <<>>) \o Callers(t))
    /\ UNCHANGED <<buf, syncVars, cancelled, outsideVars>>

\* _clear_send_queue: every chunk taken out is a task done.
Less(a, b) == IF a > b THEN a - b ELSE 0
Duration(chunks) == FoldLeft(LAMBDA ms, chunk : ms + Len(chunk.frames), 0, chunks)
Cleared(b) == [b EXCEPT !.queue = <<>>, !.unfinished = @ - Len(b.queue),
                        !.queued = Less(@, Duration(b.queue))]

\* As if the events were forgotten without being set.
Release_Forgets == waiters' = {} /\ UNCHANGED finalSet

\* _release_final_waiters
Release == finalSet' = finalSet \cup waiters /\ waiters' = {}

\* As if the send queue were not cleared.
Disconnected_KeepsQueue(t) ==
    /\ Runs(t, "disconnected")
    /\ buf' = [buf EXCEPT !.preroll = <<>>, !.aggregate = <<>>]
    /\ Release
    /\ svc' = [svc EXCEPT !.ws = 0, !.active = FALSE]
    /\ Return(t)
    /\ UNCHANGED <<readySet, lockVars, cancelled, outsideVars>>

Disconnected(t) ==
    /\ Runs(t, "disconnected")
    /\ buf' = [Cleared(buf) EXCEPT !.preroll = <<>>, !.aggregate = <<>>]
    /\ Release
    /\ svc' = [svc EXCEPT !.ws = 0, !.active = FALSE]
    /\ Return(t)
    /\ UNCHANGED <<readySet, lockVars, cancelled, outsideVars>>

\* Cancelling a task that awaits another one cancels that one instead; it is
\* lost if that one is over, since the await swallows CancelledError.
CancelTarget(task) ==
    LET target[depth \in 0..Cardinality(Loops)] ==
            [t \in Tasks |->
                IF ~Alive(t) THEN {}
                ELSE IF IsAt(t, "close_await") /\ depth > 0
                     THEN target[depth - 1][Head(Frame(t).todo)]
                     ELSE {t}]
    IN target[Cardinality(Loops)][task]

\* The task u, unless there is none or it is t itself.
Other(t, u) == IF u \in {t, NoTask} THEN <<>> ELSE <<u>>

\* As if the receive loop were neither cancelled nor awaited.
Close_SendOnly(t) ==
    /\ Runs(t, "close")
    /\ LET others == Other(t, svc.sendTask)
       IN /\ cancelled' = cancelled \cup UNION {CancelTarget(u) : u \in ToSet(others)}
          /\ Goto(t, [at |-> "close_tasks", todo |-> others, forGood |-> Frame(t).forGood])
    /\ svc' = [svc EXCEPT !.closed = TRUE]
    /\ UNCHANGED <<buf, syncVars, outsideVars>>

\* As if the tasks were awaited without being cancelled.
Close_NoCancel(t) ==
    /\ Runs(t, "close")
    /\ LET others == Other(t, svc.sendTask) \o Other(t, svc.recvTask)
       IN Goto(t, [at |-> "close_tasks", todo |-> others, forGood |-> Frame(t).forGood])
    /\ svc' = [svc EXCEPT !.closed = TRUE]
    /\ UNCHANGED <<buf, syncVars, cancelled, outsideVars>>

Close(t) ==
    /\ Runs(t, "close")
    /\ LET others == Other(t, svc.sendTask) \o Other(t, svc.recvTask)
       IN /\ cancelled' = cancelled \cup UNION {CancelTarget(u) : u \in ToSet(others)}
          /\ Goto(t, [at |-> "close_tasks", todo |-> others, forGood |-> Frame(t).forGood])
    /\ svc' = [svc EXCEPT !.closed = TRUE]
    /\ UNCHANGED <<buf, syncVars, outsideVars>>

\* It awaits the tasks one by one; one that ended with an error raises here.
CloseAwaits(t) ==
    LET u == Head(Frame(t).todo) IN
    /\ Runs(t, "close_tasks") /\ Frame(t).todo # <<>>
    /\ IF Alive(u) THEN Goto(t, [Frame(t) EXCEPT !.at = "close_await"])
       ELSE IF result[u] = "error" THEN Raise(t, "error")
       ELSE Goto(t, [Frame(t) EXCEPT !.todo = Tail(@)])
    /\ UNCHANGED <<serviceVars, cancelled, outsideVars>>

CloseAwaited(t) ==
    LET u == Head(Frame(t).todo) IN
    /\ Wakes(t, "close_await") /\ ~Alive(u)
    /\ IF result[u] = "error" THEN Raise(t, "error")
       ELSE Goto(t, [Frame(t) EXCEPT !.at = "close_tasks", !.todo = Tail(@)])
    /\ UNCHANGED <<serviceVars, cancelled, outsideVars>>

\* As if the websocket were dropped without close().
CloseSocket_NoClose(t) ==
    /\ Runs(t, "close_tasks") /\ Frame(t).todo = <<>>
    /\ svc' = [svc EXCEPT !.sendTask = NoTask, !.recvTask = NoTask, !.closed = @ /\ Frame(t).forGood]
    /\ Return(t)
    /\ UNCHANGED <<buf, syncVars, cancelled, outsideVars>>

CloseSocket(t) ==
    /\ Runs(t, "close_tasks") /\ Frame(t).todo = <<>>
    /\ IF svc.ws # 0
       THEN /\ conn' = [conn EXCEPT ![svc.ws] = IF @ = "gone" THEN @ ELSE "closed"]
            /\ inbox' = [inbox EXCEPT ![svc.ws] = <<>>]
            /\ server' = [server EXCEPT ![svc.ws] = Silent]
            /\ closers' = [closers EXCEPT ![svc.ws] = Append(@, t)]
            /\ Goto(t, [at |-> "closing", conn |-> svc.ws, forGood |-> Frame(t).forGood])
            /\ svc' = [svc EXCEPT !.sendTask = NoTask, !.recvTask = NoTask]
       ELSE /\ svc' = [svc EXCEPT !.sendTask = NoTask, !.recvTask = NoTask,
                                  !.closed = @ /\ Frame(t).forGood]
            /\ Return(t)
            /\ UNCHANGED wireVars
    /\ UNCHANGED <<buf, syncVars, cancelled, historyVars>>

\* The closing handshake is over; those who wait for it resume in order.
Closed(t) ==
    /\ Wakes(t, "closing") /\ Head(closers[Frame(t).conn]) = t
    /\ conn[Frame(t).conn] = "gone" \/ TimePasses
    /\ conn' = [conn EXCEPT ![Frame(t).conn] = "gone"]
    /\ closers' = [closers EXCEPT ![Frame(t).conn] = Tail(@)]
    /\ svc' = [svc EXCEPT !.closed = @ /\ Frame(t).forGood]
    /\ Return(t)
    /\ UNCHANGED <<buf, syncVars, cancelled, inbox, server, historyVars>>

-----------------------------------------------------------------------------
(* _send_loop *)

SenderLoops(k) ==
    LET t == SendTask(k) IN
    /\ Wakes(t, "s_new") \/ Runs(t, "s_loop")
    /\ IF svc.closed THEN Ends(t, "ok")
       ELSE Goto(t, At(IF buf.queue = <<>> THEN "s_get" ELSE "s_take"))
    /\ UNCHANGED <<serviceVars, cancelled, outsideVars>>

SenderWakes(k) ==
    LET t == SendTask(k) IN
    /\ Wakes(t, "s_get") /\ buf.queue # <<>>
    /\ Goto(t, At("s_take"))
    /\ UNCHANGED <<serviceVars, cancelled, outsideVars>>

SenderTakes(k) ==
    LET t == SendTask(k)
        chunk == Head(buf.queue)
        taken == [buf EXCEPT !.queue = Tail(@), !.queued = Less(@, Len(chunk.frames))]
    IN
    /\ Runs(t, "s_take")
    /\ IF chunk.gen = svc.gen
       THEN /\ Call(t, SendCall([type |-> "audio", frames |-> chunk.frames, gen |-> chunk.gen], TRUE, TRUE),
                    [at |-> "s_sent", chunk |-> chunk])
            /\ buf' = taken
       ELSE /\ buf' = [taken EXCEPT !.unfinished = @ - 1]
            /\ Goto(t, At("s_loop"))
    /\ UNCHANGED <<svc, syncVars, cancelled, outsideVars>>

\* The chunk is sent: the loop goes on unless a reconnect has replaced it.
SenderSent(k) ==
    LET t == SendTask(k) IN
    /\ Runs(t, "s_sent")
    /\ buf' = [buf EXCEPT !.unfinished = @ - 1]
    /\ IF svc.sendTask # t THEN Ends(t, "ok") ELSE Goto(t, At("s_loop"))
    /\ UNCHANGED <<svc, syncVars, cancelled, outsideVars>>

\* The chunk could not be sent, and the service has disconnected.
SenderGone(k) ==
    LET t == SendTask(k) IN
    /\ Runs(t, "s_gone")
    /\ buf' = [buf EXCEPT !.unfinished = @ - 1]
    /\ Ends(t, "ok")
    /\ UNCHANGED <<svc, syncVars, cancelled, outsideVars>>

-----------------------------------------------------------------------------
(* _receive_loop and _handle_server_payload *)

ReceiverLoops(k) ==
    LET t == RecvTask(k) IN
    /\ Wakes(t, "r_new") \/ Runs(t, "r_loop") \/ Runs(t, "r_ponged")
    /\ IF svc.closed \/ svc.ws = 0 THEN Ends(t, "ok")
       ELSE Goto(t, [at |-> "r_recv", conn |-> svc.ws])
    /\ UNCHANGED <<serviceVars, cancelled, outsideVars>>

Receives(k, m) ==
    LET t == RecvTask(k)
        w == Frame(t).conn
    IN
    /\ Wakes(t, "r_recv") /\ inbox[w] # <<>> /\ m = Head(inbox[w])
    /\ inbox' = [inbox EXCEPT ![w] = Tail(@)]
    /\ UNCHANGED <<svc, buf, lockVars, cancelled, conn, closers, server, historyVars>>

ReceivesPing(k) ==
    \E m \in [type : {"ping"}, gen : Gens] :
    /\ Receives(k, m)
    /\ Call(RecvTask(k), SendCall([type |-> "pong"], TRUE, TRUE), At("r_ponged"))
    /\ UNCHANGED <<eventVars>>

\* A ready of another generation is stale.
ReceivesReady(k) ==
    \E m \in [type : {"ready"}, gen : Gens] :
    /\ Receives(k, m)
    /\ readySet' = IF m.gen = svc.gen THEN readySet \cup {svc.readyOf} ELSE readySet
    /\ Goto(RecvTask(k), At("r_loop"))
    /\ UNCHANGED <<waiters, finalSet>>

\* The waiter of a final is released before the transcript is pushed.
ReceivesTranscript(k) ==
    \E m \in [type : {"partial", "final"}, gen : Gens] :
    /\ Receives(k, m)
    /\ IF m.gen # svc.gen \/ svc.suppress
       THEN Goto(RecvTask(k), At("r_loop")) /\ UNCHANGED finalSet
       ELSE /\ Goto(RecvTask(k), [at |-> "r_push", msg |-> m])
            /\ finalSet' = IF m.type = "final" THEN finalSet \cup ({m.gen} \cap waiters) ELSE finalSet
    /\ UNCHANGED <<waiters, readySet>>

ReceiverPushes(k) ==
    LET t == RecvTask(k) IN
    /\ Wakes(t, "r_push")
    /\ svc' = [svc EXCEPT !.active = @ /\ Frame(t).msg.type # "final"]
    /\ Goto(t, At("r_loop"))
    /\ UNCHANGED <<buf, syncVars, cancelled, outsideVars>>

ReceivesEnd(k) ==
    \E m \in [type : {"closed", "error"}, gen : Gens] :
    /\ Receives(k, m)
    /\ Release
    /\ Goto(RecvTask(k), At("r_loop"))
    /\ UNCHANGED readySet

ReceiverLosesConnection(k) ==
    LET t == RecvTask(k) IN
    /\ Wakes(t, "r_recv") /\ inbox[Frame(t).conn] = <<>> /\ conn[Frame(t).conn] # "open"
    /\ Goto(t, At("r_failed"))
    /\ UNCHANGED <<serviceVars, cancelled, outsideVars>>

ReceiverFailed(k) ==
    LET t == RecvTask(k) IN
    /\ Runs(t, "r_failed")
    /\ Becomes(t, (IF svc.config.reconnect /\ ~svc.closed THEN Reconnecting(TRUE) ELSE Disconnecting)
                  \o <<At("r_end")>>)
    /\ UNCHANGED <<serviceVars, cancelled, outsideVars>>

ReceiverEnds(k) ==
    /\ Runs(RecvTask(k), "r_end")
    /\ Ends(RecvTask(k), "ok")
    /\ UNCHANGED <<serviceVars, cancelled, outsideVars>>

-----------------------------------------------------------------------------
(* The pipeline task: audio, the start of speech, its end, and the end of    *)
(* the stream.                                                               *)

HearsAudio ==
    /\ Wakes(Pipeline, "idle") /\ budget.frames < budget.allows.frames
    /\ budget' = [budget EXCEPT !.frames = @ + 1]
    /\ Becomes(Pipeline, OnceConnected(<<[at |-> "audio", frame |-> budget.frames + 1], At("idle")>>))
    /\ UNCHANGED <<serviceVars, cancelled, wireVars, heard>>

\* Outside an utterance the frame joins the pre-roll, which keeps the last ones.
HandlesAudio ==
    LET preroll == Append(buf.preroll, Frame(Pipeline).frame) IN
    /\ Runs(Pipeline, "audio")
    /\ IF svc.active
       THEN Goto(Pipeline, [at |-> "queue", frames |-> <<Frame(Pipeline).frame>>]) /\ UNCHANGED buf
       ELSE /\ Return(Pipeline)
            /\ buf' = [buf EXCEPT !.preroll =
                           SubSeq(preroll, Less(Len(preroll), svc.config.preRoll) + 1, Len(preroll))]
    /\ UNCHANGED <<svc, syncVars, cancelled, outsideVars>>

\* _queue_audio_for_send
QueuesAudio ==
    LET aggregate == buf.aggregate \o Frame(Pipeline).frames IN
    /\ Runs(Pipeline, "queue")
    /\ buf' = [buf EXCEPT !.aggregate = aggregate]
    /\ IF Len(aggregate) >= svc.config.aggregation THEN Goto(Pipeline, At("flush")) ELSE Return(Pipeline)
    /\ UNCHANGED <<svc, syncVars, cancelled, outsideVars>>

\* _flush_aggregate_buffer
Flushes ==
    /\ Runs(Pipeline, "flush")
    /\ IF buf.aggregate = <<>> THEN Return(Pipeline) /\ UNCHANGED buf
       ELSE /\ Goto(Pipeline, [at |-> "enqueue", chunk |-> [frames |-> buf.aggregate, gen |-> svc.gen]])
            /\ buf' = [buf EXCEPT !.aggregate = <<>>]
    /\ UNCHANGED <<svc, syncVars, cancelled, outsideVars>>

\* As if the chunk went to the front.
Put_Front(b, chunk) == [b EXCEPT !.queue = <<chunk>> \o @, !.unfinished = @ + 1,
                                 !.queued = @ + Len(chunk.frames)]
Put(b, chunk) == [b EXCEPT !.queue = Append(@, chunk), !.unfinished = @ + 1,
                           !.queued = @ + Len(chunk.frames)]

\* As if the new chunk did not count.
Admits_BeforeIt(b, chunk) == b.queued <= svc.config.maxQueue

\* The chunk fits, or it is one that never would and the queue is empty.
Admits(b, chunk) ==
    \/ b.queued + Len(chunk.frames) <= svc.config.maxQueue
    \/ (svc.config.policy = "block" /\ b.queue = <<>> /\ Len(chunk.frames) > svc.config.maxQueue)

\* As if task_done() were not called for a dropped chunk.
Dropped_NotDone(b, chunk) ==
    LET After(n) == [b EXCEPT !.queue = SubSeq(@, n + 1, Len(@)),
                              !.queued = Less(@, Duration(SubSeq(b.queue, 1, n)))]
        fits == {n \in 0..Len(b.queue) : Admits(After(n), chunk)}
    IN After(IF fits = {} THEN Len(b.queue) ELSE CHOOSE n \in fits : \A m \in fits : n <= m)

\* drop_oldest: the oldest chunks leave until the new one fits or none is left.
Dropped(b, chunk) ==
    LET After(n) == [b EXCEPT !.queue = SubSeq(@, n + 1, Len(@)), !.unfinished = @ - n,
                              !.queued = Less(@, Duration(SubSeq(b.queue, 1, n)))]
        fits == {n \in 0..Len(b.queue) : Admits(After(n), chunk)}
    IN After(IF fits = {} THEN Len(b.queue) ELSE CHOOSE n \in fits : \A m \in fits : n <= m)

\* _enqueue_chunk
Enqueues ==
    LET chunk == Frame(Pipeline).chunk IN
    /\ Runs(Pipeline, "enqueue")
    /\ \/ /\ Admits(buf, chunk)
          /\ buf' = Put(buf, chunk)
          /\ Return(Pipeline)
       \/ /\ ~Admits(buf, chunk) /\ svc.config.policy = "block"
          /\ Goto(Pipeline, [at |-> "sleep", chunk |-> chunk])
          /\ UNCHANGED buf
       \/ /\ ~Admits(buf, chunk) /\ svc.config.policy = "raise"
          /\ Raise(Pipeline, "error")
          /\ UNCHANGED buf
       \/ /\ ~Admits(buf, chunk) /\ svc.config.policy = "drop_oldest"
          /\ buf' = LET kept == Dropped(buf, chunk)
                    IN IF Admits(kept, chunk) THEN Put(kept, chunk) ELSE kept
          /\ Return(Pipeline)
    /\ UNCHANGED <<svc, syncVars, cancelled, outsideVars>>

\* The block policy polls.
Sleeps ==
    /\ Wakes(Pipeline, "sleep") /\ TimePasses
    /\ Goto(Pipeline, [Frame(Pipeline) EXCEPT !.at = "enqueue"])
    /\ UNCHANGED <<serviceVars, cancelled, outsideVars>>

SpeechStarts ==
    /\ Wakes(Pipeline, "idle") /\ ~svc.active /\ svc.gen < MaxGen
    /\ svc' = [svc EXCEPT !.gen = @ + 1]
    /\ Becomes(Pipeline, <<At("start"), At("begun"), At("idle")>>)
    /\ UNCHANGED <<buf, syncVars, cancelled, outsideVars>>

\* The utterance has started: the pre-roll is its first audio.
SpeechBegun ==
    /\ Runs(Pipeline, "begun")
    /\ IF buf.preroll = <<>> THEN Return(Pipeline)
       ELSE Goto(Pipeline, [at |-> "queue", frames |-> buf.preroll])
    /\ buf' = [buf EXCEPT !.preroll = <<>>]
    /\ UNCHANGED <<svc, syncVars, cancelled, outsideVars>>

\* finalize_current_utterance: flush, join the queue, send, wait for the final.
SpeechEnds ==
    /\ Wakes(Pipeline, "idle") /\ svc.active
    /\ Becomes(Pipeline, <<At("flush"), [at |-> "flushed", gen |-> svc.gen], At("idle")>>)
    /\ UNCHANGED <<serviceVars, cancelled, outsideVars>>

Joins ==
    /\ Runs(Pipeline, "flushed")
    /\ Goto(Pipeline, [Frame(Pipeline) EXCEPT !.at = IF buf.unfinished = 0 THEN "joined" ELSE "join"])
    /\ UNCHANGED <<serviceVars, cancelled, outsideVars>>

Joined ==
    /\ Wakes(Pipeline, "join") /\ buf.unfinished = 0
    /\ Goto(Pipeline, [Frame(Pipeline) EXCEPT !.at = "joined"])
    /\ UNCHANGED <<serviceVars, cancelled, outsideVars>>

SendsFinalize ==
    LET gen == Frame(Pipeline).gen IN
    /\ Runs(Pipeline, "joined")
    /\ IF svc.active /\ svc.ws # 0
       THEN /\ waiters' = waiters \cup {gen}
            /\ finalSet' = IF gen \in waiters THEN finalSet ELSE finalSet \ {gen}
            /\ Becomes(Pipeline, <<SendCall([type |-> "finalize"], FALSE, FALSE),
                                   [at |-> "final_sent", gen |-> gen]>> \o Callers(Pipeline))
       ELSE Return(Pipeline) /\ UNCHANGED <<waiters, finalSet>>
    /\ UNCHANGED <<svc, buf, readySet, lockVars, cancelled, outsideVars>>

\* As if the utterance stayed active after finalize.
FinalizeSent_StaysActive ==
    /\ Runs(Pipeline, "final_sent")
    /\ Goto(Pipeline, [Frame(Pipeline) EXCEPT !.at = "final_wait"])
    /\ UNCHANGED <<serviceVars, cancelled, outsideVars>>

FinalizeSent ==
    /\ Runs(Pipeline, "final_sent")
    /\ svc' = [svc EXCEPT !.active = FALSE]
    /\ Goto(Pipeline, [Frame(Pipeline) EXCEPT !.at = "final_wait"])
    /\ UNCHANGED <<buf, syncVars, cancelled, outsideVars>>

FinalArrives ==
    /\ Wakes(Pipeline, "final_wait") /\ Frame(Pipeline).gen \in finalSet
    /\ Goto(Pipeline, [Frame(Pipeline) EXCEPT !.at = "final_done"])
    /\ UNCHANGED <<serviceVars, cancelled, outsideVars>>

FinalTimesOut ==
    /\ Wakes(Pipeline, "final_wait") /\ Frame(Pipeline).gen \notin finalSet /\ TimePasses
    /\ Becomes(Pipeline, Disconnecting \o <<[Frame(Pipeline) EXCEPT !.at = "final_done"]>>
                         \o Callers(Pipeline))
    /\ UNCHANGED <<serviceVars, cancelled, outsideVars>>

FinalDone ==
    /\ Runs(Pipeline, "final_done")
    /\ waiters' = waiters \ {Frame(Pipeline).gen}
    /\ finalSet' = finalSet \ {Frame(Pipeline).gen}
    /\ Return(Pipeline)
    /\ UNCHANGED <<svc, buf, readySet, lockVars, cancelled, outsideVars>>

\* stop: an EndFrame sends close and disconnects.
Stops ==
    /\ Wakes(Pipeline, "idle") /\ "stop" \in budget.allows.shutdown
    /\ Becomes(Pipeline,
           (IF svc.ws = 0 THEN <<>>
            ELSE <<SendCall([type |-> "close"], TRUE, TRUE)>>) \o Disconnecting \o <<At("ended")>>)
    /\ UNCHANGED <<serviceVars, cancelled, outsideVars>>

-----------------------------------------------------------------------------
(* The controller: cancel_current_utterance and cleanup, at any time. *)

Cancels ==
    /\ Wakes(Controller, "idle") /\ budget.cancels < budget.allows.cancels /\ svc.gen < MaxGen
    /\ budget' = [budget EXCEPT !.cancels = @ + 1]
    /\ svc' = [svc EXCEPT !.gen = @ + 1, !.suppress = TRUE, !.active = FALSE]
    /\ buf' = [Cleared(buf) EXCEPT !.preroll = <<>>, !.aggregate = <<>>]
    /\ Release
    /\ IF svc.ws = 0 THEN UNCHANGED <<stack, result, running>>
       ELSE Becomes(Controller, <<SendCall([type |-> "cancel"], FALSE, FALSE),
                                  [at |-> "cancel_sent", conn |-> svc.ws], At("idle")>>)
    /\ UNCHANGED <<readySet, lockVars, cancelled, wireVars, heard>>

\* It disconnects only the connection it saw.
CancelSent ==
    /\ Runs(Controller, "cancel_sent")
    /\ IF svc.ws = Frame(Controller).conn THEN Becomes(Controller, Disconnecting \o Callers(Controller))
       ELSE Return(Controller)
    /\ UNCHANGED <<serviceVars, cancelled, outsideVars>>

CleansUp ==
    /\ Wakes(Controller, "idle") /\ "cleanup" \in budget.allows.shutdown
    /\ Becomes(Controller, Disconnecting \o <<At("ended")>>)
    /\ UNCHANGED <<serviceVars, cancelled, outsideVars>>

-----------------------------------------------------------------------------
(* Exceptions and cancellation *)

\* CancelledError is thrown at the await; a lock it waits for or holds there
\* is left.
CancelDelivered(t) ==
    /\ running = NoTask /\ t \in cancelled /\ Alive(t)
    /\ cancelled' = cancelled \ {t}
    /\ Raise(t, "cancelled")
    /\ connectLock' = IF Frame(t).at \in {"connect_lock", "connecting"}
                      THEN Without(connectLock, t) ELSE connectLock
    /\ startLock' = IF Frame(t).at \in {"start_lock", "start_wait"}
                    THEN Without(startLock, t) ELSE startLock
    /\ closers' = [w \in Conns |-> Without(closers[w], t)]
    /\ UNCHANGED <<svc, buf, eventVars, conn, inbox, server, historyVars>>

\* One frame up: its handler, or its finally clause, or nothing.
Unwinds(t) ==
    LET exc == Frame(t).exc
        caller == IF Callers(t) = <<>> THEN At("none") ELSE Head(Callers(t))
    IN
    /\ Runs(t, "raise")
    /\ CASE caller.at = "none" -> Ends(t, exc)
         [] caller.at = "idle" \/ caller.at = "ended" -> Return(t)
         [] caller.at = "s_sent" /\ exc = "error" ->
                Becomes(t, Disconnecting \o <<[caller EXCEPT !.at = "s_gone"]>> \o Tail(Callers(t)))
         [] caller.at = "r_ponged" /\ exc = "error" -> Becomes(t, <<At("r_failed")>> \o Tail(Callers(t)))
         [] OTHER -> Becomes(t, <<Frame(t)>> \o Tail(Callers(t)))
    /\ startLock' = IF caller.at \in {"start_connected", "start_sent"} THEN Tail(startLock) ELSE startLock
    /\ buf' = IF \/ caller.at = "s_gone"
                 \/ (caller.at = "s_sent" /\ exc = "cancelled")
              THEN [buf EXCEPT !.unfinished = @ - 1] ELSE buf
    /\ waiters' = IF caller.at = "final_done" THEN waiters \ {caller.gen} ELSE waiters
    /\ UNCHANGED <<svc, finalSet, readySet, connectLock, cancelled, outsideVars>>

-----------------------------------------------------------------------------
(* The specification *)

Init ==
    /\ \E s \in Scenarios :
       /\ svc = [config |-> s.config, ws |-> 0, closed |-> FALSE, active |-> FALSE, gen |-> 0,
                 suppress |-> FALSE, readyOf |-> 0, sendTask |-> NoTask, recvTask |-> NoTask]
       /\ budget = [allows |-> s.allows, frames |-> 0, breaks |-> 0, chatter |-> 0, cancels |-> 0]
    /\ buf = [queue |-> <<>>, unfinished |-> 0, queued |-> 0, aggregate |-> <<>>, preroll |-> <<>>]
    /\ waiters = {} /\ finalSet = {} /\ readySet = {}
    /\ connectLock = <<>> /\ startLock = <<>>
    /\ stack = [t \in Tasks |-> IF t \in Loops THEN <<>> ELSE <<At("idle")>>]
    /\ result = [t \in Tasks |-> "none"]
    /\ cancelled = {} /\ running = NoTask
    /\ conn = [w \in Conns |-> "none"]
    /\ closers = [w \in Conns |-> <<>>]
    /\ inbox = [w \in Conns |-> <<>>]
    /\ server = [w \in Conns |-> Silent]
    /\ heard = [last |-> 0, late |-> FALSE, stale |-> FALSE]

\* A task moves inside the coroutines every task may be in.
CoroutineStep(t) ==
    \/ Connect(t) \/ ConnectGranted(t) \/ ConnectLocked(t) \/ Connected(t) \/ ConnectFails(t)
    \/ Start(t) \/ StartGranted(t) \/ StartLocked(t) \/ StartConnected(t) \/ StartSent(t)
    \/ StartReady(t) \/ StartTimesOut(t)
    \/ Send(t) \/ Sent(t) \/ SendAgain(t)
    \/ ReconnectClosed(t) \/ Disconnected(t)
    \/ Close(t) \/ CloseAwaits(t) \/ CloseAwaited(t) \/ CloseSocket(t) \/ Closed(t)
    \/ CancelDelivered(t) \/ Unwinds(t)

SenderStep(k) ==
    \/ SenderLoops(k) \/ SenderWakes(k) \/ SenderTakes(k)
    \/ SenderSent(k) \/ SenderGone(k)

ReceiverStep(k) ==
    \/ ReceiverLoops(k) \/ ReceivesPing(k)
    \/ ReceivesReady(k) \/ ReceivesTranscript(k) \/ ReceiverPushes(k) \/ ReceivesEnd(k)
    \/ ReceiverLosesConnection(k) \/ ReceiverFailed(k) \/ ReceiverEnds(k)

\* What the pipeline task does once it is inside one of its operations.
PipelineStep ==
    \/ HandlesAudio \/ QueuesAudio \/ Flushes \/ Enqueues \/ Sleeps \/ SpeechBegun
    \/ Joins \/ Joined \/ SendsFinalize \/ FinalizeSent \/ FinalArrives \/ FinalTimesOut
    \/ FinalDone

TaskStep(t) ==
    \/ CoroutineStep(t)
    \/ t = Pipeline /\ PipelineStep
    \/ t = Controller /\ CancelSent
    \/ \E k \in Conns : \/ t = SendTask(k) /\ SenderStep(k)
                        \/ t = RecvTask(k) /\ ReceiverStep(k)

Environment ==
    \/ HearsAudio \/ SpeechStarts \/ SpeechEnds \/ Stops \/ Cancels \/ CleansUp
    \/ \E w \in Conns : \/ HangsUp(w) \/ Breaks(w)
                        \/ \E type \in {"partial", "ping"} : ServerChats(w, type)

Next == (\E t \in Tasks : TaskStep(t)) \/ Environment

Spec == Init /\ [][Next]_vars

\* The event loop takes ready tasks in turn, so that a task that can go on again
\* and again, whenever no other one runs, goes on.  A connect and the waits for
\* ready and for a final have timeouts; that a send leaves its drain, and a
\* close its handshake, is assumed of the transport.
FairSpec == Spec /\ \A t \in Tasks : SF_vars(TaskStep(t))

-----------------------------------------------------------------------------
(* Properties *)

Rest == running = NoTask

Inside(t, places) == \E i \in DOMAIN stack[t] : stack[t][i].at \in places

\* Send loops that took a chunk and have not told the queue they are done.
Holding == {t \in Loops : Inside(t, {"s_sent", "s_gone"})}

\* The milliseconds counted as queued are those in the queue, and join() waits
\* for exactly the chunks that are queued or in the hands of a send loop,
\* whatever was cancelled, dropped, cleared or replayed in between
\* (_enqueue_chunk, _send_loop, _clear_send_queue).
QueueAccounted ==
    Rest => /\ buf.queued = Duration(buf.queue)
            /\ buf.unfinished = Len(buf.queue) + Cardinality(Holding)

\* The queue never holds more than max_send_queue_ms of audio, except for one
\* chunk that is larger than that by itself under the block policy.
QueueBounded ==
    Rest => \/ Duration(buf.queue) <= svc.config.maxQueue
            \/ svc.config.policy = "block" /\ Len(buf.queue) = 1

\* A finalize that waits for its final can still be released: its event is set
\* or is the one a final, an error, a cancel or a disconnect will set
\* (_final_events is popped, cleared and set by different tasks).
FinalReachable ==
    Rest /\ IsAt(Pipeline, "final_wait") => Frame(Pipeline).gen \in finalSet \cup waiters

\* Audio reaches the servers in the order it was heard (_send_loop).
AudioInOrder == ~heard.late

\* ... unless the service reconnects: the send loop whose chunk failed waits for
\* ready before it sends the chunk again, and the send loop of the new connection
\* takes the chunks behind it meanwhile (_send_ws, _send_loop).
LateAudioHasCause == AudioInOrder \/ svc.config.reconnect

\* Audio of one utterance never reaches a server under the start of another
\* one, or under none (chunk.generation against _generation in _send_loop).
AudioUnderItsStart == ~heard.stale

\* ... unless a cancel or a reconnect came in between, or the block policy held
\* a chunk back over a disconnect and queued it after that.
StaleAudioHasCause ==
    AudioUnderItsStart \/ svc.config.reconnect \/ budget.cancels > 0 \/ svc.config.policy = "block"

\* The service never keeps two connections open (_ensure_connection).
OneConnection == Rest => Cardinality({w \in Conns : conn[w] = "open"}) <= 1

\* At most one receive loop reads a connection: one that reconnects exits, and one
\* that is disconnected is cancelled (_receive_loop, _close_socket_and_tasks).
OneReader ==
    \A j, k \in Conns :
        /\ IsAt(RecvTask(j), "r_recv") /\ IsAt(RecvTask(k), "r_recv")
        /\ {RecvTask(j), RecvTask(k)} \cap cancelled = {}
        /\ Frame(RecvTask(j)).conn = Frame(RecvTask(k)).conn
        => j = k

\* ... unless the service reconnects: a reconnect inside a receive loop, for a pong
\* that could not be sent, returns into that loop, and a disconnect may go on with
\* the socket of a reconnect it waited for (_send_ws, _close_socket_and_tasks).
SecondReaderHasCause == OneReader \/ svc.config.reconnect

Settled(t) == IsAt(t, "idle") \/ IsAt(t, "ended")

\* A finalize that waits for the queue to drain is not alone: something that
\* will drain or clear the queue is still there.
JoinNotAbandoned ==
    Rest /\ IsAt(Pipeline, "join") /\ buf.unfinished > 0 =>
        (\E t \in Loops : Alive(t)) \/ ~Settled(Controller)

\* ... unless the receive loop has tried to reconnect in vain, or the block
\* policy has queued a chunk after a disconnect.
JoinLossHasCause == JoinNotAbandoned \/ svc.config.reconnect \/ svc.config.policy = "block"

\* What the pipeline asks of a service that neither reconnects nor blocks comes to an
\* end: it is never stuck in a lock, in join(), in a poll of the queue or in a wait
\* for an event, whatever the server leaves unanswered (where it is not so, see
\* JoinLossHasCause).
PipelineReturns == []<>Settled(Pipeline)

\* cancel_current_utterance and cleanup of such a service come to an end.
ControllerReturns == []<>Settled(Controller)

=============================================================================

------------------------------ MODULE DemoRelay ------------------------------
(* RTCASRAudioRelay of the browser demo: it cuts the microphone's audio into *)
(* chunks, and ends an utterance and opens another before the server's       *)
(* buffer is full.  The frame processor's task calls handle_audio_frame and, *)
(* at the end, close; _pump_events reads beside it; the connection may break *)
(* at any time and every answer may be late.                                 *)
EXTENDS Naturals, Sequences, FiniteSets

CONSTANTS
    Chunk,       \* frames of audio in a chunk (chunk_ms)
    Cap,         \* frames that max_buffer_seconds stands for
    ServerCap,   \* frames the server buffers for an utterance
    MaxFrames    \* bound: frames of the microphone

ASSUME RelayAssumption ==
    /\ Chunk \in Nat \ {0} /\ Cap \in Nat /\ ServerCap \in Nat /\ MaxFrames \in Nat
    /\ Chunk <= ServerCap /\ Cap <= ServerCap

Frames == 1..MaxFrames

VARIABLES
    at,          \* where the task is
    ending,      \* how far close() has come
    buffer,      \* frames not yet in a chunk
    chunk,       \* the chunk being sent
    sent,        \* _utterance_bytes_sent
    client,      \* utterances begun; the current client is that of the last
    hasClient,   \* _client is set
    hasSocket,   \* that client has its websocket
    final,       \* _final_event: "pending", "set" or "error"
    pump,        \* _receiver_task: "none", "running" or "ended"
    link,        \* the connection, with the server's state for it
    \* History:
    taken,       \* frames of the microphone so far
    heard,       \* what the server was sent, in order
    dropped,     \* frames of calls that raised
    vanished,    \* frames sent into a connection that had broken
    shown        \* events passed on, <<utterance, kind>>; partials in a row once

task  == <<at, ending, buffer, chunk, sent, client, hasClient, hasSocket>>
audio == <<taken, heard, dropped, vanished>>
vars  == <<task, audio, final, pump, link, shown>>

\* up: nobody has closed it and it has not broken; over: the final was sent;
\* asked: what the server has yet to handle, in order.
Link == [up : BOOLEAN, audio : Nat, over : BOOLEAN, asked : Seq({"finalize", "close"}),
         inbox : Seq({"partial", "final", "error", "closed"})]
FreshLink == [up |-> TRUE, audio |-> 0, over |-> FALSE, asked |-> <<>>, inbox |-> <<>>]
-----------------------------------------------------------------------------
(* The server and the network *)

\* What the server answers reaches the client in order.
Answers(l, kind) == [l EXCEPT !.inbox = Append(@, kind)]
HangsUp(l) == [Answers(l, "error") EXCEPT !.up = FALSE]

HearsAudio(l, frames) ==
    LET heardIt == [l EXCEPT !.audio = @ + Len(frames)] IN
    IF l.over \/ l.asked # <<>> \/ heardIt.audio > ServerCap THEN HangsUp(heardIt) ELSE heardIt

ServerChats ==
    /\ link.up /\ link.audio > 0 /\ ~link.over /\ link.inbox = <<>>
    /\ link' = Answers(link, "partial")
    /\ UNCHANGED <<task, audio, final, pump, shown>>

\* A final takes as long as it takes; what came after it waits.
ServerHandles ==
    /\ link.up /\ link.asked # <<>>
    /\ LET rest == [link EXCEPT !.asked = Tail(@)] IN
       link' = IF Head(link.asked) = "close" THEN [Answers(rest, "closed") EXCEPT !.up = FALSE]
               ELSE IF link.over \/ link.audio = 0 THEN HangsUp(rest)
               ELSE [Answers(rest, "final") EXCEPT !.over = TRUE]
    /\ UNCHANGED <<task, audio, final, pump, shown>>

Breaks ==
    /\ hasSocket /\ link.up
    /\ link' = [link EXCEPT !.up = FALSE]
    /\ UNCHANGED <<task, audio, final, pump, shown>>
-----------------------------------------------------------------------------
(* Exceptions and the end of calls *)

\* An exception leaves handle_audio_frame with the chunk it was about; close()
\* reports it, and closes the client all the same.
Raise ==
    /\ at' = IF ending = "flush" THEN "shutting" ELSE "idle"
    /\ ending' = CASE ending = "no" -> "no" [] ending = "flush" -> "last" [] OTHER -> "done"
    /\ chunk' = <<>>
    /\ dropped' = dropped \cup {chunk[i] : i \in DOMAIN chunk}

\* A chunk has been sent: handle_audio_frame looks for the next, close() goes on
\* to the final.
ChunkSent == at' = (IF ending = "no" THEN "cutting" ELSE "finalizing")

\* The client is closed: a roll makes the next one for the chunk at hand.
ClientClosed ==
    IF chunk # <<>> THEN at' = "reconnecting" /\ UNCHANGED ending
    ELSE at' = "idle" /\ ending' = "done"
-----------------------------------------------------------------------------
(* handle_audio_frame *)

\* The frame waits in chunk for the client.
HandleAudioFrame ==
    /\ at = "idle" /\ ending = "no" /\ taken < MaxFrames
    /\ taken' = taken + 1
    /\ IF hasClient THEN at' = "cutting" /\ buffer' = Append(buffer, taken') /\ UNCHANGED chunk
                    ELSE at' = "connecting" /\ chunk' = <<taken'>> /\ UNCHANGED buffer
    /\ UNCHANGED <<ending, sent, client, hasClient, hasSocket, heard, dropped, vanished,
                   final, pump, link, shown>>

\* _ensure_client, before a frame is buffered and after a roll.
Connects ==
    /\ at \in {"connecting", "reconnecting"}
    /\ client' = client + 1 /\ hasClient' = TRUE /\ hasSocket' = TRUE
    /\ final' = "pending" /\ pump' = "running" /\ link' = FreshLink
    /\ IF at = "connecting" THEN at' = "cutting" /\ buffer' = buffer \o chunk /\ chunk' = <<>>
                            ELSE at' = "sending" /\ UNCHANGED <<buffer, chunk>>
    /\ UNCHANGED <<ending, sent, audio, shown>>

\* It does not connect, the server refuses, or ready does not come in time.
ConnectFails ==
    /\ at \in {"connecting", "reconnecting"}
    /\ Raise
    /\ UNCHANGED <<buffer, sent, client, hasClient, hasSocket, taken, heard, vanished, final, pump, link, shown>>

Cut ==
    /\ at = "cutting"
    /\ IF Len(buffer) >= Chunk
       THEN /\ chunk' = SubSeq(buffer, 1, Chunk)
            /\ buffer' = SubSeq(buffer, Chunk + 1, Len(buffer))
            /\ at' = "sending"
       ELSE at' = "idle" /\ UNCHANGED <<buffer, chunk>>
    /\ UNCHANGED <<ending, sent, client, hasClient, hasSocket, audio, final, pump, link, shown>>

\* As if the chunk at hand were not counted.
Fits_NotTheNext == sent = 0 \/ sent <= Cap

\* _roll_utterance_if_needed
Fits == sent = 0 \/ sent + Len(chunk) <= Cap

Rolls ==
    /\ at = "sending" /\ ~Fits
    /\ at' = "finalizing"
    /\ UNCHANGED <<ending, buffer, chunk, sent, client, hasClient, hasSocket, audio, final, pump, link, shown>>

\* send_audio; into a connection that broke without the client knowing, too.
Sends ==
    /\ at = "sending" /\ Fits /\ hasSocket
    /\ IF link.up
       THEN link' = HearsAudio(link, chunk) /\ heard' = heard \o chunk /\ UNCHANGED vanished
       ELSE /\ vanished' = vanished \cup {chunk[i] : i \in DOMAIN chunk}
            /\ UNCHANGED <<link, heard>>
    /\ sent' = sent + Len(chunk) /\ chunk' = <<>>
    /\ ChunkSent
    /\ buffer' = IF ending = "flush" THEN <<>> ELSE buffer
    /\ UNCHANGED <<ending, client, hasClient, hasSocket, taken, dropped, final, pump, shown>>

SendFails ==
    /\ at = "sending" /\ Fits /\ ~(hasSocket /\ link.up)
    /\ Raise
    /\ UNCHANGED <<buffer, sent, client, hasClient, hasSocket, taken, heard, vanished, final, pump, link, shown>>
-----------------------------------------------------------------------------
(* _finalize_and_close_client and _close_client *)

Finalizes ==
    /\ at = "finalizing" /\ hasSocket /\ sent > 0
    /\ at' = "waiting"
    /\ link' = IF link.up THEN [link EXCEPT !.asked = Append(@, "finalize")] ELSE link
    /\ UNCHANGED <<ending, buffer, chunk, sent, client, hasClient, hasSocket, audio, final, pump, shown>>

FinalizeFails ==
    /\ at = "finalizing" /\ ~(hasSocket /\ link.up) /\ sent > 0
    /\ Raise
    /\ UNCHANGED <<buffer, sent, client, hasClient, hasSocket, taken, heard, vanished, final, pump, link, shown>>

\* close() has nothing to finalize.
SkipsFinal ==
    /\ at = "finalizing" /\ sent = 0
    /\ at' = "shutting" /\ ending' = "last"
    /\ UNCHANGED <<buffer, chunk, sent, client, hasClient, hasSocket, audio, final, pump, link, shown>>

FinalArrives == at = "waiting" /\ final = "set"

Waited ==
    /\ FinalArrives
    /\ at' = "shutting"
    /\ UNCHANGED <<ending, buffer, chunk, sent, client, hasClient, hasSocket, audio, final, pump, link, shown>>

\* As if the wait had no timeout.
GivesUp_OnError == final = "error"

\* The error the server sent, or the end of five seconds.
GivesUp == final \in {"error", "pending"}

WaitFails ==
    /\ at = "waiting" /\ GivesUp
    /\ Raise
    /\ UNCHANGED <<buffer, sent, client, hasClient, hasSocket, taken, heard, vanished, final, pump, link, shown>>

\* The receiver is cancelled before the answer to close is read.
Closes ==
    /\ at = "shutting" /\ hasSocket /\ link.up
    /\ at' = "closing"
    /\ pump' = "none"
    /\ link' = [link EXCEPT !.asked = Append(@, "close")]
    /\ UNCHANGED <<ending, buffer, chunk, sent, client, hasClient, hasSocket, audio, final, shown>>

Reset ==
    /\ hasClient' = FALSE /\ hasSocket' = FALSE /\ sent' = 0 /\ pump' = "none"
    /\ ClientClosed

\* The next message is the answer; or the client had no websocket any more.
Closed ==
    /\ \/ at = "closing" /\ link.inbox # <<>> /\ Head(link.inbox) = "closed"
       \/ at = "shutting" /\ ~hasSocket
    /\ Reset
    /\ link' = [link EXCEPT !.inbox = <<>>, !.up = FALSE]
    /\ UNCHANGED <<buffer, chunk, client, audio, final, shown>>

\* Another message is next, or the connection is lost: the websocket goes, the
\* client stays.
CloseFails ==
    /\ \/ at = "closing" /\ link.inbox # <<>> /\ Head(link.inbox) # "closed"
       \/ at = "closing" /\ link.inbox = <<>> /\ ~link.up
       \/ at = "shutting" /\ hasSocket /\ ~link.up
    /\ hasSocket' = FALSE /\ pump' = "none"
    /\ link' = [link EXCEPT !.inbox = <<>>, !.up = FALSE]
    /\ Raise
    /\ UNCHANGED <<buffer, sent, client, hasClient, taken, heard, vanished, final, shown>>
-----------------------------------------------------------------------------
(* close, called when no frame is being handled *)

\* As if what is not yet a chunk were left behind.
CloseRelay_NoFlush ==
    /\ at = "idle" /\ ending = "no"
    /\ IF hasClient THEN ending' = "flush" /\ at' = "finalizing"
                    ELSE ending' = "done" /\ UNCHANGED at
    /\ UNCHANGED <<buffer, chunk, sent, client, hasClient, hasSocket, audio, final, pump, link, shown>>

CloseRelay ==
    /\ at = "idle" /\ ending = "no"
    /\ IF hasClient
       THEN /\ ending' = "flush" /\ chunk' = buffer
            /\ at' = IF buffer # <<>> THEN "sending" ELSE "finalizing"
       ELSE ending' = "done" /\ UNCHANGED <<chunk, at>>
    /\ UNCHANGED <<buffer, sent, client, hasClient, hasSocket, audio, final, pump, link, shown>>
-----------------------------------------------------------------------------
(* _pump_events *)

\* As if the receiver set the future and returned before it passed the final on.
Passes_NotFinal(kind) == kind = "partial"

\* Every event goes to the browser.
Passes(kind) == TRUE

PumpReads ==
    /\ pump = "running" /\ link.inbox # <<>>
    /\ LET kind == Head(link.inbox) IN
       /\ link' = [link EXCEPT !.inbox = Tail(@)]
       /\ shown' = IF Passes(kind) /\ (shown = <<>> \/ shown[Len(shown)] # <<client, kind>>)
                    THEN Append(shown, <<client, kind>>) ELSE shown
       /\ final' = CASE kind = "final" -> "set" [] kind = "error" -> "error" [] OTHER -> final
       /\ pump' = IF kind = "partial" THEN pump ELSE "ended"
    /\ UNCHANGED <<task, audio>>

PumpLosesConnection ==
    /\ pump = "running" /\ link.inbox = <<>> /\ ~link.up
    /\ pump' = "ended"
    /\ UNCHANGED <<task, audio, final, link, shown>>
-----------------------------------------------------------------------------
Init ==
    /\ at = "idle" /\ ending = "no"
    /\ buffer = <<>> /\ chunk = <<>> /\ sent = 0
    /\ client = 0 /\ hasClient = FALSE /\ hasSocket = FALSE
    /\ final = "pending" /\ pump = "none" /\ link = [FreshLink EXCEPT !.up = FALSE]
    /\ taken = 0 /\ heard = <<>> /\ dropped = {} /\ vanished = {}
    /\ shown = <<>>

\* What the task does without waiting for a new frame or for close.
TaskStep ==
    \/ Connects \/ ConnectFails \/ Cut \/ Rolls \/ Sends \/ SendFails
    \/ Finalizes \/ FinalizeFails \/ SkipsFinal \/ Waited \/ WaitFails
    \/ Closes \/ Closed \/ CloseFails

PumpStep == PumpReads \/ PumpLosesConnection

Next ==
    \/ HandleAudioFrame \/ CloseRelay \/ TaskStep \/ PumpStep
    \/ ServerChats \/ ServerHandles \/ Breaks

\* The event loop runs every ready task, and the waits for ready and for a final
\* have timeouts.  The server and the network owe nothing.
Fairness == WF_vars(TaskStep) /\ WF_vars(PumpStep)

Spec == Init /\ [][Next]_vars /\ Fairness
-----------------------------------------------------------------------------
(* Properties *)

\* The server never gets more audio for an utterance than it buffers, wherever
\* the chunks fall and whatever failed before (_roll_utterance_if_needed).
CapRespected == link.audio <= ServerCap

Increasing(s) == \A i, j \in DOMAIN s : i < j => s[i] < s[j]
InSeq(s) == {s[i] : i \in DOMAIN s}

\* Audio reaches the server in order and never twice.  What does not was in a
\* call that raised, or was sent into a connection that had broken, and after
\* that no utterance is begun; close() leaves nothing in the buffer unless a
\* call raised.
AudioAccounted ==
    /\ Increasing(heard \o chunk) /\ (ending = "no" => Increasing(heard \o chunk \o buffer))
    /\ 1..taken = InSeq(heard) \cup InSeq(chunk) \cup InSeq(buffer) \cup dropped \cup vanished
    /\ InSeq(heard) \cap (dropped \cup vanished) = {}
    /\ \A f \in vanished : \A i \in DOMAIN heard : heard[i] < f
    /\ ending = "done" => buffer = <<>> \/ dropped # {}

\* Every utterance but the last has had its final passed on before a transcript
\* of the next is, and none of its own comes later (_pump_events, and the wait
\* in _finalize_and_close_client).
FinalsFirst ==
    /\ \A u \in 1..(client - 1) : \E i \in DOMAIN shown : shown[i] = <<u, "final">>
    /\ \A i, j \in DOMAIN shown : i < j => shown[i][1] <= shown[j][1]
    /\ \A i, j \in DOMAIN shown : i < j /\ shown[i][2] = "final" => shown[i][1] < shown[j][1]

\* close of the client waits for the server's answer, and nothing bounds that
\* (AsyncLocalSttClient.close under _close_client).
AwaitsClosed == at = "closing" /\ link.up /\ link.inbox = <<>>

\* handle_audio_frame and close return though the server says nothing and the
\* connection breaks or not: the only thing they can wait for for ever is a server
\* that neither answers `close' nor lets the connection go.
FrameReturns == []<>(at = "idle") \/ <>[]AwaitsClosed
=============================================================================

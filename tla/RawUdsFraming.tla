--------------------------- MODULE RawUdsFraming ---------------------------
(* Raw UDS framing: frames of a five byte header (type, payload length) and  *)
(* a payload on a byte stream that delivers them in pieces.  Two readers of  *)
(* it: the one that awaits readexactly() twice per frame, of the server, the *)
(* Python client and the plugin, and the incremental RawUdsFrameDecoder.     *)
(*                                                                           *)
(* Bytes are positions in the stream.  A frame is its type, the length its   *)
(* header declares, and the position of its first byte, which tells it from  *)
(* any other.                                                                *)
EXTENDS Integers, Sequences

CONSTANTS
    HeaderBytes,    \* RAW_UDS_HEADER_BYTES
    MaxPayload,     \* RAW_UDS_MAX_PAYLOAD_BYTES
    Shapes,         \* the types and lengths of the frames a peer may send
    CleanEnd,       \* TRUE: an end between two frames is a disconnect (server)
    MaxFrames,      \* bound: frames sent
    InterruptedAt,  \* where a receive may be cancelled: "header", "payload"
    MaxInterrupts   \* bound: receives that are cancelled while they wait

\* A frame may have a type nobody knows, or one (or a payload) that is not for
\* this side, which is found out when the payload is there.
Shape == [type : {"valid", "unknown", "invalid"}, length : Nat]

ASSUME FramingAssumption ==
    /\ HeaderBytes \in Nat \ {0} /\ MaxPayload \in Nat
    /\ Shapes \subseteq Shape
    /\ CleanEnd \in BOOLEAN
    /\ InterruptedAt \subseteq {"header", "payload"}
    /\ MaxFrames \in Nat /\ MaxInterrupts \in Nat

VARIABLES
    sent,        \* the frames written by the peer
    total,       \* bytes it has written
    reachable,   \* bytes that can arrive: less than total after a crash of it
    ended,       \* it has closed its side
    arrived,     \* bytes in the StreamReader, read ones included
    read,        \* bytes taken out by readexactly
    reader,      \* where the receive is, and the frame whose header it has
    delivered,   \* the frames received
    outcome,     \* "open", or how the receiving ended
    interrupts,  \* receives cancelled so far
    fed,         \* bytes fed to the RawUdsFrameDecoder
    first,       \* position of the first byte in its buffer
    decoded,     \* the frames it has returned
    verdict      \* "open", or how the decoding ended

peerVars    == <<sent, total, reachable, ended>>
readerVars  == <<read, reader, delivered, outcome, interrupts>>
decoderVars == <<fed, first, decoded, verdict>>
vars == <<peerVars, arrived, readerVars, decoderVars>>

Frame == [type : {"valid", "unknown", "invalid"}, length : Nat, from : Nat]
-----------------------------------------------------------------------------
(* The peer and the stream *)

\* encode_raw_uds_frame, written at once.
Sends ==
    \E shape \in Shapes :
    /\ ~ended /\ Len(sent) < MaxFrames
    /\ sent' = Append(sent, [type |-> shape.type, length |-> shape.length, from |-> total])
    /\ total' = total + HeaderBytes + shape.length
    /\ reachable' = total'
    /\ UNCHANGED <<ended, arrived, readerVars, decoderVars>>

\* The peer closes, or dies with some of what it wrote undelivered.
HangsUp ==
    /\ ~ended /\ ended' = TRUE
    /\ reachable' \in arrived..reachable
    /\ UNCHANGED <<sent, total, arrived, readerVars, decoderVars>>

Arrives ==
    /\ arrived' \in (arrived + 1)..reachable
    /\ UNCHANGED <<peerVars, readerVars, decoderVars>>

Eof == ended /\ arrived = reachable
-----------------------------------------------------------------------------
(* _receive_raw_uds_event, _recv_json, RawUdsConnectionAdapter.recv *)

\* What the bytes at position p say when they are taken for a header: any bytes
\* of a payload may look like a header.
HeaderAt(p) ==
    IF \E i \in DOMAIN sent : sent[i].from = p
    THEN {sent[i] : i \in {j \in DOMAIN sent : sent[j].from = p}}
    ELSE [type : {"valid", "unknown", "invalid"}, length : 0..(MaxPayload + 1), from : {p}]

NoFrame == [type |-> "unknown", length |-> 0, from |-> 0]
AtHeader == [at |-> "header", frame |-> NoFrame]

\* As if the header were not counted.
Take_PayloadOnly(h) ==
    /\ read' = read + h.length
    /\ reader' = AtHeader
    /\ IF h.type = "invalid" THEN outcome' = "rejected" /\ UNCHANGED delivered
       ELSE delivered' = Append(delivered, h) /\ UNCHANGED outcome

\* The payload of frame h is read and parsed.
Take(h) ==
    /\ read' = h.from + HeaderBytes + h.length
    /\ reader' = AtHeader
    /\ IF h.type = "invalid" THEN outcome' = "rejected" /\ UNCHANGED delivered
       ELSE delivered' = Append(delivered, h) /\ UNCHANGED outcome

Bad(h) == h.type = "unknown" \/ h.length > MaxPayload

ReadsHeader ==
    /\ outcome = "open" /\ reader.at = "header"
    /\ arrived - read >= HeaderBytes
    /\ \E h \in HeaderAt(read) :
       \/ /\ Bad(h)
          /\ outcome' = (IF h.type = "unknown" THEN "unsupported" ELSE "too_large")
          /\ read' = read + HeaderBytes
          /\ UNCHANGED <<reader, delivered>>
       \/ ~Bad(h) /\ arrived - read - HeaderBytes >= h.length /\ Take(h)
       \/ /\ ~Bad(h) /\ arrived - read - HeaderBytes < h.length
          /\ read' = read + HeaderBytes
          /\ reader' = [at |-> "payload", frame |-> h]
          /\ UNCHANGED <<delivered, outcome>>
    /\ UNCHANGED <<peerVars, arrived, interrupts, decoderVars>>

\* As if the payload had to be followed by something.
ReadsPayload_OneMore ==
    /\ outcome = "open" /\ reader.at = "payload"
    /\ arrived - read > reader.frame.length
    /\ Take(reader.frame)
    /\ UNCHANGED <<peerVars, arrived, interrupts, decoderVars>>

ReadsPayload ==
    /\ outcome = "open" /\ reader.at = "payload"
    /\ arrived - read >= reader.frame.length
    /\ Take(reader.frame)
    /\ UNCHANGED <<peerVars, arrived, interrupts, decoderVars>>

\* The receive is cancelled where it waits, because the worker has ended or
\* recv_event has timed out; the next one starts with a header.  Where it waits
\* for a header it has taken nothing, where it waits for a payload the header
\* is gone.
Interrupted ==
    /\ outcome = "open" /\ reader.at \in InterruptedAt /\ interrupts < MaxInterrupts
    /\ interrupts' = interrupts + 1
    /\ reader' = AtHeader
    /\ UNCHANGED <<peerVars, arrived, read, delivered, outcome, decoderVars>>

\* As if an end inside a header were taken for a disconnect.
EndsInHeader_Silent ==
    /\ outcome = "open" /\ reader.at = "header"
    /\ Eof /\ arrived - read < HeaderBytes
    /\ outcome' = "disconnected"
    /\ UNCHANGED <<peerVars, arrived, read, reader, delivered, interrupts, decoderVars>>

\* IncompleteReadError: with nothing read it is a disconnect.
EndsInHeader ==
    /\ outcome = "open" /\ reader.at = "header"
    /\ Eof /\ arrived - read < HeaderBytes
    /\ outcome' = IF arrived = read /\ CleanEnd THEN "disconnected" ELSE "incomplete"
    /\ UNCHANGED <<peerVars, arrived, read, reader, delivered, interrupts, decoderVars>>

EndsInPayload ==
    /\ outcome = "open" /\ reader.at = "payload"
    /\ Eof /\ arrived - read < reader.frame.length
    /\ outcome' = "incomplete"
    /\ UNCHANGED <<peerVars, arrived, read, reader, delivered, interrupts, decoderVars>>
-----------------------------------------------------------------------------
(* RawUdsFrameDecoder *)

\* As if feed() looked at one frame per call.
Frames_OnlyFirst(p, end) ==
    IF end - p < HeaderBytes THEN [frames |-> <<>>, error |-> FALSE]
    ELSE LET h == CHOOSE g \in HeaderAt(p) : TRUE
         IN [frames |-> IF Bad(h) \/ end - p < HeaderBytes + h.length THEN <<>> ELSE <<h>>,
             error |-> Bad(h)]

\* What feed() makes of the bytes from p to `end': the frames that are complete,
\* up to one that is not or to an error.
Frames(p, end) ==
    LET scan[q \in 0..(end + 1)] ==
            IF end - q < HeaderBytes THEN [frames |-> <<>>, error |-> FALSE]
            ELSE LET h == CHOOSE g \in HeaderAt(q) : TRUE
                     next == q + HeaderBytes + h.length
                 IN IF Bad(h) THEN [frames |-> <<>>, error |-> TRUE]
                    ELSE IF next > end THEN [frames |-> <<>>, error |-> FALSE]
                    ELSE [scan[next] EXCEPT !.frames = <<h>> \o @]
    IN scan[p]

\* feed() of the next chunk: an error clears the buffer and returns no frame,
\* not even those that came before it in the buffer.
Feeds ==
    \E end \in (fed + 1)..arrived :
    LET found == Frames(first, end) IN
    /\ verdict = "open"
    /\ fed' = end
    /\ IF found.error
       THEN verdict' = "error" /\ first' = end /\ UNCHANGED decoded
       ELSE /\ decoded' = decoded \o found.frames
            /\ first' = IF found.frames = <<>> THEN first
                        ELSE LET h == found.frames[Len(found.frames)]
                             IN h.from + HeaderBytes + h.length
            /\ UNCHANGED verdict
    /\ UNCHANGED <<peerVars, arrived, readerVars>>

\* finish(): what is left in the buffer is an incomplete frame.
Finishes ==
    /\ verdict = "open" /\ Eof /\ fed = arrived
    /\ verdict' = IF first = fed THEN "disconnected" ELSE "incomplete"
    /\ first' = fed
    /\ UNCHANGED <<peerVars, arrived, readerVars, fed, decoded>>
-----------------------------------------------------------------------------
Init ==
    /\ sent = <<>> /\ total = 0 /\ reachable = 0 /\ ended = FALSE /\ arrived = 0
    /\ read = 0 /\ reader = AtHeader /\ delivered = <<>> /\ outcome = "open" /\ interrupts = 0
    /\ fed = 0 /\ first = 0 /\ decoded = <<>> /\ verdict = "open"

Reads == ReadsHeader \/ ReadsPayload \/ EndsInHeader \/ EndsInPayload

Next == Sends \/ HangsUp \/ Arrives \/ Reads \/ Interrupted \/ Feeds \/ Finishes

Spec == Init /\ [][Next]_vars

\* The stream delivers what it can, and a receive is always under way.
FairSpec == Spec /\ WF_vars(Arrives) /\ WF_vars(Reads)
-----------------------------------------------------------------------------
(* Properties *)

TypeOK ==
    /\ sent \in Seq(Frame) /\ delivered \in Seq(Frame)
    /\ {total, reachable, arrived, read, interrupts} \subseteq Nat
    /\ reader \in [at : {"header", "payload"}, frame : Frame]
    /\ outcome \in {"open", "disconnected", "incomplete", "unsupported", "too_large", "rejected"}
    /\ ended \in BOOLEAN

\* Position just after frame i.
After(i) == sent[i].from + HeaderBytes + sent[i].length

\* What a receive hands over is the channel of FrameChannel: no frame is lost,
\* repeated or made up of pieces of others, however the stream cuts them up
\* (_receive_raw_uds_event, _recv_json).
Channel == INSTANCE FrameChannel
               WITH put <- sent, got <- delivered, over <- (outcome # "open")
ChannelSpec == Channel!Spec

\* An end of the stream is only taken for a clean disconnect between two frames,
\* and then every frame that was written and could arrive has been received
\* (RawUdsClientDisconnected in _receive_raw_uds_event).
CleanEndLosesNothing ==
    outcome = "disconnected" =>
        /\ read = reachable
        /\ \A i \in DOMAIN sent : After(i) <= reachable => i <= Len(delivered)
        /\ \A i \in DOMAIN sent : ~(sent[i].from < reachable /\ reachable < After(i))

\* The decoder fed by chunks and the reader agree on the frames, except that the
\* decoder takes a frame that is `invalid' for its user to reject, and that on an
\* error it keeps back the frames that came in the same chunk
\* (RawUdsFrameDecoder.feed against _receive_raw_uds_event).
DecoderAgrees ==
    /\ \A i \in DOMAIN decoded : i <= Len(sent) /\ decoded[i] = sent[i]
    /\ verdict = "open" /\ outcome = "open" /\ fed = arrived /\ reader = AtHeader
         /\ arrived - read < HeaderBytes => decoded = delivered
    /\ verdict = "disconnected" => outcome \in {"open", "disconnected", "incomplete", "rejected"}
    /\ verdict = "error" => \E i \in DOMAIN sent : Bad(sent[i]) /\ sent[i].from + HeaderBytes <= fed

\* A frame that has arrived is received, unless the receiving has ended.
FramesReceived ==
    \A i \in 1..MaxFrames :
        (i \in DOMAIN sent /\ After(i) <= arrived) ~> (Len(delivered) >= i \/ outcome # "open")
=============================================================================

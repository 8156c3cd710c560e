---------------------------- MODULE BenchmarkRun ----------------------------
(***************************************************************************)
(* One session of scripts/bench_local_stt_stream.py: a sender and a        *)
(* receive task that share the counters of the session and the event       *)
(* receive_done, and the sample that is made of them in the end.           *)
(*                                                                         *)
(* A latency is a number of hundredths of a millisecond, rounded to a      *)
(* tenth as the script does; NoValue is a value that was never measured.   *)
(***************************************************************************)
EXTENDS Integers, Sequences, FiniteSets, FiniteSetsExt, SequencesExt

CONSTANTS
    ChunkLists,     \* the audio of a session: the number of frames in each chunk
    Latencies,      \* what a measured latency may be
    MaxPartials     \* how many partials the server sends at most

ASSUME RunAssumption == ChunkLists \subseteq Seq(Nat) /\ Latencies \subseteq Nat /\ MaxPartials \in Nat

VARIABLES run       \* the session

NoValue == -1
Transports == {"tcp_ws", "uds_ws", "raw_uds"}

NoRun == [phase |-> "none"]
Total(counts) == FoldRight(LAMBDA n, sum : n + sum, counts, 0)
FramesIn(chunks) == Total(chunks)

\* phase and receiver: where the sender and the receive task stand;
\* done: receive_done is set.
Session(transport, chunks) ==
    [phase |-> "start", receiver |-> "none", transport |-> transport, chunks |-> chunks,
     total |-> FramesIn(chunks), sent |-> 0, dropped |-> 0, done |-> FALSE,
     firstSent |-> FALSE, requested |-> FALSE, interim |-> NoValue, final |-> NoValue,
     partials |-> 0, finals |-> 0, warnings |-> 0, depth |-> NoValue, delay |-> NoValue,
     errors |-> <<>>]

RunInit == run = NoRun

-----------------------------------------------------------------------------
(* The sender                                                              *)

Error(r, code) == [r EXCEPT !.errors = Append(@, code)]
Done(r) == [r EXCEPT !.done = TRUE]
Drops(r) == [r EXCEPT !.dropped = @ + FramesIn(r.chunks), !.chunks = <<>>]

\* The receive task begins once the server is ready.
StartReturns ==
    /\ run.phase = "start"
    /\ run' = [run EXCEPT !.phase = "chunks", !.receiver = "receiving"]

\* A start that fails ends the whole benchmark: there is no sample.
StartFails == run.phase = "start" /\ run' = NoRun

\* However the sender ends, receive_done is set and the receive task waited for.
Leaves(r) == [Done(r) EXCEPT !.phase = "join"]

\* Once the receive task is done, the chunks that are left are dropped and no
\* final is asked for.
SenderGoesOn ==
    /\ run.phase = "chunks"
    /\ run' = IF run.done THEN Leaves(Drops(run))
              ELSE IF run.chunks # <<>> THEN [run EXCEPT !.phase = "send", !.firstSent = TRUE]
              ELSE [run EXCEPT !.phase = "finalize", !.requested = TRUE]

\* A chunk is sent, and the sender sleeps for as long as it lasts.
SendReturns ==
    /\ run.phase = "send"
    /\ run' = [run EXCEPT !.phase = "chunks", !.sent = @ + Head(run.chunks), !.chunks = Tail(@)]
SendRaises == run.phase = "send" /\ run' = Leaves(Drops(Error(run, "send_exception")))

FinalizeReturns == run.phase = "finalize" /\ run' = [run EXCEPT !.phase = "wait"]
FinalizeRaises == run.phase = "finalize" /\ run' = Leaves(Error(run, "finalize_exception"))
FinalSeen == run.phase = "wait" /\ run.done /\ run' = Leaves(run)
FinalTimesOut_Silent == run.phase = "wait" /\ ~run.done /\ run' = Leaves(run)
FinalTimesOut == run.phase = "wait" /\ ~run.done /\ run' = Leaves(Error(run, "final_timeout"))

Joined == run.phase = "join" /\ run.receiver = "over" /\ run' = [run EXCEPT !.phase = "close"]
CloseReturns == run.phase = "close" /\ run' = [run EXCEPT !.phase = "over"]
CloseRaises == run.phase = "close" /\ run' = [Error(run, "close_exception") EXCEPT !.phase = "over"]

-----------------------------------------------------------------------------
(* The receive task: it is in recv_event, which may still bring something   *)
(* when receive_done has been set meanwhile.                                *)

Receiving == run.phase \notin {"none", "over"} /\ run.receiver = "receiving"
ReceiverEnds(r) == [Done(r) EXCEPT !.receiver = "over"]

\* What an event says of the queues of the service is kept.
Kept(r, depth, delay) ==
    [r EXCEPT !.depth = IF depth = NoValue THEN @ ELSE Max({@, depth}),
              !.delay = IF delay = NoValue THEN @ ELSE Max({@, delay})]

ReceivesNothing == Receiving /\ run.done /\ run' = [run EXCEPT !.receiver = "over"]
ReceiveRaises == Receiving /\ run' = ReceiverEnds(Error(run, "receive_exception"))
ReceivesError == Receiving /\ run' = ReceiverEnds(Error(run, "error_event"))

\* Back to the loop, which is left when receive_done is set.
Loops(r) == IF r.done THEN [r EXCEPT !.receiver = "over"] ELSE r

ReceivesWarning == Receiving /\ run.warnings = 0 /\ run' = Loops([run EXCEPT !.warnings = @ + 1])

ReceivesPartial ==
    /\ Receiving /\ run.partials < MaxPartials
    /\ \E latency \in Latencies : \E delay \in {latency, NoValue} :
         run' = Loops([Kept(run, NoValue, delay) EXCEPT
             !.partials = @ + 1,
             !.interim = IF @ = NoValue /\ run.firstSent THEN latency ELSE @])

\* A final may come before it was asked for.
ReceivesFinal ==
    /\ Receiving
    /\ \E latency \in Latencies :
         run' = ReceiverEnds([Kept(run, latency, latency) EXCEPT
             !.finals = @ + 1, !.final = IF run.requested THEN latency ELSE @])

Sender ==
    \/ StartReturns \/ StartFails \/ SenderGoesOn \/ SendReturns \/ SendRaises
    \/ FinalizeReturns \/ FinalizeRaises \/ FinalSeen \/ FinalTimesOut
    \/ Joined \/ CloseReturns \/ CloseRaises
Receiver ==
    \/ ReceivesNothing \/ ReceiveRaises \/ ReceivesError \/ ReceivesWarning
    \/ ReceivesPartial \/ ReceivesFinal
RunStep == Sender \/ Receiver

-----------------------------------------------------------------------------
(* What becomes of it                                                      *)

RawUdsHeaderBytes == 5

Sample(r) ==
    [interim |-> r.interim, final |-> r.final, depth |-> r.depth, delay |-> r.delay,
     errors |-> Len(r.errors), codes |-> r.errors,
     sent |-> r.sent, dropped |-> r.dropped + Max({0, r.total - r.sent - r.dropped}),
     finals |-> r.finals, successful |-> IF r.finals > 0 /\ r.errors = <<>> THEN 1 ELSE 0]

\* Half goes to the even neighbour.
RoundedQuotient(a, b) ==
    LET q == a \div b
        twice == 2 * (a % b)
    IN  IF twice > b \/ (twice = b /\ q % 2 = 1) THEN q + 1 ELSE q

RankOf(length, percent) == 1 + RoundedQuotient((length - 1) * percent, 100)

\* The least value that is not exceeded by as many as its rank: the one at this
\* place when they are sorted.
SummarizePercentile(values, percent) ==
    IF DOMAIN values = {} THEN NoValue
    ELSE Min({v \in Range(values) : Cardinality({i \in DOMAIN values : values[i] <= v})
                                      >= RankOf(Cardinality(DOMAIN values), percent)})

Percentiles == [p50 |-> 50, p95 |-> 95, p99 |-> 99]
Metrics == {"interim", "final", "depth", "delay", "errors"}

\* A sample without a value does not count in the percentiles of it.
SummarizeSamples(samples) ==
    [m \in Metrics |->
        LET measured == {i \in DOMAIN samples : samples[i][m] # NoValue}
        IN  [p \in DOMAIN Percentiles |->
                SummarizePercentile([i \in measured |-> samples[i][m]], Percentiles[p])]]

SummarizeDiagnostics(samples) == Total([i \in DOMAIN samples |-> Len(samples[i].codes)])

-----------------------------------------------------------------------------

\* Whatever the server and the connection do, and however the two tasks meet: a
\* session that is over has seen a final or recorded an error, every frame of
\* its audio was sent or counted as dropped, it counts as successful only
\* with one final, and this one was timed if it was asked for (bench_local_stt_stream.py:998-1126).
SampleHonest ==
    run.phase = "over" =>
        LET s == Sample(run)
        IN  /\ s.finals = 0 => s.errors > 0
            /\ s.sent + s.dropped = run.total
            /\ s.successful = 1 => s.finals = 1 /\ (s.final # NoValue <=> run.requested)
            /\ s.final # NoValue => s.finals = 1
=============================================================================

-------------------------- MODULE TransportDecision --------------------------
(***************************************************************************)
(* How the transports are compared: bench_local_stt_stream.py writes an    *)
(* artifact for each, compare_local_stt_transports.py reads some of them   *)
(* and says, in five ways (a gate, a flag, a text, a list of gaps and an   *)
(* exit code), whether raw UDS is to be recommended.                       *)
(*                                                                         *)
(* Artifacts may also have been written by hand or by other tools: they    *)
(* spell things differently, and something may be missing from them.       *)
(* Values are hundredths of a millisecond.                                 *)
(***************************************************************************)
EXTENDS BenchmarkRun

CONSTANTS
    Followed,       \* the transports whose first session is followed step by step
    UsualSamples,   \* transport -> samples of a session in which all went well
    RunCounts,      \* transport -> how many sessions its benchmark may have
    HandWritten,    \* artifacts that were not written by the benchmark
    Alias,          \* name of a transport in small letters -> transport
    Options         \* what comparisons are asked for

VARIABLES
    artifacts,      \* the artifacts there are
    comparison      \* the last comparison

\* An artifact is read as a JSON object whose counts and times are numbers: what is
\* not makes the script fail, and a count below none is taken for none.
WellFormed(a) ==
    /\ a.samples \in Seq(ToSet(a.samples))
    /\ \A i \in DOMAIN a.samples : a.samples[i].errors \in Nat /\ Len(a.samples[i].codes) \in Nat
    /\ a.errorTotals \in Seq(Nat) /\ a.runs \in Seq(Int)
    /\ \A name \in DOMAIN a.summary : \A p \in DOMAIN Percentiles : a.summary[name][p] \in Int

MeasuredSample(s) == (\A m \in Metrics : s[m] \in Int) /\ s.errors \in Nat /\ Len(s.codes) \in Nat

ASSUME DecisionAssumption ==
    /\ Followed \subseteq Transports
    /\ \A t \in Transports : RunCounts[t] \subseteq Nat \ {0}
    /\ \A t \in Transports : \A s \in UsualSamples[t] : MeasuredSample(s)
    /\ \A a \in HandWritten : WellFormed(a)
    /\ \A o \in Options : o.minWin \in Int /\ o.minRuns \in Int

decisionVars == <<run, artifacts, comparison>>

NoComparison == [result |-> "none"]
RequiredTransports == Transports

\* What the artifacts say of the clip and the settings, and of the service.
InputFields == {"source", "sample_rate", "channels", "format", "frame_ms", "duration_ms",
                "partial_interval_ms", "realtime_pace", "receive_timeout_seconds", "concurrency"}
IdentityFields == {"backend", "model"}

-----------------------------------------------------------------------------
(* The raw UDS contract an artifact has to state                           *)

FrameTypes == {"JSON_CONTROL", "AUDIO_PCM16", "JSON_EVENT", "ERROR", "PING", "PONG"}
FrameTypeCodes == ("JSON_CONTROL" :> 1) @@ ("AUDIO_PCM16" :> 2) @@ ("JSON_EVENT" :> 3)
                    @@ ("ERROR" :> 4) @@ ("PING" :> 5) @@ ("PONG" :> 6)
Directions == [client_to_server |-> FrameTypes \ {"JSON_EVENT", "ERROR"},
               server_to_client |-> FrameTypes \ {"JSON_CONTROL", "AUDIO_PCM16"}]
LifecycleOrder == <<"start", "audio", "transcript", "finalize", "cancel", "close">>
FrameFields == [frame_format |-> "uint8_type_uint32_len_le", frame_header_bytes |-> RawUdsHeaderBytes,
                per_frame_overhead_bytes |-> RawUdsHeaderBytes, max_payload_bytes |-> 8 * 1024 * 1024]
Mistakes == {"bad_frame_type", "malformed_json_control", "invalid_json_payload", "oversized_payload",
             "incomplete_frame", "frame_length_mismatch", "invalid_client_frame_type", "invalid_server_frame_type"}
ErrorCodes == {"raw_uds_unsupported_frame_type", "raw_uds_malformed_json_control", "raw_uds_invalid_json",
               "raw_uds_payload_too_large", "raw_uds_incomplete_frame", "raw_uds_frame_length_mismatch",
               "raw_uds_invalid_client_frame_type", "raw_uds_invalid_server_frame_type"}
StartControlPayload == [type |-> "start", protocol |-> "local-stt-v1", sample_rate |-> 16000, channels |-> 1,
                        format |-> "pcm_s16le", frame_ms |-> 20, partial_interval_ms |-> 100]

\* describe_benchmark_target: only raw UDS has a contract; it has no URL.
Target(transport) ==
    [url |-> transport # "raw_uds", uds_path |-> transport # "tcp_ws"] @@
    IF transport # "raw_uds" THEN <<>>
    ELSE [fields |-> FrameFields, frame_types |-> FrameTypes, frame_direction |-> Directions,
          frame_type_codes |-> FrameTypeCodes, lifecycle |-> LifecycleOrder,
          semantic_lifecycle |-> LifecycleOrder, error_handling |-> Mistakes, error_codes |-> ErrorCodes,
          shared_stream_runtime |-> TRUE, plugin_config |-> [transport |-> "raw_uds", same_path |-> TRUE],
          start_control_payload |-> StartControlPayload, required_transports |-> Transports]

\* run_benchmark: the clip and the settings are the same for all transports.
Artifact(transport, samples) ==
    [kind |-> "local-stt-v1-latency-benchmark", named |-> transport, direct |-> TRUE,
     target |-> Target(transport), runs |-> <<Len(samples)>>, samples |-> samples,
     summary |-> [spelled \in Metrics \X {"own"} |-> SummarizeSamples(samples)[spelled[1]]],
     errorTotals |-> <<SummarizeDiagnostics(samples)>>, cpu |-> <<>>,
     inputs |-> [field \in InputFields |-> <<1>>], identity |-> [field \in IdentityFields |-> <<>>]]

-----------------------------------------------------------------------------
(* Reading an artifact                                                     *)

FirstDefined(values) ==
    LET defined == {i \in DOMAIN values : values[i] # NoValue}
    IN  IF defined = {} THEN NoValue ELSE values[Min(defined)]

\* Names that say too little stay as they are when the target has them.
NormalizedTransport(a) ==
    IF a.direct /\ a.named \in {"tcp", "websocket", "ws"} THEN a.named
    ELSE IF a.named \in DOMAIN Alias THEN Alias[a.named] ELSE a.named

\* A metric may be there under its own name or an older one, as a bucket of
\* percentiles or a value for each.
Spellings == <<"own", "older", "own each", "older each">>
Percentile(summary, metric, p) ==
    LET spelled == {i \in DOMAIN Spellings : <<metric, Spellings[i]>> \in DOMAIN summary}
    IN  IF spelled = {} THEN NoValue ELSE summary[<<metric, Spellings[Min(spelled)]>>][p]

DiagnosticTotal(a) ==
    Max({SummarizeDiagnostics(a.samples), Total([i \in DOMAIN a.samples |-> a.samples[i].errors])}
        \cup ToSet(a.errorTotals) \cup {0})

\* Without any percentile of errors the total of the diagnostics stands for them.
WithDiagnosticErrors(metrics, total) ==
    IF \E p \in DOMAIN Percentiles : metrics.errors[p] # NoValue THEN metrics
    ELSE [metrics EXCEPT !.errors = [p \in DOMAIN Percentiles |-> total]]

ProtocolErrorFree_ByPercentiles(metrics, total) ==
    \A p \in DOMAIN Percentiles : metrics.errors[p] = 0

ProtocolErrorFree(metrics, total) ==
    total = 0 /\ \A p \in DOMAIN Percentiles : metrics.errors[p] = 0

\* Of the queues only the 95th percentile is required.
RequiredPercentiles(metric) == IF metric \in {"depth", "delay"} THEN {"p95"} ELSE DOMAIN Percentiles
MissingMetrics(metrics) ==
    {metric \in Metrics : \E p \in RequiredPercentiles(metric) : metrics[metric][p] = NoValue}

ExtractCpu(a) ==
    IF FirstDefined(a.cpu) # NoValue THEN FirstDefined(a.cpu)
    ELSE LET measured == {i \in DOMAIN a.samples : "cpu" \in DOMAIN a.samples[i]}
         IN  SummarizePercentile([i \in measured |-> a.samples[i].cpu], 95)

RunCount(a) ==
    IF FirstDefined(a.runs) # NoValue THEN FirstDefined(a.runs)
    ELSE IF a.samples = <<>> THEN NoValue ELSE Len(a.samples)

NormalizedInput(a, field) ==
    IF field = "concurrency" /\ FirstDefined(a.inputs[field]) = NoValue THEN 1 ELSE FirstDefined(a.inputs[field])

Payload(a) ==
    LET total == DiagnosticTotal(a)
        read == [m \in Metrics |-> [p \in DOMAIN Percentiles |-> Percentile(a.summary, m, p)]]
        metrics == WithDiagnosticErrors(read, total)
    IN  [target |-> a.target, metrics |-> metrics, missing |-> MissingMetrics(metrics),
         errorFree |-> ProtocolErrorFree(metrics, total), total |-> total,
         runs |-> RunCount(a), cpu |-> ExtractCpu(a),
         inputs |-> [field \in InputFields |-> NormalizedInput(a, field)],
         identity |-> [field \in IdentityFields |-> FirstDefined(a.identity[field])]]

-----------------------------------------------------------------------------
(* Gaps: "by" has a payload for each transport there is.                   *)

RunCountGaps(by, min) ==
    IF min = NoValue THEN {} ELSE {t \in DOMAIN by : by[t].runs = NoValue \/ by[t].runs < min}

CpuGaps(by, required) ==
    IF ~required THEN {} ELSE {t \in RequiredTransports : t \notin DOMAIN by \/ by[t].cpu = NoValue}

TargetFieldGaps(by) ==
    {f \in {<<"tcp_ws", "url">>, <<"uds_ws", "url">>, <<"uds_ws", "uds_path">>, <<"raw_uds", "uds_path">>} :
        f[1] \in DOMAIN by /\ ~by[f[1]].target[f[2]]}

Has(target, field) == field \in DOMAIN target

FrameContractGaps(target) ==
    {f \in DOMAIN FrameFields : ~Has(target, "fields") \/ target.fields[f] # FrameFields[f]} \cup
    IF ~Has(target, "frame_direction") THEN {"frame_direction"}
    ELSE {d \in DOMAIN Directions : target.frame_direction[d] # Directions[d]}

FrameTypeGaps(target) ==
    (IF Has(target, "frame_types") THEN FrameTypes \ target.frame_types ELSE {"frame_types"}) \cup
    IF ~Has(target, "frame_type_codes") THEN {"frame_type_codes"}
    ELSE {t \in FrameTypes : t \notin DOMAIN target.frame_type_codes
                             \/ target.frame_type_codes[t] # FrameTypeCodes[t]}

\* The events must all be there and come in order; one said twice may repeat
\* only next to itself.
LifecycleGaps(target) ==
    LET known == SelectSeq(target.lifecycle, LAMBDA e : e \in ToSet(LifecycleOrder))
        At(e) == CHOOSE i \in DOMAIN LifecycleOrder : LifecycleOrder[i] = e
    IN  CASE ~Has(target, "lifecycle") -> {"missing"}
          [] Has(target, "lifecycle") /\ Has(target, "semantic_lifecycle")
             /\ target.semantic_lifecycle # target.lifecycle -> {"mismatch"}
          [] OTHER -> (ToSet(LifecycleOrder) \ ToSet(target.lifecycle)) \cup
                      {known[i] : i \in {i \in 2..Len(known) : At(known[i]) < At(known[i - 1])}}

ErrorHandlingGaps(target) == IF Has(target, "error_handling") THEN Mistakes \ target.error_handling ELSE {"missing"}
ErrorCodeGaps(target) == IF Has(target, "error_codes") THEN ErrorCodes \ target.error_codes ELSE {"missing"}
RuntimeGaps(target) ==
    IF Has(target, "shared_stream_runtime") /\ target.shared_stream_runtime THEN {} ELSE {"missing"}

PluginConfigGaps(target) ==
    IF ~Has(target, "plugin_config") THEN {"missing"}
    ELSE {gap \in {"transport", "uds_path"} :
            \/ gap = "transport" /\ target.plugin_config.transport # "raw_uds"
            \/ gap = "uds_path" /\ target.uds_path /\ ~target.plugin_config.same_path}

StartPayloadGaps(target) ==
    IF ~Has(target, "start_control_payload") THEN {"missing"}
    ELSE {f \in DOMAIN StartControlPayload : target.start_control_payload[f] # StartControlPayload[f]}

ComparisonGaps(target) ==
    IF ~Has(target, "required_transports") THEN {"missing"}
    ELSE (RequiredTransports \ target.required_transports) \cup (target.required_transports \ RequiredTransports)

\* All must say it and say the same. The service may be left out by all.
Differ(values) == NoValue \in values \/ Cardinality(values) > 1
BenchmarkInputGaps(by) ==
    {f \in InputFields : Differ({by[t].inputs[f] : t \in DOMAIN by})} \cup
    {f \in IdentityFields : LET values == {by[t].identity[f] : t \in DOMAIN by}
                            IN  values # {NoValue} /\ Differ(values)}

\* The order in which the gate, the text and the list of gaps go through them.
GapKinds == <<"missing_transport", "unexpected_transport", "missing_metric", "run_count", "cpu_utilization",
              "target", "frame_contract", "frame_type", "lifecycle", "error_handling", "error_codes",
              "runtime", "plugin_config", "start_payload", "comparison_required_transports", "benchmark_input">>

Gaps(by, opts) ==
    LET ofRaw(GapsOf(_)) == IF "raw_uds" \in DOMAIN by THEN GapsOf(by["raw_uds"].target) ELSE {}
    IN  [missing_transport |-> RequiredTransports \ DOMAIN by,
         unexpected_transport |-> DOMAIN by \ RequiredTransports,
         missing_metric |-> {t \in DOMAIN by : by[t].missing # {}},
         run_count |-> RunCountGaps(by, opts.minRuns),
         cpu_utilization |-> CpuGaps(by, opts.requireCpu),
         target |-> TargetFieldGaps(by),
         frame_contract |-> ofRaw(FrameContractGaps), frame_type |-> ofRaw(FrameTypeGaps),
         lifecycle |-> ofRaw(LifecycleGaps), error_handling |-> ofRaw(ErrorHandlingGaps),
         error_codes |-> ofRaw(ErrorCodeGaps), runtime |-> ofRaw(RuntimeGaps),
         plugin_config |-> ofRaw(PluginConfigGaps), start_payload |-> ofRaw(StartPayloadGaps),
         comparison_required_transports |-> ofRaw(ComparisonGaps),
         benchmark_input |-> BenchmarkInputGaps(by)]

-----------------------------------------------------------------------------
(* Deltas: how much less the second has than the first.                    *)

P95(by, t, metric) == IF t \in DOMAIN by THEN by[t].metrics[metric]["p95"] ELSE NoValue

NoDelta == 1000000

\* Rounded to tenths in the matrix and for the decision.
Tenths(v) == IF v >= 0 THEN 10 * RoundedQuotient(v, 10) ELSE -10 * RoundedQuotient(-v, 10)
Delta(by, baseline, candidate, metric) ==
    LET b == P95(by, baseline, metric)
        c == P95(by, candidate, metric)
    IN  IF NoValue \in {b, c} THEN NoDelta ELSE b - c
MetricDelta(by, baseline, candidate, metric) ==
    LET delta == Delta(by, baseline, candidate, metric)
    IN  IF delta = NoDelta THEN NoDelta ELSE Tenths(delta)

PairwiseDeltas(by) ==
    [metric \in Metrics |-> [baseline \in RequiredTransports |-> [candidate \in RequiredTransports |->
        IF baseline = candidate THEN NoDelta ELSE MetricDelta(by, baseline, candidate, metric)]]]
RawVsUds(by) == [metric \in Metrics |-> MetricDelta(by, "uds_ws", "raw_uds", metric)]

\* The summary of the comparison goes by the exact difference.
Classify(delta) == IF delta = NoDelta THEN "missing" ELSE IF delta > 0 THEN "improved"
                   ELSE IF delta < 0 THEN "regressed" ELSE "matched"
ComparisonSummary(by) ==
    [baseline \in {"tcp_ws", "uds_ws"} |-> [metric \in Metrics |-> Classify(Delta(by, baseline, "raw_uds", metric))]]

\* The first by name of the fastest; raw UDS comes first of the three.
Fastest(by, metric) ==
    LET timed == {t \in DOMAIN by : P95(by, t, metric) # NoValue}
        fastest == {t \in timed : \A u \in timed : P95(by, t, metric) <= P95(by, u, metric)}
    IN  IF fastest = {} THEN "none" ELSE IF "raw_uds" \in fastest THEN "raw_uds"
        ELSE IF "tcp_ws" \in fastest THEN "tcp_ws" ELSE CHOOSE t \in fastest : TRUE

QueueRegressions(deltas) == {m \in {"depth", "delay"} : deltas[m] # NoDelta /\ deltas[m] < 0}
Regresses(deltas, metric) == deltas[metric] # NoDelta /\ deltas[metric] < 0

-----------------------------------------------------------------------------
(* The decision                                                            *)

AllErrorFree(by) == \A t \in DOMAIN by : by[t].errorFree

OpenGaps(gaps) == {kind \in ToSet(GapKinds) : gaps[kind] # {}}

\* A list is the set of what it says, in the order in which that is asked for.
FirstOf(said, order) == order[Min({i \in DOMAIN order : order[i] \in said})]

Verdicts == <<"protocol_errors", "missing_raw_uds_latency_delta", "insufficient_raw_uds_latency_win",
              "raw_uds_finalization_regression", "raw_uds_queue_regression">>

GateBlockers(by, gaps, opts) ==
    LET deltas == RawVsUds(by)
    IN  OpenGaps(gaps) \cup {v \in ToSet(Verdicts) :
            \/ v = "protocol_errors" /\ ~AllErrorFree(by)
            \/ v = "missing_raw_uds_latency_delta" /\ deltas.interim = NoDelta
            \/ /\ v = "insufficient_raw_uds_latency_win"
               /\ deltas.interim # NoDelta /\ deltas.interim < opts.minWin
            \/ v = "raw_uds_finalization_regression" /\ Regresses(deltas, "final")
            \/ v = "raw_uds_queue_regression" /\ QueueRegressions(deltas) # {}}

Experimental_LatencyOnly(by, gaps, opts) ==
    RawVsUds(by).interim = NoDelta \/ RawVsUds(by).interim < opts.minWin

Experimental(by, gaps, opts) ==
    \/ RawVsUds(by).interim = NoDelta \/ RawVsUds(by).interim < opts.minWin
    \/ GateBlockers(by, gaps, opts) # {}

\* The text names the first thing to do, in an order of its own at the end.
Texts == <<"protocol_errors", "no first interim", "final regresses", "queue regresses",
           "not enough of a win", "consider raw UDS">>
Recommendation(by, gaps, opts) ==
    LET deltas == RawVsUds(by)
        said == OpenGaps(gaps) \cup {text \in ToSet(Texts) :
            \/ text = "protocol_errors" /\ ~AllErrorFree(by)
            \/ text = "no first interim" /\ deltas.interim = NoDelta
            \/ text = "final regresses" /\ Regresses(deltas, "final")
            \/ text = "queue regresses" /\ QueueRegressions(deltas) # {}
            \/ text = "not enough of a win" /\ Experimental(by, gaps, opts)
            \/ text = "consider raw UDS" /\ ~Experimental(by, gaps, opts)}
    IN  FirstOf(said, GapKinds \o Texts)

NextAction(blockers) == IF blockers = {} THEN "proceed" ELSE FirstOf(blockers, GapKinds \o Verdicts)

BlockingGaps(by, gaps) ==
    (UNION {{<<kind, gap>> : gap \in gaps[kind]} : kind \in ToSet(GapKinds)}) \cup
    {<<"protocol_errors", t>> : t \in {t \in DOMAIN by : ~by[t].errorFree}}

HasBlockingGaps(c, require) ==
    \/ \E kind \in ToSet(GapKinds) : c.gaps[kind] # {}
    \/ ~c.errorFree
    \/ require /\ c.experimental

\* Artifacts of another kind or two of one transport, and options that make no
\* sense, end the script.
Refused(given, opts) ==
    \/ opts.minRuns # NoValue /\ opts.minRuns <= 0
    \/ opts.minWin <= 0
    \/ \E a \in given : a.kind # "local-stt-v1-latency-benchmark" \/ a.named = "missing"
    \/ \E a, b \in given : a # b /\ NormalizedTransport(a) = NormalizedTransport(b)

CompareArtifacts(given, opts) ==
    LET of(t) == CHOOSE a \in given : NormalizedTransport(a) = t
        by == [t \in {NormalizedTransport(a) : a \in given} |-> Payload(of(t))]
        gaps == Gaps(by, opts)
        blockers == GateBlockers(by, gaps, opts)
    IN  [result |-> "compared", by |-> by, gaps |-> gaps, deltas |-> PairwiseDeltas(by),
         summary |-> ComparisonSummary(by), fastest |-> [m \in Metrics |-> Fastest(by, m)],
         gate |-> [passed |-> blockers = {}, blockers |-> blockers],
         experimental |-> Experimental(by, gaps, opts), errorFree |-> AllErrorFree(by),
         blocking |-> BlockingGaps(by, gaps), recommendation |-> Recommendation(by, gaps, opts),
         next |-> NextAction(blockers), given |-> given, opts |-> opts]

\* The exit code, without and with --require-raw-uds-recommendation.
Exit(c, require) == IF HasBlockingGaps(c, require) THEN 1 ELSE 0

-----------------------------------------------------------------------------

DecisionInit == RunInit /\ artifacts = {} /\ comparison = NoComparison

\* A benchmark starts; its first session is followed.
FollowRun ==
    /\ run = NoRun /\ artifacts = {} /\ comparison = NoComparison
    /\ \E t \in Followed, chunks \in ChunkLists : run' = Session(t, chunks)
    /\ UNCHANGED <<artifacts, comparison>>

RunGoesOn == RunStep /\ UNCHANGED <<artifacts, comparison>>

\* The other sessions of this benchmark go well.
RunsEnd ==
    /\ run.phase = "over"
    /\ \E n \in RunCounts[run.transport], usual \in UsualSamples[run.transport] :
         artifacts' = {Artifact(run.transport, <<Sample(run)>> \o [i \in 1..(n - 1) |-> usual])}
    /\ run' = NoRun /\ UNCHANGED comparison

\* A benchmark in which all goes well.
Benchmark ==
    /\ run = NoRun /\ comparison = NoComparison
    /\ \E t \in Transports : \E n \in RunCounts[t], usual \in UsualSamples[t] :
         /\ \A a \in artifacts : a.named # t
         /\ artifacts' = artifacts \cup {Artifact(t, [i \in 1..n |-> usual])}
    /\ UNCHANGED <<run, comparison>>

\* At most one artifact comes from somewhere else, and is the last, after
\* benchmarks in which all went well.
FromElsewhere ==
    /\ run = NoRun /\ comparison = NoComparison
    /\ artifacts \cap HandWritten = {} /\ Cardinality(artifacts) = 2
    /\ \A a \in artifacts : ToSet(a.samples) \subseteq UsualSamples[a.named]
    /\ \E a \in HandWritten : artifacts' = artifacts \cup {a}
    /\ UNCHANGED <<run, comparison>>

\* All artifacts there are are compared.
Compare ==
    /\ run = NoRun /\ artifacts # {} /\ comparison = NoComparison
    /\ \E opts \in Options :
         comparison' = IF Refused(artifacts, opts) THEN [result |-> "refused"]
                       ELSE CompareArtifacts(artifacts, opts)
    /\ UNCHANGED <<run, artifacts>>

DecisionNext == FollowRun \/ RunGoesOn \/ RunsEnd \/ Benchmark \/ FromElsewhere \/ Compare

DecisionSpec == DecisionInit /\ [][DecisionNext]_decisionVars

-----------------------------------------------------------------------------
(* Properties                                                              *)

Compared == comparison.result = "compared"

\* What is said of raw UDS is said five times, each from its own conditions, and
\* always the same: the gate, the flag, the text, the next step and the exit
\* code of --require-raw-uds-recommendation; and the exit code without it goes
\* with the list of blocking gaps (compare_local_stt_transports.py:1420, 1490,
\* 1549, 1618, 1949).
OneDecision ==
    Compared =>
        LET c == comparison
        IN  /\ c.gate.passed <=> ~c.experimental
            /\ c.gate.passed <=> c.recommendation = "consider raw UDS"
            /\ c.gate.passed <=> c.next = "proceed"
            /\ c.gate.passed <=> Exit(c, TRUE) = 0
            /\ c.blocking = {} <=> Exit(c, FALSE) = 0
            /\ c.gate.passed => c.summary["uds_ws"]["interim"] = "improved"

\* A recommendation rests on what was measured, up to the rounding to a tenth:
\* all three transports, in as many runs as were asked for, with no error in any
\* run however rare, a win in the first interim of what was asked for, and final
\* and queues no slower (compare_local_stt_transports.py:1386, 1409, 1549).
RecommendationEarned ==
    Compared /\ comparison.gate.passed =>
        LET c == comparison
        IN  /\ {NormalizedTransport(a) : a \in c.given} = Transports
            /\ \A a \in c.given : \A i \in DOMAIN a.samples : a.samples[i].errors = 0
            /\ c.opts.minRuns # NoValue => \A a \in c.given : RunCount(a) >= c.opts.minRuns
            /\ Delta(c.by, "uds_ws", "raw_uds", "interim") >= c.opts.minWin - 5
            /\ \A m \in {"final", "depth", "delay"} : Delta(c.by, "uds_ws", "raw_uds", m) >= -5
=============================================================================

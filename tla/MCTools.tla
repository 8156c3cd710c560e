------------------------------- MODULE MCTools -------------------------------
(***************************************************************************)
(* What surrounds the service, checked in one run: a behaviour is one of   *)
(* the benchmark site, of the transport benchmarks or of the browser       *)
(* demo's relay.  They share no state.                                     *)
(***************************************************************************)
EXTENDS BenchmarkSite, TransportDecision, DemoRelay

VARIABLES tool

MCInit == tool \in {"site", "decision", "relay"} /\ SiteInit /\ DecisionInit /\ Init
SiteGoesOn == tool = "site" /\ SiteNext /\ UNCHANGED <<tool, decisionVars, vars>>
DecisionGoesOn == tool = "decision" /\ DecisionNext /\ UNCHANGED <<tool, siteVars, vars>>
RelayGoesOn == tool = "relay" /\ Next /\ UNCHANGED <<tool, siteVars, decisionVars>>
MCNext == SiteGoesOn \/ DecisionGoesOn \/ RelayGoesOn
MCSpec == MCInit /\ [][MCNext]_<<tool, siteVars, decisionVars, vars>> /\ Fairness

-----------------------------------------------------------------------------
(* The site                                                                *)

Whisper == [model |-> "whisper", compute |-> "int8"]
Vosk == [model |-> "vosk", compute |-> "missing"]

\* Two lanes of the same model, one with an artifact of its own, and a lane that
\* is blocked.
MCCatalog == <<
    [slug |-> "blocked", status |-> "blocked", pinned |-> NoArtifact, benched |-> Vosk, target |-> 20],
    [slug |-> "pinned",  status |-> "legacy",  pinned |-> 1, benched |-> Whisper, target |-> 0],
    [slug |-> "newest",  status |-> "validated", pinned |-> NoArtifact, benched |-> Whisper, target |-> 20]>>
MCNameDate == <<1, 35, 1>>

Asr(benched, date, transport, comparable, speed) ==
    [asr |-> TRUE, benched |-> benched, date |-> date, transport |-> transport,
     comparable |-> comparable, measured |-> speed > 5, speed |-> speed, samples |-> 2 * speed,
     size |-> 10 * speed, signals |-> [place \in Places |->
        IF place = "environment" THEN {"power"} ELSE IF comparable THEN {"cpu"} ELSE {}]]
NotAsr == [asr |-> FALSE]

MCPayloadsOf == <<
    {Asr(Whisper, 2, "v1-stt-stream", TRUE, 5)},
    {Asr(Whisper, 0, "ws/stream", FALSE, 0), NotAsr},
    {Asr(Whisper, 3, "v1-stt-stream", TRUE, 10), Asr(Whisper, 60, "local stt", TRUE, 15)}>>

MCPathOf == <<"a.json", "d/a.json", "d/b">>
MCSlug == ("blocked" :> "b") @@ ("pinned" :> "p") @@ ("newest" :> "n") @@ (NoSlug :> "")

MCTextOrder == <<".", ".html", ".json", "0-6d", "1", "1.html", "2", "2.html", "2026", "30-89d", "7-29d", "90d+", "a", "a.json",
                 "b", "blocked", "d", "d/a.json", "d/b", "legacy", "missing", "n", "none", "p",
                 "pages", "pages/1.html", "pages/2.html", "tracked", "unknown", "untracked", "validated">>
\* "." < ".html" < ..., and what begins another text comes before it either way.
MCTextOrderDown == SortSeq(MCTextOrder, LAMBDA a, b :
    LET Begins(s, t) == <<s, t>> \in {<<".", ".html">>, <<".", ".json">>, <<"1", "1.html">>, <<"2", "2.html">>,
            <<"2", "2026">>, <<"a", "a.json">>, <<"b", "blocked">>, <<"d", "d/a.json">>, <<"d", "d/b">>,
            <<"n", "none">>, <<"p", "pages">>, <<"p", "pages/1.html">>, <<"p", "pages/2.html">>,
            <<"pages", "pages/1.html">>, <<"pages", "pages/2.html">>}
        At(s) == CHOOSE i \in DOMAIN MCTextOrder : MCTextOrder[i] = s
    IN  Begins(a, b) \/ (~Begins(b, a) /\ At(a) > At(b)))
Path(name, stem, dir, extension) == [name |-> name, stem |-> stem, dir |-> dir, extension |-> extension]
MCPathParts ==
    ("a.json" :> Path("a.json", "a", ".", ".json")) @@ ("d/a.json" :> Path("a.json", "a", "d", ".json"))
    @@ ("d/b" :> Path("b", "b", "d", "")) @@ ("pages/1.html" :> Path("1.html", "1", "pages", ".html"))
    @@ ("pages/2.html" :> Path("2.html", "2", "pages", ".html"))
MCPageOf == ("a.json" :> "pages/1.html") @@ ("d/a.json" :> "pages/2.html") @@ ("d/b" :> "")
MCContained == [t \in ToSet(MCTextOrder) |->
    {t} \cup CASE t = "d/a.json" -> {"a", "a.json", "d"} [] t = "a.json" -> {"a"} [] t = "d/b" -> {"d", "b"}
               [] t = "blocked" -> {"b"} [] OTHER -> {}]
MCCalendar == [t \in 1..100 |-> [year |-> "2026", quarter |-> "2026",
    month |-> IF t < 32 THEN "1" ELSE "2", week |-> "1", day |-> IF t < 4 THEN "1" ELSE "2"]]

By(by, desc) == [by |-> by, desc |-> desc, group |-> <<"artifact", "dir">>]
Plain == [EveryArtifact(40) EXCEPT !.sort = By("size", TRUE)]
Largest == [EveryBucket EXCEPT !.limit = 1]
Output(format) == [format |-> format, pages |-> "no", present |-> "any", failOnStale |-> FALSE]

MCAsked == {
    \* make benchmark-artifact-cleanup-plan
    [opts |-> [Plain EXCEPT !.olderThan = 30], summary |-> EveryBucket,
     output |-> [Output("paths") EXCEPT !.pages = "add", !.present = "existing"]],
    [opts |-> Plain, summary |-> EveryBucket, output |-> [Output("paths") EXCEPT !.pages = "add"]]}

Given(path, slug, status, label, stamp, size) ==
    [path |-> path, slug |-> slug, status |-> status, backend |-> "b", model |-> "", label |-> label, stamp |-> stamp, size |-> size]
MCGiven == {
    [tracks |-> tracks, artifacts |-> <<Given("a.json", s1, "legacy", "", t1, 5),
                                        Given("d/a.json", "n", "legacy", "a", 0, 0),
                                        Given("d/b", "", s3, "blocked", t3, 7)>>] :
      tracks \in {<<>>, <<[slug |-> "p", path |-> "a.json"]>>, <<[slug |-> "n", path |-> "d/b"], [slug |-> "p", path |-> ""]>>},
      s1 \in {"p", "n", ""}, t1 \in {0, 33, 34, 40, 50}, s3 \in {"legacy", "blocked"}, t3 \in {0, 3, 10}}
MCAskedOfGiven == {
    [opts |-> [Plain EXCEPT !.sort = By(by, desc), !.limit = 2], summary |-> [Largest EXCEPT !.sort = sort],
     output |-> Output("summary")] : by \in {"size", "age", "measured", "bucket", "text"}, desc \in BOOLEAN,
                sort \in {"average"}}
MCMaxMeasured == 3
-----------------------------------------------------------------------------
(* The transports                                                          *)

Usual(interim, delay) ==
    [interim |-> interim, final |-> 1000, depth |-> 1000, delay |-> delay, errors |-> 0, codes |-> <<>>,
     sent |-> 3, dropped |-> 0, finals |-> 1, successful |-> 1]
MCUsualSamples == ("tcp_ws" :> {Usual(1500, 1000)})
    @@ ("uds_ws" :> {Usual(1500, 1000)})
    @@ ("raw_uds" :> {Usual(1000, 1000)})
MCChunkLists == {<<>>, <<2, 1>>}
MCAlias == ("raw unix" :> "raw_uds") @@ ("websocket" :> "tcp_ws")
MCOptions == {[minRuns |-> NoValue, requireCpu |-> FALSE, minWin |-> 500],
    [minRuns |-> 3, requireCpu |-> FALSE, minWin |-> 500], [minRuns |-> NoValue, requireCpu |-> TRUE, minWin |-> 500],
    [minRuns |-> 0, requireCpu |-> FALSE, minWin |-> 500], [minRuns |-> NoValue, requireCpu |-> FALSE, minWin |-> 0]}
MCRunCounts == ("tcp_ws" :> {3}) @@ ("uds_ws" :> {3}) @@ ("raw_uds" :> {60})

Raw == Artifact("raw_uds", [i \in 1..3 |-> Usual(1000, 1000)])
Uds == Artifact("uds_ws", [i \in 1..3 |-> Usual(1500, 1000)])
With(field, value) == [Raw EXCEPT !.target = (field :> value) @@ @]
Without(fields) == [Raw EXCEPT !.target = [f \in DOMAIN @ \ fields |-> @[f]]]
Bucket(v) == [p \in DOMAIN Percentiles |-> v]
Spelled(metric, spelling, bucket) ==
    [Raw EXCEPT !.summary = (<<metric, spelling>> :> bucket)
        @@ [name \in DOMAIN @ \ {<<metric, "own">>} |-> @[name]]]
MCHandWritten ==
    {Without({f}) : f \in DOMAIN Raw.target \ {"url", "uds_path"}} \cup
    {With("uds_path", FALSE), With("fields", [FrameFields EXCEPT !.frame_header_bytes = 4]),
     With("frame_types", FrameTypes \ {"PONG"}), With("frame_type_codes", [FrameTypeCodes EXCEPT !["PING"] = 6]),
     With("frame_direction", [Directions EXCEPT !.client_to_server = FrameTypes]),
     With("lifecycle", <<"start", "audio">>), With("semantic_lifecycle", <<"start">>),
     [Without({"semantic_lifecycle"}) EXCEPT !.target.lifecycle = Append(@, "start")],
     With("error_handling", {}), With("error_codes", {}), With("shared_stream_runtime", FALSE),
     With("plugin_config", [transport |-> "uds_ws", same_path |-> FALSE]),
     With("start_control_payload", [StartControlPayload EXCEPT !.frame_ms = 10]),
     With("required_transports", {"raw_uds"}),
     Spelled("interim", "older", Bucket(1004)), Spelled("interim", "older each", Bucket(1006)),
     Spelled("interim", "own", [Bucket(900) EXCEPT !["p50"] = NoValue]),
     Spelled("final", "own each", Bucket(1004)), Spelled("delay", "own", Bucket(1100)),
     Spelled("errors", "none", Bucket(0)), Spelled("errors", "own", Bucket(100)),
     [Spelled("errors", "none", Bucket(0)) EXCEPT !.errorTotals = <<2>>],
     [Raw EXCEPT !.errorTotals = <<0, 2>>], [Raw EXCEPT !.cpu = <<NoValue, 30>>],
     [Raw EXCEPT !.samples[1] = (("cpu" :> 40) @@ @)],
     [Raw EXCEPT !.runs = <<>>], [Raw EXCEPT !.runs = <<>>, !.samples = <<>>], [Raw EXCEPT !.runs = <<NoValue, 1>>],
     [Raw EXCEPT !.inputs["source"] = <<2>>], [Raw EXCEPT !.inputs["source"] = <<>>],
     [Raw EXCEPT !.inputs["concurrency"] = <<>>], [Raw EXCEPT !.identity["model"] = <<1>>],
     [Raw EXCEPT !.kind = "other"], [Raw EXCEPT !.named = "missing"], [Raw EXCEPT !.named = "raw unix"],
     [Raw EXCEPT !.named = "websocket"], [Raw EXCEPT !.named = "websocket", !.direct = FALSE],
     [Uds EXCEPT !.target.uds_path = FALSE]}
=============================================================================

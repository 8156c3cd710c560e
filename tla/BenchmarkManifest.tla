------------------------- MODULE BenchmarkManifest -------------------------
(***************************************************************************)
(* What scripts/build_benchmark_manifest.py writes about a directory of    *)
(* benchmark artifacts: which artifact each tracked lane shows, what every *)
(* other artifact is, and the totals of the summary.                       *)
(*                                                                         *)
(* Artifacts are named by numbers, in the order of their file names; 0 is  *)
(* no artifact.  The payload of a file is a record with what decides:      *)
(*   asr        it is a benchmark of a recognizer,                         *)
(*   benched    its backend, model, device and compute, compute possibly   *)
(*              missing,                                                   *)
(*   date       its date_utc, 0 when it has none,                          *)
(*   transport, comparable, measured                                       *)
(*              the stream it was measured on, whether its live metrics    *)
(*              may be compared, and which of them it has,                 *)
(*   speed      the scores that are averages of its latencies, 0 for none, *)
(*   samples, size, signals                                                *)
(*              sample count, bytes, and where it has which system signal. *)
(***************************************************************************)
EXTENDS SortedSets, Sequences, FiniteSetsExt, SequencesExt

CONSTANTS
    Catalog,    \* the tracks of tracks.json, in its order
    NameDate,   \* the date an artifact's file name ends with, the first day of all
                \* for none
    PipecatE2E  \* the artifacts whose file names say they are of the whole pipeline

NoArtifact == 0
NoSlug == "none"
Places == {"environment", "system", "metrics"}

\* A lane names its artifact, or 0: the newest of its benchmarks.
CatalogAssumption ==
    \A i, j \in DOMAIN Catalog : Catalog[i].slug = Catalog[j].slug => i = j
ASSUME CatalogAssumption

-----------------------------------------------------------------------------
(* Reading one artifact                                                    *)

IsAsrPayload(p) == p.asr

ArtifactTimestamp(n, p) == IF p.date # 0 THEN p.date ELSE NameDate[n]

\* The key of a payload and of a lane say "default" for a missing compute; the
\* key of an entry is taken from its runtime label, which leaves it out.
Defaulted(compute) == IF compute = "missing" THEN "default" ELSE compute
BenchmarkKey(p) == <<p.benched.model, Defaulted(p.benched.compute)>>
TrackKey(t) == <<t.benched.model, Defaulted(t.benched.compute)>>
RuntimeLabel(b) == IF b.compute = "missing" THEN <<b.model>> ELSE <<b.model, b.compute>>
BenchmarkKeyFromEntry(e) ==
    IF Len(e.runtime) = 1 THEN <<e.runtime[1], "default">> ELSE e.runtime

\* The stream an artifact was measured on: an older name stands for the same.
Contract(p) ==
    LET canonical == IF p.transport = "local stt" THEN "v1-stt-stream" ELSE p.transport
    IN  [transport |-> canonical,
         path |-> CASE canonical = "v1-stt-stream" -> "/v1/stt/stream"
                    [] canonical \in {"direct", "ws/stream"} -> "/ws/stream"
                    [] canonical = "raw_uds" -> "raw_uds"
                    [] OTHER -> "unknown"]

\* A signal is there when any of the places it may be reported in has it.
ExtractSystemSignals(p) == UNION {p.signals[place] : place \in Places}

\* 94 and 55 in a hundred of the score of the measurements.
OverallScore(speed, status) ==
    speed * CASE status = "legacy" -> 94 [] status = "blocked" -> 55 [] OTHER -> 100

\* An artifact as it is when no lane has its key: legacy, and its own target.
BuildAsrEntry(n, p) ==
    [name |-> n, runtime |-> RuntimeLabel(p.benched), stamp |-> ArtifactTimestamp(n, p),
     samples |-> p.samples, size |-> p.size, contract |-> Contract(p),
     comparable |-> p.comparable, measured |-> p.measured, speed |-> p.speed,
     signals |-> ExtractSystemSignals(p), slug |-> NoSlug, status |-> "legacy", target |-> p.samples,
     score |-> OverallScore(p.speed, "legacy")]

\* The lane that has none.
NoEntry ==
    [name |-> NoArtifact, runtime |-> <<>>, stamp |-> 0, samples |-> 0, size |-> 0,
     contract |-> [transport |-> "unknown", path |-> "unknown"], comparable |-> FALSE,
     measured |-> FALSE, speed |-> 0, signals |-> {}, slug |-> NoSlug, status |-> "legacy",
     target |-> 0, score |-> 0]

-----------------------------------------------------------------------------
(* Lanes                                                                   *)

Listed(files) == {n \in DOMAIN files : IsAsrPayload(files[n])}

\* The first in the order of names among the newest with this key.
Latest(files, key) ==
    LET same == {n \in Listed(files) : BenchmarkKey(files[n]) = key}
        newest == {n \in same : \A m \in same :
                      ArtifactTimestamp(m, files[m]) <= ArtifactTimestamp(n, files[n])}
    IN  IF same = {} THEN NoArtifact ELSE Min(newest)

Shown(files, t) ==
    IF t.pinned # NoArtifact
        THEN IF t.pinned \in Listed(files) THEN t.pinned ELSE NoArtifact
        ELSE Latest(files, TrackKey(t))

TrackEntry(files, t) ==
    LET n == Shown(files, t)
        e == IF n = NoArtifact THEN NoEntry ELSE BuildAsrEntry(n, files[n])
    IN  [e EXCEPT !.slug = t.slug, !.status = t.status, !.runtime = RuntimeLabel(t.benched),
                  !.target = t.target, !.score = OverallScore(e.speed, t.status)]

StatusOrder(status) == CASE status = "validated" -> 0 [] status = "legacy" -> 1
                         [] status = "blocked" -> 2 [] OTHER -> 99

\* Validated lanes first, lanes without a score last, higher scores first.
Ranked(tracks) ==
    LET order == Sorted([i \in DOMAIN tracks |->
                            <<StatusOrder(tracks[i].status), -tracks[i].score, i>>])
    IN  [i \in DOMAIN tracks |-> tracks[order[i]]]

-----------------------------------------------------------------------------
(* The history                                                             *)

\* An artifact goes with the first lane of its key that fits it best: the lane
\* that shows it, or else one whose own was measured on the same stream, through
\* the whole pipeline too, or both.
HistoryMatchScore(e, t) ==
    3 * (IF t.name = e.name THEN 1 ELSE 0)
      + (IF {t.name, e.name} \subseteq PipecatE2E THEN 1 ELSE 0)
      + (IF t.name # NoArtifact /\ t.contract.transport = e.contract.transport THEN 1 ELSE 0)

MatchingTrack(e, tracks) ==
    LET same == {i \in DOMAIN tracks :
                    BenchmarkKeyFromEntry(tracks[i]) = BenchmarkKeyFromEntry(e)}
        best == {i \in same : \A j \in same :
                    HistoryMatchScore(e, tracks[j]) <= HistoryMatchScore(e, tracks[i])}
    IN  IF same = {} THEN {} ELSE {tracks[Min(best)]}

\* Current when its lane shows it, legacy when another artifact is shown there
\* or no lane has its key.
HistoryEntry(files, tracks, n) ==
    LET e == BuildAsrEntry(n, files[n])
        match == MatchingTrack(e, tracks)
        t == CHOOSE t \in match : TRUE
        status == IF t.name = n THEN t.status ELSE "legacy"
    IN  IF match = {} THEN e
        ELSE [e EXCEPT !.slug = t.slug, !.target = t.target, !.status = status,
                       !.score = OverallScore(e.speed, status)]

\* Newest first, and the last name first among equals.
History(files, tracks) ==
    Sorted([e \in {HistoryEntry(files, tracks, n) : n \in Listed(files)} |-> <<-e.stamp, -e.name>>])

CurrentPaths(tracks) == {t.name : t \in ToSet(tracks)} \ {NoArtifact}

-----------------------------------------------------------------------------
(* The summary                                                             *)

SizeOf(entries) == FoldSet(LAMBDA e, sum : e.size + sum, 0, entries)

Highlight(entries) ==
    LET scored == {e \in entries : e.speed # 0}
    IN  {e \in scored : \A f \in scored : f.score <= e.score}

LowPowerEvidence(entries) ==
    LET power == {e \in entries : "power" \in e.signals}
        thermal == {e \in entries : "thermal" \in e.signals}
    IN  [power |-> Cardinality(power), thermal |-> Cardinality(thermal),
         complete |-> Cardinality({e \in power \cap thermal : {"memory", "cpu"} \subseteq e.signals})]

SampleCoverage(entries) ==
    LET targeted == {e \in entries : e.target # 0}
    IN  [targeted |-> Cardinality(targeted),
         complete |-> Cardinality({e \in targeted : e.samples >= e.target}),
         partial |-> Cardinality({e \in targeted : e.samples < e.target})]

TransportCoverage(entries) ==
    [comparable |-> Cardinality({e \in entries : e.contract.path = "/v1/stt/stream" /\ e.comparable}),
     raw_uds |-> Cardinality({e \in entries : e.contract.transport = "raw_uds"})]

LiveComparable(tracks) ==
    {t \in ToSet(tracks) : /\ t.name # NoArtifact /\ t.status # "blocked"
                           /\ t.comparable /\ t.contract.transport = "v1-stt-stream"}

Summary(tracks, artifacts) ==
    LET history == ToSet(artifacts)
        stale == {e \in history : e.name \notin CurrentPaths(tracks) /\ e.status = "legacy"}
    IN  [files |-> Cardinality(history), bytes |-> SizeOf(history),
         stale_count |-> Cardinality(stale), stale_bytes |-> SizeOf(stale),
         published |-> Cardinality({t \in ToSet(tracks) : t.name # NoArtifact}),
         low_power |-> LowPowerEvidence(history), samples |-> SampleCoverage(history),
         transports |-> TransportCoverage(history),
         best |-> {t.slug : t \in Highlight(LiveComparable(tracks))}]

BuildManifest(files) ==
    LET tracks == [i \in DOMAIN Catalog |-> TrackEntry(files, Catalog[i])]
        artifacts == History(files, tracks)
    IN  [tracks |-> Ranked(tracks), artifacts |-> artifacts,
         summary |-> Summary(tracks, artifacts)]

\* The time of generation is left out: it does not count when manifests are
\* compared, and is kept when nothing else has changed.
ManifestsMatch(current, generated) == current = generated
=============================================================================

---------------------------- MODULE StaleReport ----------------------------
(***************************************************************************)
(* What scripts/report_stale_benchmark_artifacts.py makes of a manifest:   *)
(* the artifacts no lane shows, filtered and sorted, their summary by      *)
(* group, and the paths a cleanup would remove.                            *)
(*                                                                         *)
(* A text is a string in small letters, NoText a missing one; TextOrder    *)
(* lists the texts in their order.  What a path is made of, which text     *)
(* contains which, and which year, quarter, month, week and day a time     *)
(* falls in are constants.                                                 *)
(* Times count in ticks, TicksPerDay to a day, and 0 is no time.           *)
(***************************************************************************)
EXTENDS SortedSets, Sequences, FiniteSetsExt, SequencesExt

CONSTANTS
    TextOrder,      \* every text, in order
    TextOrderDown,  \* the same texts, in the order of their negated characters
    PathParts,      \* path -> its name, stem, dir and extension
    PageOf,         \* path of an artifact -> path of its detail page, NoText for none
    Contained,      \* text -> the texts it contains
    Calendar,       \* time -> its year, quarter, month, week and day
    TicksPerDay

NoText == ""

RankIn(order, text) == IF text \in ToSet(order) THEN CHOOSE i \in DOMAIN order : order[i] = text ELSE 0
Rank(text) == RankIn(TextOrder, text)

Families == {"artifact", "current", "page"}
PartNames == {"path", "name", "stem", "dir", "extension"}
Periods == {"year", "quarter", "month", "week", "day"}
Facts == {"slug", "status", "backend", "model", "label", "track_state", "age_bucket"} \cup Periods

\* SUMMARY_GROUPS: the parts of three paths and the facts of an entry.
SummaryGroups == (Families \X PartNames) \cup ({"fact"} \X Facts)

-----------------------------------------------------------------------------
(* Entries                                                                 *)

Parts(path) == IF path = NoText THEN [part \in PartNames |-> NoText]
               ELSE LET parts == PathParts[path]
                    IN  [path |-> path, name |-> parts.name, stem |-> parts.stem, dir |-> parts.dir,
                         extension |-> parts.extension]

DetailPagePath(path) == PageOf[path]

AgeBucketOrder == <<"0-6d", "7-29d", "30-89d", "90d+", "unknown">>
AgeBucket(days) ==
    CASE days = -1 -> "unknown" [] days \in 0..6 -> "0-6d" [] days \in 7..29 -> "7-29d"
      [] days \in 30..89 -> "30-89d" [] OTHER -> "90d+"

\* Whole days, never negative; -1 when the time is not known.
AgeDays(stamp, now) ==
    IF stamp = 0 THEN -1 ELSE IF stamp > now THEN 0 ELSE (now - stamp) \div TicksPerDay

Measured(stamp) == IF stamp = 0 THEN [period \in Periods |-> "unknown"] ELSE Calendar[stamp]

TracksShown(m) == {t \in ToSet(m.tracks) : t.path # NoText}
CurrentArtifactPaths_None(m) == {}
CurrentArtifactPaths(m) == {t.path : t \in TracksShown(m)}
CurrentPathBySlug(m, slug) ==
    LET tracks == {t \in TracksShown(m) : t.slug = slug /\ slug # NoText}
    IN  IF tracks = {} THEN NoText ELSE (CHOOSE t \in tracks : TRUE).path

Entry(m, a, now) ==
    LET current == CurrentPathBySlug(m, a.slug)
        days == AgeDays(a.stamp, now)
        when == Measured(a.stamp)
    IN  [artifact |-> Parts(a.path), current |-> Parts(current),
         page |-> Parts(DetailPagePath(a.path)),
         fact |-> [slug |-> a.slug, status |-> a.status, backend |-> a.backend,
                   model |-> a.model, label |-> a.label, age_bucket |-> AgeBucket(days),
                   track_state |-> IF current = NoText THEN "untracked" ELSE "tracked",
                   year |-> when.year, quarter |-> when.quarter, month |-> when.month,
                   week |-> when.week, day |-> when.day],
         stamp |-> a.stamp, age |-> days, size |-> a.size]

Value(e, group) == e[group[1]][group[2]]

-----------------------------------------------------------------------------
(* Filters: a set of words for an attribute, one of which must be the      *)
(* value, or with "contains" be contained in it.  A missing value is       *)
(* looked for under a name of its own, or never found.  (A missing current *)
(* path has three names, of which "untracked" stands for all.)             *)

LookedFor_AsIs(group, contains, value) == value

LookedFor(group, contains, value) ==
    IF value # NoText THEN value
    ELSE CASE group[2] = "extension" -> "none"
           [] group[2] = "dir"       -> "."
           [] group = <<"current", "path">> /\ ~contains -> "untracked"
           [] OTHER                  -> NoText

\* Labels and models are always looked for as part of the value.
MatchesPart(filter) == filter.contains \/ filter.group \in {"fact"} \X {"label", "model"}

Admits(filter, e) ==
    LET text == LookedFor(filter.group, filter.contains, Value(e, filter.group))
    IN  IF MatchesPart(filter) THEN text # NoText /\ Contained[text] \cap filter.words # {}
        ELSE text \in filter.words

\* Without a filter on the status only legacy artifacts are reported.
StatusAllowed(opts, e) ==
    LET asked == {f \in opts.filters : f.group = <<"fact", "status">>}
    IN  asked = {} => e.fact.status = "legacy"

None == -1

\* What is asked for when no option is given; options have many spellings.
StaleSorts == {"size", "age", "measured", "bucket", "text"}
EveryArtifact(now) ==
    [filters |-> {}, now |-> now, olderThan |-> None, newerThan |-> None, before |-> None, after |-> None,
     minSize |-> None, maxSize |-> None, limit |-> None,
     sort |-> [by |-> "size", desc |-> TRUE, group |-> <<"artifact", "path">>]]

\* The earlier of the two upper bounds, 0 for none.
Cutoff(opts) ==
    LET bounds == (IF opts.olderThan = None THEN {} ELSE {opts.now - TicksPerDay * opts.olderThan})
                    \cup (IF opts.before = None THEN {} ELSE {opts.before})
    IN  IF bounds = {} THEN None ELSE Min(bounds)

\* An artifact whose time is not known passes no bound.
InTime(opts, e) ==
    /\ Cutoff(opts) # None => e.stamp # 0 /\ e.stamp < Cutoff(opts)
    /\ opts.after # None => e.stamp # 0 /\ e.stamp > opts.after
    /\ opts.newerThan # None => e.age # -1 /\ e.age <= opts.newerThan

InSize(opts, e) ==
    /\ opts.minSize # None => e.size >= opts.minSize
    /\ opts.maxSize # None => e.size <= opts.maxSize

\* Options the script refuses: bounds that exclude each other, and periods
\* that no artifact can have.
ValidOptions(opts) ==
    /\ opts.sort.by \in StaleSorts
    /\ opts.minSize # None /\ opts.maxSize # None => opts.minSize <= opts.maxSize
    /\ opts.olderThan # None /\ opts.newerThan # None => opts.olderThan <= opts.newerThan
    /\ Cutoff(opts) # None /\ opts.after # None => opts.after < Cutoff(opts)
    /\ \A f \in opts.filters : f.group[2] \in Periods /\ ~f.contains => "unknown" \notin f.words

\* What a missing value is called in the summary.
Placeholder(group) ==
    IF group[2] = "extension" THEN "none"
    ELSE CASE group[1] = "current" \/ group = <<"fact", "slug">> -> "untracked"
           [] group[1] = "page"                                 -> "missing"
           [] OTHER                                             -> "unknown"

-----------------------------------------------------------------------------
(* The report                                                              *)

Farthest == 1000000

SortText(group, e) ==
    LET value == Value(e, group)
    IN  IF value # NoText THEN value
        ELSE IF group[2] = "dir" THEN "."
        ELSE IF group[1] = "fact" THEN Placeholder(group) ELSE NoText

\* What decides between equals before the path does; the path itself for most.
Second(group) ==
    CASE group[2] = "dir" -> <<group[1], "name">>
      [] group \in {"current"} \X {"name", "stem", "extension"} \cup {<<"page", "extension">>} -> <<group[1], "path">>
      [] group \in {"fact"} \X {"status", "track_state"} -> <<"fact", "slug">>
      [] group = <<"fact", "backend">> -> <<"fact", "model">>
      [] group \in {"fact"} \X {"model", "label"} -> <<"fact", "backend">>
      [] OTHER -> <<"artifact", "path">>

\* Descending, some attributes turn the whole order round, some compare negated
\* characters, where what a text begins with and a missing text come first, and
\* the others negate the characters and put missing texts last.
TurnedRound(group) ==
    \/ group[2] = "dir"
    \/ group \in {<<"artifact", "path">>, <<"page", "path">>, <<"current", "name">>, <<"current", "stem">>}
ByCharacter(group) == group \in ({"artifact", "page"} \X {"name", "stem"}) \cup ({"fact"} \X Periods)

TextSortKey(group, desc, e) ==
    LET text == Rank(SortText(group, e))
        second == Rank(SortText(Second(group), e))
        path == Rank(e.artifact.path)
        both == group \in {"fact"} \X {"backend", "model", "label", "track_state"}
    IN  IF ~desc THEN <<text, second, path>>
        ELSE IF TurnedRound(group) THEN <<-text, -second, -path>>
        ELSE IF ByCharacter(group) THEN <<RankIn(TextOrderDown, SortText(group, e)), path>>
        ELSE <<-text, IF both THEN -second ELSE second, path>>

\* An unknown age or time comes last, but its bucket first when descending.
StaleSortKey(sort, e) ==
    LET path == Rank(e.artifact.path)
        bucket == CHOOSE i \in DOMAIN AgeBucketOrder : AgeBucketOrder[i] = e.fact.age_bucket
        age == IF e.age = -1 THEN Farthest ELSE e.age
    IN  CASE sort.by = "size" -> <<IF sort.desc THEN -e.size ELSE e.size, path>>
          [] sort.by = "age" -> <<IF sort.desc THEN -e.age ELSE age, path>>
          [] sort.by = "measured" -> <<IF e.stamp = 0 THEN Farthest ELSE IF sort.desc THEN -e.stamp ELSE e.stamp, path>>
          [] sort.by = "bucket" -> IF sort.desc THEN <<-bucket, -e.age, path>> ELSE <<bucket, age, path>>
          [] sort.by = "text" -> TextSortKey(sort.group, sort.desc, e)

StaleArtifacts(m, opts) ==
    LET entries == {Entry(m, a, opts.now) : a \in {a \in ToSet(m.artifacts) :
                        a.path # NoText /\ a.path \notin CurrentArtifactPaths(m)}}
        stale == {e \in entries : /\ \A f \in opts.filters : Admits(f, e)
                                  /\ StatusAllowed(opts, e)
                                  /\ InTime(opts, e) /\ InSize(opts, e)}
    IN  Sorted([e \in stale |-> StaleSortKey(opts.sort, e)])

LimitArtifacts(stale, limit) == IF limit = None THEN stale ELSE SubSeq(stale, 1, Min({limit, Len(stale)}))

TotalSize(entries) == FoldSeq(LAMBDA e, sum : e.size + sum, 0, entries)

-----------------------------------------------------------------------------
(* The summary                                                             *)

BucketName(e, group) == IF Value(e, group) = NoText THEN Placeholder(group) ELSE Value(e, group)

\* Heaviest first, then by name.
StaleSummary(stale, group) ==
    LET names == {BucketName(e, group) : e \in ToSet(stale)}
        bucket(name) == LET same == SelectSeq(stale, LAMBDA e : BucketName(e, group) = name)
                        IN  [name |-> name, count |-> Len(same), size |-> TotalSize(same)]
    IN  Sorted([b \in {bucket(name) : name \in names} |-> <<-b.size, Rank(b.name)>>])

\* An age bucket sorts by its age when the summary is sorted by name.
SummaryBucketSortKey(group, sort, b) ==
    LET aged == group = <<"fact", "age_bucket">>
        name == IF aged THEN CHOOSE i \in DOMAIN AgeBucketOrder : AgeBucketOrder[i] = b.name ELSE Rank(b.name)
        average == (b.size * 1000) \div b.count
    IN  CASE sort = "average"     -> <<-average, -b.size, Rank(b.name)>>
          [] sort = "average-asc" -> <<average, b.size, Rank(b.name)>>
          [] sort = "count"       -> <<-b.count, -b.size, Rank(b.name)>>
          [] sort = "count-asc"   -> <<b.count, b.size, Rank(b.name)>>
          [] sort = "name"        -> <<name>>
          [] sort = "name-desc"   -> <<-name>>
          [] sort = "size-asc"    -> <<b.size, Rank(b.name)>>
          [] sort = "size"        -> <<-b.size, Rank(b.name)>>

SummarySorts == {"average", "average-asc", "count", "count-asc", "name", "name-desc", "size-asc", "size"}

\* What a summary is asked for: a number of buckets, and which of them.
EveryBucket == [limit |-> None, minCount |-> None, maxCount |-> None, minSize |-> None,
                maxSize |-> None, sort |-> "size"]

FilteredBuckets(buckets, group, s) ==
    LET admitted == {b \in ToSet(buckets) :
                        /\ s.minCount # None => b.count >= s.minCount
                        /\ s.maxCount # None => b.count <= s.maxCount
                        /\ s.minSize # None => b.size >= s.minSize
                        /\ s.maxSize # None => b.size <= s.maxSize}
    IN  Sorted([b \in admitted |-> SummaryBucketSortKey(group, s.sort, b)])

LimitSummaryBuckets(buckets, group, s) ==
    LET filtered == FilteredBuckets(buckets, group, s)
    IN  IF s.limit = None THEN filtered ELSE SubSeq(filtered, 1, Min({s.limit, Len(filtered)}))

ValidSummary(s) ==
    /\ s.sort \in SummarySorts
    /\ s.minCount # None /\ s.maxCount # None => s.minCount <= s.maxCount
    /\ s.minSize # None /\ s.maxSize # None => s.minSize <= s.maxSize

\* The line for the buckets that are not shown.
Omitted(buckets, shown, group, s) ==
    LET filtered == FilteredBuckets(buckets, group, s)
        rest == SubSeq(filtered, Len(shown) + 1, Len(filtered))
    IN  [count |-> Len(rest), size |-> TotalSize(rest)]

-----------------------------------------------------------------------------
(* Outputs                                                                 *)

\* The paths to remove; exists says which are there, and which of them counts.
RenderPaths(stale, exists, output) ==
    LET wanted(path) == /\ path # NoText
                        /\ output.present = "existing" => path \in exists
                        /\ output.present = "missing" => path \notin exists
        named == (IF output.pages = "only" THEN {} ELSE {e.artifact.path : e \in ToSet(stale)})
                   \cup (IF output.pages = "no" THEN {} ELSE {e.page.path : e \in ToSet(stale)})
    IN  {path \in named : wanted(path)}

ListFormats == {"text", "markdown", "json", "json-lines", "csv"}
SummaryFormats == {"summary", "json-summary", "summary-csv", "summary-markdown"}

\* One output at a time, and the options of an output only with it.
ValidOutput(output, s) ==
    /\ [s EXCEPT !.sort = "size"] # EveryBucket => output.format \in SummaryFormats
    /\ output.pages # "no" \/ output.present # "any" => output.format = "paths"

\* Summaries and totals are of the whole report, lists are cut at the limit.
Main(m, opts, output, exists) ==
    LET stale == StaleArtifacts(m, opts)
        limited == LimitArtifacts(stale, opts.limit)
    IN  [listed  |-> IF output.format \in ListFormats \cup {"paths"} THEN limited ELSE <<>>,
         summary |-> IF output.format \in SummaryFormats THEN stale ELSE <<>>,
         paths   |-> IF output.format = "paths" THEN RenderPaths(limited, exists, output) ELSE {},
         count   |-> Len(stale), bytes |-> TotalSize(stale),
         omitted |-> [count |-> Len(stale) - Len(limited), size |-> TotalSize(stale) - TotalSize(limited)],
         exit    |-> IF output.failOnStale /\ stale # <<>> THEN 1 ELSE 0]
=============================================================================

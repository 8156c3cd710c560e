--------------------------- MODULE BenchmarkSite ---------------------------
(***************************************************************************)
(* The benchmark site: artifacts are measured, build_benchmark_manifest.py *)
(* writes a manifest of them, prerender_benchmark_homepage.py writes the   *)
(* homepage and a detail page per artifact from the manifest, and          *)
(* report_stale_benchmark_artifacts.py names what may be removed.  The     *)
(* steps are run by hand or by make, in any order, so each of them finds   *)
(* the others' output as new or as old as it happens to be.                *)
(***************************************************************************)
EXTENDS BenchmarkManifest, StaleReport

CONSTANTS
    PayloadsOf,     \* artifact -> what may be measured into its file
    PathOf,         \* artifact -> its path
    Slug,           \* slug of a lane or NoSlug -> its text
    Asked,          \* the options reports are asked for on this site
    GivenManifests, \* manifests of other sites, read from a file or standard input
    AskedOfGiven,   \* the options reports of those are asked for
    MaxMeasured     \* how often an artifact is measured

VARIABLES
    files,      \* artifact -> payload
    manifest,   \* manifest.json, or NoManifest
    homepage,   \* what docs/index.html, sitemap.xml and llms.txt say, or NoHomepage
    pages,      \* artifact -> its detail page
    report,     \* the last report, or NoReport
    measured    \* how many measurements there have been

\* Files have numbers from 1, and a date is one.
SiteAssumption ==
    /\ DOMAIN PayloadsOf \subseteq Nat \ {NoArtifact}
    /\ \A n \in DOMAIN PayloadsOf : NameDate[n] \in Nat
    /\ \A n \in DOMAIN PayloadsOf : \A p \in PayloadsOf[n] :
          IsAsrPayload(p) => p.date \in Nat /\ p.speed \in Nat
    /\ Catalog \in Seq(ToSet(Catalog))
ASSUME SiteAssumption

\* Artifacts are in one directory and pages in another, and a page is called as
\* its artifact.  Sizes, times and the number of lines asked for are numbers.
ReportAssumption ==
    /\ \A n \in DOMAIN PayloadsOf :
          /\ PathOf[n] # NoText /\ PathOf[n] \in ToSet(TextOrder)
          /\ \A k \in DOMAIN PayloadsOf :
                /\ PathOf[n] = PathOf[k] => n = k
                /\ PathOf[n] # DetailPagePath(PathOf[k])
                /\ DetailPagePath(PathOf[n]) = DetailPagePath(PathOf[k]) =>
                      n = k \/ DetailPagePath(PathOf[n]) = NoText
    /\ \A n \in DOMAIN PayloadsOf : \A p \in PayloadsOf[n] : IsAsrPayload(p) => p.size \in Nat
    /\ TextOrder \in Seq(ToSet(TextOrder)) /\ TextOrderDown \in Seq(ToSet(TextOrderDown))
    /\ TicksPerDay \in Nat \ {0}
    /\ \A asked \in Asked : asked.opts.now \in Nat /\ asked.opts.limit \in Nat \cup {None}
ASSUME ReportAssumption

siteVars == <<files, manifest, homepage, pages, report, measured>>

NoManifest == [tracks |-> <<>>]
NoHomepage == [page |-> {}]
NoReport == [from |-> "nothing"]

-----------------------------------------------------------------------------
(* The homepage                                                            *)

PublishedTracks(m) == {t \in ToSet(m.tracks) : t.name # NoArtifact /\ t.status # "blocked"}

\* Lanes that can be compared, those with all live metrics if there are any.
PrimaryEntries(m) ==
    LET comparable == {t \in PublishedTracks(m) : t.comparable}
        complete == {t \in comparable : t.measured}
    IN  IF complete # {} THEN complete ELSE comparable

SecondaryEntries(m) ==
    {t \in PublishedTracks(m) : \A p \in PrimaryEntries(m) : p.slug # t.slug}

ContractSignature(e) == <<e.contract, e.comparable>>

\* Of each published lane, the newest legacy artifact measured on another stream.
HistoricalSupportingEntries(m) ==
    LET published == PublishedTracks(m)
        older(t) == {i \in DOMAIN m.artifacts :
                        LET e == m.artifacts[i]
                        IN  /\ e.slug = t.slug /\ e.status = "legacy"
                            /\ \A p \in published : p.name # e.name
                            /\ ContractSignature(e) # ContractSignature(t)}
    IN  {m.artifacts[Min(older(t))] : t \in {t \in published : older(t) # {}}}

\* Validated lanes before legacy ones, then by score.
Best(entries) ==
    {e \in entries : \A f \in entries :
        \/ StatusOrder(e.status) < StatusOrder(f.status)
        \/ StatusOrder(e.status) = StatusOrder(f.status) /\ e.score >= f.score}

RenderHomepage(m) ==
    [linked |-> {e.name : e \in PrimaryEntries(m) \cup SecondaryEntries(m)
                                  \cup HistoricalSupportingEntries(m)},
     ranked |-> {<<e.slug, e.score>> : e \in PrimaryEntries(m)},
     best |-> {e.slug : e \in Best(PrimaryEntries(m))},
     summary |-> m.summary]

\* Every artifact, with the latest time an entry of it has.
RenderSitemap(m) ==
    LET of(n) == {e \in ToSet(m.tracks) \cup ToSet(m.artifacts) : e.name = n}
    IN  [n \in {e.name : e \in ToSet(m.artifacts)} |-> Max({e.stamp : e \in of(n)})]

\* What llms.txt tells other programs: the lanes to look at, the one to use, and
\* the artifacts that can be read.  (It stops at eight or twelve of each.)
RenderLlms(m) ==
    [primary |-> {e.slug : e \in PrimaryEntries(m)}, recommended |-> {e.slug : e \in Best(PrimaryEntries(m))},
     pages |-> {e.name : e \in ToSet(m.artifacts)}, artifacts |-> {e.name : e \in PublishedTracks(m)}]

RenderSite(m) == [page |-> RenderHomepage(m), sitemap |-> RenderSitemap(m), llms |-> RenderLlms(m)]

\* The lane that shows an artifact speaks for it.
DetailEntry(m, e) ==
    LET shown == {t \in ToSet(m.tracks) : t.name = e.name}
    IN  IF shown # {} THEN CHOOSE t \in shown : TRUE ELSE e

\* A page says what its entry says, and what is in the file if it is there.
RenderDetailPage(entry, payloads) == [entry |-> entry, file |-> payloads]

RenderDetailPages(m, fs) ==
    LET of(n) == CHOOSE e \in ToSet(m.artifacts) : e.name = n
    IN  [n \in {e.name : e \in ToSet(m.artifacts)} |->
            RenderDetailPage(DetailEntry(m, of(n)), {fs[f] : f \in DOMAIN fs \cap {n}})]

OrphanedDetailPages_None(rendered, current) == {}
OrphanedDetailPages(rendered, current) == DOMAIN current \ DOMAIN rendered

\* make benchmark-site-check: both scripts with --check.
ManifestChecks == manifest # NoManifest /\ ManifestsMatch(manifest, BuildManifest(files))
SiteChecks ==
    LET rendered == RenderDetailPages(manifest, files)
    IN  /\ homepage = RenderSite(manifest)
        /\ \A n \in DOMAIN rendered : n \in DOMAIN pages /\ pages[n] = rendered[n]
        /\ OrphanedDetailPages(rendered, pages) = {}

-----------------------------------------------------------------------------

SiteInit ==
    /\ files = <<>>
    /\ manifest = NoManifest
    /\ homepage = NoHomepage
    /\ pages = <<>>
    /\ report = NoReport
    /\ measured = 0

\* A benchmark writes its artifact, a new file or over one of the same name.
Measure ==
    /\ measured < MaxMeasured
    /\ \E n \in DOMAIN PayloadsOf : \E p \in PayloadsOf[n] :
         /\ files' = [f \in DOMAIN files \cup {n} |-> IF f = n THEN p ELSE files[f]]
         /\ report' = IF report = NoReport \/ n \notin DOMAIN files THEN report
                      ELSE [report EXCEPT !.overwritten = TRUE]
    /\ measured' = measured + 1
    /\ UNCHANGED <<manifest, homepage, pages>>

Build ==
    /\ manifest' = BuildManifest(files)
    /\ UNCHANGED <<files, homepage, pages, report, measured>>

\* Pages nothing links any more are removed, the others written again.
Prerender ==
    /\ manifest # NoManifest
    /\ homepage' = RenderSite(manifest)
    /\ pages' = LET rendered == RenderDetailPages(manifest, files)
                    kept == DOMAIN pages \ OrphanedDetailPages(rendered, pages)
                IN  [n \in DOMAIN rendered \cup kept |->
                        IF n \in DOMAIN rendered THEN rendered[n] ELSE pages[n]]
    /\ UNCHANGED <<files, manifest, report, measured>>

\* A manifest as the report reads it.
AsRead(m) ==
    [tracks |-> [i \in DOMAIN m.tracks |->
        [slug |-> Slug[m.tracks[i].slug],
         path |-> IF m.tracks[i].name = NoArtifact THEN NoText ELSE PathOf[m.tracks[i].name]]],
     artifacts |-> [i \in DOMAIN m.artifacts |->
        LET e == m.artifacts[i]
        IN  [path |-> PathOf[e.name], slug |-> Slug[e.slug], status |-> e.status,
             backend |-> NoText, model |-> NoText, label |-> NoText, stamp |-> e.stamp, size |-> e.size]]]

Existing == {PathOf[n] : n \in DOMAIN files} \cup {DetailPagePath(PathOf[n]) : n \in DOMAIN pages}

Accepted(asked) ==
    /\ ValidOptions(asked.opts)
    /\ ValidOutput(asked.output, asked.summary)
    /\ ValidSummary(asked.summary)

\* make benchmark-artifact-cleanup-plan builds its own manifest; --manifest takes
\* the one that was written.
Report ==
    /\ \E from \in {"files", "manifest"}, asked \in Asked :
         LET m == IF from = "files" THEN BuildManifest(files) ELSE manifest
         IN  /\ m # NoManifest /\ Accepted(asked)
             /\ report' = [from |-> "here", read |-> AsRead(m), asked |-> asked, summary |-> m.summary,
                           fresh |-> m = BuildManifest(files), overwritten |-> FALSE,
                           said |-> Main(AsRead(m), asked.opts, asked.output, Existing)]
    /\ UNCHANGED <<files, manifest, homepage, pages, measured>>

\* The report of a manifest from elsewhere.
ReportGiven ==
    /\ measured = 0 /\ report = NoReport
    /\ \E m \in GivenManifests, asked \in AskedOfGiven :
         /\ Accepted(asked)
         /\ report' = [from |-> "elsewhere", read |-> m, asked |-> asked, fresh |-> FALSE,
                       overwritten |-> FALSE, said |-> Main(m, asked.opts, asked.output, {})]
    /\ UNCHANGED <<files, manifest, homepage, pages, measured>>

\* Somebody removes what the report names.
CleanUp ==
    /\ report.from = "here"
    /\ files' = [n \in {n \in DOMAIN files : PathOf[n] \notin report.said.paths} |-> files[n]]
    /\ pages' = [n \in {n \in DOMAIN pages : DetailPagePath(PathOf[n]) \notin report.said.paths} |-> pages[n]]
    /\ report' = NoReport
    /\ UNCHANGED <<manifest, homepage, measured>>

\* A report of a manifest from elsewhere ends the run: nothing comes of it.
SiteNext ==
    /\ report.from # "elsewhere"
    /\ Measure \/ Build \/ Prerender \/ Report \/ ReportGiven \/ CleanUp

SiteSpec == SiteInit /\ [][SiteNext]_siteVars

-----------------------------------------------------------------------------
(* Properties                                                              *)

\* Removing what an up-to-date report names takes no lane its artifact or its
\* page, however many artifacts were measured in the meantime: a new file may
\* take a lane's place, but none that was stale comes back to be shown.  Only a
\* file that was measured again under the same name is removed unseen
\* (report_stale_benchmark_artifacts.py:3933, build_benchmark_manifest.py:1415).
CurrentSurvives ==
    [][ (CleanUp /\ report.fresh /\ ~report.overwritten) =>
        \A i \in DOMAIN Catalog :
            LET n == Shown(files, Catalog[i])
            IN  /\ Shown(files', Catalog[i]) = n
                /\ n \in DOMAIN pages => n \in DOMAIN pages' ]_siteVars

\* When make benchmark-site-check passes, whatever was run before and in which
\* order: every link of the homepage leads to a page and to an artifact, every
\* artifact has its page, with the figures of the file that is there, the sitemap
\* and llms.txt say the same, and the lane that is recommended is backed by an
\* artifact of its own
\* (prerender_benchmark_homepage.py:1513).
ChecksHonest ==
    ManifestChecks /\ SiteChecks =>
        /\ homepage.page.linked \subseteq DOMAIN pages
        /\ DOMAIN pages = Listed(files)
        /\ homepage.sitemap = [n \in DOMAIN pages |-> ArtifactTimestamp(n, files[n])]
        /\ homepage.llms.recommended = homepage.page.best
        /\ \A n \in DOMAIN pages :
             /\ pages[n].file = {files[n]}
             /\ pages[n].entry.stamp = ArtifactTimestamp(n, files[n])
             /\ pages[n].entry.size = files[n].size
        /\ \A slug \in homepage.page.best : \E i \in DOMAIN Catalog :
             Catalog[i].slug = slug /\ Catalog[i].status # "blocked" /\ Shown(files, Catalog[i]) # NoArtifact

\* The report and the manifest, two scripts, agree on what is stale.
AgreesWithManifest ==
    report.from = "here" =>
        LET all == StaleArtifacts(report.read, EveryArtifact(report.asked.opts.now))
        IN  Len(all) = report.summary.stale_count /\ TotalSize(all) = report.summary.stale_bytes

\* The buckets of a group account for the whole report, shown or omitted.
BucketsPartition(stale, s) ==
    \A group \in SummaryGroups :
        LET buckets == StaleSummary(stale, group)
            shown == LimitSummaryBuckets(buckets, group, s)
            every == [EveryBucket EXCEPT !.limit = s.limit, !.sort = s.sort]
            head == LimitSummaryBuckets(buckets, group, every)
            rest == Omitted(buckets, head, group, every)
        IN  /\ TotalSize(head) + rest.size = TotalSize(stale)
            /\ Len(head) + rest.count = Cardinality({BucketName(e, group) : e \in ToSet(stale)})
            /\ ToSet(shown) \subseteq ToSet(buckets)

\* The groups whose buckets a filter can ask for by the name the summary prints,
\* also when the value is missing.
ByName(group) ==
    \/ group[2] = "extension"
    \/ group[1] = "artifact"
    \/ group = <<"current", "path">>
    \/ group \in {"fact"} \X {"track_state", "age_bucket"}

\* Asking for the name of a bucket reports the artifacts of the bucket: the
\* filters, the entries and the summary name a missing value alike.
BucketsCanBeAskedFor(m, opts, stale) ==
    \A group \in {group \in SummaryGroups : ByName(group)} :
        \A bucket \in ToSet(StaleSummary(stale, group)) :
            LET asked == [opts EXCEPT !.filters = @ \cup
                            {[group |-> group, contains |-> FALSE, words |-> {bucket.name}]}]
            IN  ToSet(StaleArtifacts(m, asked)) = {e \in ToSet(stale) : BucketName(e, group) = bucket.name}

\* An artifact whose time is known is older than a number of days or newer, or
\* both on the day itself; one whose time is not known is neither.
OlderOrNewer(m, opts, stale) ==
    \A days \in {0, 1, 6, 7, 30} :
        LET unbounded == [opts EXCEPT !.before = None, !.after = None, !.olderThan = None, !.newerThan = None]
            older == ToSet(StaleArtifacts(m, [unbounded EXCEPT !.olderThan = days]))
            newer == ToSet(StaleArtifacts(m, [unbounded EXCEPT !.newerThan = days]))
        IN  older \cup newer = {e \in ToSet(StaleArtifacts(m, unbounded)) : e.stamp # 0}

\* What a report says adds up, whatever it was asked: with the manifest, over
\* its groups, from a bucket back to its artifacts and over time
\* (report_stale_benchmark_artifacts.py:3635, 4676, 5792).
ReportAccounts ==
    report # NoReport =>
        LET m == report.read
            opts == report.asked.opts
            stale == StaleArtifacts(m, opts)
        IN  /\ AgreesWithManifest
            /\ BucketsPartition(stale, report.asked.summary)
            /\ BucketsCanBeAskedFor(m, opts, stale)
            /\ OlderOrNewer(m, opts, stale)
=============================================================================

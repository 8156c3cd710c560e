SPECIFICATION MCSpec
CONSTANTS
 Catalog <- MCCatalog
 NameDate <- MCNameDate
 PipecatE2E = {2, 3}
 TextOrder <- MCTextOrder
 TextOrderDown <- MCTextOrderDown
 PathParts <- MCPathParts
 PageOf <- MCPageOf
 Contained <- MCContained
 Calendar <- MCCalendar
 TicksPerDay = 1
 PayloadsOf <- MCPayloadsOf
 PathOf <- MCPathOf
 Slug <- MCSlug
 Asked <- MCAsked
 GivenManifests <- MCGiven
 AskedOfGiven <- MCAskedOfGiven
 MaxMeasured = 3
 ChunkLists <- MCChunkLists
 Latencies = {1000, 1500}
 MaxPartials = 1
 Followed = {"raw_uds"}
 UsualSamples <- MCUsualSamples
 RunCounts <- MCRunCounts
 HandWritten <- MCHandWritten
 Alias <- MCAlias
 Options <- MCOptions
 Chunk = 3
 Cap = 7
 ServerCap = 7
 MaxFrames = 14
CHECK_DEADLOCK FALSE
INVARIANTS ChecksHonest ReportAccounts SampleHonest OneDecision RecommendationEarned CapRespected AudioAccounted FinalsFirst
PROPERTIES CurrentSurvives FrameReturns

SPECIFICATION MCSpec
CONSTANTS
    Parts = {"assistant", "import", "catalog", "crawl"}
    Callers = {c1, c2}
    Imports <- MCImports
    Files = {"s", "t", "a", "u"}
    FilesOf <- MCFilesOf
    Blocked = {"three"}
    Tickets = 1
    MaxCrashes = 2
    MaxPicked = 2
    Envelopes <- MCEnvelopes
    MaxPending = 2
    PlanLifetime = 1
    MaxTime = 1
    MaxPlans = 4
    Pages <- MCPages
    Start = 1
    Origin <- MCOrigin
    Related = {"docs", "api"}
    Candidates <- MCCandidates
    WellKnown <- MCWellKnown
    LinkLists <- MCLinkLists
    MaxPages = 3
    MaxRedirects = 1
    MaxDocument = 1
    MaxTotal = 2
    MaxDepth = 2
    MaxLinksPerDocument = 2
    MaxTotalLinks = 3
    MaxOrigins = 2
    Evidence <- Documents
    Origins = {"a", "b"}
    OriginOf <- SiteOf
    MaxEvidence = 3
    MaxTurns = 4
    MaxToolCalls = 2
    MaxRetries = 2
    MaxOutput = 5
    Estimates = {1, 2}
SYMMETRY CallerSymmetry
INVARIANTS SnapshotRestores UserDecides ImportsAreSound CatalogIsSound CrawlIsSound
CHECK_DEADLOCK FALSE

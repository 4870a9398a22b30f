SPECIFICATION MCSpec
CONSTANTS
    Manifests = {"m"}
    Threads = {t1, t2}
    First = t1
    MaxRequests = 1
    MaxCrashes = 1
    MaxVaultFailures = 1
    MaxRefusals = 1
    MaxSelections = 1
    Evidence <- Documents
    Origins = {"a", "b"}
    OriginOf <- SiteOf
    MaxEvidence = 2
    MaxTurns = 2
    MaxToolCalls = 1
    MaxRetries = 1
    MaxOutput = 2
    Estimates = {1}
SYMMETRY Callers
INVARIANTS CommitIsAccountedFor SessionIsSound ApprovalIsBound
PROPERTIES NewerSelectionWins CallsAreAccountedFor
CHECK_DEADLOCK FALSE

SPECIFICATION Spec
CONSTANTS
    Threads = {t1, t2}
    Manifests = {m1}
    m1 = m1
    t1 = t1
    t2 = t2
    MaxRequests = 1
    MaxCrashes = 0
    MaxVaultFailures = 0
    MaxRefusals = 0
    MaxSelections = 0
INVARIANT ReadyHasCredential
CHECK_DEADLOCK FALSE

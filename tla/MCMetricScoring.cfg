SPECIFICATION Spec
CONSTANTS
    Request <- MCRequest
    N = 3
    ContentOf <- MCContentOf
    TenantOf <- MCTenantOf
    Query <- MCQuery
    Metrics <- MCMetrics
    MaxConcurrency = 1
    MaxTime = 1
    MaxInterrupts = 1
    MaxEntries = 2
    Ttl = 1
    None = None
INVARIANTS
    OwnFreshScores
    RecentlyUsedKept
    NothingLeftRunning
PROPERTY
    ScoringEnds
CHECK_DEADLOCK FALSE

SPECIFICATION PlanSpec
CONSTANTS
    None = None
    Unit = 2
    ConfigBatch = 3
    SmallLimit = 2
    MediumLimit = 3
    Bm25Min = 2
    Bm25Multiplier = 1
    EmbeddingMin = 1
    EmbeddingMultiplier = 1
    Asks <- MCAsks
INVARIANTS
    PlanAdmitted
    OfflineStaysLocal
    CascadeKeepsEnough
    RoutesOrdered
CHECK_DEADLOCK FALSE

SPECIFICATION Spec
CONSTANTS
    N = 3
    NRoutes = 2
    ConfigBatch = 8
    None = None
    Requests <- MCRequests
INVARIANTS
    PlanIsChain
    OkMeansAsPlanned
    NothingLostSilently
CHECK_DEADLOCK FALSE

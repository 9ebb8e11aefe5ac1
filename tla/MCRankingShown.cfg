SPECIFICATION Spec
CONSTANTS
    N = 3
    NRoutes = 2
    ConfigBatch = 8
    None = None
    Requests <- ShownRequests
INVARIANTS
    RoutesShown
CHECK_DEADLOCK FALSE

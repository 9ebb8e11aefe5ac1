SPECIFICATION FairSpec
CONSTANTS
    Task = {t1, t2}
    Closer = {k1, k2}
    MaxNest = 2
    Capacity = 2
    MaxEvents = 3
INVARIANTS
    BackendClosedIdle
    ObserverClosedForGood
    EventsAccounted
PROPERTIES
    CloseEnds
CHECK_DEADLOCK FALSE

SPECIFICATION FairSpec
CONSTANTS
    Job = {j1, j2, j3}
    Closer = {k1}
    Slots = 1
    MaxCancels = 2
INVARIANTS
    SlotsBalance
PROPERTIES
    DrainSpec
    WorkEnds
CHECK_DEADLOCK FALSE

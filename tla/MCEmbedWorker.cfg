SPECIFICATION FairSpec
CONSTANTS
    Job = {j1, j2, j3}
    Closer = {k1, k2}
INVARIANTS
    OneEncoder
PROPERTIES
    DrainSpec
    WorkEnds
CHECK_DEADLOCK FALSE

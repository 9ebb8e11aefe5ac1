SPECIFICATION FairSpec
CONSTANTS
    None = None
    NRoutes = 2
    NGroups = 3
    Window = 2
    MaxConcurrency = 1
    MaxAttempts = 2
    Checkpoint = {english, multilingual}
    MaxInterrupts = 1
    MaxCalls = 5
    MaxTokens = 10
    HasDeadline = TRUE
    Estimates <- MCEstimates
    Reports <- MCReports
INVARIANTS
    NothingLeftBehind
    OneModelScores
    CallsAccounted
    PlainInterruptStops
PROPERTIES
    StageEnds
CHECK_DEADLOCK FALSE

SPECIFICATION Spec
CONSTANTS
    Exec = {e1, e2, e3}
    MaxAttempts = 2
    MaxCalls = 5
    MaxTokens = 8
    MaxCost = 4
    StrictCost = TRUE
    HasDeadline = TRUE
    Estimates <- MCEstimates
    Reports <- MCReports
    None = None
SYMMETRY ExecSymmetry
INVARIANTS
    CallsWithinBudget
    Balanced
PROPERTIES
    RaisedWhenOver
CHECK_DEADLOCK FALSE

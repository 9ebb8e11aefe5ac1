SPECIFICATION FairSpec
CONSTANTS
    c1 = c1
    c2 = c2
    c3 = c3
    text = text
    id1 = id1
    None = None
    Content = {text}
    ContentOf <- MCContentOf
    IdsOf <- MCIdsOf
    Caller = {c1, c2, c3}
    AllowPartial = {c3}
    Cacheable = {c1, c2, c3}
INVARIANTS
    WaitersCounted
    TasksOwned
    ResponsesFit
PROPERTIES
    SharedSpec
    CallersEnd
CHECK_DEADLOCK FALSE

SPECIFICATION Spec
CONSTANTS
    Call <- MCCall
    Closer <- MCCloser
    Id = {i1}
    Stranger = stranger
    Provider = "laya"
    MaxAttempts = 3
    InitialBackoff = 1
    MaxBackoff = 2
    JitterPercent = 50
    RetryAfters <- MCRetryAfters
    AllowPartial <- MCAllowPartial
    None = None
INVARIANTS
    AttemptsTold
    RetryAfterRespected
    TransportsClosed
CHECK_DEADLOCK FALSE

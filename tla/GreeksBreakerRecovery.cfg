SPECIFICATION FairCircuitSpec
CONSTANTS
    Callers = {c1, c2}
    Keys = {k}
    FailureThreshold = 2
    HalfOpenMaxCalls = 3
    MinimumSample = 5
    TimeoutDuration = 1
    RollingWindow = 1
    CacheTtl = 0
    MaxRequests = 4
    MaxCount = 8
PROPERTY RecoversByItself

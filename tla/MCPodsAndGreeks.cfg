SPECIFICATION PartsSpec
CONSTANTS
    Unregisterers = {monitor}
    RedisFails = TRUE
    p1 = p1
    p2 = p2
    i1 = i1
    i2 = i2
    i3 = i3
    i4 = i4
    Pods <- TwoPods
    Instruments <- FourInstruments
    Distance <- TwoDistance
    SyncedRings <- TwoSyncedRings
    Capacity = 3

    Callers = {c1, c2, c3}
    Keys = {k}
    FailureThreshold = 2
    HalfOpenMaxCalls = 1
    MinimumSample = 3
    TimeoutDuration = 2
    RollingWindow = 1
    CacheTtl = 1
    MaxRequests = 3
    MaxCount = 6
INVARIANTS
    TypeOK
    AssignedAgrees
    LeavingIsDraining
    CircuitTypeOK
    ClosedBelowThreshold
    NoProbeBeforeTimeout
    ProbesBoundedByCallers
PROPERTIES
    UnregisterEnds
    OpenIsLeft

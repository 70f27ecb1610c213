SPECIFICATION Spec
CONSTANTS
    r1 = r1
    r2 = r2
    Reloads <- Pair
    Guarded = DATABASE_URL
    Params = {DATABASE_URL, REDIS_URL}
    v1 = v1
    v2 = v2
    bad = bad
    Values <- MCValues
    Valid <- MCValid
    MaxPublish = 5
    FailureThreshold = 3
    HalfOpenMaxCalls = 2
    EmergencyAfter = 2
    Outcomes = {"done", "swallowed", "raised"}
    Answers = {"value", "nothing", "raised"}
    Operator = TRUE
CHECK_DEADLOCK FALSE
SYMMETRY Symmetry
INVARIANTS
    TypeOK
    GuardedIsSound
    QuietIsLatest
PROPERTIES
    FailuresStop
    NoReloadWhileOpen

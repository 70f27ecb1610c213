SPECIFICATION PartsSpec
CONSTANTS
    Callers = {"a", "b", "c"}
    FailureThreshold = 3
    RecoveryTimeout = 2

    ann = ann
    greeks = greeks
    service = service
    Requests = {"r1", "r2"}
    Users = {ann}
    Endpoints = {greeks}
    Service = service
    Limit <- MCLimit
    Window = 2

    Loads = {75, 95, 100}
    Quiet = 2
    Cooldown = 2

    Calls = {"r1", "r2"}
    Clients = {"c1", "c2", "c3"}
    UserTiers = {"free", "premium"}
    FreeTier = "free"
    ApiTiers = {"premium"}
    AccessLimit <- MCAccessLimit
    RateWindow = 1
    MaxConnections <- MCMaxConnections
    CacheTTL = 1
    Flight = 1

    job = job
    Jobs = {job}
    Tier <- MCTier
    Askers = {"u1", "u2"}
    Loop = "loop"
    CheckInterval = 2
    AlertCooldown = 2

    Instances = {"i1", "i2"}
    Interval = 1
    InstanceTTL = 2
    AggregateTTL = 1
    BeatTime = 0

    Served = {"r1", "r2"}
    NoRequest = "no"
    Tests = {"t1", "t2"}
    Budgets = {1, 4}

    Fetchers = {"f1", "f2", "f3"}
    MaxFailures = 2
    Cooling = 2

    Executions = {"e1", "e2"}
    Names = {"p", "q"}
    MaxConcurrent = 1
    NoExecution = "none"
CHECK_DEADLOCK FALSE
INVARIANT BudgetPromise
PROPERTIES
    BreakersPromise
    QuotasPromise
    OverloadPromise
    ThresholdsPromise
    HealthPromise

SPECIFICATION PartsSpec
CONSTANTS
    s1 = s1
    s2 = s2
    s3 = s3
    Clients = {"ann", "bob"}
    Sockets = {s1, s2, s3}
    SubKeys = {"k1"}
    Owner <- MCOwner
    NoSocket = NoSocket

    fast = fast
    slow = slow
    Users = {"u1", "u2"}
    Frequencies = {fast, slow}
    Interval <- MCInterval
    ComputeTime = 1
    NoFeed = NoFeed

    Processors = {"p1"}
    Instruments = {"n1", "n2"}
    Configurable = {"n1"}
    Assigned = {"n1"}
    MaxTicks = 2
    ReadCount = 2
    MaxCrashes = 1

    ConfigKeys = {"k1", "k2"}
    Handlers = {"h1", "h2"}
    MaxMessages = 3

    Tasks = {"t1", "t2"}
    RetryAttempts = 3
    NoTask = NoTask

    Updaters = {"u1", "u2"}
    Spots = {100, 102}
    LiveTTL = 1
    LongTTL = 3
    Flight = 1
    NoGreeks = NoGreeks
CHECK_DEADLOCK FALSE
INVARIANTS
    ConnectionsPromise
    FeedPromise
    TicksPromise
PROPERTIES
    ConfigsPromise
    RegistryPromise
    GreeksPromise

SPECIFICATION PartsSpec
CONSTANTS
    StopIds = {"i1", "i2"}
    Objects = {"o1", "o2"}
    Prices = {10, 11, 13}
    InitialStops = {10, 13}
    TrailValue = 2
    MaxDeviation = 20
    Nobody = Nobody

    n1 = n1
    n2 = n2
    Traded = {n1, n2}
    Openers = {"o1", "o2"}
    Closers = {"c1"}
    Stoppers = {"s1"}
    MaxPositions = 2
    SectorLimit = 1

    AlertIds = {"a1", "a2"}
    Watchables = {n1, n2}
    MaxCheckFailures = 2

    Enrichable = {n1, n2}
    Enrichers = {"e1", "e2"}
    MaxCacheSize = 1
    OuterTTL = 1
    InnerTTL = 1
    RegistryTTL = 2
    RegistryTime = 1

    BrokerTypes = {"kite", "mock"}
    Simulated = {"mock"}
    Creations = {"m1", "m2"}
    Placements = {"b1", "b2"}
    Slots = 1
    Nothing = Nothing
CHECK_DEADLOCK FALSE
INVARIANTS
    ClientsPromise
PROPERTIES
    StopsPromise
    StrategyPromise
    AlertPromise

SPECIFICATION PartsSpec
CONSTANTS
    t1 = t1
    t2 = t2
    t3 = t3
    t4 = t4
    Tasks <- MCTasks
    Priority <- MCPriority
    HashOf <- MCHashOf
    NumWorkers = 2
    LocalQueueLimit = 3
    StealBatchSize = 1
    StealThreshold = 2
    MaxRetries = 1
    MaxBatch = 2

    w1 = w1
    w2 = w2
    Processes = {w1, w2}
    Symbols = {"s"}
    MayStop = {w2}
    RedisFails = TRUE
CHECK_DEADLOCK FALSE
INVARIANTS
    TypeOK
    Placed
PROPERTIES
    AffinityPromise
    ImplementsTaskPool
    EveryTaskSettles

SPECIFICATION AffinityFairSpec
CONSTANTS
    w1 = w1
    w2 = w2
    Processes <- BothWorkers
    Symbols = {s}
    MayStop = {}
    RedisFails = FALSE
PROPERTY ClaimedIsConsumed

SPECIFICATION Spec
CONSTANTS
    quotes = quotes
    depth = depth
    other = other
    here = here
    there = there
    both = both
    unknown = unknown
    c1 = c1
    c2 = c2
    s1 = s1
    s2 = s2
    s3 = s3
    s4 = s4
    Users = {u}
    NoTopic = none
    Topics <- MCTopics
    InstrumentOf <- MCInstrumentOf
    Subs <- MCSubs
    Calls <- MCCalls
    Tokens <- MCTokens
    StorageMap <- MCStorageMap
    UtilityMap <- MCUtilityMap
    HardLimit = 2
    Limits = {1, 2}
SYMMETRY Symmetry
INVARIANTS
    TypeOK
    IndexesAgree
    DuplicatesBounded
PROPERTY LimitsBounded

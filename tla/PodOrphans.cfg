SPECIFICATION FairSpec
CONSTANTS
    Unregisterers = {shutdown}
    RedisFails = FALSE
    p1 = p1
    p2 = p2
    i1 = i1
    i2 = i2
    i3 = i3
    i4 = i4
    Pods <- TwoPods
    Instruments <- FourInstruments
    Distance <- TwoDistance
    SyncedRings <- NoSyncedRings
    Capacity = 4
PROPERTY NoOrphans

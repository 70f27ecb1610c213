SPECIFICATION TicksSpec
CONSTANTS
    Processors = {"p1"}
    Instruments = {"n1"}
    Configurable = {"n1"}
    Assigned = {"n1"}
    MaxTicks = 1
    ReadCount = 1
    MaxCrashes = 1
PROPERTIES
    ProcessorReads
CHECK_DEADLOCK FALSE

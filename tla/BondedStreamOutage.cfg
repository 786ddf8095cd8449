CONSTANTS
    WindowSize = 3
    SoftTimeout = 1
    HardTimeout = 2
    MaxSequence = 4
    MaxDropped = 1
    Capacity = 5
    Paths = {1}
    MayFail = {1}
    CacheCapacity = 5
    MaxWireLoss = 0
SPECIFICATION FairStreamSpec
PROPERTIES OutageIsPassed
CHECK_DEADLOCK FALSE

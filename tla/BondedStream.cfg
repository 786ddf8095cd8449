CONSTANTS
    WindowSize = 3
    SoftTimeout = 1
    HardTimeout = 2
    MaxSequence = 3
    MaxDropped = 1
    Capacity = 2
    Paths = {1, 2}
    MayFail = {1, 2}
    CacheCapacity = 2
    MaxWireLoss = 1
SPECIFICATION FairStreamSpec
INVARIANTS StreamTypeOK
PROPERTIES KeepsPromise LossIsPassed
CHECK_DEADLOCK FALSE

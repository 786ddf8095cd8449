SPECIFICATION FairSpec
CONSTANTS
    WindowSize = 3
    SoftTimeout = 1
    HardTimeout = 2
    MaxSequence = 3
    MaxDropped = 1
PROPERTIES NoStall

CONSTANTS
    N = 2
    FixedPorts = {2}
    MaxFaults = 2
SPECIFICATION FairSpec
INVARIANTS TypeOK UsablePathHasSocket
PROPERTIES FailedPathRecovers DeadPathSettlesFailed EngineTracksPaths
CHECK_DEADLOCK FALSE

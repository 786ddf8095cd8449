CONSTANTS
    MaxGeneration = 3
    ChecksRunning = TRUE
SPECIFICATION FairSpec
INVARIANTS TypeOK ReadyIsCurrent NoOrphan
PROPERTIES PhaseEnds DeathNoticed
CHECK_DEADLOCK FALSE

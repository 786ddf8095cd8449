\* Two cores, the second started once the first is over.
SPECIFICATION Spec
CONSTANTS
    MaxJobs = 2
    MaxCores = 1
    Modes <- MCModes
INVARIANTS TypeOK PortsAreHeld
PROPERTIES EverythingEnds EndsWithItsParts
CHECK_DEADLOCK FALSE

SPECIFICATION Spec
CONSTANTS
    PageSizes <- SmallTableWithMore
    CheckpointEvery = 1
    MaxFresh = 2
    MaxFaults = 0
    MaxCrashes = 2
    MaxLosses = 0
CHECK_DEADLOCK FALSE
INVARIANTS
    NothingIsLost

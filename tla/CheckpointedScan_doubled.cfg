SPECIFICATION Spec
CONSTANTS
    PageSizes <- SmallTable
    CheckpointEvery = 1
    MaxFresh = 1
    MaxFaults = 0
    MaxCrashes = 1
    MaxLosses = 0
CHECK_DEADLOCK FALSE
INVARIANTS
    NothingIsDoubled

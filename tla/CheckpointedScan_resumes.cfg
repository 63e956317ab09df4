SPECIFICATION Spec
CONSTANTS
    PageSizes <- TwoSegments
    CheckpointEvery = 2
    MaxFresh = 2
    MaxFaults = 1
    MaxCrashes = 3
    MaxLosses = 1
CHECK_DEADLOCK FALSE
INVARIANTS
    CheckpointIsBehindTheOutput
    CompleteMeansWhole

SPECIFICATION Spec
CONSTANTS
    w1 = w1
    w2 = w2
    Writers <- OneWriter
    MaxSegment = 2
    MaxSealAttempts = 3
    MaxSweepSeals = 2
    MaxWrites = 3
    MaxDay = 3
    MaxFaults = 1
    MaxTorn = 1
    MaxCrashes = 2
CHECK_DEADLOCK FALSE
INVARIANTS
    TypeOK
    SealsAreTrue
PROPERTIES
    SweepLeavesNothingBehind
    TrailOnlyGrows

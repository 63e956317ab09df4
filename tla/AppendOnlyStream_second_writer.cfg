SPECIFICATION Spec
CONSTANTS
    w1 = w1
    w2 = w2
    Writers <- TwoWriters
    MaxSegment = 2
    MaxSealAttempts = 1
    MaxSweepSeals = 2
    MaxWrites = 2
    MaxDay = 1
    MaxFaults = 0
    MaxTorn = 0
    MaxCrashes = 0
CHECK_DEADLOCK FALSE
INVARIANTS
    RotationSealsAreComplete

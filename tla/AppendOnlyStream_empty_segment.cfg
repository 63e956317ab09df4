SPECIFICATION Spec
CONSTANTS
    w1 = w1
    w2 = w2
    Writers <- OneWriter
    MaxSegment = 2
    MaxSealAttempts = 1
    MaxSweepSeals = 2
    MaxWrites = 2
    MaxDay = 2
    MaxFaults = 0
    MaxTorn = 0
    MaxCrashes = 1
CHECK_DEADLOCK FALSE
INVARIANTS
    OnlyTheLastIsEmpty

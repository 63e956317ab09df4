SPECIFICATION Spec
CONSTANTS
    w1 = w1
    w2 = w2
    Writers <- OneWriter
    MaxSegment = 3
    MaxSealAttempts = 1
    MaxSweepSeals = 2
    MaxWrites = 2
    MaxDay = 1
    MaxFaults = 0
    MaxTorn = 1
    MaxCrashes = 1
CHECK_DEADLOCK FALSE
INVARIANTS
    AcknowledgedAreReadable

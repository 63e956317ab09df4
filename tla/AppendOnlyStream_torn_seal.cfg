SPECIFICATION Spec
CONSTANTS
    w1 = w1
    w2 = w2
    Writers <- OneWriter
    MaxSegment = 1
    MaxSealAttempts = 2
    MaxSweepSeals = 2
    MaxWrites = 3
    MaxDay = 1
    MaxFaults = 0
    MaxTorn = 1
    MaxCrashes = 0
CHECK_DEADLOCK FALSE
INVARIANTS
    ManifestStaysReadable

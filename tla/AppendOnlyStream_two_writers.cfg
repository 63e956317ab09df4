SPECIFICATION Spec
CONSTANTS
    w1 = w1
    w2 = w2
    Writers <- TwoWriters
    MaxSegment = 1
    MaxSealAttempts = 1
    MaxSweepSeals = 2
    MaxWrites = 2
    MaxDay = 2
    MaxFaults = 0
    MaxTorn = 1
    MaxCrashes = 0
SYMMETRY WriterSymmetry
CHECK_DEADLOCK FALSE
PROPERTIES
    StreamImplementsLog

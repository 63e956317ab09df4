SPECIFICATION Spec
CONSTANTS
    w1 = w1
    w2 = w2
    Watchers <- MCWatchers
    BufferSize = 2
    MaxBacklog = 2
    MaxEvents = 3
    MaxDrops = 1
    MaxRestarts = 1
SYMMETRY MCSymmetry
INVARIANTS
    TypeOK
    CompletedMeansComplete
PROPERTIES
    NoSilentLoss
CHECK_DEADLOCK FALSE

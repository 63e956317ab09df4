SPECIFICATION Spec
CONSTANTS
    w1 = w1
    w2 = w2
    Watchers <- MCOneWatcher
    BufferSize = 2
    MaxBacklog = 2
    MaxEvents = 2
    MaxDrops = 0
    MaxRestarts = 0
INVARIANTS
    CompleteResponsesSayWhy
CHECK_DEADLOCK FALSE

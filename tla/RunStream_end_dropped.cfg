SPECIFICATION Spec
CONSTANTS
    w1 = w1
    w2 = w2
    Watchers <- MCOneWatcher
    BufferSize = 2
    MaxBacklog = 2
    MaxEvents = 3
    MaxDrops = 1
    MaxRestarts = 0
INVARIANTS
    EndFramePrecedesEnd
CHECK_DEADLOCK FALSE

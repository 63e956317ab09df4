SPECIFICATION FairSpec
CONSTANTS
    w1 = w1
    w2 = w2
    Watchers <- MCOneWatcher
    BufferSize = 2
    MaxBacklog = 2
    MaxEvents = 3
    MaxDrops = 2
    MaxRestarts = 1
PROPERTIES
    WatchersAreTold
    DropsAreAnnounced
CHECK_DEADLOCK FALSE

SPECIFICATION FairSpec
CONSTANTS
    plain = plain
    stream = stream
    launch = launch
    addStep = addStep
    probe = probe
    Requests <- MCRequests
    KindOf <- MCKindOf
    GracePeriod = TRUE
INVARIANTS
    TypeOK
    StoreOutlivesDrainedRuns
PROPERTIES
    ShutdownCompletes
CHECK_DEADLOCK FALSE

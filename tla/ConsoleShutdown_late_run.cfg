SPECIFICATION Spec
CONSTANTS
    plain = plain
    stream = stream
    launch = launch
    addStep = addStep
    probe = probe
    Requests <- MCRequests
    KindOf <- MCKindOf
    GracePeriod = FALSE
INVARIANTS
    StoreOutlivesRuns
CHECK_DEADLOCK FALSE

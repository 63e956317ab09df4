SPECIFICATION Spec
CONSTANTS
    r1 = r1
    r2 = r2
    r3 = r3
    r4 = r4
    r5 = r5
    a = a
    b = b
    Scripts <- MCScripts
    Runs <- MCRuns
    ScriptOf <- MCScriptOf
    SpawnScripts <- MCScripts
    Outcomes = {"success", "interrupted"}
    MaxConcurrency = 2
    MaxPerScript = 1
    QueueCapacity = 2
    MaxClock = 1
    MaxFaults = 2
    MaxCrashes = 1
SYMMETRY MCSymmetry
INVARIANTS
    TypeOK
    ReservationsMatchRows
    LimitsHold
    PumpSeesEveryQueuedRow
    WorkConserving
    FeedMatchesRows
    MemoryMatchesRows
PROPERTIES
    NoOvertaking
    DrainStartsNothingQueued
    ImplementsLifecycle
CHECK_DEADLOCK FALSE

SPECIFICATION FairSpec
CONSTANTS
    r1 = r1
    r2 = r2
    r3 = r3
    r4 = r4
    r5 = r5
    a = a
    b = b
    Scripts <- MCScripts
    Runs <- MCFewRuns
    ScriptOf <- MCFewScriptOf
    SpawnScripts <- MCScripts
    Outcomes = {"success", "interrupted"}
    MaxConcurrency = 1
    MaxPerScript = 1
    QueueCapacity = 2
    MaxClock = 0
    MaxFaults = 0
    MaxCrashes = 1
PROPERTIES
    QueuedRunsLeave
    DrainCompletes
    CancelledRunsEnd
CHECK_DEADLOCK FALSE

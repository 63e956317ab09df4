SPECIFICATION Spec
CONSTANTS
    r1 = r1
    r2 = r2
    r3 = r3
    Requests <- MCRequests
    Phase <- MCPhase
    MaxFaults = 2
    MaxRestarts = 2
    MaxDrops = 1
CHECK_DEADLOCK FALSE
INVARIANTS
    TypeOK
    NothingGoesUnaudited
    FailuresAreCompensated
    IndexLacksOnlyTheMissed

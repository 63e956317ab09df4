SPECIFICATION Spec
CONSTANTS
    r1 = r1
    r2 = r2
    r3 = r3
    Requests <- MCRequests
    Phase <- MCPhase
    MaxFaults = 1
    MaxRestarts = 1
    MaxDrops = 0
CHECK_DEADLOCK FALSE
PROPERTIES
    BootRecoversTheIndex

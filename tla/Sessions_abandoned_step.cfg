SPECIFICATION Spec
CONSTANTS
    s1 = s1
    s2 = s2
    q1 = q1
    q2 = q2
    q3 = q3
    q4 = q4
    SessionIds <- MCSessionIds
    Requests <- MCPair
    SessionOf <- MCPairSessionOf
    BindsTo <- MCPairBindsTo
    Selects = {}
    Outcomes = {"success", "interrupted"}
    OpenSessionsMax = 1
    TotalMax = 2
    MaxFaults = 0
    MaxRestarts = 0
INVARIANTS
    EndedRunsEndTheirSteps
CHECK_DEADLOCK FALSE

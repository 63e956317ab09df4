SPECIFICATION FairSpec
CONSTANTS
    s1 = s1
    s2 = s2
    q1 = q1
    q2 = q2
    q3 = q3
    q4 = q4
    SessionIds <- MCSessionIds
    Requests <- MCRequests
    SessionOf <- MCSessionOf
    BindsTo <- MCBindsTo
    Selects = {q4}
    Outcomes = {"success", "interrupted"}
    OpenSessionsMax = 1
    TotalMax = 2
    MaxFaults = 1
    MaxRestarts = 1
INVARIANTS
    TypeOK
    BoundStepsHaveResults
    StepsFollowTheirRuns
    NoStartedStepIsForgotten
PROPERTIES
    StepsImplementLifecycle
    RunningStepsEnd
CHECK_DEADLOCK FALSE

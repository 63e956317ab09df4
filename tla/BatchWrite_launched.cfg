SPECIFICATION Spec
CONSTANTS
    Chunks = 3
    ItemsOf <- MCItemsOf
    Limit = 2
    MaxAttempts = 3
    MaxFaults = 1
CHECK_DEADLOCK FALSE
PROPERTIES
    FailureStopsLaunches

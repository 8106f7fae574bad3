SPECIFICATION FairSpec
CONSTANTS
    s1 = s1
    s2 = s2
    Client <- MCClient
    Ids <- MCIds
    MaxFaults = 1
PROPERTIES WaiterServed
CHECK_DEADLOCK FALSE

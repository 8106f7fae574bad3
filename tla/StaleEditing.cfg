SPECIFICATION StaleSpec
CONSTANTS
    s1 = s1
    s2 = s2
    Client <- MCClient
    Ids <- MCIds
    MaxFaults = 2
SYMMETRY Symmetry
INVARIANT CleanupIsNotWrite
CHECK_DEADLOCK FALSE

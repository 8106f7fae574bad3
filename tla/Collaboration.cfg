SPECIFICATION ManagerSpec
CONSTANTS
    s1 = s1
    s2 = s2
    Client <- MCClient
    Ids <- MCIds
    MaxFaults = 2
SYMMETRY Symmetry
INVARIANTS NoGhostRequest WriterKeepsLock
PROPERTIES OneWritesAtATime
CHECK_DEADLOCK FALSE

SPECIFICATION Spec
CONSTANTS
    s1 = s1
    s2 = s2
    r1 = r1
    r2 = r2
    r3 = r3
    Session <- MCSession
    Request <- MCRequest
    Owner <- MCOwner
    Priority <- MCPriority
    Offset <- MCOffset
    Ttl = 1
    Skew = 1
    Retries = 2
    MaxCommits = 4
    MaxTime = 2
INVARIANTS CancelIsFinal OnePerSession
PROPERTIES FirstComeFirstServed WaitersLeaveInTurn
CHECK_DEADLOCK FALSE

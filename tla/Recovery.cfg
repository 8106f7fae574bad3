SPECIFICATION MirrorSpec
CONSTANTS
    Session <- MCSession
    Edit <- MCEdit
    Keep = 1
    MaxCaptures = 4
    MaxBackups = 2
    QueueSize = 1
    Nothing = Nothing
INVARIANTS ReplaceableIsSafe WorkKept DrainIsHonest
PROPERTIES MirrorIsLog FullQueueClears
CHECK_DEADLOCK FALSE

SPECIFICATION MCSpec
CONSTANTS
    anna = anna
    math = math
    art = art
    Student <- MCStudent
    Class <- MCClass
    Planned <- MCPlanned
    Capacity <- MCCapacity
    MaxDay = 1
    MaxContracts = 1
    Legacy = FALSE
    first = first
    second = second
    MonthDays <- MCMonthDays
    Contract <- MCContract
    Due <- MCDue
    Amount = {1}
    Months = {1}
    Sample <- MCSample
    MaxRows = 1
    MaxAdjust = 0
    Other = Other
    Unlinked = Unlinked
    MaxTransitions = 6
    MaxSteps = 6
SYMMETRY Symmetry
INVARIANTS SnapshotKept
CHECK_DEADLOCK FALSE

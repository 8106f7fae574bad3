SPECIFICATION MCSpec
CONSTANTS
    anna = anna
    math = math
    art = art
    Student <- MCStudent
    Class <- MCClass
    Planned <- MCPlanned
    Capacity <- MCCapacity
    MaxDay = 2
    MaxContracts = 3
    Legacy = TRUE
    first = first
    second = second
    MonthDays <- MCMonthDays
    Contract <- MCContract
    Due <- MCDue
    Amount = {1}
    Months = {1}
    Sample <- MCSample
    MaxRows = 2
    MaxAdjust = 2
    Other = Other
    Unlinked = Unlinked
    MaxTransitions = 5
    MaxSteps = 6
SYMMETRY Symmetry
INVARIANTS OneActive ArchivedIsEmpty
           PeriodsDisjoint CountedOnce CreditKeepsPayment
PROPERTIES HistoryKept ClosedPeriodKept
CHECK_DEADLOCK FALSE

SPECIFICATION MCReaderSpec
SYMMETRY MCSymmetry
CONSTANTS
    e1 = e1
    e2 = e2
    Days <- MCDays
    MonthEnd <- MCMonthEnd
    Segs <- MCSegs
    Events <- MCEvents
    EventDay <- MCEventDay
    LateDays = 1
    RetentionDays = 3
    MaxCopies = 1
    CrashLoses = FALSE
    MaxFaults = 0
    LastToday = 4
INVARIANTS
    AnswerComplete
CHECK_DEADLOCK FALSE

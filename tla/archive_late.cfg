SPECIFICATION MCLateSpec
SYMMETRY MCSymmetry
CONSTANTS
    e1 = e1
    e2 = e2
    Days <- MCDays
    MonthEnd <- MCMonthEnd
    Segs <- MCSegs
    Events <- MCEvents
    EventDay <- MCEventDay
    LateDays = 2
    RetentionDays = 2
    MaxCopies = 2
    CrashLoses = TRUE
    MaxFaults = 0
    LastToday = 4
PROPERTIES
    NoLogInExpiredMonth
CHECK_DEADLOCK FALSE

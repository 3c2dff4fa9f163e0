SPECIFICATION MCSpec
SYMMETRY MCSymmetry
CONSTANTS
    e1 = e1
    e2 = e2
    Days <- MCDays
    MonthEnd <- MCMonthEnd
    Segs <- MCSegs
    Events <- MCEvents
    EventDay <- MCEventDay
    LateDays = 1
    RetentionDays = 3
    MaxCopies = 2
    CrashLoses = TRUE
    MaxFaults = 2
    LastToday = 4
INVARIANTS
    TypeOK
    AckedReadable
    SeenIsAcked
    CountedOnce
    TornIsClosed
    MergedIsFinal
    MonthHoldsDays
PROPERTIES
    NoLogInExpiredMonth
    ImplementsEventStore

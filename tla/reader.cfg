SPECIFICATION MCReaderFairSpec
CONSTANTS
    e1 = e1
    e2 = e2
    Days <- MCDays
    MonthEnd <- MCMonthEnd
    Segs <- MCSegs
    Events <- MCEvents
    EventDay <- MCTwoMonthDays
    LateDays = 1
    RetentionDays = 3
    MaxCopies = 1
    CrashLoses = FALSE
    MaxFaults = 2
    LastToday = 4
INVARIANTS
    AnswerCountsOnce
    AnswerMissesOnlyReborn
PROPERTIES
    PassCatchesUp

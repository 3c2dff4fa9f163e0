SPECIFICATION DerivedSpec
CONSTANTS
    l1 = l1
    l2 = l2
    l3 = l3
    l4 = l4
    Lots = {l1, l2, l3, l4}
    DayOfLot <- MCDayOfLot
    RetainedFor = 1
    LastDate = 3
    LastPass = 3
    MaxPassFaults = 1
INVARIANTS
    ExpiredAreForgotten
CHECK_DEADLOCK FALSE

SPECIFICATION SdkSpec
CONSTANTS
    Tabs = {t1, t2}
    SentEvents = {e1}
    DayLength = 2
    LateWindow = 2
    ReplayAge = 1
    MaxStored = 2
    MaxLosses = 3
    LastTick = 4
INVARIANTS
    BeaconedReplaysYoung
CHECK_DEADLOCK FALSE

SPECIFICATION MonitorFairSpec
CONSTANTS
    Monitors = {m1}
    Pools = {1, 2}
    CheckMaxAge = 0
    LastTime = 2
    MaxFaults = 2
INVARIANTS
    ServedIsReported
PROPERTIES
    RunsOnce
    EndsForItsOwnReason
    EveryRequestEnds

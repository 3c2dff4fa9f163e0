SPECIFICATION Spec
CONSTANTS
    Parts = {"logs"}
    Servers = {ingest, console}
    RotateEvery = 2
    Midnights = {2, 4}
    LastHour = 4
    MaxSalts = 3
    MaxSaltFaults = 1
    Visitors = {v1, v2}
    RowAge = 2
    MissAge = 1
    LastMoment = 3
    MaxVersion = 2
    Paths = {a, b}
    Readers = {q1, q2}
    MaxBytes = 2
    Chunk = 2
    MaxSize = 3
    MaxRotations = 2
    LogLines = {x, y, z}
    x = x
    y = y
    z = z
    Length <- MCLength
    Askers = {q1, q2}
    MaxFiles = 2
    MaxShort = 1
    MaxBytesOfLog = 3
    Tabs = {t1, t2}
    SentEvents = {e1}
    DayLength = 2
    LateWindow = 2
    ReplayAge = 1
    MaxStored = 2
    MaxLosses = 2
    LastTick = 4
    ManyCalls <- MCCalls
    MaxScans = 2
    MaxConsumers = 4
    ScanItems = {i1, i2}
    TurnBytes = 3
    ScanWorkers = 2
    ScanAttempts = 2
    MaxTroubles = 2
    Producers = {a1, a2, a3}
    l1 = l1
    l2 = l2
    l3 = l3
    l4 = l4
    Lots = {l1, l2, l3, l4}
    DayOfLot <- MCDayOfLot
    RetainedFor = 1
    LastDate = 3
    LastPass = 2
    MaxPassFaults = 1
    Projects = {p1}
    Threads = {r1, r2}
    NoThread = NoThread
    MaxWrites = 2
    MaxFailures = 1
    Watchers = {m1, m2}
    DailyEvery = 3
    DailyRetry = 2
    LastRetryHour = 3
    MaxReadings = 2
    MaxEdits = 2
    MaxRestarts = 1
    Callers = {c1, c2}
    Made = 3
    MaxDashboards = 4
    MaxCalls = 2
    MaxArchivings = 2
    MaxWriteFaults = 1
INVARIANTS
    AnswerIsLogAlways
CHECK_DEADLOCK FALSE

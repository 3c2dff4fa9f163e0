SPECIFICATION Spec
CONSTANTS
    Parts = {"widget", "sweep", "outbox", "pipeline", "registry"}
    Widgets = {w1, w2}
    Queries = {w1, w2}
    Gets = {g1}
    Streams = {s1, s2}
    MaxMishaps = 2
    Tenants = {p1, p2}
    Reloaders = {r1}
    MaxSweepFaults = 1
    Submissions = {f1, f2, bad}
    Second = f2
    Unreadable = {bad}
    Batch = 1
    Page = 1
    GiveUpAge = 2
    MaxJobFaults = 1
    MaxInserts = 3
    Events = {e1, e2, e3}
    Capacity = 1
    FlushMaxEvents = 2
    Attempts = 2
    Projects = {p1}
    Threads = {t1, t2}
    NoThread = NoThread
    MaxWrites = 1
    MaxFailures = 1
INVARIANTS
    CancelStaysOwn
    LiveFilesStay
    PreviewsStayOut
    Conserved
PROPERTIES
    EveryCallReturns
    PurgedFilesGo
    ConversionsLogged
    NothingBlocks
    VersionCatchesUp
CHECK_DEADLOCK FALSE

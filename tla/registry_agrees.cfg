SPECIFICATION RegistrySpec
CONSTANTS
    Projects = {p1, p2}
    Threads = {t1, t2}
    NoThread = NoThread
    MaxWrites = 2
    MaxFailures = 0
INVARIANTS
    SnapshotAgrees

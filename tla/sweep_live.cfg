SPECIFICATION SweepSpec
CONSTANTS
    Tenants = {p1, p2}
    Reloaders = {r1}
    MaxSweepFaults = 1
INVARIANTS
    SweepSparesLive
CHECK_DEADLOCK FALSE

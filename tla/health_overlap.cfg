\* Ticks and a manual check overlap. The bound on sweeps stops it.
SPECIFICATION FairSpec
CONSTANTS
    monitor = monitor
    root = root
    Config <- TwoTargets
    Monitor = monitor
    Admins = {root}
    MaxChecks <- TwoSweeps
    MaxChanges = 1
CHECK_DEADLOCK FALSE
INVARIANTS
    TypeOK
    TrailIsChained
    UnhealthyIsRecorded
    OwnStatusShown
PROPERTY
    SweepEnds

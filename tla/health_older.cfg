\* The monitor and one operator, one channel. The bound on sweeps stops it.
SPECIFICATION Spec
CONSTANTS
    monitor = monitor
    root = root
    Config <- OneTarget
    Monitor = monitor
    Admins = {root}
    MaxChecks <- OneSweep
    MaxChanges = 2
CHECK_DEADLOCK FALSE
PROPERTY
    LatestShown

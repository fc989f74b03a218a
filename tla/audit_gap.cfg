\* A save may fail. The bound on requests stops it.
SPECIFICATION Spec
CONSTANTS
    root = root
    ops = ops
    w1 = w1
    w2 = w2
    NULL = NULL
    Names = {root, ops}
    RootNames = {root, ops}
    FirstUsers <- OneFile
    Workers = {w1, w2}
    SaveOutcomes = {"ok", "none"}
    AppendOutcomes = {"ok"}
    RewriteOutcomes = {"ok"}
    Retention = 0
    SessionLife = 0
    MaxRequests = 2
    MaxCrashes = 0
    MaxTime = 0
SYMMETRY WorkerSymmetry
CHECK_DEADLOCK FALSE
INVARIANT RemovalsRecorded

\* Two requests at a time; saves, appends and rewrites that fail; a crash anywhere.
\* An append that fails leaves a part of its line, or all of it but the newline.
\* A tick is longer than the retention. The bound on requests stops it.
SPECIFICATION Spec
CONSTANTS
    root = root
    ops = ops
    w1 = w1
    w2 = w2
    NULL = NULL
    Names = {root, ops}
    RootNames = {root, ops}
    FirstUsers <- TwoFiles
    Workers = {w1, w2}
    SaveOutcomes = {"ok", "none"}
    AppendOutcomes = {"ok", "cut", "nonl"}
    RewriteOutcomes = {"ok", "none"}
    Retention = 0
    SessionLife = 0
    MaxRequests = 3
    MaxCrashes = 1
    MaxTime = 1
SYMMETRY WorkerSymmetry
CHECK_DEADLOCK FALSE
INVARIANTS
    TypeOK
    AccountsAgree
    RootStays
    EntriesDurable
    EntryIsTrue
    DeedsRecorded

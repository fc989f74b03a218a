\* A full disk cuts an append short. Once a line is torn no process starts again, so the behaviour stops.
SPECIFICATION StoreSpec
CONSTANTS
    p1 = p1
    p2 = p2
    p3 = p3
    alipay = alipay
    t1 = t1
    NULL = NULL
    GARBAGE = GARBAGE
    Ids <- TwoIds
    Envs <- TwoEnvs
    Channels = {alipay}
    Trades = {t1}
    WriteFaults = {"none", "cut", "nonl"}
    CrashForms = {}
    Sizes = {FALSE}
    MaxLines = 4
SYMMETRY IdSymmetry
CHECK_DEADLOCK FALSE
INVARIANT RestartSucceeds

\* Payments whose JSON line is longer than the token the scanner of load accepts.
SPECIFICATION StoreSpec
CONSTANTS
    p1 = p1
    p2 = p2
    p3 = p3
    alipay = alipay
    t1 = t1
    NULL = NULL
    GARBAGE = GARBAGE
    Ids <- TwoIds
    Envs <- OneEnv
    Channels = {alipay}
    Trades = {t1}
    WriteFaults = {"none"}
    CrashForms = {}
    Sizes = {FALSE, TRUE}
    MaxLines = 4
SYMMETRY IdSymmetry
CHECK_DEADLOCK FALSE
INVARIANT RestartSucceeds

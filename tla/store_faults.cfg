\* Crashes, and appends that fail before or after the line is in the file.
SPECIFICATION StoreSpec
CONSTANTS
    p1 = p1
    p2 = p2
    p3 = p3
    alipay = alipay
    t1 = t1
    NULL = NULL
    GARBAGE = GARBAGE
    Ids <- ThreeIds
    Envs <- TwoEnvs
    Channels = {alipay}
    Trades = {t1}
    WriteFaults = {"none", "sync"}
    CrashForms = {"sync"}
    Sizes = {FALSE}
    MaxLines = 4
SYMMETRY IdSymmetry
INVARIANTS
    StoreTypeOK
    AckedDurable
    RestartSucceeds
    IndexResolves

\* One request at a time and a crash anywhere. The bound on requests stops it.
SPECIFICATION Spec
CONSTANTS
    p1 = p1
    p2 = p2
    w1 = w1
    w2 = w2
    alipay = alipay
    t1 = t1
    NULL = NULL
    GARBAGE = GARBAGE
    Ids <- TwoIds
    Envs = {"test", "release"}
    Channels = {alipay}
    Trades = {t1}
    Workers <- OneWorker
    Notifies = {FALSE, TRUE}
    ProviderAnswers = {FALSE, TRUE}
    WebhookStatuses = {"paid", "closed"}
    WriteFaults = {}
    CrashForms = {"sync"}
    Sizes = {FALSE}
    MaxLines = 0
    MaxRequests = 4
    MaxCrashes = 1
SYMMETRY Symmetry
CHECK_DEADLOCK FALSE
INVARIANTS
    EveryCallbackCounted
    BodyIsLatest
    UnreportedIsListed
PROPERTIES
    StrictLedgerSpec
    MemoryStoreSpec
    FailureStaysRecorded
    PaidIsNotClosed

\* Two requests at a time, no faults, fair scheduling. The bound on requests stops it.
SPECIFICATION FairSpec
CONSTANTS
    p1 = p1
    p2 = p2
    w1 = w1
    w2 = w2
    alipay = alipay
    t1 = t1
    NULL = NULL
    GARBAGE = GARBAGE
    Ids <- TwoIds
    Envs = {"test"}
    Channels = {alipay}
    Trades = {t1}
    Workers <- TwoWorkers
    Notifies = {TRUE}
    ProviderAnswers = {TRUE}
    WebhookStatuses = {"paid", "failed"}
    WriteFaults = {}
    CrashForms = {}
    Sizes = {FALSE}
    MaxLines = 0
    MaxRequests = 4
    MaxCrashes = 0
CHECK_DEADLOCK FALSE
PROPERTY
    EveryTryRecorded
    CallbackDecided

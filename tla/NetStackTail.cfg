SPECIFICATION Spec
CONSTANTS
    Flows = {f1}
    UpBytes = 0
    DownBytes = 2
    MaxChunk = 1
    QueueCap = 1
    IngestMax = 1
    AppCap = 1
    PendingMax = 1
    SendBuf = 1
    RecvBuf = 1
    BacklogMax = 1
    MinBudget = 1
    MaxBudget = 1
    StallWarn = 2
    StallReset = 3
    FlapLimit = 2
    Wedge = 3
    Linger = 1
    ConnectLimit = 1
    CreditWait = 1
INVARIANT AnswerWhole
CHECK_DEADLOCK FALSE

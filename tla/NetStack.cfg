SPECIFICATION Spec
CONSTANTS
    Flows = {f1}
    UpBytes = 3
    DownBytes = 1
    MaxChunk = 2
    QueueCap = 1
    IngestMax = 1
    AppCap = 1
    PendingMax = 1
    SendBuf = 1
    RecvBuf = 1
    BacklogMax = 2
    MinBudget = 2
    MaxBudget = 2
    StallWarn = 2
    StallReset = 3
    FlapLimit = 2
    Wedge = 3
    Linger = 1
    ConnectLimit = 1
    CreditWait = 1
INVARIANTS TypeOK UplinkConserved FinAfterData
PROPERTIES ResetOnlySilent FlowSettles
CHECK_DEADLOCK FALSE

SPECIFICATION FairSpec
CONSTANTS
    t1 = t1
    t2 = t2
    f1 = f1
    f2 = f2
    Threads = {t1, t2}
    NoThread = NoThread
    Fields = {f1, f2}
    Access = "read_write"
    Kinds <- MCBlockKinds
    Grants <- MCBlockGrants
    Requests = {2}
    ReleaseLeaseOnClose = TRUE
    Interrupts = TRUE
    MaxCalls = 5
    NoAuth = NoAuth
    NoExchange = NoExchange
    PerResponseMax = 2
    OperationMax = 3
    QueryMaxCount = 2
    ResyncMax = 1
CHECK_DEADLOCK FALSE
INVARIANT IInv
PROPERTIES
    CloseCompletes

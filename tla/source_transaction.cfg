SPECIFICATION FairSpec
CONSTANTS
    none = none
    s1 = s1
    s2 = s2
    Channels = {1, 2, 3}
    Edges <- MCEdges
    Settings = {"burst", "sweep", "storage", "counter", "workspace"}
    Setups = {none, s1, s2}
    NoSetup = none
    Starts <- MCStarts
    Panel <- MCPanel
    Requests <- MCRequests
    NoRequest = NoRequest
    CanSwitchOff = TRUE
    Interlocks = {"burst"}
    MaxOps = 3
    MaxMoves = 1
CHECK_DEADLOCK FALSE
INVARIANT SourceInv
PROPERTIES
    KeepsPromise
    NothingElseEnergised
    EmitsWithinLimits
    OffIsReserved
    RelationsStayInside
    TransactionsEnd

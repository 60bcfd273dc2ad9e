SPECIFICATION Spec
CONSTANTS
    s1 = s1
    s2 = s2
    s3 = s3
    Settings = {s1, s2, s3}
    Stopped <- MCStopped
    NoSetting = NoSetting
    Requests <- MCRequests
    NoRequest = NoRequest
    MaxMoves = 2
INVARIANTS
    ScopeInv
    CleanupIsForeseen
PROPERTIES
    SettledOrPoisoned
    ResultIsTrue

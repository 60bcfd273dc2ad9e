SPECIFICATION Spec
CONSTANTS
    low = low
    high = high
    unsafe = unsafe
    declared = declared
    other = other
    am = am
    fm = fm
    Levels = {low, high, unsafe}
    Safe = {low, high}
    SafeModulated = {low}
    Profiles = {declared, other}
    Declared = declared
    Modulations = {am, fm}
    NoValue = NoValue
    Requests <- MCRequests
    NoRequest = NoRequest
    MaxMoves = 2
INVARIANTS
    RfInv
    FailedOnIsSwitchedOff
    HealthTellsTheTruth
PROPERTIES
    EmitsWithinLimits

SPECIFICATION FairSpec
CONSTANTS
    a = a
    b = b
    p = p
    low = low
    high = high
    Outputs = {a, b, p}
    SourceOutputs = {a, b}
    Levels = {low, high}
    Allowed = {low, high}
    Unseen = Unseen
    NoCall = NoCall
    Panel = {a}
    Plans <- MCPlans
    Starts <- MCStarts
    MaxMoves = 1
    MaxInterrupts = 1
CHECK_DEADLOCK FALSE
INVARIANTS
    RunInv
    NothingIsLeftOpen
    FilesTellTheTruth
PROPERTIES
    GatedStaysOff
    DriftStopsTheCall
    RunEnds

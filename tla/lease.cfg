SPECIFICATION Spec
CONSTANTS
    p1 = p1
    p2 = p2
    p3 = p3
    Procs = {p1, p2, p3}
    Resources = {1, 2}
    Modes = {"shared", "exclusive"}
    NoOne = NoOne
    Nowhere = Nowhere
CHECK_DEADLOCK FALSE
SYMMETRY ProcSymmetry
INVARIANTS
    LeaseInv
    WorkIsExclusive
    SomeoneWins
    NothingIsKept
PROPERTY PromiseKept

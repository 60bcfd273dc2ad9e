SPECIFICATION Spec
CONSTANTS
    d1 = d1
    d2 = d2
    g1 = g1
    Dists = {d1, d2}
    MaxVersion = 2
    Digests = {g1}
    Orphans = TRUE
    Absent = Absent
    Broken = Broken
    NoDigest = NoDigest
    NoJournal = NoJournal
    Idle = Idle
    NoUv = NoUv
    NoDoubt = NoDoubt
CHECK_DEADLOCK FALSE
SYMMETRY DistSymmetry
INVARIANTS
    LifecycleInv
    WriteAhead
PROPERTIES
    OtherRecordsKept
    OldStateIsRecoverable
    PromiseKept

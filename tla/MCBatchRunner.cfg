SPECIFICATION Spec
CONSTANTS
    d1 = d1
    d2 = d2
    n1 = n1
    n2 = n2
    Doc = {d1, d2}
    Needle = {n1, n2}
    Runner = {p1}
    MaxEdition = 2
    MaxRuns = 2
    MaxAttempts = 2
    MaxLoads = 1
    Sorted <- MCSorted
    Text <- MCText
CHECK_DEADLOCK FALSE
INVARIANTS
    IndexWhole
    CommittedIsWhole
    CommittedIsServed
    HitsOncePerDoc
PROPERTY BatchEnds

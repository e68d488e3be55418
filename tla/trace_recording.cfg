CONSTANTS
    l1 = l1 l2 = l2
    Lives = {l1, l2}
    MaxSeq = 3
    MaxBatch = 2
    StoreMayFail = FALSE
    Orderly = {TRUE, FALSE}
    None = None
SYMMETRY LifeSymmetry
SPECIFICATION BoundedSpec
INVARIANTS TraceGapFree FlushedBeforeEnd RecorderNeverFails NothingLost
PROPERTIES EndIsFinal ImplementsDelivery
CHECK_DEADLOCK FALSE

CONSTANTS
    l1 = l1 l2 = l2
    Lives = {l1}
    MaxSeq = 3
    MaxBatch = 2
    StoreMayFail = TRUE
    Orderly = {TRUE}
    None = None
SPECIFICATION FairSpec
PROPERTY Delivered
CHECK_DEADLOCK FALSE

CONSTANTS
    r1 = r1 r2 = r2
    Contents = {1, 2}
    Requests = {r1, r2}
    Batch = 1
    Keep = 1
    MaxBackups = 2
    MaxBusy = 1
    Backed = {1}
    MaxFaults = 2
SPECIFICATION FairSpec
INVARIANT RowsHaveBlobs
PROPERTIES OrphansGo ComesBack
CHECK_DEADLOCK FALSE

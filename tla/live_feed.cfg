CONSTANTS
    w1 = w1
    Sessions = {1}
    MaxSeq <- OneEach
    Schedulers = {w1}
    Threshold = 1
    FastThreshold <- RuleOff
    TicksPerSecond = 1
    BatchSessions = 1
    ChunkLimit = 1
    MaxTime = 1
    MaxFaults = 0
    MaxDrops = 2
SPECIFICATION FairFeedSpec
INVARIANT QuietPageIsFresh
PROPERTY GapReachesPage

CONSTANTS
    w1 = w1 w2 = w2
    Sessions = {1, 2, 3}
    MaxSeq <- TwoEvents
    Schedulers = {w1, w2}
    Threshold = 2
    FastThreshold = 1
    TicksPerSecond = 1
    BatchSessions = 1
    ChunkLimit = 1
    MaxTime = 4
    MaxFaults = 1
    Lines = {0, 1}
    MinAttempts = 2
    MaxChangePercent = 10
    MinCohort = 2
    Multiplier = 1
    Scenes <- EventsRunsLines
SYMMETRY SchedulerSymmetry
SPECIFICATION RulesSpec
INVARIANTS NoGapForgotten GapEvidenceTrue  EvidenceIsTrue
PROPERTY EvidenceImmutable

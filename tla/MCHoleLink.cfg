SPECIFICATION FairSpec
CONSTANTS
    MaxPort = 2
    Place <- MCPlace
    Settings <- MCSettings
    margin = 0
    KeepaliveTimeout = 1
    WINDOW = 4
    MIN_STATS_SAMPLE = 3
INVARIANTS
    HeardOnce
PROPERTIES
    BadMeansLoss
    FindEachOther
    NoHalfOpen
CHECK_DEADLOCK FALSE

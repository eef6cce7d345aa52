SPECIFICATION P2PFairSpec
CONSTANTS
    min_active = 1
    max_total = 2
    FirstId <- MCFirstId
    CLOSED_MEMORY = 2
    Bounds <- MCBounds
PROPERTIES
    NoneServedTwice
    GrowTogether
    Recover
CHECK_DEADLOCK FALSE

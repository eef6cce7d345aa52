SPECIFICATION FairSpec
CONSTANTS
    Slot <- MCSlot
    ConfirmPeer = TRUE
    TARGET_LINKS = 2
    DataHoles = 0
    COMMANDS = 1
    MIN_STATS_SAMPLE = 2
    MaxSent = 2
    MaxOrders = 2
INVARIANTS
    TracesFollowTasks
    LoadIsShared
PROPERTIES
    RetiredHolesGo
\* A set all of whose holes are gone takes no more steps.
CHECK_DEADLOCK FALSE

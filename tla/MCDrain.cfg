SPECIFICATION FairSpec
CONSTANTS
    CONFIRM_WAIT <- MCConfirmWait
    RETRY <- MCRetry
    GRACE <- MCGrace
    NetDelay <- MCNetDelay
    Lateness <- MCLateness
    Horizon <- MCHorizon
INVARIANTS
    LateDataIsReceived
PROPERTIES
    ClosesByAgreement
    DrainCompletes
\* A hole that is closed at both ends takes no more steps.
CHECK_DEADLOCK FALSE

SPECIFICATION MCSpec
CONSTANTS
    None = None
    Bucket = {0}
    Client = {1}
    client = 1
    bucket = 0
    Key <- SessionKey
    RING = 4
    MAX_SESSIONS = 1
    MAX_SKIPPED = 1
    IDLE_RESET = 3
    MIN_WAIT = 1
    MAX_WAIT = 2
    RECALC_EVERY = 1
    MaxRead = 6
    MaxArrivals = 4
    MaxNow = 4
    Lateness = 0
    alice = alice
    bob = bob
    Peer = {alice, bob}
    Numbers = 6
    WINDOW_BITS = 2
    PID_REPORT_BATCH = 2
    channel_capacity = 2
    MaxSent <- MCMaxSent
    MaxFlight = 2
    MaxLosses = 1
    MaxRestarts = 1
INVARIANTS
    RowsTellArrivals
\* Bounds on packets and time end the behaviours.
CHECK_DEADLOCK FALSE

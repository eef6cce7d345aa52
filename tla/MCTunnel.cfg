SPECIFICATION FairSpec
CONSTANTS
    Programs = {"vps-client", "hp-router"}
    Uplink <- MCUplink
    Relay = {"relay"}
    MaxChanges = 4
    MaxEnds = 1
INVARIANTS
    HolesGoAround
    StopsInOrder
PROPERTIES
    RoutesComeBack
\* With its routes whole and nothing to do the process waits.
CHECK_DEADLOCK FALSE

SPECIFICATION FairSpec
CONSTANTS
    Relay <- MCRelay
    Hole <- MCHole
    Token <- MCToken
    SessionPort <- MCSessionPort
    Measured <- MCMeasured
    MIN_SAMPLE = 2
    Share = 50
    ANNOUNCE_COPIES = 2
    Turns = 1
    MaxTroubles = 2
    None = None
INVARIANTS
    OfferedLeadsHome
PROPERTIES
    PermitsFollowRelays
    HolesReturn

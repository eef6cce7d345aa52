SPECIFICATION MCFairSpec
CONSTANTS
    PeerA = PeerA
    PeerB = PeerB
    None = None
    Peer <- MCPeer
    Name <- MCName
    NameOf <- MCNameOf
    Client = {1}
    HostPool <- MCHostPool
    PhonePool <- MCPhonePool
    Server = 1
    MultiThread = TRUE
    MaxStarts = 3
INVARIANTS
    RoutesAgree
    AddressesStay
    RoutesLeadToEntries
PROPERTIES
    ClientIsRouted

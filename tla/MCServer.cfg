SPECIFICATION MCFairSpec
CONSTANTS
    s1 = s1
    s2 = s2
    s3 = s3
    s4 = s4
    p1 = p1
    p2 = p2
    Clients <- MCClients
    Port <- MCPort
    max_holes = 2
    CLOSED_MEMORY = 2
    MultiThread = FALSE
    MaxEpoch = 4
    ClientA = ClientA
    ClientB = ClientB
    ClientC = ClientC
    Client <- MCClient
    NameOf <- MCNameOf
    Programs <- MCPrograms
    Tray = {t1, t2}
    Configured = 1
    MaxNumber = 3
    MaxPhones = 3
    MaxEdits = 3
    MaxRestarts = 1
    COMMAND_QUEUE = 1
INVARIANTS
    PlacesAreServed
    LateRequestsStartNothing
    TracesAreOwn
    PackagesAreServed
    FileFollowsList
    ServiceFollowsClients
PROPERTIES
    ComesToStay
\* The bounds on epochs, phones and edits end the behaviours.
CHECK_DEADLOCK FALSE

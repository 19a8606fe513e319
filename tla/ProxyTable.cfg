SPECIFICATION Spec
CONSTANTS
    a = a
    b = b
    NoClient = NoClient
    Clients <- TwoClients
    CertClients <- OneClient
    FirstPackets <- MixedVersions
    Faults <- HandlerFault
    MaxTasks = 2
    MainCapacity = 1
    ClientCapacity = 1
INVARIANTS TypeOK TableOwned CancelledAreGone NoCertNoData
PROPERTIES ImplementsSessions
CHECK_DEADLOCK FALSE

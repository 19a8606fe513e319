SPECIFICATION Spec
CONSTANTS
    a = a
    b = b
    NoClient = NoClient
    Clients <- OneClient
    CertClients <- OneClient
    FirstPackets <- RightVersion
    Faults <- AllFaults
    MaxTasks = 1
    MainCapacity = 1
    ClientCapacity = 1
INVARIANTS RefusalIsTold
CHECK_DEADLOCK FALSE

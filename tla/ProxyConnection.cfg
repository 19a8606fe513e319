SPECIFICATION FairSpec
CONSTANTS
    a = a
    b = b
    NoClient = NoClient
    Clients <- TwoClients
    CertClients <- OneClient
    FirstPackets <- RightVersion
    Faults <- AllFaults
    MaxTasks = 1
    MainCapacity = 1
    ClientCapacity = 1
INVARIANTS ClientIsTold WritesHaveBroker
PROPERTIES SendsGoOn EofEndsTask
CHECK_DEADLOCK FALSE

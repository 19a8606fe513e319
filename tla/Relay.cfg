SPECIFICATION FairSpec
CONSTANTS
    MaxUp = 4
    MaxDown = 5
    Chunk = 2
    TcpBuffer = 3
    Window = 3
    Faults <- AllFaults
INVARIANTS TypeOK UpIntact DownOrder
PROPERTIES KeepingUpLosesNothing WriteEnds UpArrives
CHECK_DEADLOCK FALSE

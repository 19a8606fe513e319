SPECIFICATION PyFairSpec
CONSTANTS
    p1 = p1
    s1 = s1
    k1 = k1
    r1 = r1
    i1 = i1
    NoReq = NoReq
    NoJob = NoJob
    Publishes <- OnePublish
    Subscribes <- OneSubscribe
    Connects <- OneConnect
    Receives <- OneReceive
    PacketIds <- OneId
    MaxConns = 1
    MaxMessages = 1
    MsgCapacity = 1
    Cancellable <- AllButConnect
    StreamSends <- WholeWrites
INVARIANTS PyTypeOK
PROPERTIES  ReceiveFailsOnLoss OnlyHoldersDelay
CHECK_DEADLOCK FALSE

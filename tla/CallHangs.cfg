SPECIFICATION FairSpec
CONSTANTS
    p1 = p1
    p2 = p2
    s1 = s1
    i1 = i1
    i2 = i2
    NoReq = NoReq
    Publishes <- OnePublish
    Subscribes <- NoCalls
    PacketIds <- OneId
    MaxConns = 1
    MaxMessages = 0
    MsgCapacity = 1
    Cancellable <- NoStage
    StreamSends <- WholeWrites
PROPERTIES CallEndsOnLoss
CHECK_DEADLOCK FALSE

SPECIFICATION Spec
CONSTANTS
    p1 = p1
    p2 = p2
    s1 = s1
    i1 = i1
    i2 = i2
    NoReq = NoReq
    Publishes <- NoCalls
    Subscribes <- OneSubscribe
    PacketIds <- OneId
    MaxConns = 2
    MaxMessages = 3
    MsgCapacity = 2
    Cancellable <- AnyStage
    StreamSends <- AnyWrite
INVARIANTS DeliveryOrder  ConnectOkMeansConnack
CHECK_DEADLOCK FALSE

SPECIFICATION Spec
CONSTANTS
    p1 = p1
    p2 = p2
    s1 = s1
    i1 = i1
    i2 = i2
    NoReq = NoReq
    Publishes <- NoCalls
    Subscribes <- NoCalls
    PacketIds <- OneId
    MaxConns = 2
    MaxMessages = 0
    MsgCapacity = 1
    Cancellable <- ConnectStages
    StreamSends <- WholeWrites
INVARIANTS ConnectOkMeansConnected
CHECK_DEADLOCK FALSE

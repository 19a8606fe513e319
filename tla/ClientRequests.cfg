SPECIFICATION Spec
CONSTANTS
    p1 = p1
    p2 = p2
    s1 = s1
    i1 = i1
    i2 = i2
    NoReq = NoReq
    Publishes <- TwoPublishes
    Subscribes <- OneSubscribe
    PacketIds <- TwoIds
    MaxConns = 1
    MaxMessages = 0
    MsgCapacity = 1
    Cancellable <- RequestStages
    StreamSends <- AnyWrite
SYMMETRY Symmetric
INVARIANTS TypeOK OkMeansAnswered InFlight FailedMeansUnsent
PROPERTIES ImplementsAckedCalls
CHECK_DEADLOCK FALSE

--------------------------- MODULE MqttClient_proofs ---------------------------
(***************************************************************************)
(* Proofs about MqttClient, for any number of requests, connections,       *)
(* packet identifiers and messages and any channel capacity.               *)
(***************************************************************************)
EXTENDS MqttClient, SequenceTheorems, TLAPS

-----------------------------------------------------------------------------
(* Type correctness.                                                       *)

\* What a step leaves alone keeps its type.
LEMMA ApiUnchanged ==
    ASSUME ApiType, UNCHANGED <<apiVars, connackPermit, call>> PROVE ApiType'
  BY DEF ApiType, apiVars
LEMMA ChannelUnchanged ==
    ASSUME ChannelType, UNCHANGED <<reqChan, notified, msgChan, delivered>>
    PROVE  ChannelType'
  BY DEF ChannelType
LEMMA TaskUnchanged ==
    ASSUME TaskType, UNCHANGED sessionVars PROVE TaskType'
  BY DEF TaskType, sessionVars
LEMMA PeerUnchanged ==
    ASSUME PeerType, UNCHANGED <<streamVars, brokerVars>> PROVE PeerType'
  BY DEF PeerType, streamVars, brokerVars

LEMMA InitTypeOK == Init => TypeOK
<1> SUFFICES ASSUME Init PROVE TypeOK
  OBVIOUS
<1> USE ClientAssumption DEF Init, ClientAssumption, Conns, Requests
<1>1. ApiType
  <2>1. connected = FALSE /\ connackPermit = FALSE /\ latest \in 0..MaxConns
    OBVIOUS
  <2>2. /\ call \in [op : Stages \cup {"idle"}, req : Requests \cup {NoReq}]
        /\ call.op = "idle"
    BY DEF Idle
  <2>3. /\ outcome \in [Requests -> {"unused", "pending", "ok", "err", "cancelled"}]
        /\ connOutcome \in [Conns -> {"none", "ok", "err", "cancelled"}]
    OBVIOUS
  <2> QED
    BY <2>1, <2>2, <2>3 DEF ApiType
<1>2. ChannelType
  <2>1. \A c \in Conns : reqChan[c] = <<>> /\ msgChan[c] = <<>> /\ delivered[c] = <<>>
    OBVIOUS
  <2>2. /\ reqChan \in [Conns -> Seq(Requests)]
        /\ msgChan \in [Conns -> Seq(1..MaxMessages)]
        /\ delivered \in [Conns -> Seq(1..MaxMessages)]
    OBVIOUS
  <2> QED
    BY <2>1, <2>2 DEF ChannelType, RequestCapacity
<1>3. TaskType
  BY DEF TaskType, NoRequest
<1>4. PeerType
  BY DEF PeerType
<1> QED
  BY <1>1, <1>2, <1>3, <1>4 DEF TypeOK

LEMMA CallConnectType == ASSUME TypeOK, CallConnect PROVE TypeOK'
<1> USE ClientAssumption DEF TypeOK, ClientAssumption, Conns, Requests, CallConnect
<1>1. ApiType'
  <2>1. latest' \in 0..MaxConns /\ latest' # 0
    BY DEF ApiType
  <2>2. /\ call' \in [op : Stages \cup {"idle"}, req : Requests \cup {NoReq}]
        /\ call'.op = "initializing"
    BY DEF Stages
  <2> QED
    BY <2>1, <2>2 DEF ApiType
<1>2. ChannelType'
  <2>1. \A c \in Conns : msgChan'[c] \in {<<>>, msgChan[c]}
    OBVIOUS
  <2>2. msgChan' \in [Conns -> Seq(1..MaxMessages)]
    BY EmptySeq DEF ChannelType
  <2>3. \A c \in Conns : Len(msgChan'[c]) <= MsgCapacity
    BY <2>1 DEF ChannelType
  <2> QED
    BY <2>2, <2>3 DEF ChannelType
<1>3. TaskType'
  BY DEF TaskType, ApiType
<1>4. PeerType'
  BY PeerUnchanged
<1> QED
  BY <1>1, <1>2, <1>3, <1>4

LEMMA ConnectEndsType ==
    ASSUME TypeOK, ConnectInitFails \/ ConnectSpawns \/ ConnectReturns PROVE TypeOK'
<1> USE ClientAssumption DEF TypeOK, ClientAssumption, Conns, Requests, ConnectInitFails,
        ConnectSpawns, ConnectReturns
<1>1. ApiType'
  <2>1. latest # 0 /\ latest' = latest
    BY DEF ApiType, apiVars
  <2>2. /\ call' \in [op : Stages \cup {"idle"}, req : Requests \cup {NoReq}]
        /\ call'.op \in {"idle", "awaitConnack"}
    BY DEF Idle, Stages
  <2>3. /\ outcome' \in [Requests -> {"unused", "pending", "ok", "err", "cancelled"}]
        /\ connOutcome' \in [Conns -> {"none", "ok", "err", "cancelled"}]
    BY DEF ApiType, apiVars
  <2>4. connected' \in BOOLEAN /\ connackPermit' \in BOOLEAN
    BY DEF ApiType, apiVars
  <2> QED
    BY <2>1, <2>2, <2>3, <2>4 DEF ApiType
<1>2. ChannelType'
  BY ChannelUnchanged
<1>3. TaskType'
  BY DEF TaskType, ApiType, sessionVars
<1>4. PeerType'
  BY PeerUnchanged
<1> QED
  BY <1>1, <1>2, <1>3, <1>4

LEMMA CallRequestType == ASSUME TypeOK, NEW r \in Requests, CallRequest(r) PROVE TypeOK'
<1> USE ClientAssumption DEF TypeOK, ClientAssumption, CallRequest
<1>1. ApiType'
  <2>1. /\ outcome' \in [Requests -> {"unused", "pending", "ok", "err", "cancelled"}]
        /\ call' \in [op : Stages \cup {"idle"}, req : Requests \cup {NoReq}]
    BY DEF ApiType, Stages, Idle
  <2>2. (call.op \in {"sending", "awaitAck"} => call.req \in Requests)'
    BY DEF Idle
  <2>3. (call.op \notin {"idle", "receiving"} => latest # 0)'
    BY DEF ApiType, Idle
  <2> QED
    BY <2>1, <2>2, <2>3 DEF ApiType
<1>2. ChannelType'
  BY ChannelUnchanged
<1>3. TaskType' /\ PeerType'
  BY TaskUnchanged, PeerUnchanged
<1> QED
  BY <1>1, <1>2, <1>3

LEMMA RequestEnqueueType == ASSUME TypeOK, RequestEnqueue PROVE TypeOK'
<1> USE ClientAssumption DEF TypeOK, ClientAssumption, RequestEnqueue
<1>1. latest \in Conns /\ call.req \in Requests
  BY DEF ApiType, Conns
<1>2. ApiType'
  BY <1>1 DEF ApiType, apiVars, Stages
<1>3. ChannelType'
  <2>1. /\ Append(reqChan[latest], call.req) \in Seq(Requests)
        /\ Len(Append(reqChan[latest], call.req)) <= RequestCapacity
    BY <1>1, AppendProperties DEF ChannelType, RoomForRequest, RequestCapacity
  <2> QED
    BY <1>1, <2>1 DEF ChannelType
<1>4. TaskType' /\ PeerType'
  BY TaskUnchanged, PeerUnchanged
<1> QED
  BY <1>2, <1>3, <1>4

LEMMA RequestEndsType ==
    ASSUME TypeOK, RequestReturns \/ RequestSendFails PROVE TypeOK'
<1> USE DEF TypeOK, RequestReturns, RequestSendFails, FailsWhenEnded
<1>1. ApiType'
  BY DEF ApiType, Idle, Requests
<1>2. ChannelType'
  BY DEF ChannelType
<1>3. TaskType' /\ PeerType'
  BY TaskUnchanged, PeerUnchanged
<1> QED
  BY <1>1, <1>2, <1>3

LEMMA ReceiveType ==
    ASSUME TypeOK, CallRcv \/ ReceiveReturns \/ ReceiveFails PROVE TypeOK'
<1> USE ClientAssumption DEF TypeOK, ClientAssumption, CallRcv, ReceiveReturns, ReceiveFails
<1>1. ApiType'
  BY DEF ApiType, apiVars, Idle, Stages
<1>2. ChannelType'
  <2>1. CASE ReceiveReturns
    <3>1. latest \in Conns
      BY <2>1 DEF ApiType, Conns
    <3>2. /\ Head(msgChan[latest]) \in 1..MaxMessages
          /\ Tail(msgChan[latest]) \in Seq(1..MaxMessages)
          /\ Len(Tail(msgChan[latest])) <= Len(msgChan[latest])
      BY <2>1, <3>1, HeadTailProperties DEF ChannelType
    <3>3. Append(delivered[latest], Head(msgChan[latest])) \in Seq(1..MaxMessages)
      BY <3>1, <3>2, AppendProperties DEF ChannelType
    <3>4. Len(msgChan[latest]) <= MsgCapacity /\ msgChan[latest] \in Seq(1..MaxMessages)
      BY <3>1 DEF ChannelType
    <3>5. Len(Tail(msgChan[latest])) <= MsgCapacity
      BY <3>2, <3>4, LenProperties
    <3> QED
      BY <2>1, <3>1, <3>2, <3>3, <3>5 DEF ChannelType
  <2> QED
    BY <2>1, ChannelUnchanged
<1>3. TaskType' /\ PeerType'
  BY TaskUnchanged, PeerUnchanged
<1> QED
  BY <1>1, <1>2, <1>3

LEMMA CancelCallType == ASSUME TypeOK, CancelCall PROVE TypeOK'
<1> USE ClientAssumption DEF TypeOK, ClientAssumption, Conns, Requests, CancelCall
<1>1. ApiType'
  BY DEF ApiType, Idle
<1>2. ChannelType'
  BY ChannelUnchanged
<1>3. TaskType'
  BY DEF TaskType
<1>4. PeerType'
  BY PeerUnchanged
<1> QED
  BY <1>1, <1>2, <1>3, <1>4

\* Packets of a request, in either direction.
LEMMA PacketTypes ==
    ASSUME NEW r \in Requests, NEW i \in PacketIds
    PROVE  /\ [type |-> RequestType(r), id |-> i, req |-> r] \in RequestPackets
           /\ [type |-> AckType(r), id |-> i, req |-> r] \in BrokerPackets
  BY DEF RequestType, AckType, RequestPackets, BrokerPackets, Acks

LEMMA StreamWriteType ==
    ASSUME PeerType, NEW c \in Conns, NEW p \in RequestPackets \cup {ConnectPacket},
           StreamWrite(c, p), UNCHANGED <<fromBroker, brokerVars>>
    PROVE  PeerType'
  BY DEF PeerType, StreamWrite, brokerVars

LEMMA HandshakeCompletesType ==
    ASSUME TypeOK, NEW c \in Conns, HandshakeCompletes(c) PROVE TypeOK'
<1> USE DEF TypeOK, HandshakeCompletes
<1>1. ApiType' /\ ChannelType'
  BY ApiUnchanged, ChannelUnchanged
<1>2. TaskType'
  BY DEF TaskType
<1>3. PeerType'
  BY StreamWriteType
<1> QED
  BY <1>1, <1>2, <1>3

\* A request taken from its channel is a request, and the rest of the channel
\* holds no more than before.
LEMMA HeadOfRequests ==
    ASSUME ChannelType, NEW c \in Conns, reqChan[c] # <<>>
    PROVE  /\ Head(reqChan[c]) \in Requests
           /\ Tail(reqChan[c]) \in Seq(Requests)
           /\ Len(Tail(reqChan[c])) <= RequestCapacity
<1>1. reqChan[c] \in Seq(Requests) /\ Len(reqChan[c]) <= RequestCapacity
  BY DEF ChannelType
<1>2. /\ Head(reqChan[c]) \in Requests
      /\ Tail(reqChan[c]) \in Seq(Requests)
      /\ Len(Tail(reqChan[c])) = Len(reqChan[c]) - 1
  BY <1>1, HeadTailProperties
<1> QED
  BY <1>1, <1>2, LenProperties DEF RequestCapacity

LEMMA HandleRequestType ==
    ASSUME TypeOK, NEW c \in Conns, HandleRequest(c) PROVE TypeOK'
<1> USE DEF TypeOK, HandleRequest
<1>1. /\ Head(reqChan[c]) \in Requests
      /\ Tail(reqChan[c]) \in Seq(Requests)
      /\ Len(Tail(reqChan[c])) <= RequestCapacity
  BY HeadOfRequests
<1>2. ApiType'
  BY ApiUnchanged
<1>3. ChannelType'
  BY <1>1 DEF ChannelType
<1>4. TaskType' /\ PeerType'
  <2> DEFINE r == Head(reqChan[c])
  <2>1. PICK i \in FreeIds(c) :
          /\ currentRequest' = [currentRequest EXCEPT ![c] = [req |-> r, id |-> i]]
          /\ IF mqtt[c] = "connected"
               THEN /\ owner' = [owner EXCEPT ![c][i] = r]
                    /\ StreamWrite(c, [type |-> RequestType(r), id |-> i, req |-> r])
               ELSE UNCHANGED <<owner, sent, deaf>>
    OBVIOUS
  <2>2. i \in PacketIds /\ r \in Requests
    BY <1>1 DEF FreeIds
  <2> HIDE DEF r
  <2>3. TaskType'
    <3>1. [owner[c] EXCEPT ![i] = r] \in [PacketIds -> Requests \cup {NoReq}]
      BY <2>2 DEF TaskType
    <3>2. owner' \in [Conns -> [PacketIds -> Requests \cup {NoReq}]]
      BY <2>1, <3>1 DEF TaskType
    <3>3. currentRequest' \in [Conns -> [req : Requests \cup {NoReq}, id : PacketIds \cup {0}]]
      BY <2>1, <2>2 DEF TaskType
    <3> QED
      BY <3>2, <3>3 DEF TaskType
  <2>4. CASE mqtt[c] = "connected"
    BY <2>1, <2>2, <2>3, <2>4, PacketTypes, StreamWriteType
  <2>5. CASE mqtt[c] # "connected"
    BY <2>1, <2>3, <2>5, PeerUnchanged DEF streamVars
  <2> QED
    BY <2>3, <2>4, <2>5
<1> QED
  BY <1>2, <1>3, <1>4

LEMMA EndTaskType == ASSUME TypeOK, NEW c \in Conns, EndTask(c) PROVE TypeOK'
<1> USE ClientAssumption DEF TypeOK, ClientAssumption, EndTask
<1>1. ApiType'
  BY ApiUnchanged
<1>2. ChannelType'
  <2>1. \A d \in Conns : reqChan'[d] \in {<<>>, reqChan[d]}
    BY DEF ChannelType
  <2>2. reqChan' \in [Conns -> Seq(Requests)]
    BY EmptySeq DEF ChannelType
  <2>3. \A d \in Conns : Len(reqChan'[d]) <= RequestCapacity
    BY <2>1 DEF ChannelType, RequestCapacity
  <2> QED
    BY <2>2, <2>3 DEF ChannelType
<1>3. TaskType'
  BY DEF TaskType, NoRequest
<1>4. PeerType'
  BY EmptySeq DEF PeerType
<1> QED
  BY <1>1, <1>2, <1>3, <1>4

\* A packet taken from stream 0 is a packet.
LEMMA HeadOfStream ==
    ASSUME PeerType, NEW c \in Conns, fromBroker[c] # <<>>
    PROVE  /\ Head(fromBroker[c]) \in BrokerPackets
           /\ Tail(fromBroker[c]) \in Seq(BrokerPackets)
<1>1. fromBroker[c] \in Seq(BrokerPackets)
  BY DEF PeerType
<1> QED
  BY <1>1, HeadTailProperties

LEMMA ConsumeType ==
    ASSUME PeerType, NEW c \in Conns, fromBroker[c] # <<>>, Consume(c),
           UNCHANGED <<sent, deaf, brokerVars>>
    PROVE  PeerType'
  BY HeadOfStream DEF PeerType, Consume, brokerVars

LEMMA HandleIncomingType ==
    ASSUME TypeOK, NEW c \in Conns, HandleIncoming(c) PROVE TypeOK'
<1> USE DEF TypeOK
<1>1. CASE ConnackReceived(c)
  <2>1. ApiType'
    BY <1>1 DEF ConnackReceived, ApiType, apiVars
  <2>2. ChannelType' /\ PeerType'
    BY <1>1, ChannelUnchanged, ConsumeType DEF ConnackReceived, Incoming
  <2>3. TaskType'
    BY <1>1 DEF ConnackReceived, TaskType
  <2> QED
    BY <2>1, <2>2, <2>3
<1>2. CASE AckReceived(c)
  <2>1. ApiType' /\ PeerType'
    BY <1>2, ApiUnchanged, ConsumeType DEF AckReceived, Incoming
  <2>2. ChannelType'
    BY <1>2 DEF AckReceived, ChannelType, TaskType, AckMatches
  <2>3. TaskType'
    <3> DEFINE p == Head(fromBroker[c])
    <3>1. p.id \in PacketIds
      BY <1>2, HeadOfStream DEF AckReceived, Incoming, BrokerPackets, Acks, Connacks,
         Messages, Disconnects
    <3>2. owner' = [owner EXCEPT ![c][p.id] = NoReq]
      BY <1>2 DEF AckReceived
    <3>3. currentRequest' \in [Conns -> [req : Requests \cup {NoReq}, id : PacketIds \cup {0}]]
      BY <1>2 DEF AckReceived, TaskType, NoRequest
    <3> HIDE DEF p
    <3>4. [owner[c] EXCEPT ![p.id] = NoReq] \in [PacketIds -> Requests \cup {NoReq}]
      BY <3>1 DEF TaskType
    <3>5. owner' \in [Conns -> [PacketIds -> Requests \cup {NoReq}]]
      BY <3>2, <3>4 DEF TaskType
    <3> QED
      BY <1>2, <3>3, <3>5 DEF AckReceived, TaskType
  <2> QED
    BY <2>1, <2>2, <2>3
<1>3. CASE MessageReceived(c)
  <2> DEFINE m == Head(fromBroker[c]).seq
  <2>1. m \in 1..MaxMessages
    BY <1>3, HeadOfStream DEF MessageReceived, Incoming, BrokerPackets, Acks, Connacks,
       Messages, Disconnects
  <2>2. ApiType' /\ PeerType'
    BY <1>3, ApiUnchanged, ConsumeType DEF MessageReceived, Incoming
  <2>3. msgChan' = [msgChan EXCEPT ![c] = TrySend(c, msgChan[c], m)] /\ received' = [received EXCEPT ![c] = m]
    BY <1>3 DEF MessageReceived, ChannelType
  <2> HIDE DEF m
  <2>4. /\ TrySend(c, msgChan[c], m) \in Seq(1..MaxMessages)
        /\ Len(TrySend(c, msgChan[c], m)) <= MsgCapacity
    <3>1. /\ msgChan[c] \in Seq(1..MaxMessages) /\ Len(msgChan[c]) <= MsgCapacity
          /\ MsgCapacity \in Nat
      BY ClientAssumption DEF ChannelType, ClientAssumption
    <3>2. /\ Append(msgChan[c], m) \in Seq(1..MaxMessages)
          /\ Len(Append(msgChan[c], m)) = Len(msgChan[c]) + 1
      BY <2>1, <3>1, AppendProperties
    <3>3. Len(msgChan[c]) \in Nat
      BY <3>1, LenProperties
    <3>4. CASE c = latest /\ Len(msgChan[c]) < MsgCapacity
      BY <3>1, <3>2, <3>3, <3>4 DEF TrySend
    <3>5. CASE ~(c = latest /\ Len(msgChan[c]) < MsgCapacity)
      BY <3>1, <3>5 DEF TrySend
    <3> QED
      BY <3>4, <3>5
  <2>5. ChannelType'
    BY <1>3, <2>3, <2>4 DEF MessageReceived, ChannelType
  <2>6. TaskType'
    BY <1>3, <2>1, <2>3, ClientAssumption DEF MessageReceived, TaskType, ClientAssumption
  <2> QED
    BY <2>2, <2>5, <2>6
<1>4. CASE DisconnectReceived(c)
  <2>1. ApiType' /\ ChannelType' /\ PeerType'
    BY <1>4, ApiUnchanged, ChannelUnchanged, ConsumeType DEF DisconnectReceived, Incoming
  <2>2. TaskType'
    BY <1>4 DEF DisconnectReceived, TaskType
  <2> QED
    BY <2>1, <2>2
<1> QED
  BY <1>1, <1>2, <1>3, <1>4 DEF HandleIncoming

LEMMA PeerCloseType ==
    ASSUME TypeOK, NEW c \in Conns, PeerCloses(c) \/ BrokerDisconnect(c) PROVE TypeOK'
<1> USE DEF TypeOK, PeerCloses, BrokerDisconnect
<1>1. ApiType' /\ ChannelType'
  BY ApiUnchanged, ChannelUnchanged
<1>2. TaskType'
  BY DEF TaskType, sessionVars
<1>3. PeerType'
  <2>1. [type |-> "DISCONNECT"] \in BrokerPackets
    BY DEF BrokerPackets, Disconnects
  <2>2. fromBroker' \in [Conns -> Seq(BrokerPackets)]
    <3>1. CASE PeerCloses(c)
      BY <3>1, EmptySeq DEF PeerType
    <3>2. CASE BrokerDisconnect(c)
      <4>1. Append(fromBroker[c], [type |-> "DISCONNECT"]) \in Seq(BrokerPackets)
        BY <2>1, AppendProperties DEF PeerType
      <4> QED
        BY <3>2, <4>1 DEF PeerType
    <3> QED
      BY <3>1, <3>2
  <2> QED
    BY <2>2 DEF PeerType
<1> QED
  BY <1>1, <1>2, <1>3

LEMMA BrokerAnswersType ==
    ASSUME TypeOK, NEW c \in Conns, NEW p, NEW q \in BrokerPackets, BrokerAnswers(c, p, q)
    PROVE  /\ ApiType' /\ ChannelType' /\ TaskType'
           /\ sent' \in [Conns -> SUBSET (RequestPackets \cup {ConnectPacket})]
           /\ deaf' \in [Conns -> BOOLEAN]
           /\ fromBroker' \in [Conns -> Seq(BrokerPackets)]
<1> USE DEF TypeOK, BrokerAnswers
<1>1. ApiType' /\ ChannelType' /\ TaskType'
  BY ApiUnchanged, ChannelUnchanged, TaskUnchanged
<1>2. /\ sent' \in [Conns -> SUBSET (RequestPackets \cup {ConnectPacket})]
      /\ deaf' \in [Conns -> BOOLEAN]
  BY DEF PeerType
<1>3. Append(fromBroker[c], q) \in Seq(BrokerPackets)
  BY AppendProperties DEF PeerType
<1>4. fromBroker' \in [Conns -> Seq(BrokerPackets)]
  BY <1>3 DEF PeerType
<1> QED
  BY <1>1, <1>2, <1>4

LEMMA BrokerStepType ==
    ASSUME TypeOK, NEW c \in Conns, PeerStep(c) PROVE TypeOK'
<1> USE DEF TypeOK
<1>1. CASE PeerCloses(c) \/ BrokerDisconnect(c)
  BY <1>1, PeerCloseType
<1>2. ASSUME NEW ok \in BOOLEAN, BrokerConnack(c, ok) PROVE TypeOK'
  <2>1. [type |-> "CONNACK", ok |-> ok] \in BrokerPackets
    BY DEF BrokerPackets, Connacks
  <2> QED
    BY <1>2, <2>1, BrokerAnswersType DEF BrokerConnack, PeerType
<1>3. CASE BrokerAcks(c)
  <2>1. PICK p \in sent[c], a \in {"ok", "refused"} : BrokerAck(c, p, a)
    BY <1>3 DEF BrokerAcks
  <2>2. p.req \in Requests /\ p.id \in PacketIds
    BY <2>1 DEF BrokerAck, RequestPackets
  <2>3. [type |-> AckType(p.req), id |-> p.id, req |-> p.req] \in BrokerPackets
    BY <2>2, PacketTypes
  <2> QED
    BY <2>1, <2>2, <2>3, BrokerAnswersType DEF BrokerAck, PeerType
<1>4. CASE BrokerPublish(c)
  <2> USE <1>4 DEF BrokerPublish
  <2>1. ApiType' /\ ChannelType' /\ TaskType'
    BY ApiUnchanged, ChannelUnchanged, TaskUnchanged
  <2>2. published[c] + 1 \in 1..MaxMessages
    BY ClientAssumption DEF PeerType, ClientAssumption
  <2>3. [type |-> "PUBLISH", seq |-> published[c] + 1] \in BrokerPackets
    BY <2>2 DEF BrokerPackets, Messages
  <2>4. fromBroker' \in [Conns -> Seq(BrokerPackets)]
    BY <2>3, AppendProperties DEF PeerType
  <2> QED
    BY <2>1, <2>2, <2>4 DEF PeerType
<1> QED
  BY <1>1, <1>2, <1>3, <1>4 DEF PeerStep

LEMMA StepTypeOK == TypeOK /\ [Next]_vars => TypeOK'
<1> SUFFICES ASSUME TypeOK, [Next]_vars PROVE TypeOK'
  OBVIOUS
<1>1. CASE ClientStep
  BY <1>1, CallConnectType, ConnectEndsType, CallRequestType, RequestEnqueueType,
     RequestEndsType, ReceiveType, CancelCallType DEF ClientStep
<1>2. ASSUME NEW c \in Conns, ConnectionStep(c) PROVE TypeOK'
  BY <1>2, HandshakeCompletesType, HandleRequestType, EndTaskType, HandleIncomingType
     DEF ConnectionStep, NoPacketId, ConnectionClosed, ConnectionLost
<1>3. ASSUME NEW c \in Conns, PeerStep(c) PROVE TypeOK'
  BY <1>3, BrokerStepType
<1>4. CASE UNCHANGED vars
  BY <1>4, ApiUnchanged, ChannelUnchanged, TaskUnchanged, PeerUnchanged DEF vars, TypeOK
<1> QED
  BY <1>1, <1>2, <1>3, <1>4 DEF Next

\* Every variable keeps its type, and no channel exceeds its capacity: the
\* request channel of one and the message channel of MsgCapacity.
THEOREM TypeCorrect == Spec => []TypeOK
  BY InitTypeOK, StepTypeOK, PTL DEF Spec

-----------------------------------------------------------------------------
(* A call that returns Ok was acknowledged.                                *)

\* The inductive invariant: what is in flight is consistent, and so is every
\* outcome.
IInv == TypeOK /\ InFlight /\ OkMeansAnswered

LEMMA InitIInv == Init => IInv
<1> SUFFICES ASSUME Init PROVE IInv
  OBVIOUS
<1>1. TypeOK
  BY InitTypeOK
<1>2. \A c \in Conns : fromBroker[c] = <<>> /\ sent[c] = {} /\ currentRequest[c].req = NoReq
  BY DEF Init, NoRequest
<1>3. \A c \in Conns : AcksOf(c) = {}
  BY <1>2, LenProperties DEF AcksOf
<1>4. InFlight
  BY <1>2, <1>3 DEF InFlight, SentHeld, AcksHeld, OnePerId, CurrentHeld, NotifiedAnswered, Init
<1>5. OkMeansAnswered
  BY DEF OkMeansAnswered, Init
<1> QED
  BY <1>1, <1>4, <1>5 DEF IInv

\* Nothing that InFlight speaks of changes.
LEMMA InFlightUnchanged ==
    ASSUME InFlight, UNCHANGED <<owner, sent, fromBroker, currentRequest, notified, answer>>
    PROVE  InFlight'
  BY DEF InFlight, SentHeld, AcksHeld, OnePerId, CurrentHeld, NotifiedAnswered, AcksOf

\* An outcome becomes "ok" in one place only.
LEMMA OutcomeUnchanged ==
    ASSUME OkMeansAnswered, UNCHANGED <<outcome, answer>> PROVE OkMeansAnswered'
  BY DEF OkMeansAnswered

\* The methods of the Client: RequestReturns spends a permit of the Notify.
LEMMA ClientStepIInv == ASSUME IInv, ClientStep PROVE InFlight' /\ OkMeansAnswered'
<1> USE DEF IInv
<1>1. CASE RequestReturns
  <2>1. call.req \in notified /\ notified \subseteq Requests
    BY <1>1 DEF RequestReturns, TypeOK, ChannelType
  <2>2. answer[call.req] # "none"
    BY <2>1 DEF InFlight, NotifiedAnswered
  <2>3. OkMeansAnswered'
    BY <1>1, <2>1, <2>2 DEF RequestReturns, OkMeansAnswered, brokerVars, TypeOK, ApiType
  <2>4. NotifiedAnswered'
    BY <1>1 DEF RequestReturns, InFlight, NotifiedAnswered, brokerVars
  <2>5. UNCHANGED <<owner, sent, fromBroker, currentRequest, answer>>
    BY <1>1 DEF RequestReturns, sessionVars, streamVars, brokerVars
  <2> QED
    BY <2>3, <2>4, <2>5 DEF InFlight, SentHeld, AcksHeld, OnePerId, CurrentHeld, AcksOf
<1>2. CASE ClientStep /\ ~RequestReturns
  <2>1. UNCHANGED <<owner, sent, fromBroker, currentRequest, notified, answer>>
    BY <1>2 DEF ClientStep, CallConnect, ConnectInitFails, ConnectSpawns, ConnectReturns,
       CallRequest, RequestEnqueue, RequestSendFails, CallRcv, ReceiveReturns, ReceiveFails,
       CancelCall, sessionVars, streamVars, brokerVars
  <2>2. \A r \in Requests : outcome'[r] = "ok" => outcome[r] = "ok"
    <3>1. outcome \in [Requests -> {"unused", "pending", "ok", "err", "cancelled"}]
      BY DEF TypeOK, ApiType
    <3> QED
      BY <1>2, <3>1 DEF ClientStep, CallConnect, ConnectInitFails, ConnectSpawns, ConnectReturns,
         CallRequest, RequestEnqueue, RequestSendFails, CallRcv, ReceiveReturns, ReceiveFails,
         CancelCall, apiVars
  <2> QED
    BY <2>1, <2>2, InFlightUnchanged DEF OkMeansAnswered
<1> QED
  BY <1>1, <1>2

\* A step that puts no acknowledgement and no request's packet in flight: each
\* acknowledgement left was there before, `shift' places further on.
LEMMA FewerOnePerId ==
    ASSUME OnePerId,
           \A c \in Conns : sent'[c] \subseteq sent[c] \cup {ConnectPacket},
           NEW shift \in [Conns -> Nat],
           \A c \in Conns : \A k \in AcksOf(c)' :
               k + shift[c] \in AcksOf(c) /\ fromBroker'[c][k] = fromBroker[c][k + shift[c]]
    PROVE  OnePerId'
<1>1. ConnectPacket \notin RequestPackets
  BY DEF ConnectPacket, RequestPackets
<1> SUFFICES ASSUME NEW c \in Conns, NEW k \in AcksOf(c)'
             PROVE  /\ \A j \in AcksOf(c)' : fromBroker'[c][j].id = fromBroker'[c][k].id => j = k
                    /\ \A p \in sent'[c] : p \in RequestPackets => p.id # fromBroker'[c][k].id
  BY DEF OnePerId
<1>2. ASSUME NEW j \in AcksOf(c)', fromBroker'[c][j].id = fromBroker'[c][k].id PROVE j = k
  <2>1. j + shift[c] = k + shift[c]
    BY <1>2 DEF OnePerId
  <2>2. j \in Int /\ k \in Int /\ shift[c] \in Int
    BY DEF AcksOf
  <2> QED
    BY <2>1, <2>2
<1>3. ASSUME NEW p \in sent'[c], p \in RequestPackets PROVE p.id # fromBroker'[c][k].id
  BY <1>1, <1>3 DEF OnePerId
<1> QED
  BY <1>2, <1>3

LEMMA FewerPackets ==
    ASSUME InFlight, UNCHANGED <<owner, currentRequest, notified, answer>>,
           \A c \in Conns : sent'[c] \subseteq sent[c] \cup {ConnectPacket},
           NEW shift \in [Conns -> Nat],
           \A c \in Conns : \A k \in AcksOf(c)' :
               k + shift[c] \in AcksOf(c) /\ fromBroker'[c][k] = fromBroker[c][k + shift[c]]
    PROVE  InFlight'
<1>1. ConnectPacket \notin RequestPackets
  BY DEF ConnectPacket, RequestPackets
<1>2. SentHeld'
  BY <1>1 DEF InFlight, SentHeld
<1>3. AcksHeld'
  BY DEF InFlight, AcksHeld
<1>4. OnePerId'
  BY FewerOnePerId DEF InFlight
<1>5. CurrentHeld' /\ NotifiedAnswered'
  BY DEF InFlight, CurrentHeld, NotifiedAnswered
<1> QED
  BY <1>2, <1>3, <1>4, <1>5 DEF InFlight

NoShift == [c \in Conns |-> 0]

OneShift(c) == [d \in Conns |-> IF d = c THEN 1 ELSE 0]

\* The first packet is gone: the others moved up.
LEMMA ConsumeShifts ==
    ASSUME PeerType, NEW c \in Conns, fromBroker[c] # <<>>, Consume(c)
    PROVE  /\ OneShift(c) \in [Conns -> Nat]
           /\ \A d \in Conns : \A k \in AcksOf(d)' :
                k + OneShift(c)[d] \in AcksOf(d)
                /\ fromBroker'[d][k] = fromBroker[d][k + OneShift(c)[d]]
<1>1. OneShift(c) \in [Conns -> Nat]
  BY DEF OneShift
<1> SUFFICES ASSUME NEW d \in Conns, NEW k \in AcksOf(d)'
             PROVE  k + OneShift(c)[d] \in AcksOf(d)
                    /\ fromBroker'[d][k] = fromBroker[d][k + OneShift(c)[d]]
  BY <1>1
<1>2. CASE d = c
  <2>1. fromBroker[c] \in Seq(BrokerPackets) /\ fromBroker'[c] = Tail(fromBroker[c])
    BY DEF PeerType, Consume
  <2>2. k \in 1..Len(Tail(fromBroker[c])) /\ IsAck(Tail(fromBroker[c])[k])
    BY <1>2, <2>1 DEF AcksOf, IsAck
  <2>3. k + 1 \in 1..Len(fromBroker[c]) /\ Tail(fromBroker[c])[k] = fromBroker[c][k + 1]
    BY <2>1, <2>2, HeadTailProperties, LenProperties
  <2>4. OneShift(c)[d] = 1
    BY <1>2 DEF OneShift
  <2> QED
    BY <1>2, <2>1, <2>2, <2>3, <2>4 DEF AcksOf
<1>3. CASE d # c
  <2>1. fromBroker'[d] = fromBroker[d]
    BY <1>3 DEF PeerType, Consume
  <2>2. k \in AcksOf(d) /\ k \in Int
    BY <2>1 DEF AcksOf, IsAck
  <2>3. OneShift(c)[d] = 0
    BY <1>3 DEF OneShift
  <2> QED
    BY <2>1, <2>2, <2>3
<1> QED
  BY <1>2, <1>3

\* A packet that is no acknowledgement was appended, or the stream was emptied.
LEMMA AppendedNoAck ==
    ASSUME PeerType, NEW c \in Conns, NEW q \in BrokerPackets, ~IsAck(q),
           \/ fromBroker' = [fromBroker EXCEPT ![c] = Append(@, q)]
           \/ fromBroker' = [fromBroker EXCEPT ![c] = <<>>]
           \/ fromBroker' = fromBroker
    PROVE  /\ NoShift \in [Conns -> Nat]
           /\ \A d \in Conns : \A k \in AcksOf(d)' :
                k + NoShift[d] \in AcksOf(d) /\ fromBroker'[d][k] = fromBroker[d][k + NoShift[d]]
<1> SUFFICES ASSUME NEW d \in Conns, NEW k \in AcksOf(d)'
             PROVE  k \in AcksOf(d) /\ fromBroker'[d][k] = fromBroker[d][k]
  BY DEF NoShift, AcksOf
<1>1. k \in 1..Len(fromBroker'[d]) /\ IsAck(fromBroker'[d][k])
  BY DEF AcksOf, IsAck
<1>2. CASE fromBroker'[d] = fromBroker[d]
  BY <1>1, <1>2 DEF AcksOf, IsAck
<1>3. CASE fromBroker'[d] = <<>>
  BY <1>1, <1>3
<1>4. CASE fromBroker'[d] = Append(fromBroker[d], q)
  <2>1. fromBroker[d] \in Seq(BrokerPackets)
    BY DEF PeerType
  <2>2. /\ Len(fromBroker'[d]) = Len(fromBroker[d]) + 1
        /\ fromBroker'[d][Len(fromBroker[d]) + 1] = q
        /\ \A j \in 1..Len(fromBroker[d]) : fromBroker'[d][j] = fromBroker[d][j]
    BY <1>4, <2>1, AppendProperties
  <2>3. k \in 1..Len(fromBroker[d])
    BY <1>1, <2>1, <2>2, LenProperties
  <2> QED
    BY <1>1, <2>2, <2>3 DEF AcksOf
<1> QED
  BY <1>2, <1>3, <1>4 DEF PeerType

\* The handshake, and every packet but an acknowledgement: the identifiers stay
\* with whom they are.
LEMMA QuietConnectionStep ==
    ASSUME IInv, NEW c \in Conns,
           HandshakeCompletes(c) \/ ConnackReceived(c) \/ MessageReceived(c) \/ DisconnectReceived(c)
    PROVE  InFlight' /\ OkMeansAnswered'
<1> USE DEF IInv, TypeOK
<1>1. UNCHANGED <<owner, currentRequest, notified, answer, outcome>>
  BY DEF HandshakeCompletes, ConnackReceived, MessageReceived, DisconnectReceived, apiVars,
     brokerVars
<1>2. OkMeansAnswered'
  BY <1>1, OutcomeUnchanged
<1>3. CASE HandshakeCompletes(c)
  <2>1. \A d \in Conns : sent'[d] \subseteq sent[d] \cup {ConnectPacket}
    BY <1>3 DEF HandshakeCompletes, StreamWrite, PeerType
  <2>2. fromBroker' = fromBroker
    BY <1>3 DEF HandshakeCompletes
  <2>3. [type |-> "DISCONNECT"] \in BrokerPackets /\ ~IsAck([type |-> "DISCONNECT"])
    BY DEF BrokerPackets, Disconnects, IsAck
  <2>4. /\ NoShift \in [Conns -> Nat]
        /\ \A d \in Conns : \A k \in AcksOf(d)' :
             k + NoShift[d] \in AcksOf(d) /\ fromBroker'[d][k] = fromBroker[d][k + NoShift[d]]
    BY <2>2, <2>3, AppendedNoAck
  <2> QED
    BY <1>1, <1>2, <2>1, <2>4, FewerPackets
<1>4. CASE ConnackReceived(c) \/ MessageReceived(c) \/ DisconnectReceived(c)
  <2>1. fromBroker[c] # <<>> /\ Consume(c) /\ sent' = sent
    BY <1>4 DEF ConnackReceived, MessageReceived, DisconnectReceived, Incoming
  <2> QED
    BY <1>1, <1>2, <2>1, ConsumeShifts, FewerPackets
<1> QED
  BY <1>3, <1>4

LEMMA QuietPeerStep ==
    ASSUME IInv, NEW c \in Conns,
           \/ PeerCloses(c) \/ BrokerDisconnect(c) \/ BrokerPublish(c)
           \/ \E ok \in BOOLEAN : BrokerConnack(c, ok)
    PROVE  InFlight' /\ OkMeansAnswered'
<1> USE DEF IInv, TypeOK
<1>1. UNCHANGED <<owner, currentRequest, notified, answer, outcome>>
  BY DEF PeerCloses, BrokerDisconnect, BrokerPublish, BrokerConnack, BrokerAnswers, apiVars,
     sessionVars
<1>2. OkMeansAnswered'
  BY <1>1, OutcomeUnchanged
<1>3. \A d \in Conns : sent'[d] \subseteq sent[d] \cup {ConnectPacket}
  <2>1. \/ sent' = sent
        \/ sent' = [sent EXCEPT ![c] = {}]
        \/ sent' = [sent EXCEPT ![c] = @ \ {ConnectPacket}]
    BY DEF PeerCloses, BrokerDisconnect, BrokerPublish, BrokerConnack, BrokerAnswers
  <2> QED
    BY <2>1 DEF PeerType
<1>4. PICK q \in BrokerPackets :
        /\ ~IsAck(q)
        /\ \/ fromBroker' = [fromBroker EXCEPT ![c] = Append(@, q)]
           \/ fromBroker' = [fromBroker EXCEPT ![c] = <<>>]
  <2>1. [type |-> "DISCONNECT"] \in BrokerPackets /\ ~IsAck([type |-> "DISCONNECT"])
    BY DEF BrokerPackets, Disconnects, IsAck
  <2>2. CASE PeerCloses(c) \/ BrokerDisconnect(c)
    BY <2>1, <2>2 DEF PeerCloses, BrokerDisconnect
  <2>3. CASE BrokerPublish(c)
    <3>1. published[c] + 1 \in 1..MaxMessages
      BY <2>3, ClientAssumption DEF BrokerPublish, PeerType, ClientAssumption
    <3>2. /\ [type |-> "PUBLISH", seq |-> published[c] + 1] \in BrokerPackets
          /\ ~IsAck([type |-> "PUBLISH", seq |-> published[c] + 1])
      BY <3>1 DEF BrokerPackets, Messages, IsAck
    <3> QED
      BY <2>3, <3>2 DEF BrokerPublish
  <2>4. ASSUME NEW ok \in BOOLEAN, BrokerConnack(c, ok)
        PROVE  \E q \in BrokerPackets :
                 ~IsAck(q) /\ fromBroker' = [fromBroker EXCEPT ![c] = Append(@, q)]
    <3>1. /\ [type |-> "CONNACK", ok |-> ok] \in BrokerPackets
          /\ ~IsAck([type |-> "CONNACK", ok |-> ok])
      BY DEF BrokerPackets, Connacks, IsAck
    <3> QED
      BY <2>4, <3>1 DEF BrokerConnack, BrokerAnswers
  <2> QED
    BY <2>2, <2>3, <2>4
<1>5. /\ NoShift \in [Conns -> Nat]
      /\ \A d \in Conns : \A k \in AcksOf(d)' :
           k + NoShift[d] \in AcksOf(d) /\ fromBroker'[d][k] = fromBroker[d][k + NoShift[d]]
  BY <1>4, AppendedNoAck
<1> QED
  BY <1>1, <1>2, <1>3, <1>5, FewerPackets

\* A request from the channel gets an identifier under which nothing is in flight.
LEMMA HandleRequestIInv ==
    ASSUME IInv, NEW c \in Conns, HandleRequest(c) PROVE InFlight' /\ OkMeansAnswered'
<1> USE DEF IInv, TypeOK
<1> DEFINE r == Head(reqChan[c])
           new(i) == [type |-> RequestType(r), id |-> i, req |-> r]
<1>1. PICK i \in FreeIds(c) :
        /\ currentRequest' = [currentRequest EXCEPT ![c] = [req |-> r, id |-> i]]
        /\ IF mqtt[c] = "connected"
             THEN /\ owner' = [owner EXCEPT ![c][i] = r]
                  /\ StreamWrite(c, new(i))
             ELSE UNCHANGED <<owner, sent, deaf>>
  BY DEF HandleRequest
<1>2. i \in PacketIds /\ owner[c][i] = NoReq
  BY DEF FreeIds
<1>3. r \in Requests /\ new(i) \in RequestPackets
  BY <1>2, HeadOfRequests, PacketTypes DEF HandleRequest
<1>4. UNCHANGED <<notified, answer, outcome, fromBroker>>
  BY DEF HandleRequest, apiVars, brokerVars
<1>5. /\ new(i).id = i /\ new(i).req = r
      /\ NoReq \notin Requests
  BY ClientAssumption DEF ClientAssumption
<1>6. \A d \in Conns : AcksOf(d)' = AcksOf(d)
  BY <1>4 DEF AcksOf
<1> DEFINE n == new(i)
<1> HIDE DEF r, new, n
<1>7. \A p \in sent[c] : p \in RequestPackets => p.id # i
  BY <1>2, <1>5 DEF InFlight, SentHeld, RequestPackets
<1>8. \A k \in AcksOf(c) : fromBroker[c][k].id # i
  <2> SUFFICES ASSUME NEW k \in AcksOf(c), fromBroker[c][k].id = i PROVE FALSE
    OBVIOUS
  <2>1. fromBroker[c][k].req \in Requests
    <3>1. fromBroker[c][k] \in BrokerPackets /\ IsAck(fromBroker[c][k])
      BY DEF AcksOf, PeerType
    <3> QED
      BY <3>1 DEF BrokerPackets, Acks, Connacks, Messages, Disconnects, IsAck
  <2> QED
    BY <1>2, <1>5, <2>1 DEF InFlight, AcksHeld
<1>9. \A d \in Conns : \A j \in PacketIds : d # c \/ j # i => owner'[d][j] = owner[d][j]
  <2>1. CASE mqtt[c] = "connected"
    <3>1. owner' = [owner EXCEPT ![c] = [owner[c] EXCEPT ![i] = r]]
      BY <1>1, <2>1
    <3> QED
      BY <3>1, <1>2 DEF TaskType
  <2> QED
    BY <1>1, <2>1
<1>10. owner'[c][i] \in {r, NoReq}
  <2>1. CASE mqtt[c] = "connected"
    BY <1>1, <1>2, <2>1 DEF TaskType
  <2> QED
    BY <1>1, <1>2, <2>1
<1>11. \/ sent' = sent
       \/ sent' = [sent EXCEPT ![c] = @ \cup {n}] /\ owner'[c][i] = r
  <2>1. CASE mqtt[c] = "connected"
    <3>1. owner'[c][i] = r
      BY <1>1, <1>2, <2>1 DEF TaskType
    <3>2. sent' = sent \/ sent' = [sent EXCEPT ![c] = @ \cup {n}]
      BY <1>1, <2>1 DEF StreamWrite, n
    <3> QED
      BY <3>1, <3>2
  <2> QED
    BY <1>1, <2>1
<1>12. n \in RequestPackets /\ n.id = i /\ n.req = r
  BY <1>3, <1>5 DEF n
<1>13. SentHeld'
  <2> SUFFICES ASSUME NEW d \in Conns, NEW p \in sent'[d], p \in RequestPackets
               PROVE  owner'[d][p.id] = p.req
    BY DEF SentHeld
  <2>1. CASE p \in sent[d]
    <3>1. owner[d][p.id] = p.req /\ p.id \in PacketIds
      BY <2>1 DEF InFlight, SentHeld, RequestPackets
    <3> QED
      BY <1>7, <1>9, <2>1, <3>1
  <2>2. CASE p \notin sent[d]
    <3>1. d = c /\ p = n /\ owner'[c][i] = r
      BY <1>11, <2>2 DEF PeerType
    <3> QED
      BY <1>12, <3>1
  <2> QED
    BY <2>1, <2>2
<1>14. AcksHeld'
  <2> SUFFICES ASSUME NEW d \in Conns, NEW k \in AcksOf(d)
               PROVE  owner'[d][fromBroker[d][k].id] = owner[d][fromBroker[d][k].id]
    BY <1>4, <1>6 DEF InFlight, AcksHeld
  <2>1. fromBroker[d][k].id \in PacketIds
    <3>1. fromBroker[d][k] \in BrokerPackets /\ IsAck(fromBroker[d][k])
      BY DEF AcksOf, PeerType
    <3> QED
      BY <3>1 DEF BrokerPackets, Acks, Connacks, Messages, Disconnects, IsAck
  <2> QED
    BY <1>8, <1>9, <2>1
<1>15. OnePerId'
  <2> SUFFICES ASSUME NEW d \in Conns, NEW k \in AcksOf(d), NEW p \in sent'[d],
                      p \in RequestPackets
               PROVE  p.id # fromBroker[d][k].id
    BY <1>4, <1>6 DEF InFlight, OnePerId
  <2>1. CASE p \in sent[d]
    BY <2>1 DEF InFlight, OnePerId
  <2>2. CASE p \notin sent[d]
    <3>1. d = c /\ p = n
      BY <1>11, <2>2 DEF PeerType
    <3> QED
      BY <1>8, <1>12, <3>1
  <2> QED
    BY <2>1, <2>2
<1>16. CurrentHeld'
  <2> SUFFICES ASSUME NEW d \in Conns, currentRequest'[d].req # NoReq
               PROVE  /\ currentRequest'[d].id \in PacketIds
                      /\ owner'[d][currentRequest'[d].id] \in {currentRequest'[d].req, NoReq}
    BY DEF CurrentHeld
  <2>1. CASE d = c
    <3>1. currentRequest'[c].req = r /\ currentRequest'[c].id = i
      BY <1>1 DEF TaskType
    <3> QED
      BY <1>2, <1>10, <2>1, <3>1
  <2>2. CASE d # c
    <3>1. currentRequest'[d] = currentRequest[d]
      BY <1>1, <2>2 DEF TaskType
    <3> QED
      BY <1>9, <2>2, <3>1 DEF InFlight, CurrentHeld
  <2> QED
    BY <2>1, <2>2
<1>17. NotifiedAnswered' /\ OkMeansAnswered'
  BY <1>4, OutcomeUnchanged DEF InFlight, NotifiedAnswered
<1> QED
  BY <1>13, <1>14, <1>15, <1>16, <1>17 DEF InFlight

\* The end of a task takes all that was in flight with it.
LEMMA EndTaskIInv ==
    ASSUME IInv, NEW c \in Conns, EndTask(c) PROVE InFlight' /\ OkMeansAnswered'
<1> USE DEF IInv, TypeOK
<1>1. /\ sent'[c] = {} /\ fromBroker'[c] = <<>> /\ currentRequest'[c].req = NoReq
      /\ \A d \in Conns \ {c} : /\ sent'[d] = sent[d] /\ fromBroker'[d] = fromBroker[d]
                              /\ currentRequest'[d] = currentRequest[d]
                              /\ owner'[d] = owner[d]
      /\ UNCHANGED <<notified, answer, outcome>>
  BY DEF EndTask, TaskType, PeerType, NoRequest, apiVars
<1>2. AcksOf(c)' = {} /\ \A d \in Conns \ {c} : AcksOf(d)' = AcksOf(d)
  BY <1>1, LenProperties DEF AcksOf
<1>3. SentHeld' /\ CurrentHeld' /\ NotifiedAnswered'
  BY <1>1 DEF InFlight, SentHeld, CurrentHeld, NotifiedAnswered
<1>4. AcksHeld'
  BY <1>1, <1>2 DEF InFlight, AcksHeld
<1>5. OnePerId'
  BY <1>1, <1>2 DEF InFlight, OnePerId
<1>6. OkMeansAnswered'
  BY <1>1, OutcomeUnchanged
<1> QED
  BY <1>3, <1>4, <1>5, <1>6 DEF InFlight

\* What an acknowledgement on its way says.
LEMMA AckFacts ==
    ASSUME IInv, NEW c \in Conns, NEW k \in AcksOf(c)
    PROVE  LET q == fromBroker[c][k] IN
           /\ q \in BrokerPackets /\ q.req \in Requests /\ q.id \in PacketIds
           /\ owner[c][q.id] = q.req /\ answer[q.req] # "none"
<1>1. fromBroker[c][k] \in BrokerPackets /\ IsAck(fromBroker[c][k])
  BY DEF AcksOf, IInv, TypeOK, PeerType
<1> QED
  BY <1>1 DEF BrokerPackets, Acks, Connacks, Messages, Disconnects, IsAck, IInv, InFlight, AcksHeld

\* An acknowledgement frees its identifier: it was the only packet under it,
\* and the request it completes is the one it answers.
LEMMA AckReceivedIInv ==
    ASSUME IInv, NEW c \in Conns, AckReceived(c) PROVE InFlight' /\ OkMeansAnswered'
<1> DEFINE p == Head(fromBroker[c])
           cur == currentRequest[c]
<1>1. fromBroker[c] # <<>> /\ Consume(c) /\ UNCHANGED <<sent, answer, outcome>>
  BY DEF AckReceived, Incoming, apiVars, brokerVars
<1>2. 1 \in AcksOf(c) /\ p = fromBroker[c][1]
  <2>1. fromBroker[c] \in Seq(BrokerPackets)
    BY DEF IInv, TypeOK, PeerType
  <2>2. 1 \in 1..Len(fromBroker[c]) /\ p = fromBroker[c][1]
    BY <1>1, <2>1, EmptySeq, LenProperties, HeadTailProperties
  <2>3. IsAck(p)
    BY DEF AckReceived, Incoming, IsAck
  <2> QED
    BY <2>2, <2>3 DEF AcksOf
<1>3. /\ p.req \in Requests /\ p.id \in PacketIds
      /\ owner[c][p.id] = p.req /\ answer[p.req] # "none"
  BY <1>2, AckFacts
<1>4. /\ owner' = [owner EXCEPT ![c][p.id] = NoReq]
      /\ IF AckMatches(cur, p)
           THEN /\ notified' = notified \cup {cur.req}
                /\ currentRequest' = [currentRequest EXCEPT ![c] = NoRequest]
           ELSE UNCHANGED <<notified, currentRequest>>
  BY DEF AckReceived
<1> HIDE DEF p, cur
<1>5. /\ \A d \in Conns : \A j \in PacketIds :
           d # c \/ j # p.id => owner'[d][j] = owner[d][j]
      /\ owner'[c][p.id] = NoReq
  <2>1. owner' = [owner EXCEPT ![c] = [owner[c] EXCEPT ![p.id] = NoReq]]
    BY <1>4
  <2> QED
    BY <1>3, <2>1 DEF IInv, TypeOK, TaskType
<1>6. SentHeld'
  <2> SUFFICES ASSUME NEW d \in Conns, NEW q \in sent[d], q \in RequestPackets
               PROVE  owner'[d][q.id] = q.req
    BY <1>1 DEF SentHeld
  <2>1. owner[d][q.id] = q.req /\ q.id \in PacketIds
    BY DEF IInv, InFlight, SentHeld, RequestPackets
  <2>2. d = c => q.id # p.id
    BY <1>2 DEF IInv, InFlight, OnePerId
  <2> QED
    BY <1>5, <2>1, <2>2
<1>7. /\ OneShift(c) \in [Conns -> Nat]
      /\ \A d \in Conns : \A k \in AcksOf(d)' :
           k + OneShift(c)[d] \in AcksOf(d)
           /\ fromBroker'[d][k] = fromBroker[d][k + OneShift(c)[d]]
  BY <1>1, ConsumeShifts DEF IInv, TypeOK
<1>8. AcksHeld'
  <2> SUFFICES ASSUME NEW d \in Conns, NEW k \in AcksOf(d)'
               PROVE  LET q == fromBroker'[d][k] IN
                      owner'[d][q.id] = q.req /\ answer'[q.req] # "none"
    BY DEF AcksHeld
  <2> DEFINE q == fromBroker'[d][k]
             s == k + OneShift(c)[d]
  <2>1. s \in AcksOf(d) /\ q = fromBroker[d][s]
    BY <1>7
  <2>2. q.id \in PacketIds /\ owner[d][q.id] = q.req /\ answer[q.req] # "none"
    BY <2>1, AckFacts
  <2>3. d = c => q.id # p.id
    <3> SUFFICES ASSUME d = c, q.id = p.id PROVE FALSE
      OBVIOUS
    <3>1. s = 1
      BY <1>2, <2>1 DEF IInv, InFlight, OnePerId
    <3>2. s = k + 1 /\ k \in 1..Len(fromBroker'[d])
      BY DEF OneShift, AcksOf
    <3>3. k \in Int /\ 1 <= k
      BY <3>2
    <3> QED
      BY <3>1, <3>2, <3>3
  <2> HIDE DEF q, s
  <2>4. owner'[d][q.id] = q.req /\ answer'[q.req] # "none"
    BY <1>1, <1>5, <2>2, <2>3
  <2> QED
    BY <2>4 DEF q
<1>9. OnePerId'
  <2>1. \A d \in Conns : sent'[d] \subseteq sent[d] \cup {ConnectPacket}
    BY <1>1
  <2> QED
    BY <1>7, <2>1, FewerOnePerId DEF IInv, InFlight
<1>10. CurrentHeld'
  <2> SUFFICES ASSUME NEW d \in Conns, currentRequest'[d].req # NoReq
               PROVE  /\ currentRequest'[d].id \in PacketIds
                      /\ owner'[d][currentRequest'[d].id] \in {currentRequest'[d].req, NoReq}
    BY DEF CurrentHeld
  <2>1. currentRequest'[d] = currentRequest[d]
    <3>1. CASE AckMatches(cur, p)
      BY <1>4, <3>1 DEF IInv, TypeOK, TaskType, NoRequest
    <3> QED
      BY <1>4, <3>1
  <2>2. /\ currentRequest[d].id \in PacketIds
        /\ owner[d][currentRequest[d].id] \in {currentRequest[d].req, NoReq}
    BY <2>1 DEF IInv, InFlight, CurrentHeld
  <2> QED
    BY <1>5, <2>1, <2>2
<1>11. NotifiedAnswered'
  <2>1. CASE AckMatches(cur, p)
    <3>1. cur.req # NoReq /\ cur.id = p.id
      BY <2>1 DEF AckMatches
    <3>2. owner[c][p.id] \in {cur.req, NoReq}
      BY <3>1 DEF IInv, InFlight, CurrentHeld, cur
    <3>3. cur.req = p.req
      BY <1>3, <3>2, ClientAssumption DEF ClientAssumption
    <3> QED
      BY <1>1, <1>3, <1>4, <2>1, <3>3 DEF IInv, InFlight, NotifiedAnswered
  <2>2. CASE ~AckMatches(cur, p)
    BY <1>1, <1>4, <2>2 DEF IInv, InFlight, NotifiedAnswered
  <2> QED
    BY <2>1, <2>2
<1>12. OkMeansAnswered'
  BY <1>1, OutcomeUnchanged DEF IInv
<1> QED
  BY <1>6, <1>8, <1>9, <1>10, <1>11, <1>12 DEF InFlight

\* A request's packet is known by its identifier and its request.
LEMMA PacketIsItsRequest ==
    ASSUME NEW p \in RequestPackets, NEW q \in RequestPackets, p.id = q.id, p.req = q.req
    PROVE  p = q
<1>1. /\ p = [type |-> p.type, id |-> p.id, req |-> p.req]
      /\ q = [type |-> q.type, id |-> q.id, req |-> q.req]
      /\ p.type = q.type
  BY DEF RequestPackets
<1> QED
  BY <1>1

\* The broker answers: the packet leaves one direction of the stream as its
\* acknowledgement enters the other.
LEMMA BrokerAckIInv ==
    ASSUME IInv, NEW c \in Conns, BrokerAcks(c) PROVE InFlight' /\ OkMeansAnswered'
<1>1. PICK p \in sent[c], a \in {"ok", "refused"} : BrokerAck(c, p, a)
  BY DEF BrokerAcks
<1> DEFINE q == [type |-> AckType(p.req), id |-> p.id, req |-> p.req]
           n == Len(fromBroker[c]) + 1
<1>2. p \in RequestPackets /\ p.req \in Requests /\ p.id \in PacketIds
  BY <1>1 DEF BrokerAck, RequestPackets
<1>3. /\ sent' = [sent EXCEPT ![c] = @ \ {p}]
      /\ fromBroker' = [fromBroker EXCEPT ![c] = Append(@, q)]
      /\ answer' = [answer EXCEPT ![p.req] = a]
      /\ UNCHANGED <<owner, currentRequest, notified, outcome>>
  BY <1>1 DEF BrokerAck, BrokerAnswers, apiVars, sessionVars
<1>4. q \in BrokerPackets /\ q.id = p.id /\ q.req = p.req
  BY <1>2, PacketTypes
<1> HIDE DEF q
<1>5. /\ fromBroker[c] \in Seq(BrokerPackets) /\ n \in Nat
      /\ fromBroker'[c] = Append(fromBroker[c], q)
      /\ \A d \in Conns \ {c} : fromBroker'[d] = fromBroker[d]
  BY <1>3, LenProperties DEF IInv, TypeOK, PeerType
<1>6. /\ Len(fromBroker'[c]) = n /\ fromBroker'[c][n] = q
      /\ \A j \in 1..Len(fromBroker[c]) : fromBroker'[c][j] = fromBroker[c][j]
  BY <1>4, <1>5, AppendProperties
<1>7. \A d \in Conns : \A k \in AcksOf(d)' :
        \/ k \in AcksOf(d) /\ fromBroker'[d][k] = fromBroker[d][k]
        \/ d = c /\ k = n
  <2> SUFFICES ASSUME NEW d \in Conns, NEW k \in AcksOf(d)', ~(d = c /\ k = n)
               PROVE  k \in AcksOf(d) /\ fromBroker'[d][k] = fromBroker[d][k]
    OBVIOUS
  <2>1. k \in 1..Len(fromBroker'[d]) /\ IsAck(fromBroker'[d][k])
    BY DEF AcksOf, IsAck
  <2>2. CASE d = c
    <3>1. k \in 1..Len(fromBroker[c])
      BY <1>5, <1>6, <2>1, <2>2
    <3> QED
      BY <1>6, <2>1, <2>2, <3>1 DEF AcksOf
  <2>3. CASE d # c
    BY <1>5, <2>1, <2>3 DEF AcksOf
  <2> QED
    BY <2>2, <2>3
<1>8. \A r \in Requests : answer[r] # "none" => answer'[r] # "none"
  BY <1>3 DEF IInv, TypeOK, PeerType
<1>9. answer'[p.req] # "none"
  BY <1>2, <1>3 DEF IInv, TypeOK, PeerType
<1>10. \A d \in Conns : sent'[d] \subseteq sent[d] /\ (d = c => p \notin sent'[d])
  BY <1>3 DEF IInv, TypeOK, PeerType
<1>11. SentHeld' /\ CurrentHeld'
  BY <1>3, <1>10 DEF IInv, InFlight, SentHeld, CurrentHeld
<1>12. AcksHeld'
  <2> SUFFICES ASSUME NEW d \in Conns, NEW k \in AcksOf(d)'
               PROVE  LET b == fromBroker'[d][k] IN
                      owner[d][b.id] = b.req /\ answer'[b.req] # "none"
    BY <1>3 DEF AcksHeld
  <2>1. CASE d = c /\ k = n
    <3>1. owner[c][p.id] = p.req
      BY <1>2 DEF IInv, InFlight, SentHeld
    <3> QED
      BY <1>4, <1>6, <1>9, <2>1, <3>1
  <2>2. CASE ~(d = c /\ k = n)
    BY <1>7, <1>8, <2>2, AckFacts
  <2> QED
    BY <2>1, <2>2
<1>13. OnePerId'
  <2>1. \A k \in AcksOf(c) : fromBroker[c][k].id # p.id
    BY <1>2 DEF IInv, InFlight, OnePerId
  <2> SUFFICES ASSUME NEW d \in Conns, NEW k \in AcksOf(d)'
               PROVE  /\ \A j \in AcksOf(d)' :
                            fromBroker'[d][j].id = fromBroker'[d][k].id => j = k
                      /\ \A m \in sent'[d] :
                            m \in RequestPackets => m.id # fromBroker'[d][k].id
    BY DEF OnePerId
  <2>2. ASSUME NEW j \in AcksOf(d)', fromBroker'[d][j].id = fromBroker'[d][k].id PROVE j = k
    <3>1. CASE d = c /\ (j = n \/ k = n)
      BY <1>4, <1>6, <1>7, <2>1, <2>2, <3>1
    <3>2. CASE ~(d = c /\ (j = n \/ k = n))
      BY <1>7, <2>2, <3>2 DEF IInv, InFlight, OnePerId
    <3> QED
      BY <3>1, <3>2
  <2>3. ASSUME NEW m \in sent'[d], m \in RequestPackets PROVE m.id # fromBroker'[d][k].id
    <3>1. CASE d = c /\ k = n
      <4> SUFFICES ASSUME m.id = p.id PROVE FALSE
        BY <1>4, <1>6, <3>1
      <4>1. m \in sent[c]
        BY <1>10, <2>3, <3>1
      <4>2. m.req = p.req
        BY <1>2, <2>3, <4>1 DEF IInv, InFlight, SentHeld
      <4> QED
        BY <1>2, <1>10, <2>3, <3>1, <4>2, PacketIsItsRequest
    <3>2. CASE ~(d = c /\ k = n)
      BY <1>7, <1>10, <2>3, <3>2 DEF IInv, InFlight, OnePerId
    <3> QED
      BY <3>1, <3>2
  <2> QED
    BY <2>2, <2>3
<1>14. NotifiedAnswered'
  BY <1>3, <1>8 DEF IInv, InFlight, NotifiedAnswered, TypeOK, ChannelType
<1>15. OkMeansAnswered'
  BY <1>3, <1>8 DEF IInv, OkMeansAnswered
<1> QED
  BY <1>11, <1>12, <1>13, <1>14, <1>15 DEF InFlight

LEMMA StepIInv == IInv /\ [Next]_vars => IInv'
<1> SUFFICES ASSUME IInv, [Next]_vars PROVE IInv'
  OBVIOUS
<1>1. TypeOK'
  BY StepTypeOK DEF IInv
<1>2. CASE ClientStep
  BY <1>1, <1>2, ClientStepIInv DEF IInv
<1>3. ASSUME NEW c \in Conns, ConnectionStep(c) PROVE IInv'
  BY <1>1, <1>3, QuietConnectionStep, HandleRequestIInv, EndTaskIInv, AckReceivedIInv
     DEF ConnectionStep, HandleIncoming, NoPacketId, ConnectionClosed, ConnectionLost, IInv
<1>4. ASSUME NEW c \in Conns, PeerStep(c) PROVE IInv'
  BY <1>1, <1>4, QuietPeerStep, BrokerAckIInv DEF PeerStep, IInv
<1>5. CASE UNCHANGED vars
  BY <1>1, <1>5, InFlightUnchanged, OutcomeUnchanged
     DEF vars, IInv, apiVars, sessionVars, streamVars, brokerVars
<1> QED
  BY <1>2, <1>3, <1>4, <1>5 DEF Next

\* A publish() or subscribe() that returns Ok was acknowledged by the broker,
\* whatever calls were given up before it and however acknowledgements overtake
\* one another.
THEOREM OkIsAnswered == Spec => []OkMeansAnswered
<1>1. IInv => OkMeansAnswered
  BY DEF IInv
<1> QED
  BY <1>1, InitIInv, StepIInv, PTL DEF Spec

\* A packet identifier stays with one request until its acknowledgement was
\* read, and what is in flight under it is of that request.
THEOREM IdentifiersAreHeld == Spec => []InFlight
<1>1. IInv => InFlight
  BY DEF IInv
<1> QED
  BY <1>1, InitIInv, StepIInv, PTL DEF Spec

=============================================================================

------------------------- MODULE ClientSessions_proofs -------------------------
(***************************************************************************)
(* Which CONNACK ends which connect(), which messages rcv() returns, and   *)
(* what wakes a call that waits for the broker, for any number of          *)
(* connections and messages and any channel capacity.                      *)
(***************************************************************************)
EXTENDS MqttClient_proofs, FiniteSetTheorems

-----------------------------------------------------------------------------
(* Connections begin in order, and a stream is empty until the handshake.  *)

\* What connect() has not begun is unused; what it is beginning is not spawned.
Begun ==
    /\ \A c \in Conns : c > latest => task[c] = "unused" /\ connOutcome[c] = "none"
    /\ call.op = "initializing" => task[latest] = "initializing"

\* No byte travels on a connection before its handshake.
Silent(c) ==
    /\ sent[c] = {} /\ fromBroker[c] = <<>> /\ connAnswer[c] = "none"
    /\ ~subscribed[c] /\ received[c] = 0 /\ published[c] = 0
SilentAtFirst ==
    \A c \in Conns :
        /\ task[c] \in {"unused", "initializing"} => quic[c] = "handshake"
        /\ quic[c] = "handshake" => Silent(c)

BeginInv == TypeOK /\ Begun /\ SilentAtFirst

streamState == <<quic, sent, fromBroker, connAnswer, subscribed, received, published>>

LEMMA InitBeginInv == Init => BeginInv
BY InitTypeOK, ClientAssumption DEF Init, Idle, BeginInv, Begun, SilentAtFirst, Silent

\* The methods of the Client: only those of connect() touch a task.
LEMMA ClientBegins == ASSUME BeginInv, ClientStep PROVE Begun' /\ SilentAtFirst'
<1>t. /\ latest \in 0..MaxConns /\ MaxConns \in Nat
      /\ task \in [Conns -> {"unused", "initializing", "running", "ended"}]
      /\ connOutcome \in [Conns -> {"none", "ok", "err", "cancelled"}]
      /\ call.op \notin {"idle", "receiving"} => latest \in Conns
  BY ClientAssumption DEF BeginInv, TypeOK, ApiType, TaskType, Conns
<1>1. UNCHANGED streamState
  BY DEF ClientStep, CallConnect, ConnectInitFails, ConnectSpawns, ConnectReturns,
     CallRequest, RequestEnqueue, RequestReturns, RequestSendFails, CallRcv, ReceiveReturns,
     ReceiveFails, CancelCall, sessionVars, streamVars, brokerVars, streamState
<1>2. \A c \in Conns : Silent(c)' <=> Silent(c)
  BY <1>1 DEF Silent, streamState
<1>3. CASE CallConnect
  <2>1. /\ latest' = latest + 1 /\ latest' \in Conns /\ call'.op = "initializing"
        /\ task' = [task EXCEPT ![latest'] = "initializing"] /\ connOutcome' = connOutcome
    BY <1>t, <1>3 DEF CallConnect, Conns
  <2>2. Begun'
    BY <1>t, <2>1 DEF BeginInv, Begun, Conns
  <2>3. SilentAtFirst'
    BY <1>t, <1>1, <1>2, <2>1 DEF BeginInv, Begun, SilentAtFirst, Conns, streamState
  <2> QED
    BY <2>2, <2>3
<1>4. CASE ConnectInitFails \/ ConnectSpawns \/ ConnectReturns \/ CancelCall
  <2>1. /\ latest' = latest /\ call'.op # "initializing"
        /\ \A c \in Conns : \/ task'[c] = task[c]
                            \/ c = latest /\ task'[c] \in {"running", "ended"}
        /\ \A c \in Conns : c # latest => connOutcome'[c] = connOutcome[c]
    BY <1>t, <1>4 DEF ConnectInitFails, ConnectSpawns, ConnectReturns, CancelCall, Idle,
       apiVars, sessionVars
  <2> QED
    BY <1>t, <1>1, <1>2, <2>1 DEF BeginInv, Begun, SilentAtFirst, Conns, streamState
<1>5. CASE \/ \E r \in Requests : CallRequest(r)
           \/ RequestEnqueue \/ RequestReturns \/ RequestSendFails
           \/ CallRcv \/ ReceiveReturns \/ ReceiveFails
  <2>1. UNCHANGED <<latest, task, connOutcome>> /\ (call'.op = "initializing" => call' = call)
    BY <1>5 DEF CallRequest, RequestEnqueue, RequestReturns, RequestSendFails, CallRcv,
       ReceiveReturns, ReceiveFails, Idle, apiVars, sessionVars
  <2> QED
    BY <1>1, <1>2, <2>1 DEF BeginInv, Begun, SilentAtFirst, streamState
<1> QED
  BY <1>3, <1>4, <1>5 DEF ClientStep

\* A step of a task or of its peer leaves the other connections alone, and no
\* byte travels before the handshake.
OthersStay(c) ==
    \A d \in Conns \ {c} :
        /\ quic'[d] = quic[d] /\ sent'[d] = sent[d] /\ fromBroker'[d] = fromBroker[d]
        /\ connAnswer'[d] = connAnswer[d] /\ subscribed'[d] = subscribed[d]
        /\ received'[d] = received[d] /\ published'[d] = published[d]
        /\ task'[d] = task[d] /\ deaf'[d] = deaf[d]

LEMMA OthersStayAlone ==
    ASSUME TypeOK, NEW c \in Conns, ConnectionStep(c) \/ PeerStep(c) PROVE OthersStay(c)
<1> USE DEF TypeOK, TaskType, PeerType, OthersStay
<1>1. CASE HandshakeCompletes(c) \/ HandleRequest(c)
  BY <1>1 DEF HandshakeCompletes, HandleRequest, StreamWrite, brokerVars
<1>2. CASE EndTask(c) \/ PeerCloses(c) \/ BrokerPublish(c) \/ BrokerDisconnect(c)
  BY <1>2 DEF EndTask, PeerCloses, BrokerPublish, BrokerDisconnect, sessionVars
<1>3. CASE HandleIncoming(c)
  BY <1>3 DEF HandleIncoming, ConnackReceived, AckReceived, MessageReceived,
     DisconnectReceived, Consume, brokerVars
<1>4. ASSUME NEW p, NEW q, BrokerAnswers(c, p, q)
      PROVE  \A d \in Conns \ {c} :
                /\ quic'[d] = quic[d] /\ sent'[d] = sent[d] /\ fromBroker'[d] = fromBroker[d]
                /\ received'[d] = received[d] /\ task'[d] = task[d] /\ deaf'[d] = deaf[d]
  BY <1>4 DEF BrokerAnswers, sessionVars
<1>5. ASSUME NEW p \in sent[c], NEW a \in {"ok", "refused"}, BrokerAck(c, p, a)
      PROVE  OthersStay(c)
  BY <1>4, <1>5 DEF BrokerAck
<1>6. ASSUME NEW ok \in BOOLEAN, BrokerConnack(c, ok) PROVE OthersStay(c)
  BY <1>4, <1>6 DEF BrokerConnack
<1> QED
  BY <1>1, <1>2, <1>3, <1>5, <1>6
     DEF ConnectionStep, PeerStep, NoPacketId, ConnectionClosed, ConnectionLost, BrokerAcks

LEMMA ConnectionBegins ==
    ASSUME BeginInv, NEW c \in Conns, ConnectionStep(c) \/ PeerStep(c)
    PROVE  /\ Begun' /\ SilentAtFirst'
           /\ UNCHANGED <<latest, connOutcome, call>>
<1> USE DEF BeginInv
<1>t. /\ task \in [Conns -> {"unused", "initializing", "running", "ended"}]
      /\ quic \in [Conns -> {"handshake", "established", "draining", "closed"}]
  BY DEF TypeOK, TaskType
<1>1. /\ UNCHANGED <<latest, connOutcome, call>>
      /\ task' = task \/ (task' = [task EXCEPT ![c] = "ended"] /\ task[c] = "running")
  BY DEF ConnectionStep, PeerStep, HandshakeCompletes, HandleRequest, NoPacketId,
     ConnectionClosed, ConnectionLost, Live, EndTask, HandleIncoming, ConnackReceived,
     AckReceived, MessageReceived, DisconnectReceived, PeerCloses, BrokerAcks, BrokerAck,
     BrokerConnack, BrokerAnswers, BrokerPublish, BrokerDisconnect, apiVars, sessionVars
<1>2. \A d \in Conns : task'[d] = task[d] \/ (task[d] = "running" /\ task'[d] = "ended")
  BY <1>t, <1>1
<1>3. Begun'
  <2>1. call.op = "initializing" => latest \in Conns
    BY ClientAssumption DEF TypeOK, ApiType, Conns
  <2> QED
    BY <1>1, <1>2, <2>1 DEF Begun
<1>4. \A d \in Conns \ {c} : quic'[d] = quic[d] /\ (Silent(d) => Silent(d)')
  BY OthersStayAlone DEF OthersStay, Silent
<1>5. \/ quic'[c] \in {"established", "draining", "closed"} /\ task[c] = "running"
      \/ quic'[c] = quic[c] /\ (Silent(c) => Silent(c)')
  <2>1. CASE \/ HandshakeCompletes(c) \/ PeerCloses(c)
             \/ NoPacketId(c) \/ ConnectionClosed(c) \/ ConnectionLost(c)
    BY <1>t, <2>1 DEF HandshakeCompletes, EndTask, PeerCloses, Live, NoPacketId,
       ConnectionClosed, ConnectionLost
  <2>2. CASE HandleRequest(c)
    BY <1>t, <2>2 DEF HandleRequest, StreamWrite, Silent, brokerVars
  <2>3. CASE HandleIncoming(c)
    BY <1>t, <2>3 DEF HandleIncoming, ConnackReceived, AckReceived, MessageReceived,
       DisconnectReceived, Incoming
  <2>4. CASE \/ BrokerAcks(c) \/ BrokerPublish(c) \/ BrokerDisconnect(c)
             \/ \E ok \in BOOLEAN : BrokerConnack(c, ok)
    BY <2>4 DEF BrokerAcks, BrokerAck, BrokerConnack, BrokerAnswers, BrokerPublish,
       BrokerDisconnect, Silent, sessionVars
  <2> QED
    BY <2>1, <2>2, <2>3, <2>4 DEF ConnectionStep, PeerStep
<1>6. SilentAtFirst'
  BY <1>t, <1>2, <1>4, <1>5 DEF SilentAtFirst
<1> QED
  BY <1>1, <1>3, <1>6

LEMMA StepBeginInv == BeginInv /\ [Next]_vars => BeginInv'
<1> SUFFICES ASSUME BeginInv, [Next]_vars PROVE BeginInv'
  OBVIOUS
<1>1. TypeOK'
  BY StepTypeOK DEF BeginInv
<1>2. CASE UNCHANGED vars
  BY <1>1, <1>2 DEF vars, BeginInv, Begun, SilentAtFirst, Silent, apiVars, sessionVars,
     streamVars, brokerVars
<1> QED
  BY <1>1, <1>2, ClientBegins, ConnectionBegins DEF Next, BeginInv

-----------------------------------------------------------------------------
(* The places of the packets of one type in a stream.                      *)

Places(s, t) == {k \in 1..Len(s) : s[k].type = t}

LEMMA NoPlaces == \A t : Places(<<>>, t) = {}
<1>1. Len(<<>>) = 0
  BY EmptySeq
<1> QED
  BY <1>1 DEF Places

LEMMA PlacesType ==
    ASSUME NEW S, NEW s \in Seq(S), NEW t, NEW k \in Places(s, t)
    PROVE  k \in Int /\ 1 <= k /\ k <= Len(s) /\ Len(s) \in Nat /\ s[k].type = t /\ s[k] \in S
BY LenProperties, ElementOfSeq DEF Places

\* One more packet at the end.
LEMMA PlacesAppend ==
    ASSUME NEW S, NEW s \in Seq(S), NEW q \in S, NEW t
    PROVE  /\ q.type # t => Places(Append(s, q), t) = Places(s, t)
           /\ q.type = t => Places(Append(s, q), t) = Places(s, t) \cup {Len(s) + 1}
           /\ \A k \in Places(s, t) : Append(s, q)[k] = s[k] /\ k < Len(s) + 1
           /\ Append(s, q)[Len(s) + 1] = q
<1>1. /\ Len(s) \in Nat /\ Len(Append(s, q)) = Len(s) + 1 /\ Append(s, q)[Len(s) + 1] = q
      /\ \A i \in 1..Len(s) : Append(s, q)[i] = s[i]
  BY AppendProperties, LenProperties
<1> DEFINE n == Len(s)
           r == Append(s, q)
<1>2. n \in Nat /\ Len(r) = n + 1 /\ r[n + 1] = q /\ \A i \in 1..n : r[i] = s[i]
  BY <1>1
<1> HIDE DEF n, r
<1>3. \A k : k \in 1..(n + 1) <=> (k \in 1..n \/ k = n + 1)
  BY <1>2
<1>4. n + 1 \notin 1..n /\ \A k \in 1..n : k < n + 1
  BY <1>2
<1>5. q.type # t => {k \in 1..(n + 1) : r[k].type = t} = {k \in 1..n : s[k].type = t}
  BY <1>2, <1>3, <1>4
<1>6. q.type = t => {k \in 1..(n + 1) : r[k].type = t} =
                      {k \in 1..n : s[k].type = t} \cup {n + 1}
  BY <1>2, <1>3, <1>4
<1> QED
  BY <1>2, <1>4, <1>5, <1>6 DEF Places, n, r

\* One packet less at the front.
LEMMA PlacesTail ==
    ASSUME NEW S, NEW s \in Seq(S), s # <<>>, NEW t
    PROVE  /\ Head(s) = s[1] /\ (Head(s).type = t <=> 1 \in Places(s, t))
           /\ \A k \in Places(Tail(s), t) :
                /\ k + 1 \in Places(s, t) /\ Tail(s)[k] = s[k + 1]
                /\ k \in Int /\ k >= 1
           /\ \A k \in Places(s, t) :
                k # 1 => k - 1 \in Places(Tail(s), t) /\ Tail(s)[k - 1] = s[k]
<1>1. /\ Len(s) \in Nat \ {0} /\ Len(Tail(s)) = Len(s) - 1 /\ Head(s) = s[1]
      /\ \A i \in 1..Len(Tail(s)) : Tail(s)[i] = s[i + 1]
  BY HeadTailProperties, EmptySeq
<1> DEFINE n == Len(s)
           r == Tail(s)
<1>2. n \in Nat \ {0} /\ Len(r) = n - 1 /\ \A i \in 1..(n - 1) : r[i] = s[i + 1]
  BY <1>1
<1> HIDE DEF n, r
<1>3. 1 \in 1..n
  BY <1>2
<1>4. ASSUME NEW k \in 1..(n - 1) PROVE k + 1 \in 1..n /\ k \in Int /\ k >= 1 /\ r[k] = s[k + 1]
  BY <1>2
<1>5. ASSUME NEW k \in 1..n, k # 1 PROVE k - 1 \in 1..(n - 1) /\ r[k - 1] = s[k]
  <2>1. k - 1 \in 1..(n - 1) /\ (k - 1) + 1 = k
    BY <1>2, <1>5
  <2> QED
    BY <1>2, <2>1
<1> QED
  BY <1>1, <1>2, <1>3, <1>4, <1>5 DEF Places, n, r

-----------------------------------------------------------------------------
(* What a step does to the stream towards the client.                      *)

\* The stream may yet carry a PUBLISH that was not on it before.
MayPublish(c) ==
    subscribed[c] \/ sent[c] # {} \/ (~deaf[c] /\ quic[c] \in {"handshake", "established"})

\* The stream keeps its packets of type t.
Keeps(c, t) ==
    \/ fromBroker'[c] = fromBroker[c]
    \/ /\ fromBroker[c] # <<>> /\ Head(fromBroker[c]).type # t
       /\ fromBroker'[c] = Tail(fromBroker[c])
    \/ \E q \in BrokerPackets : q.type # t /\ fromBroker'[c] = Append(fromBroker[c], q)

\* It keeps its CONNACKs and PUBLISHes, or is cut.
Counted == {"CONNACK", "PUBLISH"}
KeepsCounted(c) == \A t \in Counted : Keeps(c, t)
Quiet(c) ==
    /\ \/ fromBroker'[c] = <<>> /\ ~MayPublish(c)'
       \/ KeepsCounted(c) /\ (MayPublish(c)' => MayPublish(c))
    /\ UNCHANGED <<connackPermit, received, published, connAnswer, msgChan, delivered>>
    /\ ConnectPacket \in sent'[c] => ConnectPacket \in sent[c] \/ connAnswer[c] = "none"

LEMMA StreamMoves ==
    ASSUME BeginInv, NEW c \in Conns, ConnectionStep(c) \/ PeerStep(c)
    PROVE  \/ ConnackReceived(c) \/ MessageReceived(c)
           \/ (\E ok \in BOOLEAN : BrokerConnack(c, ok)) \/ BrokerPublish(c)
           \/ Quiet(c)
<1>t. /\ quic \in [Conns -> {"handshake", "established", "draining", "closed"}]
      /\ sent \in [Conns -> SUBSET (RequestPackets \cup {ConnectPacket})]
      /\ deaf \in [Conns -> BOOLEAN] /\ subscribed \in [Conns -> BOOLEAN]
      /\ fromBroker \in [Conns -> Seq(BrokerPackets)]
  BY DEF BeginInv, TypeOK, TaskType, PeerType
<1>c. ConnectPacket \notin RequestPackets
  BY DEF ConnectPacket, RequestPackets
<1>1. CASE HandshakeCompletes(c)
  <2>1. connAnswer[c] = "none"
    BY <1>1 DEF HandshakeCompletes, BeginInv, SilentAtFirst, Silent
  <2>2. MayPublish(c)' => MayPublish(c)
    BY <1>t, <1>1 DEF HandshakeCompletes, StreamWrite, MayPublish, brokerVars
  <2> QED
    BY <1>1, <2>1, <2>2 DEF HandshakeCompletes, Quiet, KeepsCounted, Keeps, brokerVars
<1>2. CASE HandleRequest(c)
  <2>1. /\ UNCHANGED <<connackPermit, received, published, connAnswer, msgChan, delivered,
                       fromBroker, quic, subscribed>>
        /\ \/ sent' = sent
           \/ /\ quic[c] = "established" /\ ~deaf[c]
              /\ \E q \in RequestPackets : sent' = [sent EXCEPT ![c] = @ \cup {q}]
        /\ deaf'[c] = deaf[c] \/ deaf'[c]
    <3>1. PICK i \in FreeIds(c) :
            LET q == Head(reqChan[c]) IN
            IF mqtt[c] = "connected"
              THEN StreamWrite(c, [type |-> RequestType(q), id |-> i, req |-> q])
              ELSE UNCHANGED <<owner, sent, deaf>>
      BY <1>2 DEF HandleRequest
    <3>2. Head(reqChan[c]) \in Requests /\ i \in PacketIds
      BY <1>2, HeadOfRequests DEF HandleRequest, BeginInv, TypeOK, FreeIds
    <3>3. [type |-> RequestType(Head(reqChan[c])), id |-> i, req |-> Head(reqChan[c])]
            \in RequestPackets
      BY <3>2, PacketTypes
    <3>4. /\ UNCHANGED <<connackPermit, received, published, connAnswer, msgChan, delivered,
                         fromBroker, subscribed>>
          /\ quic' = quic
      BY <1>2 DEF HandleRequest, brokerVars
    <3> QED
      BY <1>t, <3>1, <3>3, <3>4 DEF StreamWrite
  <2>2. (MayPublish(c)' => MayPublish(c)) /\ KeepsCounted(c)
    BY <1>t, <2>1 DEF MayPublish, KeepsCounted, Keeps
  <2> QED
    BY <1>t, <1>c, <2>1, <2>2 DEF Quiet
<1>3. CASE EndTask(c) \/ PeerCloses(c)
  <2>1. /\ UNCHANGED <<connackPermit, received, published, connAnswer, msgChan, delivered>>
        /\ sent'[c] = {} /\ fromBroker'[c] = <<>> /\ ~subscribed'[c]
        /\ deaf'[c] \/ quic'[c] = "closed"
    BY <1>t, <1>3 DEF EndTask, PeerCloses
  <2> QED
    BY <2>1 DEF Quiet, MayPublish
<1>4. CASE AckReceived(c) \/ DisconnectReceived(c)
  <2>1. /\ UNCHANGED <<connackPermit, received, published, connAnswer, msgChan, delivered,
                       sent, deaf, subscribed, quic>>
        /\ fromBroker[c] # <<>> /\ Head(fromBroker[c]).type \notin Counted
        /\ fromBroker'[c] = Tail(fromBroker[c])
    BY <1>t, <1>4 DEF AckReceived, DisconnectReceived, Incoming, Consume, brokerVars, Counted
  <2> QED
    BY <2>1 DEF Quiet, KeepsCounted, Keeps, MayPublish
<1>5. ASSUME NEW p \in sent[c], NEW a \in {"ok", "refused"}, BrokerAck(c, p, a)
      PROVE  Quiet(c)
  <2> DEFINE q == [type |-> AckType(p.req), id |-> p.id, req |-> p.req]
  <2>1. q \in BrokerPackets /\ q.type \notin Counted
    <3>1. p.req \in Requests /\ p.id \in PacketIds
      BY <1>5 DEF BrokerAck, RequestPackets
    <3> QED
      BY <3>1, PacketTypes DEF AckType, Counted
  <2>2. /\ UNCHANGED <<connackPermit, received, published, connAnswer, msgChan, delivered>>
        /\ fromBroker'[c] = Append(fromBroker[c], q) /\ sent'[c] \subseteq sent[c]
    BY <1>t, <1>5 DEF BrokerAck, BrokerAnswers, sessionVars
  <2> QED
    BY <2>1, <2>2 DEF Quiet, KeepsCounted, Keeps, MayPublish
<1>6. CASE BrokerDisconnect(c)
  <2>1. /\ UNCHANGED <<connackPermit, received, published, connAnswer, msgChan, delivered>>
        /\ sent'[c] = {} /\ deaf'[c] /\ ~subscribed'[c]
        /\ fromBroker'[c] = Append(fromBroker[c], [type |-> "DISCONNECT"])
    BY <1>t, <1>6 DEF BrokerDisconnect, sessionVars
  <2>2. [type |-> "DISCONNECT"] \in BrokerPackets /\ "DISCONNECT" \notin Counted
    BY DEF BrokerPackets, Disconnects, Counted
  <2> QED
    BY <2>1, <2>2 DEF Quiet, KeepsCounted, Keeps, MayPublish
<1> QED
  BY <1>1, <1>2, <1>3, <1>4, <1>5, <1>6
     DEF ConnectionStep, PeerStep, NoPacketId, ConnectionClosed, ConnectionLost,
         HandleIncoming, BrokerAcks

\* What stays on the stream may move up by one place.
LEMMA PlacesStay ==
    ASSUME TypeOK, NEW c \in Conns, NEW t, Keeps(c, t)
    PROVE  \E h \in {0, 1} :
             /\ \A k \in Places(fromBroker'[c], t) :
                  /\ k \in Int /\ k + h \in Places(fromBroker[c], t)
                  /\ fromBroker'[c][k] = fromBroker[c][k + h]
             /\ \A k \in Places(fromBroker[c], t) :
                  /\ k \in Int /\ k - h \in Places(fromBroker'[c], t)
                  /\ fromBroker'[c][k - h] = fromBroker[c][k]
<1> DEFINE s == fromBroker[c]
           u == fromBroker'[c]
<1>1. s \in Seq(BrokerPackets)
  BY DEF TypeOK, PeerType
<1> HIDE DEF s, u
<1>2. \A k \in Places(s, t) : k \in Int /\ k + 0 = k /\ k - 0 = k
  BY <1>1, PlacesType
<1>3. CASE u = s
  <2> WITNESS 0 \in {0, 1}
  <2> QED
    BY <1>2, <1>3 DEF s, u
<1>4. CASE s # <<>> /\ Head(s).type # t /\ u = Tail(s)
  <2> WITNESS 1 \in {0, 1}
  <2>1. 1 \notin Places(s, t)
    BY <1>1, <1>4, PlacesTail
  <2>2. \A k \in Places(Tail(s), t) :
            /\ k + 1 \in Places(s, t) /\ Tail(s)[k] = s[k + 1]
            /\ k \in Int /\ k >= 1
    BY <1>1, <1>4, PlacesTail
  <2>3. \A k \in Places(s, t) : k - 1 \in Places(Tail(s), t) /\ Tail(s)[k - 1] = s[k]
    BY <1>1, <1>4, <2>1, PlacesTail
  <2> QED
    BY <1>2, <1>4, <2>2, <2>3 DEF s, u
<1>5. CASE \E q \in BrokerPackets : q.type # t /\ u = Append(s, q)
  <2>1. PICK q \in BrokerPackets : q.type # t /\ u = Append(s, q)
    BY <1>5
  <2>2. Places(Append(s, q), t) = Places(s, t)
    BY <1>1, <2>1, PlacesAppend
  <2>3. \A k \in Places(s, t) : Append(s, q)[k] = s[k] /\ k < Len(s) + 1
    BY <1>1, PlacesAppend
  <2>4. Places(u, t) = Places(s, t) /\ \A k \in Places(s, t) : u[k] = s[k]
    BY <2>1, <2>2, <2>3, Zenon
  <2> WITNESS 0 \in {0, 1}
  <2> QED
    BY <1>2, <2>4 DEF s, u
<1> QED
  BY <1>3, <1>4, <1>5 DEF Keeps, s, u

-----------------------------------------------------------------------------
(* CONNACKs.                                                               *)

ConnacksOf(c) == Places(fromBroker[c], "CONNACK")

\* A connection sends one CONNECT, and the broker answers it once.
OneConnack ==
    \A c \in Conns :
        /\ \A j, k \in ConnacksOf(c) : j = k
        /\ ConnacksOf(c) # {} => connAnswer[c] # "none"
        /\ ConnectPacket \in sent[c] => connAnswer[c] = "none"

\* Connections whose CONNACK was read, or lost with its stream: each paid for
\* one connect() that returned, or for the permit.
Settled == {c \in Conns : connAnswer[c] # "none" /\ ConnacksOf(c) = {}}
Permits == IF connackPermit THEN 1 ELSE 0
Tally == Cardinality(Succeeded) + Permits <= Cardinality(Settled)

\* As long as no connect() was given up, a connection whose connect() ended has
\* no CONNACK to come, and a permit is of the connection that waits for it.
NoneGivenUpBefore(c) == \A d \in Conns : d < c => connOutcome[d] # "cancelled"
Over(c) == task[c] = "ended" \/ c \in Settled
EndedAreOver ==
    \A c \in Conns : connOutcome[c] \in {"ok", "err"} /\ NoneGivenUpBefore(c) => Over(c)
OwnPermit ==
    connackPermit /\ NoneGivenUpBefore(latest) =>
        latest \in Settled /\ connOutcome[latest] \in {"none", "cancelled"}
OutcomeKnown ==
    /\ \A c \in Conns : c < latest => connOutcome[c] # "none"
    /\ latest # 0 =>
         (connOutcome[latest] = "none" <=> call.op \in {"initializing", "awaitConnack"})

ConnackInv ==
    /\ BeginInv /\ OneConnack /\ OutcomeKnown
    /\ EndedAreOver /\ OwnPermit /\ Tally /\ ConnectOkMeansConnack

LEMMA CountConns ==
    ASSUME NEW S \in SUBSET Conns PROVE IsFiniteSet(S) /\ Cardinality(S) \in Nat
<1>1. IsFiniteSet(Conns)
  BY ClientAssumption, FS_Interval DEF Conns, ClientAssumption
<1> QED
  BY <1>1, FS_Subset, FS_CardinalityType

LEMMA InitConnackInv == Init => ConnackInv
<1> SUFFICES ASSUME Init PROVE ConnackInv
  OBVIOUS
<1>1. BeginInv
  BY InitBeginInv
<1>2. \A c \in Conns : connOutcome[c] = "none" /\ connAnswer[c] = "none" /\ ConnacksOf(c) = {}
  BY NoPlaces DEF Init, ConnacksOf
<1>3. OneConnack /\ EndedAreOver /\ OwnPermit /\ latest = 0
  BY <1>2 DEF Init, OneConnack, EndedAreOver, OwnPermit
<1>4. OutcomeKnown
  BY <1>3 DEF OutcomeKnown, Conns
<1>5. Succeeded = {} /\ Permits = 0 /\ Cardinality({}) = 0
  BY <1>2, FS_EmptySet DEF Succeeded, Permits, Init
<1>6. Cardinality(Settled) \in Nat /\ Cardinality(Answered) \in Nat
  BY CountConns DEF Settled, Answered
<1>7. Tally /\ ConnectOkMeansConnack
  BY <1>5, <1>6 DEF Tally, ConnectOkMeansConnack
<1> QED
  BY <1>1, <1>3, <1>4, <1>7 DEF ConnackInv

\* A connection is settled once and stays so; the step that reads its CONNACK
\* settles it.
Reads(c) == c \notin Settled /\ c \in Settled' /\ connackPermit' /\ task[c] = "running"

LEMMA ConnackMoves ==
    ASSUME BeginInv, OneConnack, NEW c \in Conns, ConnectionStep(c) \/ PeerStep(c)
    PROVE  /\ OneConnack' /\ Settled \subseteq Settled' /\ Answered \subseteq Answered'
           /\ connackPermit' = connackPermit \/ Reads(c)
<1> DEFINE t == "CONNACK"
           s == fromBroker[c]
<1>t. /\ s \in Seq(BrokerPackets) /\ connAnswer \in [Conns -> {"none", "ok", "refused"}]
      /\ sent \in [Conns -> SUBSET (RequestPackets \cup {ConnectPacket})]
      /\ fromBroker \in [Conns -> Seq(BrokerPackets)]
  BY DEF BeginInv, TypeOK, PeerType
<1>o. \A d \in Conns \ {c} : /\ fromBroker'[d] = fromBroker[d] /\ sent'[d] = sent[d]
                             /\ connAnswer'[d] = connAnswer[d]
  BY OthersStayAlone DEF BeginInv, OthersStay
<1>s. \A k \in ConnacksOf(c) : k \in Int
  BY <1>t, PlacesType DEF ConnacksOf
<1>g. ASSUME \A j, k \in ConnacksOf(c)' : j = k,
             ConnacksOf(c)' # {} => connAnswer'[c] # "none",
             ConnectPacket \in sent'[c] => connAnswer'[c] = "none",
             c \in Settled => connAnswer'[c] # "none" /\ ConnacksOf(c)' = {}
      PROVE  OneConnack' /\ Settled \subseteq Settled'
  BY <1>o, <1>g DEF OneConnack, Settled, ConnacksOf
<1>1. ASSUME ConnackReceived(c) PROVE OneConnack' /\ Settled \subseteq Settled' /\ Reads(c)
  <2>1. /\ s # <<>> /\ Head(s).type = t /\ fromBroker'[c] = Tail(s) /\ task[c] = "running"
        /\ connackPermit' = TRUE /\ sent' = sent /\ connAnswer' = connAnswer
    BY <1>t, <1>1 DEF ConnackReceived, Incoming, Consume, brokerVars
  <2>2. 1 \in ConnacksOf(c)
    BY <1>t, <2>1, PlacesTail DEF ConnacksOf
  <2>3. \A k \in Places(Tail(s), t) : k + 1 \in Places(s, t) /\ k \in Int /\ k >= 1
    <3> HIDE DEF s, t
    <3> QED
      BY <1>t, <2>1, PlacesTail
  <2>4. ConnacksOf(c)' = {}
    <3>1. ConnacksOf(c)' = Places(Tail(s), t)
      BY <2>1 DEF ConnacksOf
    <3>2. ASSUME NEW k \in Places(Tail(s), t) PROVE FALSE
      <4>1. k + 1 \in ConnacksOf(c) /\ k \in Int /\ k >= 1
        BY <2>3, <3>2 DEF ConnacksOf
      <4>2. k + 1 = 1
        BY <2>2, <4>1 DEF OneConnack
      <4> QED
        BY <4>1, <4>2
    <3> QED
      BY <3>1, <3>2
  <2>5. connAnswer[c] # "none" /\ c \notin Settled
    BY <2>2 DEF OneConnack, Settled
  <2>6. c \in Settled'
    BY <2>1, <2>4, <2>5 DEF Settled
  <2> QED
    BY <1>g, <2>1, <2>4, <2>5, <2>6 DEF Reads, OneConnack
<1>2. ASSUME NEW ok \in BOOLEAN, BrokerConnack(c, ok) PROVE OneConnack' /\ Settled \subseteq Settled'
  <2> DEFINE q == [type |-> "CONNACK", ok |-> ok]
  <2>1. /\ q \in BrokerPackets /\ q.type = t /\ fromBroker'[c] = Append(s, q)
        /\ ConnectPacket \in sent[c] /\ ConnectPacket \notin sent'[c] /\ connAnswer'[c] # "none"
    BY <1>t, <1>2 DEF BrokerConnack, BrokerAnswers, BrokerPackets, Connacks
  <2>2. ConnacksOf(c) = {} /\ c \notin Settled
    BY <2>1 DEF OneConnack, Settled
  <2> HIDE DEF q
  <2>3. Places(Append(s, q), t) = Places(s, t) \cup {Len(s) + 1}
    <3>1. s \in Seq(BrokerPackets) /\ q \in BrokerPackets /\ q.type = t
      BY <1>t, <2>1
    <3> HIDE DEF s, t
    <3> QED
      BY <3>1, PlacesAppend
  <2>4. ConnacksOf(c)' = {Len(s) + 1}
    BY <2>1, <2>2, <2>3 DEF ConnacksOf
  <2> QED
    BY <1>g, <2>1, <2>2, <2>4
<1>3. ASSUME fromBroker'[c] = <<>> \/ Keeps(c, t), connAnswer'[c] = connAnswer[c],
             ConnectPacket \in sent'[c] => ConnectPacket \in sent[c] \/ connAnswer[c] = "none"
      PROVE  OneConnack' /\ Settled \subseteq Settled'
  <2>1. CASE fromBroker'[c] = <<>>
    <3>1. ConnacksOf(c)' = {}
      BY <2>1, NoPlaces DEF ConnacksOf
    <3> QED
      BY <1>g, <1>3, <3>1 DEF Settled, OneConnack
  <2>2. CASE Keeps(c, t)
    <3>1. PICK h \in {0, 1} : \A k \in Places(fromBroker'[c], t) :
                  /\ k \in Int /\ k + h \in Places(fromBroker[c], t)
                  /\ fromBroker'[c][k] = fromBroker[c][k + h]
      BY <2>2, PlacesStay DEF BeginInv
    <3>2. \A k \in ConnacksOf(c)' : k \in Int /\ k + h \in ConnacksOf(c)
      BY <3>1 DEF ConnacksOf
    <3>3. ASSUME NEW j \in ConnacksOf(c)', NEW k \in ConnacksOf(c)' PROVE j = k
      <4>1. j \in Int /\ k \in Int /\ j + h = k + h
        BY <3>2 DEF OneConnack
      <4> QED
        BY <4>1
    <3> QED
      BY <1>g, <1>3, <3>2, <3>3 DEF Settled, OneConnack
  <2> QED
    BY <1>3, <2>1, <2>2
<1>4. ASSUME MessageReceived(c) \/ BrokerPublish(c)
      PROVE  OneConnack' /\ Settled \subseteq Settled' /\ connackPermit' = connackPermit
  <2>1. Keeps(c, t) /\ UNCHANGED <<connAnswer, sent, connackPermit>>
    <3>1. CASE MessageReceived(c)
      BY <1>t, <3>1 DEF MessageReceived, Incoming, Consume, Keeps, brokerVars
    <3>2. CASE BrokerPublish(c)
      <4> DEFINE q == [type |-> "PUBLISH", seq |-> published[c] + 1]
      <4>1. published[c] + 1 \in 1..MaxMessages
        BY <3>2, ClientAssumption DEF BrokerPublish, BeginInv, TypeOK, PeerType, ClientAssumption
      <4>2. q \in BrokerPackets /\ q.type # t
        BY <4>1 DEF BrokerPackets, Messages
      <4>3. fromBroker'[c] = Append(s, q)
        BY <1>t, <3>2 DEF BrokerPublish
      <4> QED
        BY <3>2, <4>2, <4>3 DEF BrokerPublish, Keeps
    <3> QED
      BY <1>4, <3>1, <3>2
  <2> QED
    BY <1>3, <2>1
<1>5. ASSUME Quiet(c)
      PROVE  OneConnack' /\ Settled \subseteq Settled' /\ connackPermit' = connackPermit
  BY <1>3, <1>5 DEF Quiet, KeepsCounted, Counted
<1>6. OneConnack' /\ Settled \subseteq Settled' /\ (connackPermit' = connackPermit \/ Reads(c))
  BY <1>1, <1>2, <1>4, <1>5, StreamMoves DEF BrokerConnack, BrokerAnswers, MessageReceived,
     BrokerPublish, Quiet
<1>7. connAnswer'[c] = connAnswer[c] \/ connAnswer'[c] # "none"
  BY <1>t, StreamMoves DEF ConnackReceived, MessageReceived, BrokerConnack, BrokerPublish,
     Quiet, brokerVars
<1>8. Answered \subseteq Answered'
  BY <1>o, <1>7 DEF Answered
<1> QED
  BY <1>6, <1>8

\* Succeeded connect()s and the permit are counted against settled connections.
LEMMA TallyIsEnough == Tally => Cardinality(Succeeded) <= Cardinality(Answered)
<1>1. /\ Cardinality(Succeeded) \in Nat /\ Cardinality(Settled) \in Nat
      /\ Cardinality(Answered) \in Nat /\ IsFiniteSet(Answered)
  BY CountConns DEF Succeeded, Settled, Answered
<1>2. Cardinality(Settled) <= Cardinality(Answered)
  <2>1. Settled \subseteq Answered
    BY DEF Settled, Answered
  <2> QED
    BY <1>1, <2>1, FS_Subset
<1>3. Permits \in {0, 1}
  BY DEF Permits
<1> QED
  BY <1>1, <1>2, <1>3 DEF Tally

LEMMA ClientConnacks ==
    ASSUME ConnackInv, ClientStep
    PROVE  /\ OneConnack' /\ OutcomeKnown' /\ EndedAreOver' /\ OwnPermit' /\ Tally'
           /\ \A c \in Succeeded' \ Answered' : \E d \in Conns : d < c /\ connOutcome'[d] = "cancelled"
<1>t. /\ latest \in 0..MaxConns /\ MaxConns \in Nat /\ connackPermit \in BOOLEAN
      /\ task \in [Conns -> {"unused", "initializing", "running", "ended"}]
      /\ connOutcome \in [Conns -> {"none", "ok", "err", "cancelled"}]
      /\ call.op \notin {"idle", "receiving"} => latest \in Conns
  BY ClientAssumption DEF ConnackInv, BeginInv, TypeOK, ApiType, TaskType, Conns
<1>i. /\ OneConnack /\ OutcomeKnown /\ EndedAreOver /\ OwnPermit /\ Tally /\ Begun
      /\ \A c \in Succeeded \ Answered : \E d \in Conns : d < c /\ connOutcome[d] = "cancelled"
  BY DEF ConnackInv, BeginInv, ConnectOkMeansConnack
<1>1. UNCHANGED <<sent, fromBroker, connAnswer>>
  BY DEF ClientStep, CallConnect, ConnectInitFails, ConnectSpawns, ConnectReturns,
     CallRequest, RequestEnqueue, RequestReturns, RequestSendFails, CallRcv, ReceiveReturns,
     ReceiveFails, CancelCall, sessionVars, streamVars, brokerVars
<1>2. OneConnack' /\ Settled' = Settled /\ Answered' = Answered
  BY <1>i, <1>1 DEF OneConnack, Settled, Answered, ConnacksOf
<1>3. Settled \subseteq Answered /\ Settled \subseteq Conns
  BY DEF Settled, Answered
\* A step that changes no permit and lets no connect() return Ok.
<1>k. ASSUME UNCHANGED <<latest, connackPermit>>,
             \A c \in Conns : task[c] = "ended" => task'[c] = "ended",
             \A c \in Conns : \/ connOutcome'[c] = connOutcome[c]
                              \/ connOutcome[c] = "none" /\ connOutcome'[c] = "cancelled"
      PROVE  /\ EndedAreOver' /\ OwnPermit' /\ Tally'
             /\ \A c \in Succeeded' \ Answered' :
                    \E d \in Conns : d < c /\ connOutcome'[d] = "cancelled"
  <2>1. \A c : NoneGivenUpBefore(c)' => NoneGivenUpBefore(c)
    BY <1>k DEF NoneGivenUpBefore
  <2>2. EndedAreOver'
    BY <1>i, <1>2, <1>k, <2>1 DEF EndedAreOver, Over
  <2>3. OwnPermit'
    BY <1>i, <1>2, <1>3, <1>k, <2>1 DEF OwnPermit
  <2>4. Succeeded' = Succeeded
    BY <1>k DEF Succeeded
  <2>5. Tally'
    BY <1>i, <1>2, <1>k, <2>4 DEF Tally, Permits
  <2> QED
    BY <1>i, <1>2, <1>k, <2>2, <2>3, <2>4, <2>5 DEF Succeeded
<1>4. CASE CallConnect
  <2>1. /\ latest' = latest + 1 /\ latest' \in Conns /\ call.op = "idle"
        /\ call'.op = "initializing" /\ connackPermit' = connackPermit
        /\ task' = [task EXCEPT ![latest'] = "initializing"] /\ connOutcome' = connOutcome
    BY <1>t, <1>4 DEF CallConnect, Conns, Idle
  <2>2. OutcomeKnown'
    BY <1>t, <1>i, <2>1 DEF OutcomeKnown, Begun, Conns
  <2>3. \A c \in Conns : task[c] = "ended" => task'[c] = "ended"
    BY <1>t, <1>i, <2>1 DEF Begun, Conns
  <2>4. EndedAreOver'
    BY <1>i, <1>2, <2>1, <2>3 DEF EndedAreOver, Over, NoneGivenUpBefore
  <2>5. ~(connackPermit /\ NoneGivenUpBefore(latest'))
    <3> SUFFICES ASSUME connackPermit, NoneGivenUpBefore(latest') PROVE FALSE
      OBVIOUS
    <3>1. NoneGivenUpBefore(latest)
      BY <1>t, <2>1 DEF NoneGivenUpBefore, Conns
    <3>2. latest \in Conns /\ connOutcome[latest] \in {"none", "cancelled"}
      BY <1>i, <1>3, <3>1 DEF OwnPermit
    <3>3. connOutcome[latest] # "cancelled"
      BY <1>t, <2>1, <3>2 DEF NoneGivenUpBefore
    <3> QED
      BY <1>t, <1>i, <2>1, <3>2, <3>3 DEF OutcomeKnown, Conns
  <2>6. OwnPermit'
    BY <2>1, <2>5 DEF OwnPermit, NoneGivenUpBefore
  <2>7. Tally' /\ Succeeded' = Succeeded
    BY <1>i, <1>2, <2>1 DEF Tally, Permits, Succeeded
  <2> QED
    BY <1>i, <1>2, <2>1, <2>2, <2>4, <2>6, <2>7
<1>5. CASE ConnectReturns
  <2>1. /\ latest' = latest /\ latest \in Conns /\ call.op = "awaitConnack" /\ connackPermit
        /\ call'.op = "idle" /\ connackPermit' = FALSE /\ task' = task
        /\ connOutcome' = [connOutcome EXCEPT ![latest] = "ok"]
    BY <1>t, <1>5 DEF ConnectReturns, ConnectReady, Idle, sessionVars
  <2>2. OutcomeKnown' /\ connOutcome[latest] = "none"
    BY <1>t, <1>i, <2>1 DEF OutcomeKnown, Conns
  <2>3. \A c \in Conns : connOutcome[c] = "cancelled" => connOutcome'[c] = "cancelled"
    BY <1>t, <2>1, <2>2
  <2>4. \A c : NoneGivenUpBefore(c)' => NoneGivenUpBefore(c)
    BY <2>3 DEF NoneGivenUpBefore
  <2>5. NoneGivenUpBefore(latest) => latest \in Settled
    BY <1>i, <2>1 DEF OwnPermit
  <2>6. EndedAreOver'
    BY <1>t, <1>i, <1>2, <2>1, <2>4, <2>5 DEF EndedAreOver, Over
  <2>7. Succeeded' = Succeeded \cup {latest}
    BY <1>t, <2>1, <2>2 DEF Succeeded
  <2>8. ASSUME NEW c \in Succeeded' \ Answered'
        PROVE  \E d \in Conns : d < c /\ connOutcome'[d] = "cancelled"
    <3>1. ASSUME c # latest PROVE \E d \in Conns : d < c /\ connOutcome'[d] = "cancelled"
      BY <1>i, <1>2, <2>3, <2>7, <2>8, <3>1
    <3>2. ASSUME c = latest PROVE \E d \in Conns : d < c /\ connOutcome'[d] = "cancelled"
      BY <1>2, <1>3, <2>3, <2>5, <2>8, <3>2 DEF NoneGivenUpBefore
    <3> QED
      BY <3>1, <3>2
  <2>9. Tally'
    <3>1. IsFiniteSet(Succeeded) /\ Cardinality(Succeeded) \in Nat /\ latest \notin Succeeded
      BY <2>2, CountConns DEF Succeeded
    <3>2. Cardinality(Succeeded') = Cardinality(Succeeded) + 1
      BY <2>7, <3>1, FS_AddElement
    <3>3. Cardinality(Succeeded) + 1 <= Cardinality(Settled)
      BY <1>i, <2>1 DEF Tally, Permits
    <3> QED
      BY <1>2, <2>1, <3>1, <3>2, <3>3 DEF Tally, Permits
  <2> QED
    BY <1>2, <2>1, <2>2, <2>6, <2>8, <2>9 DEF OwnPermit
<1>6. CASE ConnectInitFails
  <2>1. /\ latest' = latest /\ latest \in Conns /\ call.op = "initializing"
        /\ call'.op = "idle" /\ connackPermit' = connackPermit
        /\ task' = [task EXCEPT ![latest] = "ended"]
        /\ connOutcome' = [connOutcome EXCEPT ![latest] = "err"]
    BY <1>t, <1>6 DEF ConnectInitFails, Idle
  <2>2. OutcomeKnown' /\ connOutcome[latest] = "none"
    BY <1>t, <1>i, <2>1 DEF OutcomeKnown, Conns
  <2>3. latest \notin Settled
    BY <2>1 DEF ConnackInv, BeginInv, Begun, SilentAtFirst, Silent, Settled
  <2>4. \A c \in Conns : connOutcome[c] = "cancelled" => connOutcome'[c] = "cancelled"
    BY <1>t, <2>1, <2>2
  <2>5. \A c : NoneGivenUpBefore(c)' => NoneGivenUpBefore(c)
    BY <2>4 DEF NoneGivenUpBefore
  <2>6. EndedAreOver'
    BY <1>t, <1>i, <1>2, <2>1, <2>5 DEF EndedAreOver, Over
  <2>7. OwnPermit'
    BY <1>i, <2>1, <2>3, <2>5 DEF OwnPermit
  <2>8. Succeeded' = Succeeded
    BY <1>t, <2>1, <2>2 DEF Succeeded
  <2>9. Tally'
    BY <1>i, <1>2, <2>1, <2>8 DEF Tally, Permits
  <2> QED
    BY <1>i, <1>2, <2>2, <2>4, <2>6, <2>7, <2>8, <2>9
<1>7. CASE CancelCall
  <2>1. /\ UNCHANGED <<latest, connackPermit>> /\ call'.op = "idle"
        /\ \A c \in Conns : task[c] = "ended" => task'[c] = "ended"
        /\ connOutcome' = IF call.op \in {"initializing", "awaitConnack"}
                            THEN [connOutcome EXCEPT ![latest] = "cancelled"] ELSE connOutcome
    BY <1>t, <1>7 DEF CancelCall, Idle
  <2>2. \A c \in Conns : \/ connOutcome'[c] = connOutcome[c]
                         \/ connOutcome[c] = "none" /\ connOutcome'[c] = "cancelled"
    BY <1>t, <1>i, <2>1 DEF OutcomeKnown, Conns
  <2>3. OutcomeKnown'
    BY <1>t, <1>i, <2>1 DEF OutcomeKnown, Conns
  <2>4. UNCHANGED <<latest, connackPermit>> /\ \A c \in Conns : task[c] = "ended" => task'[c] = "ended"
    BY <2>1
  <2> QED
    BY <1>2, <1>k, <2>2, <2>3, <2>4
<1>8. CASE \/ ConnectSpawns
           \/ \E r \in Requests : CallRequest(r)
           \/ RequestEnqueue \/ RequestReturns \/ RequestSendFails
           \/ CallRcv \/ ReceiveReturns \/ ReceiveFails
  <2>1. /\ UNCHANGED <<latest, connOutcome, connackPermit>>
        /\ task' = task \/ (task[latest] = "initializing" /\ task' = [task EXCEPT ![latest] = "running"])
        /\ call'.op \in {"initializing", "awaitConnack"} <=>
             call.op \in {"initializing", "awaitConnack"}
    BY <1>8 DEF ConnectSpawns, CallRequest, RequestEnqueue, RequestReturns, RequestSendFails,
       FailsWhenEnded, CallRcv, ReceiveReturns, ReceiveFails, Idle, apiVars, sessionVars,
       ConnackInv, BeginInv, Begun
  <2>2. \A c \in Conns : task[c] = "ended" => task'[c] = "ended"
    BY <1>t, <2>1
  <2>3. OutcomeKnown'
    BY <1>i, <2>1 DEF OutcomeKnown
  <2>4. /\ UNCHANGED <<latest, connackPermit>>
        /\ \A c \in Conns : \/ connOutcome'[c] = connOutcome[c]
                            \/ connOutcome[c] = "none" /\ connOutcome'[c] = "cancelled"
    BY <2>1
  <2> QED
    BY <1>2, <1>k, <2>2, <2>3, <2>4
<1> QED
  BY <1>4, <1>5, <1>6, <1>7, <1>8 DEF ClientStep

LEMMA ConnectionConnacks ==
    ASSUME ConnackInv, NEW c \in Conns, ConnectionStep(c) \/ PeerStep(c)
    PROVE  /\ OneConnack' /\ OutcomeKnown' /\ EndedAreOver' /\ OwnPermit' /\ Tally'
           /\ \A d \in Succeeded' \ Answered' : \E e \in Conns : e < d /\ connOutcome'[e] = "cancelled"
<1>t. /\ latest \in 0..MaxConns /\ MaxConns \in Nat /\ connackPermit \in BOOLEAN
      /\ task \in [Conns -> {"unused", "initializing", "running", "ended"}]
      /\ connOutcome \in [Conns -> {"none", "ok", "err", "cancelled"}]
  BY ClientAssumption DEF ConnackInv, BeginInv, TypeOK, ApiType, TaskType
<1>i. /\ BeginInv /\ OneConnack /\ OutcomeKnown /\ EndedAreOver /\ OwnPermit /\ Tally /\ Begun
      /\ \A d \in Succeeded \ Answered : \E e \in Conns : e < d /\ connOutcome[e] = "cancelled"
  BY DEF ConnackInv, BeginInv, ConnectOkMeansConnack
<1>1. UNCHANGED <<latest, connOutcome, call>>
  BY <1>i, ConnectionBegins
<1>2. \A d \in Conns : task[d] = "ended" => task'[d] = "ended"
  <2>1. \A d \in Conns \ {c} : task'[d] = task[d]
    BY <1>i, OthersStayAlone DEF BeginInv, OthersStay
  <2>2. task[c] = "ended" => task'[c] = "ended"
    BY <1>t DEF ConnectionStep, PeerStep, HandshakeCompletes, HandleRequest, NoPacketId,
       ConnectionClosed, ConnectionLost, Live, EndTask, HandleIncoming, ConnackReceived,
       AckReceived, MessageReceived, DisconnectReceived, PeerCloses, BrokerAcks, BrokerAck,
       BrokerConnack, BrokerAnswers, BrokerPublish, BrokerDisconnect, sessionVars
  <2> QED
    BY <2>1, <2>2
<1>3. /\ OneConnack' /\ Settled \subseteq Settled' /\ Answered \subseteq Answered'
      /\ connackPermit' = connackPermit \/ Reads(c)
  BY <1>i, ConnackMoves
<1>4. OutcomeKnown' /\ Succeeded' = Succeeded /\ \A d : NoneGivenUpBefore(d)' <=> NoneGivenUpBefore(d)
  BY <1>i, <1>1 DEF OutcomeKnown, Succeeded, NoneGivenUpBefore
<1>5. EndedAreOver'
  BY <1>i, <1>1, <1>2, <1>3, <1>4 DEF EndedAreOver, Over
<1>6. Tally'
  <2>1. /\ IsFiniteSet(Settled) /\ IsFiniteSet(Settled') /\ Cardinality(Succeeded) \in Nat
        /\ Cardinality(Settled) \in Nat /\ Cardinality(Settled') \in Nat
    <3>1. Settled \in SUBSET Conns /\ Settled' \in SUBSET Conns /\ Succeeded \in SUBSET Conns
      BY DEF Settled, Succeeded
    <3> QED
      BY <3>1, CountConns
  <2>2. Cardinality(Settled) <= Cardinality(Settled')
    BY <1>3, <2>1, FS_Subset
  <2>3. ASSUME Reads(c) PROVE Cardinality(Settled) + 1 <= Cardinality(Settled')
    <3>1. c \notin Settled /\ Settled \cup {c} \subseteq Settled'
      BY <1>3, <2>3 DEF Reads
    <3>2. Cardinality(Settled \cup {c}) = Cardinality(Settled) + 1
      BY <2>1, <3>1, FS_AddElement
    <3>3. Cardinality(Settled \cup {c}) <= Cardinality(Settled')
      BY <2>1, <3>1, FS_Subset
    <3> QED
      BY <3>2, <3>3
  <2>4. Permits \in {0, 1} /\ Permits' \in {0, 1} /\ (connackPermit' = connackPermit => Permits' = Permits)
    BY DEF Permits
  <2> QED
    BY <1>i, <1>3, <1>4, <2>1, <2>2, <2>3, <2>4 DEF Tally
<1>7. OwnPermit'
  <2>1. CASE connackPermit' = connackPermit
    BY <1>i, <1>1, <1>3, <1>4, <2>1 DEF OwnPermit
  <2>2. ASSUME Reads(c), NoneGivenUpBefore(latest)
        PROVE  c = latest /\ connOutcome[c] \in {"none", "cancelled"}
    <3>1. c \in Int /\ c <= latest /\ ~Over(c)
      BY <1>t, <1>i, <2>2 DEF Reads, Over, Begun, Conns
    <3>2. NoneGivenUpBefore(c)
      BY <1>t, <2>2, <3>1 DEF NoneGivenUpBefore, Conns
    <3>3. connOutcome[c] \in {"none", "cancelled"}
      BY <1>t, <1>i, <3>1, <3>2 DEF EndedAreOver
    <3>4. c < latest => connOutcome[c] \notin {"none", "cancelled"}
      BY <1>i, <2>2 DEF OutcomeKnown, NoneGivenUpBefore
    <3> QED
      BY <1>t, <3>1, <3>3, <3>4
  <2>3. ASSUME Reads(c), NoneGivenUpBefore(latest)'
        PROVE  latest' \in Settled' /\ connOutcome'[latest'] \in {"none", "cancelled"}
    BY <1>1, <1>4, <2>2, <2>3 DEF Reads
  <2> QED
    BY <1>1, <1>3, <1>4, <2>1, <2>3 DEF OwnPermit
<1> QED
  BY <1>i, <1>1, <1>3, <1>4, <1>5, <1>6, <1>7

LEMMA StepConnackInv == ConnackInv /\ [Next]_vars => ConnackInv'
<1> SUFFICES ASSUME ConnackInv, [Next]_vars PROVE ConnackInv'
  OBVIOUS
<1>1. BeginInv'
  BY StepBeginInv DEF ConnackInv
<1>2. CASE UNCHANGED vars
  BY <1>1, <1>2 DEF vars, ConnackInv, OneConnack, OutcomeKnown, EndedAreOver, OwnPermit, Tally,
     ConnectOkMeansConnack, NoneGivenUpBefore, Over, Settled, Succeeded, Answered, Permits,
     ConnacksOf, apiVars, sessionVars, streamVars, brokerVars
<1>3. CASE Next
  <2>1. /\ OneConnack' /\ OutcomeKnown' /\ EndedAreOver' /\ OwnPermit' /\ Tally'
        /\ \A d \in Succeeded' \ Answered' : \E e \in Conns : e < d /\ connOutcome'[e] = "cancelled"
    BY <1>3, ClientConnacks, ConnectionConnacks DEF Next
  <2>2. Cardinality(Succeeded)' <= Cardinality(Answered)'
    <3>1. (Tally => Cardinality(Succeeded) <= Cardinality(Answered))'
      BY TallyIsEnough, PTL
    <3> QED
      BY <2>1, <3>1
  <2> QED
    BY <1>1, <2>1, <2>2 DEF ConnackInv, ConnectOkMeansConnack
<1> QED
  BY <1>2, <1>3

\* Every connect() that returns Ok was woken by a CONNACK, no two by the same
\* one, and by that of another connection only after a connect() was given up.
THEOREM ConnectsAreAnswered == Spec => []ConnectOkMeansConnack
<1>1. ConnackInv => ConnectOkMeansConnack
  BY DEF ConnackInv
<1> QED
  BY InitConnackInv, StepConnackInv, <1>1, PTL DEF Spec

-----------------------------------------------------------------------------
(* Messages.                                                               *)

PublishesOf(c) == Places(fromBroker[c], "PUBLISH")
Carried(c, s) == \E k \in PublishesOf(c) : fromBroker[c][k].seq = s

\* The PUBLISH packets on a stream come in order and with none left out.
InSequence ==
    \A c \in Conns : \A k \in PublishesOf(c) : LET s == fromBroker[c][k].seq IN
        /\ received[c] < s /\ s <= published[c]
        /\ \A j \in PublishesOf(c) : j < k => fromBroker[c][j].seq < s
        /\ \A i \in (received[c] + 1)..s : Carried(c, i)

\* All that the broker put on a stream that was not cut was read or is still there.
NothingCut ==
    \A c \in Conns :
        /\ received[c] <= published[c]
        /\ MayPublish(c) => \A i \in (received[c] + 1)..published[c] : Carried(c, i)

\* What was kept was received.
KeptWasReceived ==
    \A c \in Conns : \A k \in 1..Len(Kept(c)) : Kept(c)[k] <= received[c]

DeliveryInv ==
    /\ BeginInv /\ InSequence /\ NothingCut
    /\ KeptWasReceived /\ DeliveryOrder /\ GapsOnlyWhenFull

LEMMA InitDeliveryInv == Init => DeliveryInv
<1> SUFFICES ASSUME Init PROVE DeliveryInv
  OBVIOUS
<1>1. BeginInv /\ latest = 0
  BY InitBeginInv DEF Init
<1>2. \A c \in Conns : /\ PublishesOf(c) = {} /\ received[c] = 0 /\ published[c] = 0
                       /\ Kept(c) = <<>>
  <2>1. <<>> \o <<>> = <<>>
    BY EmptySeq, ConcatEmptySeq
  <2> QED
    BY <2>1, NoPlaces DEF Init, PublishesOf, Kept
<1>3. InSequence /\ NothingCut
  BY <1>2 DEF InSequence, NothingCut
<1>4. \A c \in Conns : 1..Len(Kept(c)) = {}
  <2>1. Len(<<>>) = 0 /\ 1..0 = {}
    BY EmptySeq
  <2> QED
    BY <1>2, <2>1
<1>5. KeptWasReceived /\ DeliveryOrder /\ GapsOnlyWhenFull
  BY <1>1, <1>4 DEF KeptWasReceived, DeliveryOrder, GapsOnlyWhenFull
<1> QED
  BY <1>1, <1>3, <1>5 DEF DeliveryInv

\* What InSequence and NothingCut know of one PUBLISH.
LEMMA PublishFacts ==
    ASSUME TypeOK, NEW c \in Conns
    PROVE  /\ received[c] \in Nat /\ published[c] \in Nat
           /\ \A k \in PublishesOf(c) :
                /\ k \in Int /\ k >= 1
                /\ fromBroker[c][k].seq \in Nat /\ fromBroker[c][k].seq \in 1..MaxMessages
<1>1. /\ fromBroker[c] \in Seq(BrokerPackets) /\ MaxMessages \in Nat
      /\ received[c] \in 0..MaxMessages /\ published[c] \in 0..MaxMessages
  BY ClientAssumption DEF TypeOK, PeerType, TaskType
<1>2. \A q \in BrokerPackets : q.type = "PUBLISH" => q.seq \in 1..MaxMessages
  BY DEF BrokerPackets, Acks, Connacks, Messages, Disconnects
<1>3. ASSUME NEW k \in PublishesOf(c)
      PROVE  k \in Int /\ k >= 1 /\ fromBroker[c][k].seq \in 1..MaxMessages
  <2>1. /\ k \in Int /\ 1 <= k /\ fromBroker[c][k].type = "PUBLISH"
        /\ fromBroker[c][k] \in BrokerPackets
    BY <1>1, <1>3, PlacesType DEF PublishesOf
  <2> QED
    BY <1>2, <2>1
<1> QED
  BY <1>1, <1>3

\* The two conditions on one connection.
InSequenceOn(c) ==
    \A k \in PublishesOf(c) : LET s == fromBroker[c][k].seq IN
        /\ received[c] < s /\ s <= published[c]
        /\ \A j \in PublishesOf(c) : j < k => fromBroker[c][j].seq < s
        /\ \A i \in (received[c] + 1)..s : Carried(c, i)
NothingCutOn(c) ==
    /\ received[c] <= published[c]
    /\ MayPublish(c) => \A i \in (received[c] + 1)..published[c] : Carried(c, i)

\* A step that neither reads nor adds a PUBLISH.
Calm(c) ==
    /\ \/ fromBroker'[c] = <<>> /\ ~MayPublish(c)'
       \/ Keeps(c, "PUBLISH") /\ (MayPublish(c)' => MayPublish(c))
    /\ UNCHANGED <<received, published, msgChan, delivered>>

LEMMA CalmStream ==
    ASSUME TypeOK, NEW c \in Conns, Calm(c), InSequenceOn(c), NothingCutOn(c)
    PROVE  InSequenceOn(c)' /\ NothingCutOn(c)'
<1>0. UNCHANGED <<received, published>>
  BY DEF Calm
<1>1. CASE fromBroker'[c] = <<>> /\ ~MayPublish(c)'
  <2>1. PublishesOf(c)' = {}
    BY <1>1, NoPlaces DEF PublishesOf
  <2> QED
    BY <1>0, <1>1, <2>1 DEF InSequenceOn, NothingCutOn
<1>2. CASE Keeps(c, "PUBLISH") /\ (MayPublish(c)' => MayPublish(c))
  <2>1. PICK h \in {0, 1} :
          /\ \A k \in Places(fromBroker'[c], "PUBLISH") :
               /\ k \in Int /\ k + h \in Places(fromBroker[c], "PUBLISH")
               /\ fromBroker'[c][k] = fromBroker[c][k + h]
          /\ \A k \in Places(fromBroker[c], "PUBLISH") :
               /\ k \in Int /\ k - h \in Places(fromBroker'[c], "PUBLISH")
               /\ fromBroker'[c][k - h] = fromBroker[c][k]
    BY <1>2, PlacesStay
  <2>2. \A k \in PublishesOf(c)' : /\ k \in Int /\ k + h \in PublishesOf(c)
                                   /\ fromBroker'[c][k] = fromBroker[c][k + h]
    BY <2>1 DEF PublishesOf
  <2>3. \A i : Carried(c, i) => Carried(c, i)'
    BY <2>1 DEF Carried, PublishesOf
  <2>4. ASSUME NEW j \in PublishesOf(c)', NEW k \in PublishesOf(c)', j < k
        PROVE  fromBroker'[c][j].seq < fromBroker'[c][k].seq
    <3>1. j + h < k + h
      BY <2>2, <2>4
    <3> QED
      BY <2>2, <3>1 DEF InSequenceOn
  <2>5. InSequenceOn(c)'
    BY <1>0, <2>2, <2>3, <2>4 DEF InSequenceOn
  <2>6. NothingCutOn(c)'
    BY <1>0, <1>2, <2>3 DEF NothingCutOn
  <2> QED
    BY <2>5, <2>6
<1> QED
  BY <1>1, <1>2 DEF Calm

\* The task reads the next message, none is skipped.
LEMMA ReadStream ==
    ASSUME TypeOK, NEW c \in Conns, MessageReceived(c), InSequenceOn(c), NothingCutOn(c)
    PROVE  /\ InSequenceOn(c)' /\ NothingCutOn(c)'
           /\ received'[c] = received[c] + 1 /\ received'[c] = Head(fromBroker[c]).seq
<1> DEFINE s == fromBroker[c]
           m == s[1].seq
<1>1. /\ s \in Seq(BrokerPackets) /\ s # <<>> /\ Head(s).type = "PUBLISH"
      /\ fromBroker'[c] = Tail(s) /\ received'[c] = Head(s).seq
      /\ published' = published /\ (MayPublish(c)' <=> MayPublish(c))
  BY DEF TypeOK, PeerType, TaskType, MessageReceived, Incoming, Consume, MayPublish, brokerVars
<1>2. /\ Head(s) = s[1] /\ 1 \in PublishesOf(c)
      /\ \A k \in PublishesOf(c)' : /\ k + 1 \in PublishesOf(c)
                                    /\ fromBroker'[c][k] = s[k + 1] /\ k \in Int /\ k >= 1
      /\ \A k \in PublishesOf(c) :
           k # 1 => k - 1 \in PublishesOf(c)' /\ fromBroker'[c][k - 1] = s[k]
  <2>1. s \in Seq(BrokerPackets) /\ s # <<>> /\ Head(s).type = "PUBLISH"
    BY <1>1
  <2> HIDE DEF s
  <2>2. /\ Head(s) = s[1] /\ (Head(s).type = "PUBLISH" <=> 1 \in Places(s, "PUBLISH"))
        /\ \A k \in Places(Tail(s), "PUBLISH") :
             /\ k + 1 \in Places(s, "PUBLISH") /\ Tail(s)[k] = s[k + 1]
             /\ k \in Int /\ k >= 1
        /\ \A k \in Places(s, "PUBLISH") :
             k # 1 => k - 1 \in Places(Tail(s), "PUBLISH") /\ Tail(s)[k - 1] = s[k]
    BY <2>1, PlacesTail
  <2> QED
    BY <1>1, <2>2 DEF PublishesOf, s
<1>3. /\ received[c] \in Nat /\ published[c] \in Nat
      /\ \A k \in PublishesOf(c) : k \in Int /\ k >= 1 /\ s[k].seq \in Nat
  BY PublishFacts
<1>4. m = received[c] + 1 /\ m \in Nat /\ m <= published[c]
  <2>1. m \in Nat /\ received[c] < m /\ m <= published[c]
    BY <1>2, <1>3 DEF InSequenceOn
  <2>2. Carried(c, received[c] + 1)
    BY <1>2, <1>3, <2>1 DEF InSequenceOn
  <2>3. PICK j \in PublishesOf(c) : s[j].seq = received[c] + 1
    BY <2>2 DEF Carried
  <2>4. j # 1 => m < s[j].seq
    BY <1>2, <1>3 DEF InSequenceOn
  <2> QED
    BY <1>3, <2>1, <2>3, <2>4
<1>5. ASSUME NEW i, Carried(c, i), i # m PROVE Carried(c, i)'
  BY <1>2, <1>5 DEF Carried
<1>6. received'[c] = m /\ published'[c] = published[c]
  BY <1>1, <1>2
<1> HIDE DEF m
<1>7. ASSUME NEW n \in Nat, \A i \in (received[c] + 1)..n : Carried(c, i)
      PROVE  \A i \in (m + 1)..n : Carried(c, i)'
  <2>1. \A i \in (m + 1)..n : i \in (received[c] + 1)..n /\ i # m
    BY <1>3, <1>4
  <2> QED
    BY <1>5, <1>7, <2>1
<1>8. ASSUME NEW k \in PublishesOf(c)'
      PROVE  /\ m < fromBroker'[c][k].seq /\ fromBroker'[c][k].seq <= published[c]
             /\ \A j \in PublishesOf(c)' : j < k => fromBroker'[c][j].seq < fromBroker'[c][k].seq
             /\ \A i \in (m + 1)..fromBroker'[c][k].seq : Carried(c, i)'
  <2>1. k + 1 \in PublishesOf(c) /\ 1 < k + 1 /\ fromBroker'[c][k] = s[k + 1]
    BY <1>2
  <2>2. m < s[k + 1].seq /\ s[k + 1].seq <= published[c]
    BY <1>2, <2>1 DEF InSequenceOn, m
  <2>3. ASSUME NEW j \in PublishesOf(c)', j < k PROVE fromBroker'[c][j].seq < s[k + 1].seq
    <3>1. j + 1 < k + 1 /\ j + 1 \in PublishesOf(c) /\ fromBroker'[c][j] = s[j + 1]
      BY <1>2, <2>3
    <3> QED
      BY <2>1, <3>1 DEF InSequenceOn
  <2>4. s[k + 1].seq \in Nat /\ \A i \in (received[c] + 1)..s[k + 1].seq : Carried(c, i)
    BY <1>3, <2>1 DEF InSequenceOn
  <2> QED
    BY <1>7, <2>1, <2>2, <2>3, <2>4
<1>9. InSequenceOn(c)'
  BY <1>6, <1>8 DEF InSequenceOn
<1>10. NothingCutOn(c)'
  <2>1. MayPublish(c) => \A i \in (m + 1)..published[c] : Carried(c, i)'
    BY <1>3, <1>7 DEF NothingCutOn
  <2> QED
    BY <1>1, <1>4, <1>6, <2>1 DEF NothingCutOn
<1> QED
  BY <1>1, <1>4, <1>6, <1>9, <1>10

\* The broker puts the next message on a stream that has all before it.
LEMMA PublishStream ==
    ASSUME TypeOK, NEW c \in Conns, BrokerPublish(c), InSequenceOn(c), NothingCutOn(c)
    PROVE  InSequenceOn(c)' /\ NothingCutOn(c)'
<1> DEFINE s == fromBroker[c]
           p == published[c]
           n == Len(s) + 1
           q == [type |-> "PUBLISH", seq |-> p + 1]
<1>1. /\ s \in Seq(BrokerPackets) /\ fromBroker'[c] = Append(s, q) /\ published'[c] = p + 1
      /\ received' = received /\ p < MaxMessages /\ MayPublish(c)
  BY DEF TypeOK, PeerType, BrokerPublish, MayPublish, sessionVars
<1>2. /\ received[c] \in Nat /\ p \in Nat
      /\ \A k \in PublishesOf(c) : k \in Int /\ k >= 1 /\ s[k].seq \in Nat
  BY PublishFacts
<1>3. q \in BrokerPackets /\ q.type = "PUBLISH" /\ q.seq = p + 1
  <2>1. p + 1 \in 1..MaxMessages
    BY <1>1, <1>2, ClientAssumption DEF ClientAssumption
  <2> QED
    BY <2>1 DEF BrokerPackets, Messages
<1>4. /\ PublishesOf(c)' = PublishesOf(c) \cup {n} /\ fromBroker'[c][n].seq = p + 1
      /\ \A k \in PublishesOf(c) : fromBroker'[c][k] = s[k] /\ k < n
  <2>1. s \in Seq(BrokerPackets) /\ q \in BrokerPackets /\ q.type = "PUBLISH"
    BY <1>1, <1>3
  <2> HIDE DEF s, q
  <2>2. /\ Places(Append(s, q), "PUBLISH") = Places(s, "PUBLISH") \cup {Len(s) + 1}
        /\ Append(s, q)[Len(s) + 1] = q
    BY <2>1, PlacesAppend
  <2>3. \A k \in Places(s, "PUBLISH") : Append(s, q)[k] = s[k] /\ k < Len(s) + 1
    BY <2>1, PlacesAppend
  <2> QED
    BY <1>1, <1>3, <2>2, <2>3 DEF PublishesOf, s
<1>n. n \in Int
  BY <1>1, LenProperties
<1> HIDE DEF s, p, n, q
<1>5. \A i : Carried(c, i) => Carried(c, i)'
  BY <1>4 DEF Carried, s
<1>6. \A i : i = p + 1 => Carried(c, i)'
  BY <1>4 DEF Carried
<1>7. \A i \in (received[c] + 1)..(p + 1) : Carried(c, i)'
  <2>1. \A i \in (received[c] + 1)..(p + 1) : i \in (received[c] + 1)..p \/ i = p + 1
    BY <1>2
  <2>2. \A i \in (received[c] + 1)..p : Carried(c, i)
    BY <1>1 DEF NothingCutOn, p
  <2> QED
    BY <1>5, <1>6, <2>1, <2>2
<1>8. received[c] <= p
  BY DEF NothingCutOn, p
<1>9. NothingCutOn(c)'
  BY <1>1, <1>2, <1>7, <1>8 DEF NothingCutOn
<1>10. ASSUME NEW k \in PublishesOf(c)'
       PROVE  /\ received[c] < fromBroker'[c][k].seq /\ fromBroker'[c][k].seq <= p + 1
              /\ \A j \in PublishesOf(c)' : j < k => fromBroker'[c][j].seq < fromBroker'[c][k].seq
              /\ \A i \in (received[c] + 1)..fromBroker'[c][k].seq : Carried(c, i)'
  <2>1. CASE k \in PublishesOf(c)
    <3>1. /\ fromBroker'[c][k] = s[k] /\ k < n /\ k \in Int /\ s[k].seq \in Nat
          /\ received[c] < s[k].seq /\ s[k].seq <= p
          /\ \A j \in PublishesOf(c) : j < k => s[j].seq < s[k].seq
          /\ \A i \in (received[c] + 1)..s[k].seq : Carried(c, i)
      BY <1>2, <1>4, <2>1 DEF InSequenceOn, s, p
    <3>2. ASSUME NEW j \in PublishesOf(c)', j < k PROVE fromBroker'[c][j].seq < s[k].seq
      <4>1. j \in PublishesOf(c)
        BY <1>4, <1>n, <3>1, <3>2
      <4> QED
        BY <1>4, <3>1, <3>2, <4>1
    <3> QED
      BY <1>2, <1>5, <3>1, <3>2
  <2>2. CASE k = n
    <3>1. ASSUME NEW j \in PublishesOf(c)', j < k PROVE fromBroker'[c][j].seq < p + 1
      <4>1. j \in PublishesOf(c)
        BY <1>4, <1>n, <2>2, <3>1
      <4>2. s[j].seq <= p /\ s[j].seq \in Nat
        BY <1>2, <4>1 DEF InSequenceOn, s, p
      <4> QED
        BY <1>2, <1>4, <4>1, <4>2
    <3> QED
      BY <1>2, <1>4, <1>7, <1>8, <2>2, <3>1
  <2> QED
    BY <1>4, <2>1, <2>2
<1>11. InSequenceOn(c)'
  BY <1>1, <1>10 DEF InSequenceOn
<1> QED
  BY <1>9, <1>11

\* What is kept of a connection, and the number of messages of which it is.
LEMMA KeptType ==
    ASSUME TypeOK, NEW c \in Conns
    PROVE  /\ delivered[c] \in Seq(1..MaxMessages) /\ msgChan[c] \in Seq(1..MaxMessages)
           /\ Kept(c) \in Seq(1..MaxMessages)
           /\ Len(Kept(c)) \in Nat /\ Len(Kept(c)) = Len(delivered[c]) + Len(msgChan[c])
           /\ Len(delivered[c]) \in Nat /\ Len(msgChan[c]) \in Nat
           /\ \A k \in 1..Len(Kept(c)) : Kept(c)[k] \in 1..MaxMessages
<1>1. delivered[c] \in Seq(1..MaxMessages) /\ msgChan[c] \in Seq(1..MaxMessages)
  BY DEF TypeOK, ChannelType
<1>2. /\ Kept(c) \in Seq(1..MaxMessages)
      /\ Len(Kept(c)) = Len(delivered[c]) + Len(msgChan[c])
  BY <1>1, ConcatProperties DEF Kept
<1> QED
  BY <1>1, <1>2, LenProperties, ElementOfSeq

LEMMA AppendKeeps ==
    ASSUME NEW S, NEW b \in Seq(S), NEW r \in Seq(S), NEW x \in S
    PROVE  b \o Append(r, x) = Append(b \o r, x)
<1>1. /\ Append(r, x) = r \o <<x>> /\ <<x>> \in Seq(S) /\ b \o r \in Seq(S)
      /\ Append(b \o r, x) = (b \o r) \o <<x>>
  BY AppendIsConcat, ConcatProperties
<1> QED
  BY <1>1, ConcatAssociative

LEMMA ReturningKeeps ==
    ASSUME NEW S, NEW b \in Seq(S), NEW r \in Seq(S), r # <<>>
    PROVE  Append(b, Head(r)) \o Tail(r) = b \o r
<1>1. Head(r) \in S /\ Tail(r) \in Seq(S) /\ <<Head(r)>> \in Seq(S)
  BY HeadTailProperties
<1>2. Append(b, Head(r)) = b \o <<Head(r)>>
  BY <1>1, AppendIsConcat
<1>3. r = <<Head(r)>> \o Tail(r)
  <2>1. Len(r) \in Nat \ {0} /\ 1 \in 1..Len(r) /\ Len(r) \in 1..Len(r)
    BY EmptySeq
  <2>2. SubSeq(r, 1, Len(r)) = <<r[1]>> \o SubSeq(r, 1 + 1, Len(r))
    BY <2>1, SubSeqRecursiveFirst
  <2> QED
    BY <2>2, SubSeqFull, TailIsSubSeq
<1> QED
  BY <1>1, <1>2, <1>3, ConcatAssociative

\* The conditions on what is kept of one connection, and the set of it.
KeptOn(c) ==
    /\ \A k \in 1..Len(Kept(c)) : Kept(c)[k] <= received[c]
    /\ \A j, k \in 1..Len(Kept(c)) : j < k => Kept(c)[j] < Kept(c)[k]
KeptSet(c) == {Kept(c)[k] : k \in 1..Len(Kept(c))}
GapsOn(c) ==
    \A s \in (1..received[c]) \ KeptSet(c) :
        Cardinality({k \in KeptSet(c) : k < s}) >= MsgCapacity

\* A connect() that is begun drops what its predecessor had not returned.
LEMMA DroppedKept ==
    ASSUME TypeOK, NEW c \in Conns, KeptOn(c), UNCHANGED <<delivered, received>>,
           msgChan'[c] = <<>> \/ msgChan'[c] = msgChan[c]
    PROVE  KeptOn(c)'
<1>1. CASE msgChan'[c] = msgChan[c]
  BY <1>1 DEF KeptOn, Kept
<1>2. CASE msgChan'[c] = <<>>
  <2> DEFINE d == delivered[c]
             r == Kept(c)
  <2>1. /\ d \in Seq(1..MaxMessages) /\ msgChan[c] \in Seq(1..MaxMessages)
        /\ Len(r) = Len(d) + Len(msgChan[c]) /\ Len(d) \in Nat /\ Len(msgChan[c]) \in Nat
    BY KeptType
  <2>2. \A i \in 1..Len(d) : i \in 1..Len(r) /\ r[i] = d[i]
    <3>1. \A i \in 1..Len(d) + Len(msgChan[c]) : i <= Len(d) => r[i] = d[i]
      BY <2>1, ConcatProperties DEF Kept
    <3> HIDE DEF d, r
    <3>2. \A i \in 1..Len(d) :
            i \in 1..Len(d) + Len(msgChan[c]) /\ i \in 1..Len(r) /\ i <= Len(d)
      BY <2>1
    <3> QED
      BY <3>1, <3>2
  <2>3. Kept(c)' = d
    BY <1>2, <2>1, ConcatEmptySeq DEF Kept
  <2> HIDE DEF d
  <2> QED
    BY <2>2, <2>3 DEF KeptOn
<1> QED
  BY <1>1, <1>2

\* What the task reads is kept, or the channel is full.
LEMMA ReadKept ==
    ASSUME TypeOK, NEW c \in Conns, MessageReceived(c),
           received'[c] = received[c] + 1, received'[c] = Head(fromBroker[c]).seq
    PROVE  \/ c = latest /\ Kept(c)' = Append(Kept(c), received[c] + 1)
              /\ received[c] + 1 \in 1..MaxMessages
           \/ Kept(c)' = Kept(c) /\ (c = latest => Len(msgChan[c]) >= MsgCapacity)
<1>1. /\ msgChan'[c] = TrySend(c, msgChan[c], received[c] + 1) /\ delivered' = delivered
      /\ received'[c] \in 0..MaxMessages /\ received[c] \in Nat /\ MsgCapacity \in Nat
  <2>1. /\ fromBroker[c] # <<>> /\ Head(fromBroker[c]).type = "PUBLISH"
        /\ msgChan'[c] = TrySend(c, msgChan[c], Head(fromBroker[c]).seq) /\ delivered' = delivered
    BY DEF MessageReceived, Incoming, TypeOK, ChannelType
  <2>2. 1 \in PublishesOf(c) /\ Head(fromBroker[c]) = fromBroker[c][1]
    <3>1. fromBroker[c] \in Seq(BrokerPackets)
      BY DEF TypeOK, PeerType
    <3> QED
      BY <2>1, <3>1, PlacesTail DEF PublishesOf
  <2>3. Head(fromBroker[c]).seq \in 1..MaxMessages /\ received[c] \in Nat
    BY <2>2, PublishFacts
  <2> QED
    BY <2>1, <2>3, ClientAssumption DEF ClientAssumption
<1>2. Len(msgChan[c]) \in Nat
  BY KeptType
<1>3. CASE c = latest /\ Len(msgChan[c]) < MsgCapacity
  <2>1. msgChan'[c] = Append(msgChan[c], received[c] + 1) /\ received[c] + 1 \in 1..MaxMessages
    BY <1>1, <1>3, ClientAssumption DEF TrySend, ClientAssumption
  <2>2. Kept(c)' = delivered[c] \o Append(msgChan[c], received[c] + 1)
    BY <1>1, <2>1 DEF Kept
  <2>3. delivered[c] \o Append(msgChan[c], received[c] + 1) = Append(Kept(c), received[c] + 1)
    <3> DEFINE S == 1..MaxMessages
               x == received[c] + 1
               b == delivered[c]
               r == msgChan[c]
    <3>1. b \in Seq(S) /\ r \in Seq(S) /\ x \in S
      BY <2>1, KeptType
    <3> HIDE DEF S, x, b, r
    <3>2. b \o Append(r, x) = Append(b \o r, x)
      BY <3>1, AppendKeeps
    <3> QED
      BY <3>2 DEF Kept, x, b, r
  <2> QED
    BY <1>3, <2>1, <2>2, <2>3
<1>4. CASE ~(c = latest /\ Len(msgChan[c]) < MsgCapacity)
  <2>1. c = latest => Len(msgChan[c]) >= MsgCapacity
    BY <1>1, <1>2, <1>4
  <2>2. msgChan'[c] = msgChan[c]
    BY <1>1, <1>4 DEF TrySend
  <2> QED
    BY <1>1, <2>1, <2>2 DEF Kept
<1> QED
  BY <1>3, <1>4

\* An increasing sequence has as many elements as places.
LEMMA IncreasingCount ==
    ASSUME NEW n \in Nat, NEW r, NEW T, IsFiniteSet(T),
           \A k \in 1..n : r[k] \in T /\ r[k] \in Int,
           \A j, k \in 1..n : j < k => r[j] < r[k]
    PROVE  Cardinality(T) \in Nat /\ n <= Cardinality(T)
<1> DEFINE f == [k \in 1..n |-> r[k]]
<1>1. f \in Injection(1..n, T)
  <2>1. f \in [1..n -> T]
    OBVIOUS
  <2>2. ASSUME NEW j \in 1..n, NEW k \in 1..n, f[j] = f[k] PROVE j = k
    <3>1. ~(r[j] < r[k]) /\ ~(r[k] < r[j])
      BY <2>2
    <3> QED
      BY <3>1
  <2> QED
    BY <2>1, <2>2 DEF Injection, IsInjective
<1> HIDE DEF f
<1>2. Cardinality(1..n) <= Cardinality(T) /\ Cardinality(T) \in Nat
  BY <1>1, FS_Injection, FS_CardinalityType
<1>3. Cardinality(1..n) = n
  <2>1. Cardinality(1..n) = IF 1 > n THEN 0 ELSE n - 1 + 1
    BY FS_Interval
  <2> QED
    BY <2>1
<1> QED
  BY <1>2, <1>3

\* Everything kept counts when it is older than a message.
LEMMA AllKeptCount ==
    ASSUME TypeOK, NEW c \in Conns, KeptOn(c), NEW m \in Nat, received[c] < m
    PROVE  Cardinality({k \in KeptSet(c) : k < m}) >= Len(msgChan[c])
<1> DEFINE r == Kept(c)
           n == Len(Kept(c))
           T == {k \in KeptSet(c) : k < m}
<1>1. /\ n \in Nat /\ n >= Len(msgChan[c]) /\ Len(msgChan[c]) \in Nat
      /\ \A k \in 1..n : r[k] \in 1..MaxMessages
  <2>1. /\ n \in Nat /\ n = Len(delivered[c]) + Len(msgChan[c])
        /\ Len(delivered[c]) \in Nat /\ Len(msgChan[c]) \in Nat
        /\ \A k \in 1..n : r[k] \in 1..MaxMessages
    BY KeptType
  <2> HIDE DEF r, n, T
  <2>2. \A i, j \in Nat : i + j >= j
    OBVIOUS
  <2>3. n >= Len(msgChan[c])
    BY <2>1, <2>2, Zenon
  <2> QED
    BY <2>1, <2>3
<1>2. received[c] \in Nat /\ MaxMessages \in Nat
  BY PublishFacts, ClientAssumption DEF ClientAssumption
<1>3. /\ \A k \in 1..n : r[k] <= received[c]
      /\ \A j, k \in 1..n : j < k => r[j] < r[k]
  BY DEF KeptOn
<1>4. T \subseteq 1..MaxMessages
  BY <1>1 DEF KeptSet
<1>5. IsFiniteSet(T)
  <2>1. IsFiniteSet(1..MaxMessages)
    BY <1>2, FS_Interval
  <2> HIDE DEF T
  <2> QED
    BY <1>4, <2>1, FS_Subset
<1>6. ASSUME NEW k \in 1..n PROVE r[k] \in T /\ r[k] \in Int
  <2>1. r[k] \in KeptSet(c) /\ r[k] \in 1..MaxMessages /\ r[k] <= received[c]
    BY <1>1, <1>3 DEF KeptSet
  <2> HIDE DEF r
  <2>2. r[k] < m /\ r[k] \in Int
    BY <1>2, <2>1
  <2> QED
    BY <2>1, <2>2
<1> HIDE DEF r, n, T
<1>7. Cardinality(T) \in Nat /\ n <= Cardinality(T)
  BY <1>1, <1>3, <1>5, <1>6, IncreasingCount
<1>8. Len(msgChan[c]) <= Cardinality(T)
  BY <1>1, <1>7
<1> QED
  BY <1>1, <1>7, <1>8 DEF T

\* Gaps stay gaps with as much before them, and the new ones follow a full channel.
LEMMA GapsStay ==
    ASSUME TypeOK, NEW c \in Conns, TypeOK', GapsOn(c), KeptSet(c) \subseteq KeptSet(c)',
           KeptOn(c)', received'[c] \in {received[c], received[c] + 1},
           received'[c] = received[c] + 1 /\ received'[c] \notin KeptSet(c)' =>
              KeptSet(c)' = KeptSet(c) /\ KeptOn(c) /\ Len(msgChan[c]) >= MsgCapacity
    PROVE  GapsOn(c)'
<1>1. /\ received[c] \in Nat /\ MaxMessages \in Nat /\ MsgCapacity \in Nat
      /\ Len(msgChan[c]) \in Nat
  BY PublishFacts, KeptType, ClientAssumption DEF ClientAssumption
<1>2. KeptSet(c)' \subseteq 1..MaxMessages
  <2>1. \A k \in 1..Len(Kept(c)') : Kept(c)'[k] \in 1..MaxMessages
    <3>1. delivered'[c] \in Seq(1..MaxMessages) /\ msgChan'[c] \in Seq(1..MaxMessages)
      BY DEF TypeOK, ChannelType
    <3>2. Kept(c)' \in Seq(1..MaxMessages)
      BY <3>1, ConcatProperties DEF Kept
    <3> QED
      BY <3>2, ElementOfSeq
  <2> QED
    BY <2>1 DEF KeptSet
<1>3. ASSUME NEW S \in SUBSET (1..MaxMessages) PROVE IsFiniteSet(S) /\ Cardinality(S) \in Nat
  <2>1. IsFiniteSet(1..MaxMessages)
    BY <1>1, FS_Interval
  <2> QED
    BY <2>1, FS_Subset, FS_CardinalityType
<1> SUFFICES ASSUME NEW s \in (1..received'[c]) \ KeptSet(c)'
             PROVE  Cardinality({k \in KeptSet(c)' : k < s}) >= MsgCapacity
  BY DEF GapsOn
<1> DEFINE A == {k \in KeptSet(c) : k < s}
           B == {k \in KeptSet(c)' : k < s}
<1>4. /\ A \subseteq B /\ IsFiniteSet(B) /\ Cardinality(A) \in Nat /\ Cardinality(B) \in Nat
  BY <1>2, <1>3
<1>5. Cardinality(A) <= Cardinality(B)
  BY <1>4, FS_Subset
<1>6. Cardinality(A) >= MsgCapacity
  <2>1. CASE s \in 1..received[c]
    BY <2>1 DEF GapsOn
  <2>2. CASE s \notin 1..received[c]
    <3>1. s \in Nat /\ received'[c] = received[c] + 1 /\ s = received'[c] /\ received[c] < s
      BY <1>1, <2>2
    <3>2. KeptOn(c) /\ Len(msgChan[c]) >= MsgCapacity
      BY <3>1
    <3>3. Cardinality(A) >= Len(msgChan[c])
      BY <3>1, <3>2, AllKeptCount
    <3> HIDE DEF A
    <3> QED
      BY <1>1, <1>4, <3>2, <3>3
  <2> QED
    BY <2>1, <2>2
<1> HIDE DEF A, B
<1>7. Cardinality(B) >= MsgCapacity
  BY <1>1, <1>4, <1>5, <1>6
<1> QED
  BY <1>7 DEF B

\* The invariant, connection by connection.
Delivers(c) == InSequenceOn(c) /\ NothingCutOn(c) /\ KeptOn(c)
DeliveryParts == /\ \A c \in Conns : Delivers(c)
                 /\ latest # 0 => GapsOn(latest)

LEMMA PartsOfDelivery == DeliveryInv <=> BeginInv /\ DeliveryParts
BY DEF DeliveryInv, DeliveryParts, Delivers, InSequence, InSequenceOn, NothingCut, NothingCutOn,
   KeptWasReceived, DeliveryOrder, KeptOn, GapsOnlyWhenFull, GapsOn, KeptSet

LEMMA ConnectionDelivers ==
    ASSUME BeginInv, TypeOK', DeliveryParts, NEW c \in Conns, ConnectionStep(c) \/ PeerStep(c)
    PROVE  DeliveryParts'
<1>t. /\ TypeOK /\ latest \in 0..MaxConns /\ Delivers(c)
      /\ msgChan \in [Conns -> Seq(1..MaxMessages)]
  BY DEF BeginInv, TypeOK, ApiType, ChannelType, DeliveryParts
<1>1. latest' = latest /\ delivered' = delivered
  <2>1. latest' = latest
    BY ConnectionBegins
  <2>2. delivered' = delivered
    BY DEF ConnectionStep, PeerStep, HandshakeCompletes, HandleRequest, NoPacketId,
       ConnectionClosed, ConnectionLost, EndTask, HandleIncoming, ConnackReceived, AckReceived,
       MessageReceived, DisconnectReceived, PeerCloses, BrokerAcks, BrokerAck, BrokerConnack,
       BrokerAnswers, BrokerPublish, BrokerDisconnect
  <2> QED
    BY <2>1, <2>2
<1>2. \A d \in Conns \ {c} : msgChan'[d] = msgChan[d]
  BY <1>t DEF ConnectionStep, PeerStep, HandshakeCompletes, HandleRequest, NoPacketId,
     ConnectionClosed, ConnectionLost, EndTask, HandleIncoming, ConnackReceived, AckReceived,
     MessageReceived, DisconnectReceived, PeerCloses, BrokerAcks, BrokerAck, BrokerConnack,
     BrokerAnswers, BrokerPublish, BrokerDisconnect
<1>3. ASSUME NEW d \in Conns \ {c} PROVE Delivers(d)' /\ (GapsOn(d) => GapsOn(d)')
  <2>1. /\ quic'[d] = quic[d] /\ sent'[d] = sent[d] /\ fromBroker'[d] = fromBroker[d]
        /\ subscribed'[d] = subscribed[d] /\ received'[d] = received[d]
        /\ published'[d] = published[d] /\ deaf'[d] = deaf[d]
    BY <1>t, OthersStayAlone DEF OthersStay
  <2>2. Kept(d)' = Kept(d) /\ Delivers(d)
    BY <1>1, <1>2, <1>3 DEF Kept, DeliveryParts
  <2>3. InSequenceOn(d)'
    BY <2>1, <2>2 DEF Delivers, InSequenceOn, PublishesOf, Carried
  <2>4. NothingCutOn(d)'
    BY <2>1, <2>2 DEF Delivers, NothingCutOn, MayPublish, PublishesOf, Carried
  <2>5. KeptOn(d)' /\ (GapsOn(d) => GapsOn(d)')
    BY <2>1, <2>2 DEF Delivers, KeptOn, GapsOn, KeptSet
  <2> QED
    BY <2>3, <2>4, <2>5 DEF Delivers
<1>g. ASSUME Delivers(c)', c = latest /\ GapsOn(c) => GapsOn(c)' PROVE DeliveryParts'
  <2>1. \A d \in Conns : Delivers(d)'
    BY <1>3, <1>g
  <2>2. \A d \in Conns : d = latest /\ GapsOn(d) => GapsOn(d)'
    BY <1>3, <1>g
  <2>3. latest # 0 => latest \in Conns /\ GapsOn(latest)
    BY <1>t, ClientAssumption DEF ClientAssumption, Conns, DeliveryParts
  <2>4. latest # 0 => GapsOn(latest)'
    BY <1>1, <2>2, <2>3
  <2> QED
    BY <1>1, <2>1, <2>4 DEF DeliveryParts
<1>4. ASSUME Kept(c)' = Kept(c), received'[c] = received[c]
      PROVE  KeptOn(c)' /\ (GapsOn(c) => GapsOn(c)')
  BY <1>t, <1>4 DEF Delivers, KeptOn, GapsOn, KeptSet
<1>5. CASE Calm(c)
  <2>1. Kept(c)' = Kept(c) /\ received'[c] = received[c]
    BY <1>5 DEF Calm, Kept
  <2>2. InSequenceOn(c)' /\ NothingCutOn(c)'
    BY <1>t, <1>5, CalmStream DEF Delivers
  <2> QED
    BY <1>4, <1>g, <2>1, <2>2 DEF Delivers
<1>6. CASE BrokerPublish(c)
  <2>1. Kept(c)' = Kept(c) /\ received'[c] = received[c]
    BY <1>6 DEF BrokerPublish, Kept, sessionVars
  <2>2. InSequenceOn(c)' /\ NothingCutOn(c)'
    BY <1>t, <1>6, PublishStream DEF Delivers
  <2> QED
    BY <1>4, <1>g, <2>1, <2>2 DEF Delivers
<1>7. CASE MessageReceived(c)
  <2>1. /\ InSequenceOn(c)' /\ NothingCutOn(c)'
        /\ received'[c] = received[c] + 1 /\ received'[c] = Head(fromBroker[c]).seq
    BY <1>t, <1>7, ReadStream DEF Delivers
  <2>2. received[c] \in Nat /\ KeptOn(c)
    BY <1>t, PublishFacts DEF Delivers
  <2>3. CASE c = latest /\ Kept(c)' = Append(Kept(c), received[c] + 1)
             /\ received[c] + 1 \in 1..MaxMessages
    <3> DEFINE r == Kept(c)
               n == Len(Kept(c))
               m == received[c] + 1
    <3>1. /\ r \in Seq(1..MaxMessages) /\ n \in Nat
          /\ \A k \in 1..n : r[k] \in 1..MaxMessages
      BY <1>t, KeptType
    <3>2. /\ Len(Kept(c)') = n + 1 /\ Kept(c)'[n + 1] = m
          /\ \A i \in 1..n : Kept(c)'[i] = r[i]
      BY <2>3, <3>1, AppendProperties
    <3>3. \A k \in 1..n : r[k] \in Nat /\ r[k] < m /\ m \in Nat
      BY <2>2, <3>1 DEF KeptOn
    <3>4. \A j, k \in 1..n : j < k => r[j] < r[k]
      BY <2>2 DEF KeptOn
    <3>5. KeptOn(c)'
      <4> HIDE DEF r, n, m
      <4>1. \A k \in 1..(n + 1) : k \in 1..n \/ k = n + 1
        BY <3>1
      <4>2. received'[c] = m /\ m \in Nat
        BY <2>1, <2>2 DEF m
      <4>3. ASSUME NEW k \in 1..(n + 1) PROVE Kept(c)'[k] <= m
        BY <3>2, <3>3, <4>1, <4>2
      <4>4. ASSUME NEW j \in 1..(n + 1), NEW k \in 1..(n + 1), j < k
            PROVE  Kept(c)'[j] < Kept(c)'[k]
        <5>1. j \in 1..n /\ Kept(c)'[j] = r[j]
          BY <3>1, <3>2, <4>4
        <5>2. CASE k \in 1..n
          BY <3>2, <3>4, <4>4, <5>1, <5>2
        <5>3. CASE k = n + 1
          BY <3>2, <3>3, <5>1, <5>3
        <5> QED
          BY <4>1, <5>2, <5>3
      <4> QED
        BY <3>2, <4>2, <4>3, <4>4 DEF KeptOn
    <3>6. GapsOn(c) => GapsOn(c)'
      <4>1. KeptSet(c) \subseteq KeptSet(c)' /\ received'[c] \in KeptSet(c)'
        <5> HIDE DEF r, n, m
        <5>1. /\ 1..Len(Kept(c)') = 1..(n + 1) /\ n + 1 \in 1..(n + 1)
              /\ \A i \in 1..n : i \in 1..(n + 1)
          BY <3>1, <3>2
        <5>2. KeptSet(c) = {r[k] : k \in 1..n}
          BY DEF KeptSet, r, n
        <5>3. received'[c] = m
          BY <2>1 DEF m
        <5> QED
          BY <3>2, <5>1, <5>2, <5>3 DEF KeptSet
      <4> QED
        BY <1>t, <2>1, <3>5, <4>1, GapsStay
    <3> QED
      BY <1>g, <2>1, <3>5, <3>6 DEF Delivers
  <2>4. CASE Kept(c)' = Kept(c) /\ (c = latest => Len(msgChan[c]) >= MsgCapacity)
    <3>1. \A k \in 1..Len(Kept(c)) : Kept(c)[k] \in Nat /\ Kept(c)[k] <= received[c] + 1
      <4>1. \A k \in 1..Len(Kept(c)) : Kept(c)[k] \in 1..MaxMessages
        BY <1>t, KeptType
      <4> QED
        BY <2>2, <4>1 DEF KeptOn
    <3>2. KeptOn(c)'
      BY <2>1, <2>2, <2>4, <3>1 DEF KeptOn
    <3>3. c = latest /\ GapsOn(c) => GapsOn(c)'
      <4>1. KeptSet(c)' = KeptSet(c)
        BY <2>4 DEF KeptSet
      <4> QED
        BY <1>t, <2>1, <2>2, <2>4, <3>2, <4>1, GapsStay
    <3> QED
      BY <1>g, <2>1, <3>2, <3>3 DEF Delivers
  <2> QED
    BY <1>t, <1>7, <2>1, <2>3, <2>4, ReadKept
<1>8. \/ MessageReceived(c) \/ BrokerPublish(c) \/ Calm(c)
  <2>1. CASE ConnackReceived(c)
    <3>1. /\ fromBroker[c] # <<>> /\ Head(fromBroker[c]).type = "CONNACK"
          /\ fromBroker'[c] = Tail(fromBroker[c])
          /\ UNCHANGED <<sent, deaf, subscribed, quic, received, published, msgChan, delivered>>
      BY <1>t, <2>1 DEF ConnackReceived, Incoming, Consume, brokerVars, TypeOK, PeerType
    <3> QED
      BY <3>1 DEF Calm, Keeps, MayPublish
  <2>2. ASSUME NEW ok \in BOOLEAN, BrokerConnack(c, ok) PROVE Calm(c)
    <3> DEFINE q == [type |-> "CONNACK", ok |-> ok]
    <3>1. q \in BrokerPackets /\ q.type # "PUBLISH"
      BY DEF BrokerPackets, Connacks
    <3>2. /\ fromBroker'[c] = Append(fromBroker[c], q) /\ sent'[c] \subseteq sent[c]
          /\ UNCHANGED <<deaf, subscribed, quic, received, published, msgChan, delivered>>
      BY <1>t, <2>2 DEF BrokerConnack, BrokerAnswers, sessionVars, TypeOK, PeerType
    <3> QED
      BY <3>1, <3>2 DEF Calm, Keeps, MayPublish
  <2>3. CASE Quiet(c)
    BY <2>3 DEF Quiet, Calm, KeepsCounted, Counted
  <2> QED
    BY <2>1, <2>2, <2>3, StreamMoves
<1> QED
  BY <1>5, <1>6, <1>7, <1>8

LEMMA ClientDelivers ==
    ASSUME BeginInv, TypeOK', DeliveryParts, ClientStep PROVE DeliveryParts'
<1>t. /\ TypeOK /\ latest \in 0..MaxConns /\ MaxConns \in Nat
      /\ msgChan \in [Conns -> Seq(1..MaxMessages)]
      /\ delivered \in [Conns -> Seq(1..MaxMessages)]
  BY ClientAssumption DEF BeginInv, TypeOK, ApiType, ChannelType
<1>1. UNCHANGED <<quic, sent, deaf, fromBroker, subscribed, received, published>>
  BY DEF ClientStep, CallConnect, ConnectInitFails, ConnectSpawns, ConnectReturns,
     CallRequest, RequestEnqueue, RequestReturns, RequestSendFails, CallRcv, ReceiveReturns,
     ReceiveFails, CancelCall, sessionVars, streamVars, brokerVars
<1>2. \A c \in Conns : InSequenceOn(c)' /\ NothingCutOn(c)'
  BY <1>1 DEF DeliveryParts, Delivers, InSequenceOn, NothingCutOn, MayPublish, PublishesOf,
     Carried
<1>3. ASSUME latest' = latest, \A c \in Conns : Kept(c)' = Kept(c) PROVE DeliveryParts'
  <2>1. \A c \in Conns : KeptOn(c)' /\ (GapsOn(c) => GapsOn(c)')
    BY <1>1, <1>3 DEF DeliveryParts, Delivers, KeptOn, GapsOn, KeptSet
  <2>2. latest # 0 => latest \in Conns
    BY <1>t DEF Conns
  <2> QED
    BY <1>2, <1>3, <2>1, <2>2 DEF DeliveryParts, Delivers
<1>4. CASE CallConnect
  <2>1. /\ latest' = latest + 1 /\ latest' \in Conns /\ latest < latest'
        /\ delivered' = delivered
        /\ \A c \in Conns : msgChan'[c] = <<>> \/ msgChan'[c] = msgChan[c]
    BY <1>t, <1>4 DEF CallConnect, Conns
  <2>2. ASSUME NEW c \in Conns PROVE KeptOn(c)'
    <3>1. KeptOn(c) /\ UNCHANGED <<delivered, received>>
      BY <1>1, <2>1 DEF DeliveryParts, Delivers
    <3> QED
      BY <1>t, <2>1, <3>1, DroppedKept
  <2>3. received[latest'] = 0
    BY <2>1 DEF BeginInv, Begun, SilentAtFirst, Silent
  <2>4. GapsOn(latest)'
    <3>1. received'[latest'] = 0 /\ 1..0 = {}
      BY <1>1, <2>3
    <3> QED
      BY <3>1 DEF GapsOn
  <2> QED
    BY <1>2, <2>2, <2>4 DEF DeliveryParts, Delivers
<1>5. CASE ReceiveReturns
  <2>1. /\ latest' = latest /\ latest \in Conns /\ msgChan[latest] # <<>>
        /\ delivered' = [delivered EXCEPT ![latest] = Append(@, Head(msgChan[latest]))]
        /\ msgChan' = [msgChan EXCEPT ![latest] = Tail(@)]
    BY <1>t, <1>5 DEF ReceiveReturns, Conns, apiVars
  <2>2. Kept(latest)' = Kept(latest)
    <3> DEFINE S == 1..MaxMessages
               b == delivered[latest]
               r == msgChan[latest]
    <3>1. b \in Seq(S) /\ r \in Seq(S) /\ r # <<>>
      BY <1>t, <2>1
    <3>2. delivered'[latest'] = Append(b, Head(r)) /\ msgChan'[latest'] = Tail(r)
      BY <1>t, <2>1
    <3> HIDE DEF S, b, r
    <3>3. Append(b, Head(r)) \o Tail(r) = b \o r
      BY <3>1, ReturningKeeps
    <3> QED
      BY <3>2, <3>3 DEF Kept, b, r
  <2>3. \A c \in Conns \ {latest} : Kept(c)' = Kept(c)
    BY <1>t, <2>1 DEF Kept
  <2>4. \A c \in Conns : Kept(c)' = Kept(c)
    BY <2>1, <2>2, <2>3
  <2> QED
    BY <1>3, <2>1, <2>4
<1>6. CASE \/ ConnectInitFails \/ ConnectSpawns \/ ConnectReturns
           \/ \E r \in Requests : CallRequest(r)
           \/ RequestEnqueue \/ RequestReturns \/ RequestSendFails
           \/ CallRcv \/ ReceiveFails \/ CancelCall
  <2>1. UNCHANGED <<latest, delivered, msgChan>>
    BY <1>6 DEF ConnectInitFails, ConnectSpawns, ConnectReturns, CallRequest, RequestEnqueue,
       RequestReturns, RequestSendFails, CallRcv, ReceiveFails, CancelCall, apiVars
  <2>2. latest' = latest /\ \A c \in Conns : Kept(c)' = Kept(c)
    BY <2>1 DEF Kept
  <2> QED
    BY <1>3, <2>2
<1> QED
  BY <1>4, <1>5, <1>6 DEF ClientStep

LEMMA StepDeliveryInv == DeliveryInv /\ [Next]_vars => DeliveryInv'
<1> SUFFICES ASSUME DeliveryInv, [Next]_vars PROVE DeliveryInv'
  OBVIOUS
<1>1. BeginInv /\ DeliveryParts /\ BeginInv' /\ TypeOK'
  BY PartsOfDelivery, StepBeginInv DEF BeginInv
<1>2. (BeginInv /\ DeliveryParts => DeliveryInv)'
  BY PartsOfDelivery, PTL
<1>3. CASE UNCHANGED vars
  <2>1. UNCHANGED <<latest, quic, sent, deaf, fromBroker, subscribed, received, published,
                    delivered, msgChan>>
    BY <1>3 DEF vars, apiVars, sessionVars, streamVars, brokerVars
  <2>2. \A c : Kept(c)' = Kept(c)
    BY <2>1 DEF Kept
  <2>3. \A c \in Conns : InSequenceOn(c)' /\ NothingCutOn(c)'
    BY <1>1, <2>1 DEF DeliveryParts, Delivers, InSequenceOn, NothingCutOn, MayPublish,
       PublishesOf, Carried
  <2>4. \A c \in Conns : KeptOn(c)' /\ (GapsOn(c) => GapsOn(c)')
    BY <1>1, <2>1, <2>2 DEF DeliveryParts, Delivers, KeptOn, GapsOn, KeptSet
  <2>5. latest # 0 => GapsOn(latest)'
    BY <1>1, <2>1, <2>2 DEF DeliveryParts, GapsOn, KeptSet
  <2> QED
    BY <1>1, <1>2, <2>1, <2>3, <2>4, <2>5 DEF DeliveryParts, Delivers
<1>4. CASE Next
  BY <1>1, <1>2, <1>4, ClientDelivers, ConnectionDelivers DEF Next
<1> QED
  BY <1>3, <1>4

\* rcv() returns the messages of a connection in the broker's order, none twice.
THEOREM DeliveredInOrder == Spec => []DeliveryOrder
<1>1. DeliveryInv => DeliveryOrder
  BY DEF DeliveryInv
<1> QED
  BY InitDeliveryInv, StepDeliveryInv, <1>1, PTL DEF Spec

\* A message that was read and is missing followed MsgCapacity that were kept.
THEOREM LostOnlyWhenFull == Spec => []GapsOnlyWhenFull
<1>1. DeliveryInv => GapsOnlyWhenFull
  BY DEF DeliveryInv
<1> QED
  BY InitDeliveryInv, StepDeliveryInv, <1>1, PTL DEF Spec

\* No PUBLISH on a stream is skipped, overtaken or put there twice.
THEOREM StreamsInSequence == Spec => [](InSequence /\ NothingCut)
<1>1. DeliveryInv => InSequence /\ NothingCut
  BY DEF DeliveryInv
<1> QED
  BY InitDeliveryInv, StepDeliveryInv, <1>1, PTL DEF Spec

-----------------------------------------------------------------------------
(* No wake-up is lost.                                                     *)

\* What will wake the call that waits for the answer to r on connection c.
InSent(c, r, i) == \E p \in sent[c] : p \in RequestPackets /\ p.req = r /\ p.id = i
InAnswers(c, r, i) ==
    \E k \in Places(fromBroker[c], AckType(r)) :
        fromBroker[c][k].req = r /\ fromBroker[c][k].id = i
DisconnectsOf(c) == Places(fromBroker[c], "DISCONNECT")
UnderWay(c, r, i) == InSent(c, r, i) \/ InAnswers(c, r, i) \/ DisconnectsOf(c) # {}
Remembered(c, r) ==
    LET i == currentRequest[c].id IN
    /\ reqChan[c] = <<>> /\ currentRequest[c].req = r
    /\ i \in PacketIds /\ owner[c][i] = r
    /\ StreamSends = {"whole"} => UnderWay(c, r, i)
Served(c, r) == r \in notified \/ reqChan[c] = <<r>> \/ Remembered(c, r)

\* A call that waits for the broker finds its permit, or its request has its
\* place in the channel or with the task, or the connection is broken, as long
\* as no connect() was given up.  If packets are written whole, a request the
\* task remembers has its packet, its acknowledgement or a DISCONNECT on the
\* stream.
NoneGivenUp == \A d \in Conns : connOutcome[d] # "cancelled"
RequestIsServed ==
    call.op = "awaitAck" /\ NoneGivenUp => Broken(latest) \/ Served(latest, call.req)
\* A connect() whose CONNACK was read finds the permit it left.
ConnackIsHeard ==
    call.op = "awaitConnack" /\ mqtt[latest] = "connected" => connackPermit
NoWakeUpLost == RequestIsServed /\ ConnackIsHeard

\* Why that is so.  Before the handshake nothing was written, a closed QUIC
\* connection has no task, and an acknowledgement has the type of its request.
FreshOn(c) ==
    /\ quic[c] = "handshake" => ~deaf[c] /\ mqtt[c] = "disconnected"
    /\ quic[c] = "closed" => task[c] = "ended"
AcksTypedOn(c) ==
    \A t \in {"PUBACK", "SUBACK"} :
        \A k \in Places(fromBroker[c], t) : AckType(fromBroker[c][k].req) = t

\* The CONNACK comes before any DISCONNECT; and a broker that takes no more
\* packets, though they were written whole, has said so or is about to.
ConnackFirstOn(c) ==
    /\ DisconnectsOf(c) # {} => connAnswer[c] # "none"
    /\ \A j \in ConnacksOf(c), k \in DisconnectsOf(c) : j < k
DeafLeavesOn(c) ==
    StreamSends = {"whole"} /\ deaf[c] /\ quic[c] = "established" =>
        /\ connAnswer[c] # "none"
        /\ DisconnectsOf(c) # {} \/ (mqtt[c] # "connected" /\ ConnacksOf(c) = {})
WakesOn(c) == FreshOn(c) /\ AcksTypedOn(c) /\ ConnackFirstOn(c) /\ DeafLeavesOn(c)
WakeInv == ConnackInv /\ IInv /\ (\A c \in Conns : WakesOn(c)) /\ NoWakeUpLost

LEMMA InitWakeInv == Init => WakeInv
<1> SUFFICES ASSUME Init PROVE WakeInv
  OBVIOUS
<1>1. ConnackInv /\ IInv
  BY InitConnackInv, InitIInv
<1>2. \A c \in Conns : \A t : Places(fromBroker[c], t) = {}
  BY NoPlaces DEF Init
<1>3. \A c \in Conns : WakesOn(c)
  BY <1>2 DEF Init, WakesOn, FreshOn, AcksTypedOn, ConnackFirstOn, DeafLeavesOn, DisconnectsOf,
     ConnacksOf
<1>4. NoWakeUpLost
  BY DEF Init, Idle, NoWakeUpLost, RequestIsServed, ConnackIsHeard
<1> QED
  BY <1>1, <1>3, <1>4 DEF WakeInv

\* How a stream changes in a step of its connection.
Appends(c) ==
    \E q \in BrokerPackets :
        /\ fromBroker'[c] = Append(fromBroker[c], q)
        /\ q.type \in {"PUBACK", "SUBACK"} => q.type = AckType(q.req)
        /\ q.type = "CONNACK" => connAnswer[c] = "none"
        /\ q.type = "DISCONNECT" => connAnswer[c] # "none"
Shape(c) ==
    \/ fromBroker'[c] = fromBroker[c]
    \/ fromBroker'[c] = <<>>
    \/ fromBroker[c] # <<>> /\ fromBroker'[c] = Tail(fromBroker[c])
    \/ Appends(c)

LEMMA StreamShape ==
    ASSUME BeginInv, OneConnack, NEW c \in Conns, ConnectionStep(c) \/ PeerStep(c)
    PROVE  /\ Shape(c) /\ (connAnswer[c] # "none" => connAnswer'[c] # "none")
           /\ \/ BrokerAcks(c) \/ BrokerPublish(c)
              \/ \E ok \in BOOLEAN : BrokerConnack(c, ok)
              => Appends(c)
<1>t. /\ fromBroker \in [Conns -> Seq(BrokerPackets)]
      /\ connAnswer \in [Conns -> {"none", "ok", "refused"}]
      /\ sent \in [Conns -> SUBSET (RequestPackets \cup {ConnectPacket})]
      /\ published \in [Conns -> 0..MaxMessages]
  BY DEF BeginInv, TypeOK, PeerType
<1>1. ASSUME HandshakeCompletes(c) \/ HandleRequest(c) PROVE Shape(c) /\ connAnswer' = connAnswer
  BY <1>1 DEF HandshakeCompletes, HandleRequest, Shape, brokerVars
<1>2. ASSUME EndTask(c) \/ PeerCloses(c) PROVE Shape(c) /\ connAnswer' = connAnswer
  BY <1>t, <1>2 DEF EndTask, PeerCloses, Shape
<1>3. ASSUME HandleIncoming(c) PROVE Shape(c) /\ connAnswer' = connAnswer
  BY <1>t, <1>3 DEF HandleIncoming, ConnackReceived, AckReceived, MessageReceived,
     DisconnectReceived, Incoming, Consume, brokerVars, Shape
<1>4. ASSUME NEW p \in sent[c], NEW a \in {"ok", "refused"}, BrokerAck(c, p, a)
      PROVE  Appends(c) /\ connAnswer' = connAnswer
  <2>1. p.req \in Requests /\ p.id \in PacketIds
    BY <1>4 DEF BrokerAck, RequestPackets
  <2>2. [type |-> AckType(p.req), id |-> p.id, req |-> p.req] \in BrokerPackets
    BY <2>1, PacketTypes
  <2>3. AckType(p.req) \in {"PUBACK", "SUBACK"}
    BY DEF AckType
  <2> QED
    BY <1>t, <1>4, <2>2, <2>3 DEF BrokerAck, BrokerAnswers, Appends
<1>5. ASSUME NEW ok \in BOOLEAN, BrokerConnack(c, ok) PROVE Appends(c) /\ connAnswer'[c] # "none"
  <2>1. connAnswer[c] = "none"
    BY <1>5 DEF BrokerConnack, BrokerAnswers, OneConnack
  <2> DEFINE q == [type |-> "CONNACK", ok |-> ok]
  <2>2. q \in BrokerPackets /\ q.type = "CONNACK"
    BY DEF BrokerPackets, Connacks
  <2>3. fromBroker'[c] = Append(fromBroker[c], q) /\ connAnswer'[c] # "none"
    BY <1>t, <1>5 DEF BrokerConnack, BrokerAnswers
  <2> HIDE DEF q
  <2> QED
    BY <2>1, <2>2, <2>3 DEF Appends
<1>6. ASSUME BrokerPublish(c) PROVE Appends(c) /\ connAnswer' = connAnswer
  <2>1. [type |-> "PUBLISH", seq |-> published[c] + 1] \in BrokerPackets
    <3>1. published[c] + 1 \in 1..MaxMessages
      BY <1>t, <1>6, ClientAssumption DEF BrokerPublish, ClientAssumption
    <3> QED
      BY <3>1 DEF BrokerPackets, Messages
  <2> QED
    BY <1>t, <1>6, <2>1 DEF BrokerPublish, Appends
<1>7. ASSUME BrokerDisconnect(c) PROVE Appends(c) /\ connAnswer' = connAnswer
  <2>1. [type |-> "DISCONNECT"] \in BrokerPackets
    BY DEF BrokerPackets, Disconnects
  <2> QED
    BY <1>t, <1>7, <2>1 DEF BrokerDisconnect, Appends
<1>8. BrokerAcks(c) \/ BrokerPublish(c) \/ (\E ok \in BOOLEAN : BrokerConnack(c, ok))
        => Appends(c)
  <2>1. CASE BrokerAcks(c)
    BY <1>4, <2>1 DEF BrokerAcks
  <2>2. CASE BrokerPublish(c) \/ \E ok \in BOOLEAN : BrokerConnack(c, ok)
    BY <1>5, <1>6, <2>2
  <2> QED
    BY <2>1, <2>2
<1>9. Appends(c) => Shape(c)
  BY DEF Shape
<1>10. \/ HandshakeCompletes(c) \/ HandleRequest(c) \/ EndTask(c) \/ PeerCloses(c)
       \/ HandleIncoming(c) \/ BrokerPublish(c) \/ BrokerDisconnect(c)
       \/ (\E p \in sent[c], a \in {"ok", "refused"} : BrokerAck(c, p, a))
       \/ (\E ok \in BOOLEAN : BrokerConnack(c, ok))
  BY DEF ConnectionStep, PeerStep, NoPacketId, ConnectionClosed, ConnectionLost, BrokerAcks
<1> QED
  BY <1>1, <1>2, <1>3, <1>4, <1>5, <1>6, <1>7, <1>8, <1>9, <1>10

\* A packet stays on a stream that does not lose its first one.
Holds(s, t, q) == \E k \in Places(s, t) : s[k] = q

LEMMA StaysOnStream ==
    ASSUME NEW s \in Seq(BrokerPackets), NEW u, NEW t, NEW k \in Places(s, t),
           \/ u = s
           \/ s # <<>> /\ u = Tail(s) /\ k # 1
           \/ \E q \in BrokerPackets : u = Append(s, q)
    PROVE  Holds(u, t, s[k])
<1> USE DEF Holds
<1>1. CASE u = s
  BY <1>1
<1>2. CASE s # <<>> /\ u = Tail(s) /\ k # 1
  <2>1. \A j \in Places(s, t) : j # 1 => j - 1 \in Places(Tail(s), t) /\ Tail(s)[j - 1] = s[j]
    BY <1>2, PlacesTail
  <2>2. k - 1 \in Places(Tail(s), t) /\ Tail(s)[k - 1] = s[k]
    BY <1>2, <2>1
  <2> QED
    BY <1>2, <2>2, Zenon
<1>3. CASE \E q \in BrokerPackets : u = Append(s, q)
  <2>1. PICK q \in BrokerPackets : u = Append(s, q)
    BY <1>3
  <2>2. \/ Places(Append(s, q), t) = Places(s, t)
        \/ Places(Append(s, q), t) = Places(s, t) \cup {Len(s) + 1}
    BY PlacesAppend
  <2>3. \A j \in Places(s, t) : Append(s, q)[j] = s[j] /\ j < Len(s) + 1
    BY PlacesAppend
  <2>4. k \in Places(u, t) /\ u[k] = s[k]
    BY <2>1, <2>2, <2>3
  <2> QED
    BY <2>4, Zenon
<1> QED
  BY <1>1, <1>2, <1>3

\* A packet that is put on a stream is there.
LEMMA HoldsAppended ==
    ASSUME NEW s \in Seq(BrokerPackets), NEW q \in BrokerPackets
    PROVE  Holds(Append(s, q), q.type, q)
<1> DEFINE t == q.type
<1>1. q.type = t
  OBVIOUS
<1> HIDE DEF t
<1>2. Places(Append(s, q), t) = Places(s, t) \cup {Len(s) + 1}
  BY <1>1, PlacesAppend
<1>3. Append(s, q)[Len(s) + 1] = q
  BY PlacesAppend
<1> QED
  BY <1>2, <1>3 DEF Holds, t

LEMMA TypedStream ==
    ASSUME TypeOK, NEW c \in Conns, Shape(c), AcksTypedOn(c) PROVE AcksTypedOn(c)'
<1> DEFINE s == fromBroker[c]
           u == fromBroker'[c]
<1>t. s \in Seq(BrokerPackets)
  BY DEF TypeOK, PeerType
<1> SUFFICES ASSUME NEW t \in {"PUBACK", "SUBACK"}, NEW k \in Places(u, t)
             PROVE  AckType(u[k].req) = t
  BY DEF AcksTypedOn, AckType
<1>1. \A j \in Places(s, t) : AckType(s[j].req) = t
  BY DEF AcksTypedOn
<1>2. \/ u = s
      \/ u = <<>>
      \/ s # <<>> /\ u = Tail(s)
      \/ \E q \in BrokerPackets :
            u = Append(s, q) /\ (q.type \in {"PUBACK", "SUBACK"} => q.type = AckType(q.req))
  BY DEF Shape, Appends
<1> HIDE DEF s, u
<1>3. CASE u = s
  BY <1>1, <1>3
<1>4. CASE u = <<>>
  BY <1>4, NoPlaces
<1>5. CASE s # <<>> /\ u = Tail(s)
  <2>1. \A j \in Places(Tail(s), t) :
            /\ j + 1 \in Places(s, t) /\ Tail(s)[j] = s[j + 1]
            /\ j \in Int /\ j >= 1
    BY <1>t, <1>5, PlacesTail
  <2> QED
    BY <1>1, <1>5, <2>1
<1>6. ASSUME NEW q \in BrokerPackets, u = Append(s, q),
             q.type \in {"PUBACK", "SUBACK"} => q.type = AckType(q.req)
      PROVE  AckType(u[k].req) = t
  <2>1. CASE k \in Places(s, t)
    <3>1. \A j \in Places(s, t) : Append(s, q)[j] = s[j] /\ j < Len(s) + 1
      BY <1>t, <1>6, PlacesAppend
    <3> QED
      BY <1>1, <1>6, <2>1, <3>1
  <2>2. CASE k \notin Places(s, t)
    <3>1. q.type = t /\ k = Len(s) + 1 /\ u[Len(s) + 1] = q
      BY <1>t, <1>6, <2>2, PlacesAppend
    <3> QED
      BY <1>6, <3>1
  <2> QED
    BY <2>1, <2>2
<1> QED
  BY <1>2, <1>3, <1>4, <1>5, <1>6

LEMMA ConnackFirstStream ==
    ASSUME TypeOK, NEW c \in Conns, Shape(c), ConnackFirstOn(c),
           connAnswer[c] # "none" => connAnswer'[c] # "none"
    PROVE  ConnackFirstOn(c)'
<1> DEFINE s == fromBroker[c]
           u == fromBroker'[c]
           C == "CONNACK"
           D == "DISCONNECT"
           Goal == /\ Places(u, D) # {} => connAnswer[c] # "none"
                   /\ \A j \in Places(u, C), k \in Places(u, D) : j < k
<1>t. s \in Seq(BrokerPackets)
  BY DEF TypeOK, PeerType
<1>1. /\ Places(s, D) # {} => connAnswer[c] # "none"
      /\ \A j \in Places(s, C), k \in Places(s, D) : j < k
  BY DEF ConnackFirstOn, ConnacksOf, DisconnectsOf
<1>2. \/ u = s
      \/ u = <<>>
      \/ s # <<>> /\ u = Tail(s)
      \/ \E q \in BrokerPackets :
            /\ u = Append(s, q)
            /\ q.type = C => connAnswer[c] = "none"
            /\ q.type = D => connAnswer[c] # "none"
  BY DEF Shape, Appends
<1> SUFFICES Goal
  BY DEF ConnackFirstOn, ConnacksOf, DisconnectsOf
<1> HIDE DEF s, u, C, D
<1>3. CASE u = s
  BY <1>1, <1>3
<1>4. CASE u = <<>>
  BY <1>4, NoPlaces
<1>5. CASE s # <<>> /\ u = Tail(s)
  <2>1. /\ \A k \in Places(u, D) : k + 1 \in Places(s, D) /\ k \in Int
        /\ \A k \in Places(u, C) : k + 1 \in Places(s, C) /\ k \in Int
    BY <1>t, <1>5, PlacesTail
  <2>2. \A j \in Places(u, C), k \in Places(u, D) : j + 1 < k + 1 /\ j \in Int /\ k \in Int
    BY <1>1, <2>1
  <2> QED
    BY <1>1, <2>1, <2>2
<1>6. ASSUME NEW q \in BrokerPackets, u = Append(s, q),
             q.type = C => connAnswer[c] = "none", q.type = D => connAnswer[c] # "none"
      PROVE  Goal
  <2>1. CASE q.type # D
    <3>1. Places(u, D) = Places(s, D)
      BY <1>t, <1>6, <2>1, PlacesAppend
    <3>2. CASE q.type # C
      <4>1. Places(u, C) = Places(s, C)
        BY <1>t, <1>6, <3>2, PlacesAppend
      <4> QED
        BY <1>1, <3>1, <4>1
    <3>3. CASE q.type = C
      BY <1>1, <1>6, <3>1, <3>3
    <3> QED
      BY <3>2, <3>3
  <2>2. CASE q.type = D
    <3>1. C # D
      BY DEF C, D
    <3>2. Places(u, D) = Places(s, D) \cup {Len(s) + 1}
      BY <1>t, <1>6, <2>2, PlacesAppend
    <3>4. Places(u, C) = Places(s, C)
      BY <1>t, <1>6, <2>2, <3>1, PlacesAppend
    <3>3. \A j \in Places(s, C) : j < Len(s) + 1
      BY <1>t, <1>6, PlacesAppend
    <3> QED
      BY <1>1, <1>6, <2>2, <3>2, <3>3, <3>4
  <2> QED
    BY <2>1, <2>2
<1> QED
  BY <1>2, <1>3, <1>4, <1>5, <1>6

\* What a step of a task or of its peer leaves alone.
LEMMA OtherTasksStay ==
    ASSUME TypeOK, NEW c \in Conns, ConnectionStep(c) \/ PeerStep(c)
    PROVE  /\ \A d \in Conns \ {c} :
                /\ mqtt'[d] = mqtt[d] /\ currentRequest'[d] = currentRequest[d]
                /\ owner'[d] = owner[d] /\ reqChan'[d] = reqChan[d]
           /\ UNCHANGED <<call, latest, connOutcome>>
           /\ notified \subseteq notified' /\ (connackPermit => connackPermit')
<1> USE DEF TypeOK, TaskType, ChannelType
<1>1. CASE HandshakeCompletes(c)
  BY <1>1 DEF HandshakeCompletes, apiVars
<1>6. CASE HandleRequest(c)
  <2>1. PICK i \in FreeIds(c) :
          /\ currentRequest' = [currentRequest EXCEPT ![c] = [req |-> Head(reqChan[c]), id |-> i]]
          /\ \/ owner' = [owner EXCEPT ![c][i] = Head(reqChan[c])]
             \/ owner' = owner
    BY <1>6 DEF HandleRequest
  <2> QED
    BY <1>6, <2>1 DEF HandleRequest, apiVars
<1>2. CASE EndTask(c) \/ PeerCloses(c) \/ BrokerPublish(c) \/ BrokerDisconnect(c)
  BY <1>2 DEF EndTask, PeerCloses, BrokerPublish, BrokerDisconnect, apiVars, sessionVars
<1>3. CASE ConnackReceived(c) \/ MessageReceived(c) \/ DisconnectReceived(c)
  BY <1>3 DEF ConnackReceived, MessageReceived, DisconnectReceived, apiVars
<1>4. CASE AckReceived(c)
  <2>1. /\ owner' = [owner EXCEPT ![c][Head(fromBroker[c]).id] = NoReq]
        /\ \/ currentRequest' = currentRequest /\ notified' = notified
           \/ /\ currentRequest' = [currentRequest EXCEPT ![c] = NoRequest]
              /\ notified' = notified \cup {currentRequest[c].req}
    BY <1>4 DEF AckReceived
  <2> QED
    BY <1>4, <2>1 DEF AckReceived, apiVars
<1>5. CASE BrokerAcks(c) \/ \E ok \in BOOLEAN : BrokerConnack(c, ok)
  <2>1. \E p, q : BrokerAnswers(c, p, q)
    BY <1>5 DEF BrokerAcks, BrokerAck, BrokerConnack
  <2> QED
    BY <2>1 DEF BrokerAnswers, apiVars, sessionVars
<1> QED
  BY <1>1, <1>2, <1>3, <1>4, <1>5, <1>6
     DEF ConnectionStep, PeerStep, NoPacketId, ConnectionClosed, ConnectionLost, HandleIncoming

\* A broker that leaves says so.
LEMMA LeavingIsOnStream ==
    ASSUME TypeOK, NEW c \in Conns, BrokerDisconnect(c) PROVE DisconnectsOf(c)' # {}
<1> DEFINE q == [type |-> "DISCONNECT"]
<1>1. fromBroker[c] \in Seq(BrokerPackets) /\ fromBroker'[c] = Append(fromBroker[c], q)
  BY DEF BrokerDisconnect, TypeOK, PeerType
<1>2. q \in BrokerPackets /\ q.type = "DISCONNECT"
  BY DEF BrokerPackets, Disconnects
<1> HIDE DEF q
<1>3. Holds(Append(fromBroker[c], q), "DISCONNECT", q)
  BY <1>1, <1>2, HoldsAppended
<1> QED
  BY <1>1, <1>3 DEF DisconnectsOf, Holds

\* If packets are written whole, the broker is deaf only when it leaves.
LEMMA DeafLeavesStep ==
    ASSUME BeginInv, OneConnack, NEW c \in Conns, WakesOn(c), ConnectionStep(c) \/ PeerStep(c)
    PROVE  DeafLeavesOn(c)'
<1>t. /\ fromBroker[c] \in Seq(BrokerPackets)
      /\ quic \in [Conns -> {"handshake", "established", "draining", "closed"}]
      /\ mqtt \in [Conns -> {"disconnected", "connecting", "connected"}]
      /\ deaf \in [Conns -> BOOLEAN] /\ fromBroker \in [Conns -> Seq(BrokerPackets)]
      /\ connAnswer \in [Conns -> {"none", "ok", "refused"}]
  BY DEF BeginInv, TypeOK, TaskType, PeerType
<1> SUFFICES ASSUME StreamSends = {"whole"}, deaf'[c], quic'[c] = "established"
             PROVE  DeafLeavesOn(c)'
  BY DEF DeafLeavesOn
<1>a. connAnswer[c] # "none" => connAnswer'[c] # "none"
  BY StreamShape
<1>1. CASE HandshakeCompletes(c)
  BY <1>t, <1>1 DEF HandshakeCompletes, StreamWrite, WakesOn, FreshOn
<1>2. CASE HandleRequest(c)
  <2>1. UNCHANGED <<quic, mqtt, fromBroker, connAnswer>> /\ deaf[c]
    BY <1>t, <1>2 DEF HandleRequest, StreamWrite, brokerVars
  <2> QED
    BY <2>1 DEF WakesOn, DeafLeavesOn, DisconnectsOf, ConnacksOf
<1>3. CASE EndTask(c) \/ PeerCloses(c)
  BY <1>t, <1>3 DEF EndTask, PeerCloses
<1>4. CASE HandleIncoming(c)
  <2>1. /\ UNCHANGED <<quic, connAnswer, deaf>>
        /\ fromBroker[c] # <<>> /\ fromBroker'[c] = Tail(fromBroker[c])
    BY <1>t, <1>4 DEF HandleIncoming, ConnackReceived, AckReceived, MessageReceived,
       DisconnectReceived, Incoming, Consume, brokerVars
  <2>2. connAnswer'[c] # "none"
    BY <2>1 DEF WakesOn, DeafLeavesOn
  <2>3. \A t : \A k \in Places(fromBroker[c], t) :
           k # 1 => Places(fromBroker'[c], t) # {}
    BY <1>t, <2>1, StaysOnStream DEF Holds
  <2>4. \A t : \A k \in Places(fromBroker'[c], t) : k + 1 \in Places(fromBroker[c], t)
    BY <1>t, <2>1, PlacesTail
  <2>5. CASE Head(fromBroker[c]).type = "DISCONNECT"
    <3>1. 1 \in DisconnectsOf(c)
      BY <1>t, <2>1, <2>5, PlacesTail DEF DisconnectsOf
    <3>2. \A j \in ConnacksOf(c) : j < 1 /\ j \in Int /\ j >= 1
      BY <1>t, <3>1, PlacesType DEF WakesOn, ConnackFirstOn, ConnacksOf
    <3>3. ConnacksOf(c) = {}
      BY <3>2
    <3>4. ConnacksOf(c)' = {}
      BY <2>4, <3>3 DEF ConnacksOf
    <3>5. mqtt'[c] # "connected"
      BY <1>t, <1>4, <2>5 DEF HandleIncoming, ConnackReceived, AckReceived, MessageReceived,
         DisconnectReceived, Incoming
    <3> QED
      BY <2>2, <3>4, <3>5 DEF DeafLeavesOn
  <2>6. CASE Head(fromBroker[c]).type # "DISCONNECT"
    <3>1. 1 \notin DisconnectsOf(c)
      BY <1>t, <2>1, <2>6, PlacesTail DEF DisconnectsOf
    <3>2. CASE DisconnectsOf(c) # {}
      <4>1. DisconnectsOf(c)' # {}
        BY <2>3, <3>1, <3>2 DEF DisconnectsOf
      <4> QED
        BY <2>2, <4>1 DEF DeafLeavesOn
    <3>3. CASE mqtt[c] # "connected" /\ ConnacksOf(c) = {}
      <4>1. Head(fromBroker[c]).type # "CONNACK"
        BY <1>t, <2>1, <3>3, PlacesTail DEF ConnacksOf
      <4>2. mqtt' = mqtt
        BY <1>4, <2>6, <4>1 DEF HandleIncoming, ConnackReceived, AckReceived, MessageReceived,
           DisconnectReceived, Incoming
      <4>3. ConnacksOf(c)' = {}
        BY <2>4, <3>3 DEF ConnacksOf
      <4> QED
        BY <2>2, <3>3, <4>2, <4>3 DEF DeafLeavesOn
    <3> QED
      BY <2>1, <3>2, <3>3 DEF WakesOn, DeafLeavesOn
  <2> QED
    BY <2>5, <2>6
<1>5. CASE BrokerDisconnect(c)
  <2>1. connAnswer'[c] # "none"
    BY <1>t, <1>5 DEF BrokerDisconnect
  <2>2. DisconnectsOf(c)' # {}
    BY <1>5, LeavingIsOnStream DEF BeginInv
  <2> QED
    BY <2>1, <2>2 DEF DeafLeavesOn
<1>6. CASE BrokerAcks(c) \/ BrokerPublish(c) \/ \E ok \in BOOLEAN : BrokerConnack(c, ok)
  <2>1. UNCHANGED <<quic, mqtt, deaf>>
    BY <1>6 DEF BrokerAcks, BrokerAck, BrokerPublish, BrokerConnack, BrokerAnswers, sessionVars
  <2>2. connAnswer[c] # "none" /\ connAnswer'[c] # "none"
    BY <1>a, <2>1 DEF WakesOn, DeafLeavesOn
  <2>3. PICK q \in BrokerPackets : fromBroker'[c] = Append(fromBroker[c], q) /\ q.type # "CONNACK"
    BY <1>6, <2>2, StreamShape DEF Appends
  <2>4. ConnacksOf(c)' = ConnacksOf(c)
    BY <1>t, <2>3, PlacesAppend DEF ConnacksOf
  <2>5. DisconnectsOf(c) # {} => DisconnectsOf(c)' # {}
    BY <1>t, <2>3, StaysOnStream DEF DisconnectsOf, Holds
  <2> QED
    BY <2>1, <2>2, <2>4, <2>5 DEF WakesOn, DeafLeavesOn
<1> QED
  BY <1>1, <1>2, <1>3, <1>4, <1>5, <1>6
     DEF ConnectionStep, PeerStep, NoPacketId, ConnectionClosed, ConnectionLost

LEMMA ConnectionWakes ==
    ASSUME WakeInv, NEW c \in Conns, ConnectionStep(c) \/ PeerStep(c)
    PROVE  \A d \in Conns : WakesOn(d)'
<1>t. /\ TypeOK /\ BeginInv /\ OneConnack
      /\ quic \in [Conns -> {"handshake", "established", "draining", "closed"}]
      /\ task \in [Conns -> {"unused", "initializing", "running", "ended"}]
      /\ mqtt \in [Conns -> {"disconnected", "connecting", "connected"}]
  BY DEF WakeInv, ConnackInv, BeginInv, TypeOK, TaskType
<1>1. \A d \in Conns : WakesOn(d)
  BY DEF WakeInv
<1>2. ASSUME NEW d \in Conns \ {c} PROVE WakesOn(d)'
  <2>1. /\ quic'[d] = quic[d] /\ deaf'[d] = deaf[d] /\ fromBroker'[d] = fromBroker[d]
        /\ connAnswer'[d] = connAnswer[d] /\ task'[d] = task[d]
    BY <1>t, <1>2, OthersStayAlone DEF OthersStay
  <2>2. mqtt'[d] = mqtt[d]
    BY <1>t, <1>2, OtherTasksStay
  <2> QED
    BY <1>1, <2>1, <2>2 DEF WakesOn, FreshOn, AcksTypedOn, ConnackFirstOn, DeafLeavesOn,
       ConnacksOf, DisconnectsOf, AckType
<1>3. FreshOn(c)'
  <2>1. CASE HandshakeCompletes(c)
    BY <1>t, <2>1 DEF HandshakeCompletes, FreshOn
  <2>2. CASE EndTask(c) \/ PeerCloses(c)
    BY <1>t, <2>2 DEF EndTask, PeerCloses, FreshOn
  <2>3. CASE HandleIncoming(c)
    BY <1>t, <1>1, <2>3 DEF HandleIncoming, ConnackReceived, AckReceived, MessageReceived,
       DisconnectReceived, Incoming, FreshOn, WakesOn
  <2>4. CASE BrokerDisconnect(c)
    <3>1. connAnswer[c] = "ok" /\ quic' = quic /\ task' = task
      BY <2>4 DEF BrokerDisconnect, sessionVars
    <3>2. quic[c] # "handshake"
      BY <1>t, <3>1 DEF BeginInv, SilentAtFirst, Silent
    <3> QED
      BY <1>1, <3>1, <3>2 DEF FreshOn, WakesOn
  <2>5. CASE HandleRequest(c)
    <3>1. UNCHANGED <<quic, mqtt, task>> /\ (mqtt[c] # "connected" => deaf' = deaf)
      BY <2>5 DEF HandleRequest
    <3> QED
      BY <1>1, <3>1 DEF FreshOn, WakesOn
  <2>6. CASE BrokerAcks(c) \/ BrokerPublish(c) \/ \E ok \in BOOLEAN : BrokerConnack(c, ok)
    <3>1. UNCHANGED <<quic, mqtt, task, deaf>>
      BY <2>6 DEF BrokerAcks, BrokerAck, BrokerPublish, BrokerConnack, BrokerAnswers, sessionVars
    <3> QED
      BY <1>1, <3>1 DEF FreshOn, WakesOn
  <2> QED
    BY <2>1, <2>2, <2>3, <2>4, <2>5, <2>6
       DEF ConnectionStep, PeerStep, NoPacketId, ConnectionClosed, ConnectionLost
<1>4. AcksTypedOn(c)' /\ ConnackFirstOn(c)' /\ DeafLeavesOn(c)'
  BY <1>t, <1>1, StreamShape, TypedStream, ConnackFirstStream, DeafLeavesStep DEF WakesOn
<1> QED
  BY <1>2, <1>3, <1>4 DEF WakesOn

\* A broken connection is not repaired once its connect() has returned.
LEMMA StaysBroken ==
    ASSUME WakeInv, NEW c \in Conns, ConnectionStep(c) \/ PeerStep(c), Over(c), Broken(c)
    PROVE  Broken(c)'
<1>t. /\ TypeOK /\ OneConnack /\ fromBroker[c] \in Seq(BrokerPackets)
      /\ quic \in [Conns -> {"handshake", "established", "draining", "closed"}]
      /\ task \in [Conns -> {"unused", "initializing", "running", "ended"}]
      /\ mqtt \in [Conns -> {"disconnected", "connecting", "connected"}]
  BY DEF WakeInv, ConnackInv, BeginInv, TypeOK, TaskType, PeerType
<1>1. CASE EndTask(c) \/ PeerCloses(c)
  BY <1>t, <1>1 DEF EndTask, PeerCloses, Broken
<1>2. CASE HandshakeCompletes(c)
  BY <1>t, <1>2 DEF HandshakeCompletes, Broken
<1>3. CASE ConnackReceived(c)
  <2>1. task[c] = "running" /\ fromBroker[c] # <<>> /\ Head(fromBroker[c]).type = "CONNACK"
    BY <1>3 DEF ConnackReceived, Incoming
  <2>2. 1 \in ConnacksOf(c)
    BY <1>t, <2>1, PlacesTail DEF ConnacksOf
  <2> QED
    BY <2>1, <2>2 DEF Over, Settled
<1>4. CASE AckReceived(c) \/ MessageReceived(c) \/ DisconnectReceived(c)
  BY <1>t, <1>4 DEF AckReceived, MessageReceived, DisconnectReceived, Broken
<1>5. CASE \/ HandleRequest(c) \/ BrokerAcks(c) \/ BrokerPublish(c) \/ BrokerDisconnect(c)
           \/ \E ok \in BOOLEAN : BrokerConnack(c, ok)
  <2>1. UNCHANGED <<quic, mqtt, task>>
    BY <1>5 DEF HandleRequest, BrokerAcks, BrokerAck, BrokerPublish, BrokerDisconnect,
       BrokerConnack, BrokerAnswers, sessionVars
  <2> QED
    BY <2>1 DEF Broken
<1> QED
  BY <1>1, <1>2, <1>3, <1>4, <1>5
     DEF ConnectionStep, PeerStep, NoPacketId, ConnectionClosed, ConnectionLost, HandleIncoming

\* The task takes the request off its channel and remembers it.
LEMMA TakenIsRemembered ==
    ASSUME WakeInv, NEW c \in Conns, NEW r \in Requests, reqChan[c] = <<r>>,
           HandleRequest(c), ~Broken(c)
    PROVE  Remembered(c, r)'
<1>t. /\ reqChan \in [Conns -> Seq(Requests)]
      /\ quic \in [Conns -> {"handshake", "established", "draining", "closed"}]
      /\ owner \in [Conns -> [PacketIds -> Requests \cup {NoReq}]]
      /\ currentRequest \in [Conns -> [req : Requests \cup {NoReq}, id : PacketIds \cup {0}]]
      /\ sent \in [Conns -> SUBSET (RequestPackets \cup {ConnectPacket})]
      /\ deaf \in [Conns -> BOOLEAN]
  BY DEF WakeInv, IInv, TypeOK, ChannelType, TaskType, PeerType
<1>1. mqtt[c] = "connected" /\ quic[c] = "established" /\ FreshOn(c) /\ DeafLeavesOn(c)
  <2>1. FreshOn(c) /\ DeafLeavesOn(c)
    BY DEF WakeInv, WakesOn
  <2> QED
    BY <1>t, <2>1 DEF Broken, FreshOn
<1>2. Head(reqChan[c]) = r /\ Tail(reqChan[c]) = <<>>
  OBVIOUS
<1>3. PICK i \in FreeIds(c) :
        /\ currentRequest' = [currentRequest EXCEPT ![c] = [req |-> r, id |-> i]]
        /\ owner' = [owner EXCEPT ![c][i] = r]
        /\ StreamWrite(c, [type |-> RequestType(r), id |-> i, req |-> r])
  BY <1>1, <1>2 DEF HandleRequest
<1>4. /\ i \in PacketIds /\ reqChan'[c] = <<>> /\ quic' = quic /\ fromBroker' = fromBroker
      /\ currentRequest'[c] = [req |-> r, id |-> i] /\ owner'[c][i] = r
  BY <1>t, <1>2, <1>3 DEF HandleRequest, FreeIds
<1> DEFINE p == [type |-> RequestType(r), id |-> i, req |-> r]
<1>5. p \in RequestPackets /\ p.req = r /\ p.id = i
  BY <1>4, PacketTypes
<1>6. StreamWrite(c, p)
  BY <1>3
<1> HIDE DEF p
<1>7. ASSUME StreamSends = {"whole"} PROVE UnderWay(c, r, i)'
  <2>1. CASE deaf[c]
    <3>1. DisconnectsOf(c) # {}
      BY <1>1, <1>7, <2>1 DEF DeafLeavesOn
    <3> QED
      BY <1>4, <3>1 DEF UnderWay, DisconnectsOf
  <2>2. CASE ~deaf[c]
    <3>1. p \in sent'[c]
      BY <1>t, <1>1, <1>4, <1>6, <1>7, <2>2 DEF StreamWrite
    <3> QED
      BY <1>5, <3>1 DEF UnderWay, InSent
  <2> QED
    BY <2>1, <2>2
<1> QED
  BY <1>4, <1>7 DEF Remembered

\* The task reads a packet that is neither the acknowledgement of r nor a
\* DISCONNECT.
LEMMA ReadOnStream ==
    ASSUME TypeOK, NEW c \in Conns, NEW r \in Requests, NEW i, UnderWay(c, r, i),
           fromBroker[c] # <<>>, fromBroker'[c] = Tail(fromBroker[c]), sent' = sent,
           Head(fromBroker[c]).type # "DISCONNECT",
           Head(fromBroker[c]).type = AckType(r) => Head(fromBroker[c]).id # i
    PROVE  UnderWay(c, r, i)'
<1> DEFINE s == fromBroker[c]
<1>1. s \in Seq(BrokerPackets)
  BY DEF TypeOK, PeerType
<1>2. s[1] = Head(s)
  BY <1>1, PlacesTail
<1>3. ASSUME NEW t, NEW k \in Places(s, t), k # 1 PROVE Holds(Tail(s), t, s[k])
  BY <1>1, <1>3, StaysOnStream
<1>4. CASE InSent(c, r, i)
  BY <1>4 DEF UnderWay, InSent
<1>5. CASE InAnswers(c, r, i)
  <2>1. PICK k \in Places(s, AckType(r)) : s[k].req = r /\ s[k].id = i
    BY <1>5 DEF InAnswers
  <2>2. k # 1
    BY <1>2, <2>1 DEF Places
  <2>3. \E j \in Places(Tail(s), AckType(r)) : Tail(s)[j] = s[k]
    BY <1>3, <2>1, <2>2, Zenon DEF Holds
  <2>4. InAnswers(c, r, i)'
    BY <2>1, <2>3 DEF InAnswers, AckType
  <2> QED
    BY <2>4 DEF UnderWay
<1>6. CASE DisconnectsOf(c) # {}
  <2>1. PICK k \in Places(s, "DISCONNECT") : TRUE
    BY <1>6 DEF DisconnectsOf
  <2>2. k # 1
    BY <1>2, <2>1 DEF Places
  <2>3. \E j \in Places(Tail(s), "DISCONNECT") : Tail(s)[j] = s[k]
    BY <1>3, <2>1, <2>2, Zenon DEF Holds
  <2> QED
    BY <2>3 DEF UnderWay, DisconnectsOf
<1> QED
  BY <1>4, <1>5, <1>6 DEF UnderWay

\* The task reads an acknowledgement: the one of the request it remembers
\* leaves the permit, any other leaves the request where it is.
LEMMA AckWakes ==
    ASSUME WakeInv, NEW c \in Conns, NEW r \in Requests, Remembered(c, r), AckReceived(c)
    PROVE  r \in notified' \/ Remembered(c, r)'
<1> DEFINE s == fromBroker[c]
           p == Head(s)
           i == currentRequest[c].id
<1>t. /\ TypeOK /\ fromBroker \in [Conns -> Seq(BrokerPackets)] /\ s \in Seq(BrokerPackets)
      /\ owner \in [Conns -> [PacketIds -> Requests \cup {NoReq}]]
  BY DEF WakeInv, IInv, TypeOK, TaskType, PeerType
<1>1. /\ s # <<>> /\ p.type \in {"PUBACK", "SUBACK"} /\ fromBroker'[c] = Tail(s)
      /\ UNCHANGED <<reqChan, sent>>
  BY <1>t DEF AckReceived, Incoming, Consume
<1>2. /\ reqChan[c] = <<>> /\ currentRequest[c].req = r /\ i \in PacketIds /\ owner[c][i] = r
      /\ r # NoReq
  BY ClientAssumption DEF Remembered
<1>3. p.req = owner[c][p.id] /\ AckType(p.req) = p.type /\ p.id \in PacketIds
  <2>1. s[1] = p /\ 1 \in Places(s, p.type)
    BY <1>t, <1>1, PlacesTail
  <2>2. 1 \in AcksOf(c)
    BY <1>1, <2>1 DEF AcksOf, IsAck, Places
  <2>3. AckType(p.req) = p.type
    BY <1>1, <2>1 DEF WakeInv, WakesOn, AcksTypedOn
  <2> QED
    BY <2>1, <2>2, <2>3, AckFacts DEF WakeInv
<1>4. CASE p.id = i
  <2>1. AckMatches(currentRequest[c], p)
    BY <1>2, <1>3, <1>4 DEF AckMatches
  <2> QED
    BY <1>2, <2>1 DEF AckReceived
<1>5. CASE p.id # i
  <2>1. ~AckMatches(currentRequest[c], p)
    BY <1>5 DEF AckMatches
  <2>2. currentRequest' = currentRequest /\ owner'[c][i] = r
    BY <1>t, <1>2, <1>5, <2>1 DEF AckReceived
  <2>3. ASSUME NEW j, j = i, UnderWay(c, r, j) PROVE UnderWay(c, r, j)'
    BY <1>t, <1>1, <1>5, <2>3, ReadOnStream
  <2>4. StreamSends = {"whole"} => UnderWay(c, r, i)'
    BY <2>2, <2>3 DEF Remembered, UnderWay, InSent, InAnswers
  <2> QED
    BY <1>1, <1>2, <2>2, <2>4 DEF Remembered
<1> QED
  BY <1>4, <1>5

\* The broker takes the packet off one direction of the stream as it puts the
\* acknowledgement on the other.
LEMMA AnswerStays ==
    ASSUME WakeInv, NEW c \in Conns, NEW r \in Requests, NEW i, UnderWay(c, r, i),
           BrokerAcks(c) \/ BrokerPublish(c) \/ \E ok \in BOOLEAN : BrokerConnack(c, ok)
    PROVE  UnderWay(c, r, i)'
<1> DEFINE s == fromBroker[c]
           u == fromBroker'[c]
<1>t. /\ fromBroker \in [Conns -> Seq(BrokerPackets)] /\ s \in Seq(BrokerPackets)
      /\ sent \in [Conns -> SUBSET (RequestPackets \cup {ConnectPacket})]
      /\ BeginInv /\ OneConnack
  BY DEF WakeInv, ConnackInv, IInv, TypeOK, PeerType
<1>c. ConnectPacket \notin RequestPackets
  BY DEF ConnectPacket, RequestPackets
<1>1. PICK q \in BrokerPackets : u = Append(s, q)
  <2>1. ConnectionStep(c) \/ PeerStep(c)
    BY DEF PeerStep
  <2> QED
    BY <1>t, <2>1, StreamShape DEF Appends
<1>2. ASSUME NEW t, NEW k \in Places(s, t) PROVE Holds(u, t, s[k])
  <2>1. s \in Seq(BrokerPackets) /\ \E p \in BrokerPackets : u = Append(s, p)
    BY <1>t, <1>1
  <2> HIDE DEF s, u
  <2> QED
    BY <1>2, <2>1, StaysOnStream
<1>3. InAnswers(c, r, i) => InAnswers(c, r, i)'
  <2> SUFFICES ASSUME InAnswers(c, r, i) PROVE InAnswers(c, r, i)'
    OBVIOUS
  <2>1. PICK k \in Places(s, AckType(r)) : s[k].req = r /\ s[k].id = i
    BY DEF InAnswers
  <2>2. \E j \in Places(u, AckType(r)) : u[j] = s[k]
    BY <1>2, <2>1, Zenon DEF Holds
  <2> QED
    BY <2>1, <2>2 DEF InAnswers, AckType
<1>4. DisconnectsOf(c) # {} => DisconnectsOf(c)' # {}
  <2> SUFFICES ASSUME NEW k \in Places(s, "DISCONNECT") PROVE Places(u, "DISCONNECT") # {}
    BY DEF DisconnectsOf
  <2>1. \E j \in Places(u, "DISCONNECT") : u[j] = s[k]
    BY <1>2, Zenon DEF Holds
  <2> QED
    BY <2>1
<1>5. ASSUME InSent(c, r, i) PROVE InSent(c, r, i)' \/ InAnswers(c, r, i)'
  <2>1. PICK p \in sent[c] : p \in RequestPackets /\ p.req = r /\ p.id = i
    BY <1>5 DEF InSent
  <2>2. CASE p \in sent'[c]
    BY <2>1, <2>2 DEF InSent
  <2>3. CASE p \notin sent'[c]
    <3>1. PICK a \in {"ok", "refused"} : BrokerAck(c, p, a)
      <4>1. CASE BrokerPublish(c)
        BY <2>1, <2>3, <4>1 DEF BrokerPublish
      <4>2. ASSUME NEW ok \in BOOLEAN, BrokerConnack(c, ok) PROVE FALSE
        <5>1. p # ConnectPacket /\ sent' = [sent EXCEPT ![c] = @ \ {ConnectPacket}]
          BY <1>c, <2>1, <4>2 DEF BrokerConnack, BrokerAnswers
        <5> QED
          BY <1>t, <2>1, <2>3, <5>1
      <4>3. ASSUME NEW o \in sent[c], NEW a \in {"ok", "refused"}, BrokerAck(c, o, a)
            PROVE  o = p
        <5>1. sent' = [sent EXCEPT ![c] = @ \ {o}]
          BY <4>3 DEF BrokerAck, BrokerAnswers
        <5> QED
          BY <1>t, <2>1, <2>3, <5>1
      <4> QED
        BY <4>1, <4>2, <4>3 DEF BrokerAcks
    <3> DEFINE b == [type |-> AckType(r), id |-> i, req |-> r]
    <3>2. b \in BrokerPackets /\ b.type = AckType(r) /\ b.req = r /\ b.id = i
      BY <2>1, PacketTypes DEF RequestPackets
    <3>3. u = Append(s, b) /\ s \in Seq(BrokerPackets)
      BY <1>t, <2>1, <3>1 DEF BrokerAck, BrokerAnswers
    <3> HIDE DEF b, s, u
    <3>4. Holds(u, AckType(r), b)
      BY <3>2, <3>3, HoldsAppended
    <3>5. \E k \in Places(u, AckType(r)) : u[k].req = r /\ u[k].id = i
      BY <3>2, <3>4 DEF Holds
    <3> QED
      BY <3>5 DEF InAnswers, u, AckType
  <2> QED
    BY <2>2, <2>3
<1> QED
  BY <1>3, <1>4, <1>5 DEF UnderWay

\* A request that the task remembers stays so until its permit is there.
LEMMA RememberedStays ==
    ASSUME WakeInv, NEW c \in Conns, NEW r \in Requests, Remembered(c, r),
           ConnectionStep(c) \/ PeerStep(c)
    PROVE  Broken(c)' \/ r \in notified' \/ Remembered(c, r)'
<1>t. /\ TypeOK
      /\ fromBroker \in [Conns -> Seq(BrokerPackets)]
      /\ quic \in [Conns -> {"handshake", "established", "draining", "closed"}]
      /\ task \in [Conns -> {"unused", "initializing", "running", "ended"}]
      /\ mqtt \in [Conns -> {"disconnected", "connecting", "connected"}]
  BY DEF WakeInv, IInv, TypeOK, TaskType, PeerType
<1>1. CASE HandshakeCompletes(c) \/ DisconnectReceived(c) \/ EndTask(c) \/ PeerCloses(c)
  BY <1>t, <1>1 DEF HandshakeCompletes, DisconnectReceived, EndTask, PeerCloses, Broken
<1>2. CASE HandleRequest(c)
  BY <1>2 DEF HandleRequest, Remembered
<1>3. CASE AckReceived(c)
  BY <1>3, AckWakes
<1>4. ASSUME UNCHANGED <<reqChan, currentRequest, owner>>,
             \A i : UnderWay(c, r, i) => UnderWay(c, r, i)'
      PROVE  Remembered(c, r)'
  <2> DEFINE i == currentRequest[c].id
  <2>1. ASSUME NEW j, j = i, UnderWay(c, r, j) PROVE UnderWay(c, r, j)'
    BY <1>4, <2>1
  <2>2. StreamSends = {"whole"} => UnderWay(c, r, i)'
    BY <1>4, <2>1 DEF Remembered, UnderWay, InSent, InAnswers
  <2> QED
    BY <1>4, <2>2 DEF Remembered
<1>5. CASE ConnackReceived(c) \/ MessageReceived(c)
  <2>1. /\ UNCHANGED <<reqChan, currentRequest, owner, sent>>
        /\ fromBroker[c] # <<>> /\ fromBroker'[c] = Tail(fromBroker[c])
        /\ Head(fromBroker[c]).type \in {"CONNACK", "PUBLISH"}
    BY <1>t, <1>5 DEF ConnackReceived, MessageReceived, Incoming, Consume
  <2>2. ASSUME NEW i, UnderWay(c, r, i) PROVE UnderWay(c, r, i)'
    <3>1. /\ Head(fromBroker[c]).type # "DISCONNECT"
          /\ Head(fromBroker[c]).type # AckType(r)
      BY <2>1 DEF AckType
    <3> QED
      BY <1>t, <2>1, <2>2, <3>1, ReadOnStream
  <2> QED
    BY <1>4, <2>1, <2>2
<1>6. CASE BrokerDisconnect(c)
  <2>1. UNCHANGED <<reqChan, currentRequest, owner>>
    BY <1>6 DEF BrokerDisconnect, sessionVars
  <2>2. ASSUME NEW i PROVE UnderWay(c, r, i)'
    BY <1>t, <1>6, LeavingIsOnStream DEF UnderWay
  <2> QED
    BY <1>4, <2>1, <2>2
<1>7. CASE BrokerAcks(c) \/ BrokerPublish(c) \/ \E ok \in BOOLEAN : BrokerConnack(c, ok)
  <2>1. UNCHANGED <<reqChan, currentRequest, owner>>
    BY <1>7 DEF BrokerAcks, BrokerAck, BrokerPublish, BrokerConnack, BrokerAnswers, sessionVars
  <2>2. ASSUME NEW i, UnderWay(c, r, i) PROVE UnderWay(c, r, i)'
    BY <1>7, <2>2, AnswerStays
  <2> QED
    BY <1>4, <2>1, <2>2
<1> QED
  BY <1>1, <1>2, <1>3, <1>5, <1>6, <1>7
     DEF ConnectionStep, PeerStep, NoPacketId, ConnectionClosed, ConnectionLost, HandleIncoming

LEMMA ConnectionServes ==
    ASSUME WakeInv, NEW c \in Conns, ConnectionStep(c) \/ PeerStep(c) PROVE NoWakeUpLost'
<1>t. /\ TypeOK /\ mqtt \in [Conns -> {"disconnected", "connecting", "connected"}]
      /\ call.op \notin {"idle", "receiving"} => latest \in Conns
      /\ call.op = "awaitAck" => call.req \in Requests
  BY ClientAssumption DEF WakeInv, IInv, TypeOK, TaskType, ApiType, Conns
<1>u. /\ \A d \in Conns \ {c} :
            /\ mqtt'[d] = mqtt[d] /\ currentRequest'[d] = currentRequest[d]
            /\ owner'[d] = owner[d] /\ reqChan'[d] = reqChan[d]
      /\ UNCHANGED <<call, latest, connOutcome>>
      /\ notified \subseteq notified' /\ (connackPermit => connackPermit')
  BY <1>t, OtherTasksStay
<1>v. \A d \in Conns \ {c} :
        /\ quic'[d] = quic[d] /\ sent'[d] = sent[d] /\ fromBroker'[d] = fromBroker[d]
        /\ task'[d] = task[d]
  BY <1>t, OthersStayAlone DEF OthersStay
<1>1. ConnackIsHeard'
  <2> SUFFICES ASSUME call.op = "awaitConnack", mqtt'[latest] = "connected"
               PROVE  connackPermit'
    BY <1>u DEF ConnackIsHeard
  <2>1. CASE mqtt[latest] = "connected"
    BY <1>u, <2>1 DEF WakeInv, NoWakeUpLost, ConnackIsHeard
  <2>2. CASE mqtt[latest] # "connected"
    <3>1. latest = c
      BY <1>t, <1>u, <2>2
    <3>2. CASE ConnackReceived(c)
      BY <3>2 DEF ConnackReceived
    <3>3. CASE ~ConnackReceived(c)
      <4>1. mqtt' = mqtt \/ mqtt'[c] # "connected"
        BY <1>t, <3>3 DEF ConnectionStep, PeerStep, HandshakeCompletes, HandleRequest,
           NoPacketId, ConnectionClosed, ConnectionLost, EndTask, HandleIncoming, AckReceived,
           MessageReceived, DisconnectReceived, PeerCloses, BrokerAcks, BrokerAck,
           BrokerConnack, BrokerAnswers, BrokerPublish, BrokerDisconnect, sessionVars
      <4> QED
        BY <2>2, <3>1, <4>1
    <3> QED
      BY <3>2, <3>3
  <2> QED
    BY <2>1, <2>2
<1>2. RequestIsServed'
  <2> DEFINE r == call.req
  <2> SUFFICES ASSUME call.op = "awaitAck", NoneGivenUp
               PROVE  Broken(latest)' \/ Served(latest, r)'
    BY <1>u DEF RequestIsServed, NoneGivenUp
  <2>1. latest \in Conns /\ latest # 0 /\ r \in Requests
    BY <1>t, ClientAssumption DEF Conns
  <2>2. Broken(latest) \/ Served(latest, r)
    BY DEF WakeInv, NoWakeUpLost, RequestIsServed
  <2>3. CASE latest # c
    <3>1. Broken(latest) => Broken(latest)'
      BY <1>u, <1>v, <2>1, <2>3 DEF Broken
    <3>2. Served(latest, r) => Served(latest, r)'
      BY <1>u, <1>v, <2>1, <2>3 DEF Served, Remembered, UnderWay, InSent, InAnswers,
         DisconnectsOf, AckType
    <3> QED
      BY <2>2, <3>1, <3>2
  <2>4. CASE latest = c
    <3>1. Over(c)
      <4>1. connOutcome[latest] \in {"ok", "err"}
        <5>1. connOutcome[latest] # "none"
          BY <2>1 DEF WakeInv, ConnackInv, OutcomeKnown
        <5> QED
          BY <2>1, <5>1 DEF NoneGivenUp, WakeInv, IInv, TypeOK, ApiType
      <4> QED
        BY <2>1, <2>4, <4>1 DEF NoneGivenUp, WakeInv, ConnackInv, EndedAreOver, NoneGivenUpBefore
    <3>2. ASSUME NEW q \in Requests, Served(c, q), ~Broken(c)
          PROVE  Broken(c)' \/ Served(c, q)'
      <4>1. CASE q \in notified
        BY <1>u, <4>1 DEF Served
      <4>2. CASE reqChan[c] = <<q>>
        <5>1. CASE HandleRequest(c)
          BY <3>2, <4>2, <5>1, TakenIsRemembered DEF Served
        <5>2. CASE EndTask(c)
          <6>1. task'[c] = "ended"
            BY <1>t, <5>2 DEF EndTask, TypeOK, TaskType
          <6> QED
            BY <6>1 DEF Broken
        <5>3. CASE ~HandleRequest(c) /\ ~EndTask(c)
          <6>1. reqChan' = reqChan
            BY <5>3 DEF ConnectionStep, PeerStep, HandshakeCompletes, NoPacketId,
               ConnectionClosed, ConnectionLost, HandleIncoming, ConnackReceived, AckReceived,
               MessageReceived, DisconnectReceived, PeerCloses, BrokerAcks, BrokerAck,
               BrokerConnack, BrokerAnswers, BrokerPublish, BrokerDisconnect
          <6> QED
            BY <4>2, <6>1 DEF Served
        <5> QED
          BY <5>1, <5>2, <5>3
      <4>3. CASE Remembered(c, q)
        BY <3>2, <4>3, RememberedStays DEF Served
      <4> QED
        BY <3>2, <4>1, <4>2, <4>3 DEF Served
    <3>3. ASSUME NEW q \in Requests, q = r, Broken(c)' \/ Served(c, q)'
          PROVE  Broken(latest)' \/ Served(latest, r)'
      BY <1>u, <2>4, <3>3
    <3>4. Broken(c) => Broken(c)'
      BY <3>1, StaysBroken
    <3> QED
      BY <2>1, <2>2, <2>4, <3>2, <3>3, <3>4
  <2> QED
    BY <2>3, <2>4
<1> QED
  BY <1>1, <1>2 DEF NoWakeUpLost

\* The methods of the Client: only subscribe() and publish() begin to wait for
\* the broker, with the channel to themselves.
LEMMA ClientWakes ==
    ASSUME WakeInv, ClientStep PROVE (\A c \in Conns : WakesOn(c)') /\ NoWakeUpLost'
<1>b. TypeOK /\ BeginInv
  BY DEF WakeInv, ConnackInv, BeginInv
<1>t. /\ task \in [Conns -> {"unused", "initializing", "running", "ended"}]
      /\ reqChan \in [Conns -> Seq(Requests)]
      /\ call.op \notin {"idle", "receiving"} => latest \in Conns
      /\ call.op = "sending" => call.req \in Requests
      /\ latest \in 0..MaxConns
  BY <1>b, ClientAssumption DEF TypeOK, TaskType, ApiType, ChannelType, Conns
<1>1. UNCHANGED <<quic, deaf, mqtt, fromBroker, connAnswer>>
  BY DEF ClientStep, CallConnect, ConnectInitFails, ConnectSpawns, ConnectReturns,
     CallRequest, RequestEnqueue, RequestReturns, RequestSendFails, CallRcv, ReceiveReturns,
     ReceiveFails, CancelCall, sessionVars, streamVars, brokerVars
<1>2. \A c \in Conns : quic[c] = "closed" => task'[c] = task[c]
  <2>1. \/ task' = task
        \/ call.op = "initializing" /\ \E v : task' = [task EXCEPT ![latest] = v]
        \/ /\ latest' = latest + 1 /\ latest' \in Conns
           /\ task' = [task EXCEPT ![latest'] = "initializing"]
    <3>1. CASE CallConnect
      BY <1>t, <3>1, ClientAssumption DEF CallConnect, Conns
    <3>2. CASE ~CallConnect
      BY <3>2 DEF ClientStep, ConnectInitFails, ConnectSpawns, ConnectReturns,
         CallRequest, RequestEnqueue, RequestReturns, RequestSendFails, CallRcv,
         ReceiveReturns, ReceiveFails, CancelCall, sessionVars
    <3> QED
      BY <3>1, <3>2
  <2>2. call.op = "initializing" => quic[latest] = "handshake"
    BY <1>b, <1>t DEF BeginInv, Begun, SilentAtFirst
  <2>3. latest + 1 \in Conns => quic[latest + 1] = "handshake"
    BY <1>b, <1>t DEF BeginInv, Begun, SilentAtFirst, Conns
  <2> QED
    BY <1>t, <2>1, <2>2, <2>3
<1>3. \A c \in Conns : WakesOn(c)'
  BY <1>1, <1>2 DEF WakeInv, WakesOn, FreshOn, AcksTypedOn, ConnackFirstOn, DeafLeavesOn,
     ConnacksOf, DisconnectsOf, AckType
<1>4. ConnackIsHeard'
  <2> SUFFICES ASSUME call'.op = "awaitConnack" PROVE mqtt'[latest'] # "connected"
    BY DEF ConnackIsHeard
  <2>1. ConnectSpawns
    BY DEF ClientStep, CallConnect, ConnectInitFails, ConnectSpawns, ConnectReturns,
       CallRequest, RequestEnqueue, RequestReturns, RequestSendFails, CallRcv, ReceiveReturns,
       ReceiveFails, CancelCall, Idle
  <2>2. latest \in Conns /\ latest' = latest /\ quic[latest] = "handshake"
    BY <1>b, <1>t, <2>1 DEF ConnectSpawns, apiVars, BeginInv, Begun, SilentAtFirst
  <2> QED
    BY <1>1, <2>2 DEF WakeInv, WakesOn, FreshOn
<1>5. RequestIsServed'
  <2> SUFFICES ASSUME call'.op = "awaitAck" PROVE reqChan'[latest'] = <<call'.req>>
    BY DEF RequestIsServed, Served
  <2>1. RequestEnqueue
    BY DEF ClientStep, CallConnect, ConnectInitFails, ConnectSpawns, ConnectReturns,
       CallRequest, RequestEnqueue, RequestReturns, RequestSendFails, CallRcv, ReceiveReturns,
       ReceiveFails, CancelCall, Idle
  <2>2. /\ latest \in Conns /\ latest' = latest /\ call'.req = call.req
        /\ reqChan'[latest] = Append(reqChan[latest], call.req)
        /\ Len(reqChan[latest]) < 1 /\ reqChan[latest] \in Seq(Requests)
    BY <1>t, <2>1 DEF RequestEnqueue, RoomForRequest, RequestCapacity, apiVars
  <2>3. reqChan[latest] = <<>>
    BY <2>2, EmptySeq, LenProperties
  <2> QED
    BY <2>2, <2>3
<1> QED
  BY <1>3, <1>4, <1>5 DEF NoWakeUpLost

LEMMA StepWakeInv == WakeInv /\ [Next]_vars => WakeInv'
<1> SUFFICES ASSUME WakeInv, [Next]_vars PROVE WakeInv'
  OBVIOUS
<1>1. ConnackInv' /\ IInv'
  BY StepConnackInv, StepIInv DEF WakeInv
<1>2. CASE UNCHANGED vars
  <2>1. \A c \in Conns : WakesOn(c)'
    BY <1>2 DEF WakeInv, WakesOn, FreshOn, AcksTypedOn, ConnackFirstOn, DeafLeavesOn,
       ConnacksOf, DisconnectsOf, AckType, vars, sessionVars, streamVars, brokerVars
  <2>2. NoWakeUpLost'
    BY <1>2 DEF WakeInv, NoWakeUpLost, RequestIsServed, ConnackIsHeard, NoneGivenUp, Broken,
       Served, Remembered, UnderWay, InSent, InAnswers, DisconnectsOf, AckType, vars, apiVars,
       sessionVars, streamVars, brokerVars
  <2> QED
    BY <1>1, <2>1, <2>2 DEF WakeInv
<1>3. CASE ClientStep
  BY <1>1, <1>3, ClientWakes DEF WakeInv
<1>4. ASSUME NEW c \in Conns, ConnectionStep(c) \/ PeerStep(c) PROVE WakeInv'
  BY <1>1, <1>4, ConnectionWakes, ConnectionServes DEF WakeInv
<1> QED
  BY <1>2, <1>3, <1>4 DEF Next

\* The call that waits for the broker, in connect(), subscribe() or publish(),
\* is on its way to its permit as long as the connection lasts: the task that
\* acknowledges and the call that waits never miss one another.
THEOREM WakeUpsAreNotLost == Spec => []NoWakeUpLost
<1>1. WakeInv => NoWakeUpLost
  BY DEF WakeInv
<1> QED
  BY InitWakeInv, StepWakeInv, <1>1, PTL DEF Spec

=============================================================================

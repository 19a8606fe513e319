------------------------------ MODULE MqttClient ------------------------------
(***************************************************************************)
(* The client library, src/client/mod.rs: the Client handle the            *)
(* application calls, and the Connection task that connect() spawns.  The   *)
(* two share a request channel, a message channel, one Notify for the      *)
(* CONNACK and one Notify per request.                                     *)
(*                                                                         *)
(* Client methods take &mut self, so the application has at most one call  *)
(* in progress; it may drop the future of a call that has not returned.    *)
(* Every connect() builds a new Connection; tasks of earlier connections   *)
(* go on running.  QUIC (quiche), the MQTT state machine                   *)
(* (mqtt-protocol-core) and the broker behind the proxy are external.      *)
(***************************************************************************)
EXTENDS Integers, Sequences, FiniteSets

CONSTANTS
    Publishes,      \* the publish() calls the application may make
    Subscribes,     \* the subscribe() calls the application may make
    NoReq,          \* stands for "no request"
    PacketIds,      \* MQTT packet identifiers
    MaxConns,       \* bound: number of connect() calls
    MaxMessages,    \* bound: messages the broker delivers on a connection
    MsgCapacity,    \* capacity of the message channel (100 in the code)
    Cancellable,    \* the stages of a call at which its future may be dropped
    StreamSends     \* what stream_send() may do with a packet

Requests == Publishes \cup Subscribes
Conns == 1..MaxConns
RequestCapacity == 1
Stages == {"initializing", "awaitConnack", "sending", "awaitAck", "receiving"}

ASSUME ClientAssumption ==
    /\ Publishes \cap Subscribes = {}
    /\ NoReq \notin Requests
    /\ 0 \notin PacketIds
    /\ MaxConns \in Nat
    /\ MaxMessages \in Nat
    /\ MsgCapacity \in Nat \ {0}
    /\ Cancellable \subseteq Stages
    /\ StreamSends \subseteq {"whole", "part", "none"}

VARIABLES
    \* The Client handle.
    connected,      \* Client::connected
    connackPermit,  \* the permit stored in Client::connect_notification
    latest,         \* the connection whose channels the Client holds, 0 if none
    call,           \* the call in progress, [op, req]
    outcome,        \* per request: how its call ended, as the caller saw it
    connOutcome,    \* per connection: how its connect() call ended
    \* The channels between the Client and a Connection.
    reqChan,        \* request channel
    notified,       \* requests whose Notify holds a permit
    msgChan,        \* message channel, messages numbered in the broker's order
    delivered,      \* messages rcv() has returned
    \* The Connection.
    task,           \* the Connection and the task that owns it
    quic,           \* quiche::Connection, as far as the code asks about it
    mqtt,           \* status of mqtt_conn
    currentRequest, \* Connection::current_request
    owner,          \* the request that holds a packet identifier
    received,       \* PUBLISH packets taken off the stream and acknowledged
    \* The peer: stream 0 in both directions and the broker.
    sent,           \* packets written whole to stream 0, not yet answered
    deaf,           \* the broker parses nothing more that is written
    fromBroker,     \* packets on stream 0 towards the client
    connAnswer,     \* the reason code of the CONNACK
    answer,         \* per request: the reason code of its acknowledgement
    subscribed,     \* the broker granted a subscription
    published       \* messages the broker has put on the stream

apiVars     == <<connected, latest, outcome, connOutcome>>
streamVars  == <<sent, deaf, fromBroker>>
brokerVars  == <<connAnswer, answer, subscribed, published>>
sessionVars == <<task, quic, mqtt, currentRequest, owner, received>>
vars == <<apiVars, connackPermit, call, reqChan, notified, msgChan, delivered,
          sessionVars, streamVars, brokerVars>>

NoRequest == [req |-> NoReq, id |-> 0]
Idle == [op |-> "idle", req |-> NoReq]

\* Packets the client writes that the broker answers, and packets it reads.
ConnectPacket  == [type |-> "CONNECT", id |-> 0, req |-> NoReq]
RequestType(r) == IF r \in Publishes THEN "PUBLISH" ELSE "SUBSCRIBE"
RequestPackets == {p \in [type : {"PUBLISH", "SUBSCRIBE"}, id : PacketIds, req : Requests] :
                      p.type = RequestType(p.req)}

Acks     == [type : {"PUBACK", "SUBACK"}, id : PacketIds, req : Requests]
Connacks == [type : {"CONNACK"}, ok : BOOLEAN]
Messages == [type : {"PUBLISH"}, seq : 1..MaxMessages]
Disconnects == [type : {"DISCONNECT"}]
BrokerPackets == Acks \cup Connacks \cup Messages \cup Disconnects

ApiType ==
    /\ connected \in BOOLEAN
    /\ connackPermit \in BOOLEAN
    /\ latest \in 0..MaxConns
    /\ call \in [op : Stages \cup {"idle"}, req : Requests \cup {NoReq}]
    /\ call.op \in {"sending", "awaitAck"} => call.req \in Requests
    /\ call.op \notin {"idle", "receiving"} => latest # 0
    /\ outcome \in [Requests -> {"unused", "pending", "ok", "err", "cancelled"}]
    /\ connOutcome \in [Conns -> {"none", "ok", "err", "cancelled"}]
    /\ connected => latest # 0
ChannelType ==
    /\ reqChan \in [Conns -> Seq(Requests)]
    /\ \A c \in Conns : Len(reqChan[c]) <= RequestCapacity
    /\ notified \in SUBSET Requests
    /\ msgChan \in [Conns -> Seq(1..MaxMessages)]
    /\ \A c \in Conns : Len(msgChan[c]) <= MsgCapacity
    /\ delivered \in [Conns -> Seq(1..MaxMessages)]
TaskType ==
    /\ task \in [Conns -> {"unused", "initializing", "running", "ended"}]
    /\ quic \in [Conns -> {"handshake", "established", "draining", "closed"}]
    /\ mqtt \in [Conns -> {"disconnected", "connecting", "connected"}]
    /\ currentRequest \in [Conns -> [req : Requests \cup {NoReq}, id : PacketIds \cup {0}]]
    /\ owner \in [Conns -> [PacketIds -> Requests \cup {NoReq}]]
    /\ received \in [Conns -> 0..MaxMessages]
PeerType ==
    /\ sent \in [Conns -> SUBSET (RequestPackets \cup {ConnectPacket})]
    /\ deaf \in [Conns -> BOOLEAN]
    /\ fromBroker \in [Conns -> Seq(BrokerPackets)]
    /\ connAnswer \in [Conns -> {"none", "ok", "refused"}]
    /\ answer \in [Requests -> {"none", "ok", "refused"}]
    /\ subscribed \in [Conns -> BOOLEAN]
    /\ published \in [Conns -> 0..MaxMessages]
TypeOK == ApiType /\ ChannelType /\ TaskType /\ PeerType

Init ==
    /\ connected = FALSE
    /\ connackPermit = FALSE
    /\ latest = 0
    /\ call = Idle
    /\ outcome = [r \in Requests |-> "unused"]
    /\ connOutcome = [c \in Conns |-> "none"]
    /\ reqChan = [c \in Conns |-> <<>>]
    /\ notified = {}
    /\ msgChan = [c \in Conns |-> <<>>]
    /\ delivered = [c \in Conns |-> <<>>]
    /\ task = [c \in Conns |-> "unused"]
    /\ quic = [c \in Conns |-> "handshake"]
    /\ mqtt = [c \in Conns |-> "disconnected"]
    /\ currentRequest = [c \in Conns |-> NoRequest]
    /\ owner = [c \in Conns |-> [i \in PacketIds |-> NoReq]]
    /\ received = [c \in Conns |-> 0]
    /\ sent = [c \in Conns |-> {}]
    /\ deaf = [c \in Conns |-> FALSE]
    /\ fromBroker = [c \in Conns |-> <<>>]
    /\ connAnswer = [c \in Conns |-> "none"]
    /\ answer = [r \in Requests |-> "none"]
    /\ subscribed = [c \in Conns |-> FALSE]
    /\ published = [c \in Conns |-> 0]

-----------------------------------------------------------------------------
(* The Client's methods.                                                   *)

\* connect(): new channels replace the old ones, so the receiver of the
\* previous connection's messages is dropped; Connection::new() starts.
CallConnect ==
    /\ call = Idle
    /\ latest < MaxConns
    /\ latest' = latest + 1
    /\ msgChan' = [c \in Conns |-> IF c = latest THEN <<>> ELSE msgChan[c]]
    /\ task' = [task EXCEPT ![latest'] = "initializing"]
    /\ call' = [op |-> "initializing", req |-> NoReq]
    /\ UNCHANGED <<connected, connackPermit, outcome, connOutcome, reqChan, notified,
                   delivered, quic, mqtt, currentRequest, owner, received,
                   streamVars, brokerVars>>

\* Connection::new() failed: connect() returns its error.  `connected' keeps
\* the value an earlier connect() gave it.
ConnectInitFails ==
    /\ call.op = "initializing"
    /\ task' = [task EXCEPT ![latest] = "ended"]
    /\ connOutcome' = [connOutcome EXCEPT ![latest] = "err"]
    /\ call' = Idle
    /\ UNCHANGED <<connected, connackPermit, latest, outcome, reqChan, notified, msgChan,
                   delivered, quic, mqtt, currentRequest, owner, received,
                   streamVars, brokerVars>>

ConnectSpawns ==
    /\ call.op = "initializing"
    /\ task' = [task EXCEPT ![latest] = "running"]
    /\ call' = [op |-> "awaitConnack", req |-> NoReq]
    /\ UNCHANGED <<apiVars, connackPermit, reqChan, notified, msgChan, delivered,
                   quic, mqtt, currentRequest, owner, received, streamVars, brokerVars>>

\* The Notify belongs to the Client and outlives every connection: a permit an
\* earlier connection stored ends this wait as well.
ConnectReadyIfConnected == connackPermit \/ connected      \* mutant
ConnectReady == connackPermit

ConnectReturns ==
    /\ call.op = "awaitConnack"
    /\ ConnectReady
    /\ connackPermit' = FALSE
    /\ connected' = TRUE
    /\ connOutcome' = [connOutcome EXCEPT ![latest] = "ok"]
    /\ call' = Idle
    /\ UNCHANGED <<latest, outcome, reqChan, notified, msgChan, delivered,
                   sessionVars, streamVars, brokerVars>>

\* subscribe() or publish(), as far as its first await.
CallRequest(r) ==
    /\ call = Idle
    /\ outcome[r] = "unused"
    /\ IF connected
         THEN /\ call' = [op |-> "sending", req |-> r]
              /\ outcome' = [outcome EXCEPT ![r] = "pending"]
         ELSE /\ outcome' = [outcome EXCEPT ![r] = "err"]
              /\ call' = call
    /\ UNCHANGED <<connected, connackPermit, latest, connOutcome, reqChan, notified,
                   msgChan, delivered, sessionVars, streamVars, brokerVars>>

RoomOffByOne(c) == Len(reqChan[c]) <= RequestCapacity       \* mutant
RoomForRequest(c) == Len(reqChan[c]) < RequestCapacity

RequestEnqueue ==
    /\ call.op = "sending"
    /\ task[latest] = "running"
    /\ RoomForRequest(latest)
    /\ reqChan' = [reqChan EXCEPT ![latest] = Append(@, call.req)]
    /\ call' = [op |-> "awaitAck", req |-> call.req]
    /\ UNCHANGED <<apiVars, connackPermit, notified, msgChan, delivered,
                   sessionVars, streamVars, brokerVars>>

RequestReturns ==
    /\ call.op = "awaitAck"
    /\ call.req \in notified
    /\ notified' = notified \ {call.req}
    /\ outcome' = [outcome EXCEPT ![call.req] = "ok"]
    /\ call' = Idle
    /\ UNCHANGED <<connected, connackPermit, latest, connOutcome, reqChan, msgChan,
                   delivered, sessionVars, streamVars, brokerVars>>

\* The stage at which a call sees that the receiver of its requests is gone.
FailsWhileWaiting == {"sending", "awaitAck"}                 \* mutant
FailsWhenEnded == {"sending"}

RequestSendFails ==
    /\ call.op \in FailsWhenEnded
    /\ task[latest] = "ended"
    /\ outcome' = [outcome EXCEPT ![call.req] = "err"]
    /\ call' = Idle
    /\ UNCHANGED <<connected, connackPermit, latest, connOutcome, reqChan, notified,
                   msgChan, delivered, sessionVars, streamVars, brokerVars>>

CallRcv ==
    /\ call = Idle
    /\ call' = [op |-> "receiving", req |-> NoReq]
    /\ UNCHANGED <<apiVars, connackPermit, reqChan, notified, msgChan, delivered,
                   sessionVars, streamVars, brokerVars>>

ReceiveReturns ==
    /\ call.op = "receiving"
    /\ latest # 0
    /\ msgChan[latest] # <<>>
    /\ delivered' = [delivered EXCEPT ![latest] = Append(@, Head(msgChan[latest]))]
    /\ msgChan' = [msgChan EXCEPT ![latest] = Tail(@)]
    /\ call' = Idle
    /\ UNCHANGED <<apiVars, connackPermit, reqChan, notified,
                   sessionVars, streamVars, brokerVars>>

\* No connect() yet, or every sender of the channel is gone and it is empty.
NeverClosed(c) == FALSE                                     \* mutant
ChannelClosed(c) == task[c] = "ended" /\ msgChan[c] = <<>>

ReceiveFails ==
    /\ call.op = "receiving"
    /\ latest # 0 => ChannelClosed(latest)
    /\ call' = Idle
    /\ UNCHANGED <<apiVars, connackPermit, reqChan, notified, msgChan, delivered,
                   sessionVars, streamVars, brokerVars>>

\* The application drops the future of the call (a timeout, a select!).  What
\* connect() owned until the spawn goes with it; what was handed over stays.
CancelCall ==
    /\ call.op \in Cancellable
    /\ call' = Idle
    /\ outcome' = IF call.req \in Requests
                    THEN [outcome EXCEPT ![call.req] = "cancelled"] ELSE outcome
    /\ connOutcome' = IF call.op \in {"initializing", "awaitConnack"}
                        THEN [connOutcome EXCEPT ![latest] = "cancelled"] ELSE connOutcome
    /\ task' = IF call.op = "initializing"
                 THEN [task EXCEPT ![latest] = "ended"] ELSE task
    /\ UNCHANGED <<connected, connackPermit, latest, reqChan, notified, msgChan, delivered,
                   quic, mqtt, currentRequest, owner, received, streamVars, brokerVars>>

-----------------------------------------------------------------------------
(* The Connection's task: one action per way through the select! loop.     *)

Live(c) == task[c] = "running" /\ quic[c] \in {"handshake", "established"}

\* RequestSendPacket: stream_send() may write the packet, a part of it, or
\* fail; its result is discarded.  After a part the broker reads garbage.
StreamWrite(c, p) ==
    \E s \in StreamSends :
        /\ sent' = IF s = "whole" /\ quic'[c] = "established" /\ ~deaf[c]
                     THEN [sent EXCEPT ![c] = @ \cup {p}] ELSE sent
        /\ deaf' = [deaf EXCEPT ![c] = @ \/ s = "part"]

\* The first datagram after which the QUIC connection is established: the MQTT
\* CONNECT goes out, once (mqtt_init_sent).
HandshakeCompletes(c) ==
    /\ Live(c) /\ quic[c] = "handshake"
    /\ quic' = [quic EXCEPT ![c] = "established"]
    /\ mqtt' = [mqtt EXCEPT ![c] = "connecting"]
    /\ StreamWrite(c, ConnectPacket)
    /\ UNCHANGED <<apiVars, connackPermit, call, reqChan, notified, msgChan, delivered,
                   task, currentRequest, owner, received, fromBroker, brokerVars>>

FreeOrCurrentIds(c) ==                                      \* mutant
    {i \in PacketIds : owner[c][i] = NoReq \/ currentRequest[c].id = i}
FreeIds(c) == {i \in PacketIds : owner[c][i] = NoReq}

\* A request from the channel.  When MQTT is not connected, mqtt-protocol-core
\* answers NotifyError, which is only logged; current_request is set anyway.
HandleRequest(c) ==
    /\ task[c] = "running"
    /\ reqChan[c] # <<>>
    /\ \E i \in FreeIds(c) :
         LET r == Head(reqChan[c]) IN
         /\ currentRequest' = [currentRequest EXCEPT ![c] = [req |-> r, id |-> i]]
         /\ quic' = quic
         /\ IF mqtt[c] = "connected"
              THEN /\ owner' = [owner EXCEPT ![c][i] = r]
                   /\ StreamWrite(c, [type |-> RequestType(r), id |-> i, req |-> r])
              ELSE UNCHANGED <<owner, sent, deaf>>
    /\ reqChan' = [reqChan EXCEPT ![c] = Tail(@)]
    /\ UNCHANGED <<apiVars, connackPermit, call, notified, msgChan, delivered,
                   task, mqtt, received, fromBroker, brokerVars>>

\* The handler returns: the Connection is dropped with its end of every
\* channel.  Nobody who waits on a Notify is told.
EndTask(c) ==
    /\ task' = [task EXCEPT ![c] = "ended"]
    /\ quic' = [quic EXCEPT ![c] = "closed"]
    /\ mqtt' = [mqtt EXCEPT ![c] = "disconnected"]
    /\ reqChan' = [reqChan EXCEPT ![c] = <<>>]
    /\ currentRequest' = [currentRequest EXCEPT ![c] = NoRequest]
    /\ owner' = [owner EXCEPT ![c] = [i \in PacketIds |-> NoReq]]
    /\ sent' = [sent EXCEPT ![c] = {}]
    /\ fromBroker' = [fromBroker EXCEPT ![c] = <<>>]
    /\ subscribed' = [subscribed EXCEPT ![c] = FALSE]
    /\ UNCHANGED <<apiVars, connackPermit, call, notified, msgChan, delivered, received,
                   deaf, connAnswer, answer, published>>

\* acquire_packet_id() fails: the handler returns an error.
NoPacketId(c) ==
    /\ task[c] = "running" /\ reqChan[c] # <<>> /\ FreeIds(c) = {}
    /\ EndTask(c)

\* The peer closed the connection and the draining period is over.
ConnectionClosed(c) ==
    /\ task[c] = "running" /\ quic[c] = "draining"
    /\ EndTask(c)

\* The local idle timeout, or an error the handler returns with `?'.
ConnectionLost(c) ==
    /\ Live(c)
    /\ EndTask(c)

\* The packet at the head of stream 0, when its type is t.
Incoming(c, t) ==
    /\ task[c] = "running" /\ quic[c] = "established"
    /\ fromBroker[c] # <<>> /\ Head(fromBroker[c]).type \in t

Consume(c) == fromBroker' = [fromBroker EXCEPT ![c] = Tail(@)]

ConnackReceived(c) ==
    /\ Incoming(c, {"CONNACK"})
    /\ connackPermit' = TRUE        \* whatever the reason code says
    /\ mqtt' = [mqtt EXCEPT ![c] = IF Head(fromBroker[c]).ok
                                     THEN "connected" ELSE "disconnected"]
    /\ Consume(c)
    /\ UNCHANGED <<apiVars, call, reqChan, notified, msgChan, delivered, task, quic,
                   currentRequest, owner, received, sent, deaf, brokerVars>>

\* Does acknowledgement p answer the request the task remembers?
AckType(r) == IF r \in Publishes THEN "PUBACK" ELSE "SUBACK"
AckMatchesAnyId(cur, p) ==                                  \* mutant
    cur.req # NoReq /\ AckType(cur.req) = p.type
AckMatchesOnlySuback(cur, p) ==                             \* mutant
    cur.req \in Subscribes /\ p.type = "SUBACK" /\ cur.id = p.id
AckMatches(cur, p) ==
    /\ cur.req # NoReq
    /\ AckType(cur.req) = p.type
    /\ cur.id = p.id

AckReceived(c) ==
    /\ Incoming(c, {"PUBACK", "SUBACK"})
    /\ LET p == Head(fromBroker[c])
           cur == currentRequest[c]
       IN
       /\ owner' = [owner EXCEPT ![c][p.id] = NoReq]
       /\ IF AckMatches(cur, p)
            THEN /\ notified' = notified \cup {cur.req}
                 /\ currentRequest' = [currentRequest EXCEPT ![c] = NoRequest]
            ELSE UNCHANGED <<notified, currentRequest>>
    /\ Consume(c)
    /\ UNCHANGED <<apiVars, connackPermit, call, reqChan, msgChan, delivered, task, quic,
                   mqtt, received, sent, deaf, brokerVars>>

\* try_send() on the message channel: a full channel, or one whose receiver
\* was replaced, loses the message.
TrySendLifo(c, chan, m) ==                                  \* mutant
    IF c = latest /\ Len(chan) < MsgCapacity THEN <<m>> \o chan ELSE chan
TrySendOffByOne(c, chan, m) ==                              \* mutant
    IF c = latest /\ Len(chan) + 1 < MsgCapacity THEN Append(chan, m) ELSE chan
TrySend(c, chan, m) ==
    IF c = latest /\ Len(chan) < MsgCapacity THEN Append(chan, m) ELSE chan

\* mqtt-protocol-core has queued the PUBACK before the message is handed over.
MessageReceived(c) ==
    /\ Incoming(c, {"PUBLISH"})
    /\ received' = [received EXCEPT ![c] = Head(fromBroker[c]).seq]
    /\ msgChan' = [msgChan EXCEPT ![c] = TrySend(c, @, Head(fromBroker[c]).seq)]
    /\ Consume(c)
    /\ UNCHANGED <<apiVars, connackPermit, call, reqChan, notified, delivered, task, quic,
                   mqtt, currentRequest, owner, sent, deaf, brokerVars>>

\* RequestClose is logged; the QUIC connection stays as it is.
DisconnectReceived(c) ==
    /\ Incoming(c, {"DISCONNECT"})
    /\ mqtt' = [mqtt EXCEPT ![c] = "disconnected"]
    /\ Consume(c)
    /\ UNCHANGED <<apiVars, connackPermit, call, reqChan, notified, msgChan, delivered,
                   task, quic, currentRequest, owner, received, sent, deaf, brokerVars>>

HandleIncoming(c) ==
    ConnackReceived(c) \/ AckReceived(c) \/ MessageReceived(c) \/ DisconnectReceived(c)

-----------------------------------------------------------------------------
(* The peer: the proxy's QUIC endpoint and the broker behind it.           *)

PeerCloses(c) ==
    /\ Live(c)
    /\ quic' = [quic EXCEPT ![c] = "draining"]
    /\ sent' = [sent EXCEPT ![c] = {}]
    /\ deaf' = [deaf EXCEPT ![c] = TRUE]
    /\ fromBroker' = [fromBroker EXCEPT ![c] = <<>>]
    /\ subscribed' = [subscribed EXCEPT ![c] = FALSE]
    /\ UNCHANGED <<apiVars, connackPermit, call, reqChan, notified, msgChan, delivered,
                   task, mqtt, currentRequest, owner, received, connAnswer, answer, published>>

\* The broker takes p off the stream and writes q.
BrokerAnswers(c, p, q) ==
    /\ p \in sent[c]
    /\ sent' = [sent EXCEPT ![c] = @ \ {p}]
    /\ fromBroker' = [fromBroker EXCEPT ![c] = Append(@, q)]
    /\ UNCHANGED <<apiVars, connackPermit, call, reqChan, notified, msgChan, delivered,
                   sessionVars, deaf>>

BrokerConnack(c, ok) ==
    /\ BrokerAnswers(c, ConnectPacket, [type |-> "CONNACK", ok |-> ok])
    /\ connAnswer' = [connAnswer EXCEPT ![c] = IF ok THEN "ok" ELSE "refused"]
    /\ UNCHANGED <<answer, subscribed, published>>

\* Acknowledgements may overtake one another.
BrokerAck(c, p, a) ==
    /\ p \in RequestPackets
    /\ BrokerAnswers(c, p, [type |-> AckType(p.req), id |-> p.id, req |-> p.req])
    /\ answer' = [answer EXCEPT ![p.req] = a]
    /\ subscribed' = [subscribed EXCEPT ![c] = @ \/ (p.type = "SUBSCRIBE" /\ a = "ok")]
    /\ UNCHANGED <<connAnswer, published>>

BrokerPublish(c) ==
    /\ subscribed[c]
    /\ published[c] < MaxMessages
    /\ published' = [published EXCEPT ![c] = @ + 1]
    /\ fromBroker' = [fromBroker EXCEPT ![c] =
                        Append(@, [type |-> "PUBLISH", seq |-> published[c] + 1])]
    /\ UNCHANGED <<apiVars, connackPermit, call, reqChan, notified, msgChan, delivered,
                   sessionVars, sent, deaf, connAnswer, answer, subscribed>>

\* An MQTT DISCONNECT from the broker (administrative action, session taken over).
BrokerDisconnect(c) ==
    /\ Live(c) /\ connAnswer[c] = "ok" /\ ~deaf[c]
    /\ sent' = [sent EXCEPT ![c] = {}]
    /\ deaf' = [deaf EXCEPT ![c] = TRUE]
    /\ subscribed' = [subscribed EXCEPT ![c] = FALSE]
    /\ fromBroker' = [fromBroker EXCEPT ![c] = Append(@, [type |-> "DISCONNECT"])]
    /\ UNCHANGED <<apiVars, connackPermit, call, reqChan, notified, msgChan, delivered,
                   sessionVars, connAnswer, answer, published>>

-----------------------------------------------------------------------------
ClientStep ==
    \/ CallConnect \/ ConnectInitFails \/ ConnectSpawns \/ ConnectReturns
    \/ \E r \in Requests : CallRequest(r)
    \/ RequestEnqueue \/ RequestReturns \/ RequestSendFails
    \/ CallRcv \/ ReceiveReturns \/ ReceiveFails
    \/ CancelCall

ConnectionStep(c) ==
    \/ HandshakeCompletes(c) \/ HandleRequest(c) \/ NoPacketId(c) \/ HandleIncoming(c)
    \/ ConnectionClosed(c) \/ ConnectionLost(c)

BrokerAcks(c) == \E p \in sent[c], a \in {"ok", "refused"} : BrokerAck(c, p, a)

PeerStep(c) ==
    \/ PeerCloses(c) \/ \E ok \in BOOLEAN : BrokerConnack(c, ok)
    \/ BrokerAcks(c) \/ BrokerPublish(c) \/ BrokerDisconnect(c)

Next ==
    \/ ClientStep
    \/ \E c \in Conns : ConnectionStep(c) \/ PeerStep(c)

Spec == Init /\ [][Next]_vars

\* The runtime polls a future that was woken; a live peer answers.  Nothing
\* says that a connection is lost, a peer closes or the application calls.
Fairness ==
    /\ WF_vars(ConnectSpawns \/ ConnectInitFails)
    /\ WF_vars(ConnectReturns)
    /\ WF_vars(RequestEnqueue \/ RequestSendFails)
    /\ WF_vars(RequestReturns)
    /\ WF_vars(ReceiveReturns \/ ReceiveFails)
    /\ \A c \in Conns :
         /\ WF_vars(HandshakeCompletes(c))
         /\ WF_vars(HandleRequest(c) \/ NoPacketId(c))
         /\ WF_vars(HandleIncoming(c))
         /\ WF_vars(ConnectionClosed(c))
         /\ WF_vars(\E ok \in BOOLEAN : BrokerConnack(c, ok))
         /\ WF_vars(BrokerAcks(c))

FairSpec == Spec /\ Fairness

-----------------------------------------------------------------------------
(* What the library promises its caller.                                   *)

\* A publish() or subscribe() that returns Ok was acknowledged by the broker:
\* no other request's PUBACK or SUBACK completed it, even after calls the
\* application gave up left their packets in flight.
OkMeansAnswered == \A r \in Requests : outcome[r] = "ok" => answer[r] # "none"

\* Why that is so.  A packet identifier stays with one request until its one
\* acknowledgement was read: what is in flight under an identifier, in either
\* direction, is of the request that holds it, and the task waits for no other.
IsAck(q) == q.type \in {"PUBACK", "SUBACK"}
AcksOf(c) == {k \in 1..Len(fromBroker[c]) : IsAck(fromBroker[c][k])}
SentHeld == \A c \in Conns : \A p \in sent[c] : p \in RequestPackets => owner[c][p.id] = p.req
AcksHeld ==
    \A c \in Conns : \A k \in AcksOf(c) :
        LET q == fromBroker[c][k] IN owner[c][q.id] = q.req /\ answer[q.req] # "none"
OnePerId ==
    \A c \in Conns : \A k \in AcksOf(c) :
        /\ \A j \in AcksOf(c) : fromBroker[c][j].id = fromBroker[c][k].id => j = k
        /\ \A p \in sent[c] : p \in RequestPackets => p.id # fromBroker[c][k].id
CurrentHeld ==
    \A c \in Conns : LET cur == currentRequest[c] IN
        cur.req # NoReq => cur.id \in PacketIds /\ owner[c][cur.id] \in {cur.req, NoReq}
NotifiedAnswered == \A r \in notified : answer[r] # "none"
InFlight == SentHeld /\ AcksHeld /\ OnePerId /\ CurrentHeld /\ NotifiedAnswered

\* A publish() or subscribe() that returned an error never reached the broker
\* and never will, so the application may repeat it.
FailedMeansUnsent ==
    \A r \in Requests :
        outcome[r] = "err" =>
            /\ answer[r] = "none"
            /\ \A c \in Conns : ~\E p \in sent[c] : p.req = r
            /\ \A c \in Conns : \A k \in 1..Len(reqChan[c]) : reqChan[c][k] # r

\* The library implements AckedCalls: for the caller, the channel, the task, the
\* packet identifiers and the Notify come down to a call that the broker answers
\* at most once, before it ends well and never after it failed.
Promise ==
    INSTANCE AckedCalls WITH answered <- {r \in Requests : answer[r] # "none"}
ImplementsAckedCalls == Promise!Spec

\* Every connect() that returns Ok was woken by a CONNACK of its own: no two by
\* the same one, and by another connection's CONNACK only after an earlier
\* connect() was given up, whose permit stayed in the Notify.
Succeeded == {c \in Conns : connOutcome[c] = "ok"}
Answered  == {c \in Conns : connAnswer[c] # "none"}
ConnectOkMeansConnack ==
    /\ Cardinality(Succeeded) <= Cardinality(Answered)
    /\ \A c \in Succeeded \ Answered : \E d \in Conns : d < c /\ connOutcome[d] = "cancelled"

\* rcv() returns messages in the order the broker sent them and never twice;
\* a message is missing only if MsgCapacity earlier ones were kept before it,
\* that is, only after the channel was filled.
Kept(c) == delivered[c] \o msgChan[c]
DeliveryOrder ==
    \A c \in Conns :
        \A j, k \in 1..Len(Kept(c)) : j < k => Kept(c)[j] < Kept(c)[k]
GapsOnlyWhenFull ==
    latest # 0 =>
        LET kept == {Kept(latest)[k] : k \in 1..Len(Kept(latest))} IN
        \A s \in (1..received[latest]) \ kept :
            Cardinality({k \in kept : k < s}) >= MsgCapacity

\* A request the task took over ends, or its connection is broken: no wake-up
\* is lost between the task that acknowledges and the call that waits.
Broken(c) == task[c] = "ended" \/ quic[c] = "draining" \/ mqtt[c] # "connected"
RequestEndsOrBroken ==
    \A r \in Requests :
        (call.req = r /\ call.op \in {"sending", "awaitAck"})
            ~> (outcome[r] \in {"ok", "err", "cancelled"} \/ (latest # 0 /\ Broken(latest)))

\* rcv() reports the loss of the connection, after what was buffered.
ReceiveFailsOnLoss ==
    (call.op = "receiving" /\ (latest = 0 \/ task[latest] = "ended")) ~> (call = Idle)

-----------------------------------------------------------------------------
(* What docs/PYTHON_BINDINGS.md says and the library does not do.          *)

\* connect(), subscribe() and publish() raise an error if the connection fails,
\* while they wait for the broker's answer included.
CallEndsOnLoss ==
    (call.op \in {"awaitConnack", "awaitAck"} /\ task[latest] = "ended") ~> (call = Idle)

\* connect(), subscribe() and publish() raise an error if the broker refuses.
OkMeansAccepted ==
    /\ \A c \in Succeeded \cap Answered : connAnswer[c] = "ok"
    /\ \A r \in Requests : outcome[r] = "ok" => answer[r] = "ok"

\* connect() succeeds only if the connection it made did.
ConnectOkMeansConnected == Succeeded \subseteq Answered

=============================================================================

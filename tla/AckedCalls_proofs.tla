--------------------------- MODULE AckedCalls_proofs ---------------------------
(***************************************************************************)
(* The client library implements AckedCalls, for any number of requests,   *)
(* connections and packet identifiers.                                     *)
(***************************************************************************)
EXTENDS MqttClient_proofs

-----------------------------------------------------------------------------
(* Where a request can be before it was handed over.                       *)

InChannel(r) == \E c \in Conns : \E k \in 1..Len(reqChan[c]) : reqChan[c][k] = r
OnStream(r) == \E c \in Conns : \E p \in sent[c] : p.req = r
Unsent(r) == answer[r] = "none" /\ ~InChannel(r) /\ ~OnStream(r)

\* A request that no call has handed to the task: not made, failed, or being made.
Fresh(r) == outcome[r] \in {"unused", "err"} \/ (call.op = "sending" /\ call.req = r)

CallPending == call.req \in Requests => outcome[call.req] = "pending"
FreshUnsent == \A r \in Requests : Fresh(r) => Unsent(r)
CallsInv == IInv /\ CallPending /\ FreshUnsent

LEMMA InitCallsInv == Init => CallsInv
<1> SUFFICES ASSUME Init PROVE CallsInv
  OBVIOUS
<1>1. IInv
  BY InitIInv
<1>2. CallPending
  BY ClientAssumption DEF Init, Idle, CallPending
<1>3. \A c \in Conns : sent[c] = {} /\ reqChan[c] = <<>> /\ Len(reqChan[c]) = 0
  BY EmptySeq DEF Init
<1>4. \A r \in Requests : Unsent(r)
  BY <1>3 DEF Unsent, InChannel, OnStream, Init
<1> QED
  BY <1>1, <1>2, <1>4 DEF CallsInv, FreshUnsent

\* A step that hands nothing over and answers nothing.
LEMMA NoMoreFresh ==
    ASSUME FreshUnsent, answer' = answer,
           \A r \in Requests : /\ Fresh(r)' => Fresh(r)
                               /\ InChannel(r)' => InChannel(r)
                               /\ OnStream(r)' => OnStream(r)
    PROVE  FreshUnsent'
BY DEF FreshUnsent, Unsent

LEMMA SameChannels ==
    ASSUME NEW r \in Requests, \A c \in Conns : reqChan'[c] \in {reqChan[c], <<>>}
    PROVE  InChannel(r)' => InChannel(r)
<1>1. Len(<<>>) = 0
  BY EmptySeq
<1> QED
  BY <1>1 DEF InChannel

LEMMA SameStreams ==
    ASSUME NEW r \in Requests, \A c \in Conns : sent'[c] \subseteq sent[c] \cup {ConnectPacket}
    PROVE  OnStream(r)' => OnStream(r)
<1>1. ConnectPacket.req \notin Requests
  BY ClientAssumption DEF ConnectPacket
<1> QED
  BY <1>1 DEF OnStream

\* The methods of the Client but the one that hands a request over.
LEMMA ClientCalls ==
    ASSUME CallsInv, ClientStep, ~RequestEnqueue
    PROVE  CallPending' /\ FreshUnsent'
<1>t. /\ outcome \in [Requests -> {"unused", "pending", "ok", "err", "cancelled"}]
      /\ call.op \in {"sending", "awaitAck"} => call.req \in Requests
      /\ NoReq \notin Requests
  BY ClientAssumption DEF CallsInv, IInv, TypeOK, ApiType
<1>0. UNCHANGED <<reqChan, sent, answer>>
  BY DEF ClientStep, CallConnect, ConnectInitFails, ConnectSpawns, ConnectReturns,
     CallRequest, RequestReturns, RequestSendFails, CallRcv, ReceiveReturns, ReceiveFails,
     CancelCall, streamVars, brokerVars
<1>1. \A r \in Requests : (InChannel(r)' => InChannel(r)) /\ (OnStream(r)' => OnStream(r))
  BY <1>0 DEF InChannel, OnStream
<1>2. CallPending' /\ \A r \in Requests : Fresh(r)' => Fresh(r)
  <2>1. CASE \/ CallConnect \/ ConnectInitFails \/ ConnectSpawns \/ ConnectReturns
             \/ CallRcv \/ ReceiveReturns \/ ReceiveFails
    BY <1>t, <2>1 DEF CallConnect, ConnectInitFails, ConnectSpawns, ConnectReturns, CallRcv,
       ReceiveReturns, ReceiveFails, CallPending, Fresh, Idle, apiVars
  <2>2. ASSUME NEW r \in Requests, CallRequest(r)
        PROVE  CallPending' /\ \A q \in Requests : Fresh(q)' => Fresh(q)
    BY <1>t, <2>2 DEF CallRequest, CallPending, Fresh, Idle
  <2>3. CASE RequestReturns \/ CancelCall
    BY <1>t, <2>3 DEF RequestReturns, CancelCall, CallPending, Fresh, Idle, CallsInv
  <2>4. CASE RequestSendFails
    BY <1>t, <2>4 DEF RequestSendFails, FailsWhenEnded, CallPending, Fresh, Idle
  <2> QED
    BY <2>1, <2>2, <2>3, <2>4 DEF ClientStep
<1> QED
  BY <1>0, <1>1, <1>2, NoMoreFresh DEF CallsInv

\* What is handed over is the request of a call that waits.
LEMMA EnqueueCalls ==
    ASSUME CallsInv, RequestEnqueue PROVE CallPending' /\ FreshUnsent'
<1>t. /\ reqChan \in [Conns -> Seq(Requests)]
      /\ call.op \in {"sending", "awaitAck"} => call.req \in Requests
      /\ latest \in 0..MaxConns /\ (call.op \notin {"idle", "receiving"} => latest # 0)
  BY DEF CallsInv, IInv, TypeOK, ApiType, ChannelType
<1>1. /\ call.op = "sending" /\ call.req \in Requests /\ latest \in Conns
      /\ reqChan' = [reqChan EXCEPT ![latest] = Append(@, call.req)]
      /\ call'.op = "awaitAck" /\ call'.req = call.req
      /\ UNCHANGED <<outcome, sent, answer>>
  BY <1>t, ClientAssumption DEF RequestEnqueue, Conns, apiVars, streamVars, brokerVars
<1>2. CallPending'
  BY <1>1 DEF CallsInv, CallPending
<1>3. \A r \in Requests : Fresh(r)' => Fresh(r) /\ r # call.req
  BY <1>1 DEF Fresh, CallsInv, CallPending
<1>4. ASSUME NEW r \in Requests, r # call.req, InChannel(r)' PROVE InChannel(r)
  <2>1. PICK c \in Conns : \E k \in 1..Len(reqChan'[c]) : reqChan'[c][k] = r
    BY <1>4 DEF InChannel
  <2>2. PICK k \in 1..Len(reqChan'[c]) : reqChan'[c][k] = r
    BY <2>1
  <2>3. CASE c # latest
    BY <1>1, <1>t, <2>2, <2>3 DEF InChannel
  <2>4. CASE c = latest
    <3> DEFINE s == reqChan[c]
    <3>1. s \in Seq(Requests) /\ reqChan'[c] = Append(s, call.req)
      BY <1>1, <1>t, <2>4
    <3>2. /\ Len(Append(s, call.req)) = Len(s) + 1 /\ Len(s) \in Nat
          /\ \A i \in 1..Len(s) : Append(s, call.req)[i] = s[i]
          /\ Append(s, call.req)[Len(s) + 1] = call.req
      BY <1>1, <3>1, AppendProperties, LenProperties
    <3>3. k \in 1..Len(s)
      BY <1>4, <2>2, <3>1, <3>2
    <3>4. s[k] = r
      BY <2>2, <3>1, <3>2, <3>3
    <3> QED
      BY <3>3, <3>4 DEF InChannel
  <2> QED
    BY <2>3, <2>4
<1>5. \A r \in Requests : OnStream(r)' => OnStream(r)
  BY <1>1 DEF OnStream
<1>6. FreshUnsent'
  BY <1>1, <1>3, <1>4, <1>5 DEF CallsInv, FreshUnsent, Unsent
<1> QED
  BY <1>2, <1>6

\* A request on the stream was in the channel.
LEMMA HandleRequestCalls ==
    ASSUME CallsInv, NEW c \in Conns, HandleRequest(c) PROVE CallPending' /\ FreshUnsent'
<1>t. /\ reqChan \in [Conns -> Seq(Requests)] /\ sent \in [Conns -> SUBSET (RequestPackets \cup {ConnectPacket})]
  BY DEF CallsInv, IInv, TypeOK, ChannelType, PeerType
<1> DEFINE s == reqChan[c]
           q == Head(s)
<1>1. /\ s # <<>> /\ s \in Seq(Requests)
      /\ reqChan' = [reqChan EXCEPT ![c] = Tail(s)]
      /\ UNCHANGED <<outcome, call, answer>>
      /\ \A d \in Conns : \A p \in sent'[d] : p \in sent[d] \/ p.req = q
  <2>1. PICK i \in FreeIds(c) :
          IF mqtt[c] = "connected"
            THEN StreamWrite(c, [type |-> RequestType(q), id |-> i, req |-> q])
            ELSE UNCHANGED <<owner, sent, deaf>>
    BY DEF HandleRequest
  <2> DEFINE n == [type |-> RequestType(q), id |-> i, req |-> q]
  <2>2. n.req = q
    OBVIOUS
  <2>3. sent' = sent \/ sent' = [sent EXCEPT ![c] = @ \cup {n}]
    BY <2>1 DEF StreamWrite
  <2>4. \A d \in Conns : \A p \in sent'[d] : p \in sent[d] \/ p.req = q
    BY <1>t, <2>2, <2>3
  <2> QED
    BY <1>t, <2>4 DEF HandleRequest, apiVars, brokerVars
<1>2. /\ q = s[1] /\ Len(s) \in Nat \ {0} /\ Tail(s) \in Seq(Requests)
      /\ Len(Tail(s)) = Len(s) - 1 /\ \A i \in 1..Len(Tail(s)) : Tail(s)[i] = s[i + 1]
  BY <1>1, HeadTailProperties, EmptySeq
<1>3. CallPending' /\ \A r \in Requests : Fresh(r)' <=> Fresh(r)
  BY <1>1 DEF CallsInv, CallPending, Fresh
<1>4. InChannel(q)
  <2>1. 1 \in 1..Len(s)
    BY <1>2
  <2> QED
    BY <1>2, <2>1 DEF InChannel
<1>5. ASSUME NEW r \in Requests, InChannel(r)' PROVE InChannel(r)
  <2>1. PICK d \in Conns : \E k \in 1..Len(reqChan'[d]) : reqChan'[d][k] = r
    BY <1>5 DEF InChannel
  <2>2. CASE d # c
    BY <1>1, <1>t, <2>1, <2>2 DEF InChannel
  <2>3. CASE d = c
    <3>1. reqChan'[d] = Tail(s)
      BY <1>1, <1>t, <2>3
    <3>2. PICK k \in 1..Len(Tail(s)) : Tail(s)[k] = r
      BY <2>1, <3>1
    <3>3. k + 1 \in 1..Len(s) /\ s[k + 1] = r
      BY <1>2, <3>2
    <3> QED
      BY <3>3 DEF InChannel
  <2> QED
    BY <2>2, <2>3
<1>6. ASSUME NEW r \in Requests, OnStream(r)' PROVE OnStream(r) \/ r = q
  BY <1>1, <1>6 DEF OnStream
<1>7. FreshUnsent'
  BY <1>1, <1>3, <1>4, <1>5, <1>6 DEF CallsInv, FreshUnsent, Unsent
<1> QED
  BY <1>3, <1>7

\* What the broker answers was on the stream.
LEMMA BrokerAckCalls ==
    ASSUME CallsInv, NEW c \in Conns, NEW p \in sent[c], NEW a \in {"ok", "refused"},
           BrokerAck(c, p, a)
    PROVE  CallPending' /\ FreshUnsent'
<1>t. /\ sent \in [Conns -> SUBSET (RequestPackets \cup {ConnectPacket})]
      /\ answer \in [Requests -> {"none", "ok", "refused"}]
  BY DEF CallsInv, IInv, TypeOK, PeerType
<1>1. /\ p.req \in Requests /\ answer' = [answer EXCEPT ![p.req] = a]
      /\ sent' = [sent EXCEPT ![c] = @ \ {p}]
      /\ UNCHANGED <<outcome, call, reqChan>>
  BY DEF BrokerAck, BrokerAnswers, RequestPackets, apiVars
<1>2. OnStream(p.req)
  BY DEF OnStream
<1>3. CallPending' /\ \A r \in Requests : Fresh(r)' <=> Fresh(r)
  BY <1>1 DEF CallsInv, CallPending, Fresh
<1>4. \A r \in Requests : (InChannel(r)' => InChannel(r)) /\ (OnStream(r)' => OnStream(r))
  BY <1>1, <1>t DEF InChannel, OnStream
<1>5. \A r \in Requests : r # p.req => answer'[r] = answer[r]
  BY <1>1, <1>t
<1> QED
  BY <1>2, <1>3, <1>4, <1>5 DEF CallsInv, FreshUnsent, Unsent

\* The other steps of a task and of its peer.
LEMMA QuietCalls ==
    ASSUME CallsInv, NEW c \in Conns, ConnectionStep(c) \/ PeerStep(c),
           ~HandleRequest(c), ~BrokerAcks(c)
    PROVE  CallPending' /\ FreshUnsent' /\ UNCHANGED <<outcome, answer>>
<1>t. /\ reqChan \in [Conns -> Seq(Requests)] /\ sent \in [Conns -> SUBSET (RequestPackets \cup {ConnectPacket})]
  BY DEF CallsInv, IInv, TypeOK, ChannelType, PeerType
<1>1. /\ UNCHANGED <<outcome, call, answer>>
      /\ \A d \in Conns : reqChan'[d] \in {reqChan[d], <<>>}
      /\ \A d \in Conns : sent'[d] \subseteq sent[d] \cup {ConnectPacket}
  <2>1. CASE HandshakeCompletes(c)
    BY <1>t, <2>1 DEF HandshakeCompletes, StreamWrite, apiVars, brokerVars
  <2>2. CASE EndTask(c)
    BY <1>t, <2>2 DEF EndTask, apiVars
  <2>3. CASE HandleIncoming(c)
    BY <1>t, <2>3 DEF HandleIncoming, ConnackReceived, AckReceived, MessageReceived,
       DisconnectReceived, apiVars, brokerVars
  <2>4. CASE PeerCloses(c) \/ BrokerPublish(c) \/ BrokerDisconnect(c)
    BY <1>t, <2>4 DEF PeerCloses, BrokerPublish, BrokerDisconnect, apiVars, brokerVars
  <2>5. ASSUME NEW ok \in BOOLEAN, BrokerConnack(c, ok)
        PROVE  /\ UNCHANGED <<outcome, call, answer>>
               /\ \A d \in Conns : reqChan'[d] \in {reqChan[d], <<>>}
               /\ \A d \in Conns : sent'[d] \subseteq sent[d] \cup {ConnectPacket}
    BY <1>t, <2>5 DEF BrokerConnack, BrokerAnswers, apiVars
  <2> QED
    BY <2>1, <2>2, <2>3, <2>4, <2>5
       DEF ConnectionStep, PeerStep, NoPacketId, ConnectionClosed, ConnectionLost
<1>2. CallPending' /\ \A r \in Requests : Fresh(r)' <=> Fresh(r)
  BY <1>1 DEF CallsInv, CallPending, Fresh
<1> QED
  BY <1>1, <1>2, SameChannels, SameStreams, NoMoreFresh DEF CallsInv

LEMMA StepCallsInv == CallsInv /\ [Next]_vars => CallsInv'
<1> SUFFICES ASSUME CallsInv, [Next]_vars PROVE CallsInv'
  OBVIOUS
<1>1. IInv'
  BY StepIInv DEF CallsInv
<1>2. CASE ClientStep
  BY <1>1, <1>2, ClientCalls, EnqueueCalls DEF CallsInv
<1>3. ASSUME NEW c \in Conns, ConnectionStep(c) \/ PeerStep(c) PROVE CallsInv'
  <2>1. CASE HandleRequest(c)
    BY <1>1, <2>1, HandleRequestCalls DEF CallsInv
  <2>2. CASE BrokerAcks(c)
    BY <1>1, <2>2, BrokerAckCalls DEF CallsInv, BrokerAcks
  <2>3. CASE ~HandleRequest(c) /\ ~BrokerAcks(c)
    BY <1>1, <1>3, <2>3, QuietCalls DEF CallsInv
  <2> QED
    BY <2>1, <2>2, <2>3
<1>4. CASE UNCHANGED vars
  <2>1. UNCHANGED <<outcome, call, answer, reqChan, sent>>
    BY <1>4 DEF vars, apiVars, streamVars, brokerVars
  <2> QED
    BY <1>1, <2>1 DEF CallsInv, CallPending, FreshUnsent, Fresh, Unsent, InChannel, OnStream
<1> QED
  BY <1>2, <1>3, <1>4 DEF Next

\* A publish() or subscribe() that returned an error is nowhere between the caller
\* and the broker, and stays so.
THEOREM FailedIsUnsent == Spec => []FailedMeansUnsent
<1>1. CallsInv => FailedMeansUnsent
  BY DEF CallsInv, FreshUnsent, Fresh, Unsent, InChannel, OnStream, FailedMeansUnsent
<1> QED
  BY <1>1, InitCallsInv, StepCallsInv, PTL DEF Spec

-----------------------------------------------------------------------------
(* Refinement of AckedCalls.                                               *)

AnsweredRequests == {r \in Requests : answer[r] # "none"}
promiseVars == <<outcome, AnsweredRequests>>

LEMMA InitPromise == Init => Promise!Init
BY DEF Init, Promise!Init

LEMMA ClientPromise ==
    ASSUME CallsInv, ClientStep PROVE [Promise!Next]_promiseVars
<1>t. /\ outcome \in [Requests -> {"unused", "pending", "ok", "err", "cancelled"}]
      /\ call.op \in {"sending", "awaitAck"} => call.req \in Requests
      /\ notified \subseteq Requests
  BY DEF CallsInv, IInv, TypeOK, ApiType, ChannelType
<1>0. AnsweredRequests' = AnsweredRequests
  BY DEF ClientStep, CallConnect, ConnectInitFails, ConnectSpawns, ConnectReturns,
     CallRequest, RequestEnqueue, RequestReturns, RequestSendFails, CallRcv, ReceiveReturns,
     ReceiveFails, CancelCall, brokerVars, AnsweredRequests
<1>1. ASSUME NEW r \in Requests, CallRequest(r) PROVE [Promise!Next]_promiseVars
  <2>1. Promise!Call(r) \/ Promise!FailAtOnce(r)
    BY <1>0, <1>1 DEF CallRequest, Promise!Call, Promise!FailAtOnce, Promise!Becomes,
       AnsweredRequests
  <2> QED
    BY <2>1 DEF Promise!Next
<1>2. CASE RequestReturns
  <2>1. call.req \in Requests /\ answer[call.req] # "none" /\ outcome[call.req] = "pending"
    BY <1>t, <1>2 DEF RequestReturns, CallsInv, IInv, InFlight, NotifiedAnswered, CallPending
  <2>2. Promise!Succeed(call.req)
    BY <1>0, <1>2, <2>1 DEF RequestReturns, Promise!Succeed, Promise!Becomes, AnsweredRequests
  <2> QED
    BY <2>1, <2>2 DEF Promise!Next
<1>3. CASE RequestSendFails
  <2>1. call.op = "sending" /\ call.req \in Requests
    BY <1>t, <1>3 DEF RequestSendFails, FailsWhenEnded
  <2>2. answer[call.req] = "none" /\ outcome[call.req] = "pending"
    BY <2>1 DEF CallsInv, CallPending, FreshUnsent, Fresh, Unsent
  <2>3. Promise!Fail(call.req)
    BY <1>0, <1>3, <2>1, <2>2 DEF RequestSendFails, Promise!Fail, Promise!Becomes, AnsweredRequests
  <2> QED
    BY <2>1, <2>3 DEF Promise!Next
<1>4. CASE CancelCall
  <2>1. CASE call.req \in Requests
    <3>1. Promise!GiveUp(call.req)
      BY <1>0, <1>4, <2>1 DEF CancelCall, CallsInv, CallPending, Promise!GiveUp,
         Promise!Becomes, AnsweredRequests
    <3> QED
      BY <2>1, <3>1 DEF Promise!Next
  <2>2. CASE call.req \notin Requests
    BY <1>0, <1>4, <2>2 DEF CancelCall, promiseVars
  <2> QED
    BY <2>1, <2>2
<1>5. CASE \/ CallConnect \/ ConnectInitFails \/ ConnectSpawns \/ ConnectReturns
           \/ RequestEnqueue \/ CallRcv \/ ReceiveReturns \/ ReceiveFails
  <2>1. outcome' = outcome
    BY <1>5 DEF CallConnect, ConnectInitFails, ConnectSpawns, ConnectReturns, RequestEnqueue,
       CallRcv, ReceiveReturns, ReceiveFails, apiVars
  <2> QED
    BY <1>0, <2>1 DEF promiseVars
<1> QED
  BY <1>1, <1>2, <1>3, <1>4, <1>5 DEF ClientStep

\* An answer the broker gave is Answer, or nothing new.
LEMMA BrokerAckPromise ==
    ASSUME CallsInv, NEW c \in Conns, NEW p \in sent[c], NEW a \in {"ok", "refused"},
           BrokerAck(c, p, a)
    PROVE  [Promise!Next]_promiseVars
<1>1. /\ p.req \in Requests /\ answer' = [answer EXCEPT ![p.req] = a] /\ outcome' = outcome
      /\ answer \in [Requests -> {"none", "ok", "refused"}]
      /\ outcome \in [Requests -> {"unused", "pending", "ok", "err", "cancelled"}]
  BY DEF BrokerAck, BrokerAnswers, RequestPackets, apiVars, CallsInv, IInv, TypeOK, PeerType,
     ApiType
<1>2. \A r \in Requests : answer'[r] = IF r = p.req THEN a ELSE answer[r]
  BY <1>1
<1>3. AnsweredRequests' = AnsweredRequests \cup {p.req}
  BY <1>1, <1>2 DEF AnsweredRequests
<1>4. CASE p.req \in AnsweredRequests
  BY <1>1, <1>3, <1>4 DEF promiseVars
<1>5. CASE p.req \notin AnsweredRequests
  <2>1. OnStream(p.req)
    BY DEF OnStream
  <2>2. outcome[p.req] \notin {"unused", "err"}
    BY <1>1, <2>1 DEF CallsInv, FreshUnsent, Fresh, Unsent
  <2>3. outcome[p.req] # "ok"
    BY <1>1, <1>5 DEF CallsInv, IInv, OkMeansAnswered, AnsweredRequests
  <2>4. Promise!Answer(p.req)
    BY <1>1, <1>3, <1>5, <2>2, <2>3 DEF Promise!Answer, AnsweredRequests
  <2> QED
    BY <1>1, <2>4 DEF Promise!Next
<1> QED
  BY <1>4, <1>5

\* Every call of publish() and subscribe() keeps the promise of AckedCalls.
THEOREM ClientImplementsAckedCalls == Spec => ImplementsAckedCalls
<1>1. ASSUME CallsInv, [Next]_vars PROVE [Promise!Next]_promiseVars
  <2>1. CASE ClientStep
    BY <1>1, <2>1, ClientPromise
  <2>2. ASSUME NEW c \in Conns, ConnectionStep(c) \/ PeerStep(c)
        PROVE  [Promise!Next]_promiseVars
    <3>1. CASE HandleRequest(c)
      BY <3>1 DEF HandleRequest, apiVars, brokerVars, promiseVars, AnsweredRequests
    <3>2. CASE BrokerAcks(c)
      BY <1>1, <3>2, BrokerAckPromise DEF BrokerAcks
    <3>3. CASE ~HandleRequest(c) /\ ~BrokerAcks(c)
      <4>1. UNCHANGED <<outcome, answer>>
        BY <1>1, <2>2, <3>3, QuietCalls
      <4> QED
        BY <4>1 DEF promiseVars, AnsweredRequests
    <3> QED
      BY <3>1, <3>2, <3>3
  <2>3. CASE UNCHANGED vars
    BY <2>3 DEF vars, apiVars, brokerVars, promiseVars, AnsweredRequests
  <2> QED
    BY <1>1, <2>1, <2>2, <2>3 DEF Next
<1>2. Promise!Init /\ [][Promise!Next]_promiseVars => ImplementsAckedCalls
  BY DEF ImplementsAckedCalls, Promise!Spec, promiseVars, AnsweredRequests
<1> QED
  BY <1>1, <1>2, InitPromise, InitCallsInv, StepCallsInv, PTL DEF Spec

=============================================================================

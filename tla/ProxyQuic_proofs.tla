---------------------------- MODULE ProxyQuic_proofs ----------------------------
(***************************************************************************)
(* Proofs about ProxyQuic, for any number of clients and tasks and any     *)
(* capacity of the two channels.                                           *)
(***************************************************************************)
EXTENDS ProxyQuic, SequenceTheorems, TLAPS

-----------------------------------------------------------------------------
(* Type correctness.                                                       *)

\* What the types rest on: a task that was started has a client, and the main
\* loop past its receive has a datagram and, to forward it, a task.
ServesClient == \A t \in Tasks : pc[t] # "free" => client[t] \in Clients
MainHolds ==
    /\ main.at \in {"forward", "initial"} => main.pkt \in Datagrams
    /\ main.at = "forward" => main.task \in Tasks
TypeInv == TypeOK /\ ServesClient /\ MainHolds

LEMMA InitTypeInv == Init => TypeInv
<1> SUFFICES ASSUME Init PROVE TypeInv
  OBVIOUS
<1> USE ProxyAssumption DEF Init, ProxyAssumption
<1>1. mainChan \in Seq(Replies) /\ Len(mainChan) <= MainCapacity
  OBVIOUS
<1>2. rx \in [Tasks -> Seq(Datagrams)] /\ \A t \in Tasks : Len(rx[t]) <= ClientCapacity
  OBVIOUS
<1>3. main \in [at : {"select", "deaf", "forward", "initial", "stopped"},
                pkt : Datagrams \cup {NoPacket}, task : {0} \cup Tasks]
  BY DEF Select
<1>4. TypeOK
  BY <1>1, <1>2, <1>3 DEF TypeOK, Blocking, Running, Codes
<1> QED
  BY <1>4 DEF TypeInv, ServesClient, MainHolds, Select

\* A connection id, and the HMAC of it, are connection ids.
LEMMA IdTypes ==
    ASSUME NEW d \in Datagrams
    PROVE  /\ d.client \in Clients
           /\ Dcid(d) \in ConnIds /\ Dcid(d)[1] = d.client
           /\ Hmac(Dcid(d)) \in ConnIds /\ Hmac(Dcid(d))[1] = d.client
  BY DEF Datagrams, Dcid, Hmac, ConnIds

\* A reply joins the channel if there is room.
LEMMA ReplyType ==
    ASSUME mainChan \in Seq(Replies), Len(mainChan) <= MainCapacity, NEW r \in Replies, Room
    PROVE  Append(mainChan, r) \in Seq(Replies) /\ Len(Append(mainChan, r)) <= MainCapacity
<1>1. /\ Append(mainChan, r) \in Seq(Replies)
      /\ Len(Append(mainChan, r)) = Len(mainChan) + 1
  BY AppendProperties
<1>2. Len(mainChan) \in Nat /\ MainCapacity \in Nat
  BY LenProperties, ProxyAssumption DEF ProxyAssumption
<1> QED
  BY <1>1, <1>2 DEF Room

\* The main loop's own steps.
LEMMA MainStepType == ASSUME TypeInv, MainStep PROVE TypeInv'
<1> USE DEF TypeInv, TypeOK
<1> DEFINE Main == [at : {"select", "deaf", "forward", "initial", "stopped"},
                    pkt : Datagrams \cup {NoPacket}, task : {0} \cup Tasks]
<1>0. Select \in Main /\ Select.at = "select"
  BY DEF Select
<1>1. ASSUME NEW d \in Datagrams, MainReceive(d) PROVE TypeInv'
  <2>1. Lookup(d) \in {0} \cup Tasks
    BY IdTypes DEF Lookup
  <2>2. main' \in Main
    BY <1>0, <1>1, <2>1 DEF MainReceive
  <2>3. MainHolds'
    BY <1>0, <1>1, <2>1 DEF MainReceive, MainHolds
  <2>4. UNCHANGED <<net, mainChan, table, cancelled, taskVars>>
    BY <1>1 DEF MainReceive
  <2> HIDE DEF Main
  <2> QED
    BY <2>2, <2>3, <2>4 DEF taskVars, ServesClient, Main
<1>2. CASE MainForward
  <2>1. main' \in Main /\ MainHolds'
    BY <1>0, <1>2 DEF MainForward, MainHolds
  <2>2. main.task \in Tasks /\ main.pkt \in Datagrams
    BY <1>2 DEF MainForward, MainHolds
  <2>3. rx' \in [Tasks -> Seq(Datagrams)] /\ \A t \in Tasks : Len(rx'[t]) <= ClientCapacity
    <3>1. /\ Append(rx[main.task], main.pkt) \in Seq(Datagrams)
          /\ Len(Append(rx[main.task], main.pkt)) = Len(rx[main.task]) + 1
      BY <2>2, AppendProperties
    <3>2. Len(rx[main.task]) \in Nat /\ ClientCapacity \in Nat
      BY <2>2, LenProperties, ProxyAssumption DEF ProxyAssumption
    <3>3. \/ rx' = rx
          \/ /\ rx' = [rx EXCEPT ![main.task] = Append(@, main.pkt)]
             /\ Len(rx[main.task]) < ClientCapacity
      BY <1>2 DEF MainForward
    <3>4. \A t \in Tasks : rx'[t] = rx[t] \/ (t = main.task /\ rx'[t] = Append(rx[t], main.pkt)
                                             /\ Len(rx[t]) < ClientCapacity)
      BY <2>2, <3>3
    <3>5. rx' \in [Tasks -> Seq(Datagrams)]
      BY <2>2, <3>1, <3>3
    <3>6. \A t \in Tasks : Len(rx'[t]) <= ClientCapacity
      <4> TAKE t \in Tasks
      <4>1. CASE rx'[t] = rx[t]
        BY <4>1
      <4>2. CASE rx'[t] # rx[t]
        <5>1. t = main.task /\ rx'[t] = Append(rx[t], main.pkt) /\ Len(rx[t]) < ClientCapacity
          BY <3>4, <4>2
        <5> HIDE DEF TypeInv, TypeOK
        <5> QED
          BY <3>1, <3>2, <5>1
      <4> QED
        BY <4>1, <4>2
    <3> QED
      BY <3>5, <3>6
  <2>4. cancelled' \in [Tasks -> BOOLEAN]
    BY <1>2, <2>2 DEF MainForward
  <2>5. UNCHANGED <<net, mainChan, table, client, pc, quic, cert, late, out, tcp, closeCode, forwarded>>
    BY <1>2 DEF MainForward
  <2> QED
    BY <2>1, <2>3, <2>4, <2>5 DEF ServesClient
<1>3. CASE MainReplies
  <2>1. main' \in Main /\ MainHolds'
    BY <1>0, <1>3 DEF MainReplies, MainHolds
  <2>2. main.pkt.client \in Clients
    BY <1>3, IdTypes DEF MainReplies, MainHolds
  <2>3. /\ [kind |-> "versions", client |-> main.pkt.client] \in Replies
        /\ [kind |-> "retry", client |-> main.pkt.client] \in Replies
    BY <2>2 DEF Replies
  <2>4. mainChan' \in Seq(Replies) /\ Len(mainChan') <= MainCapacity
    BY <1>3, <2>3, ReplyType DEF MainReplies, Reply
  <2> QED
    BY <1>3, <2>1, <2>4 DEF MainReplies, taskVars, ServesClient
<1>4. CASE MainAccepts
  <2>1. main' \in Main /\ MainHolds'
    BY <1>0, <1>4 DEF MainAccepts, MainHolds
  <2>2. main.pkt.client \in Clients /\ Dcid(main.pkt) \in ConnIds
    BY <1>4, IdTypes DEF MainAccepts, MainHolds
  <2> DEFINE t == CHOOSE t \in Free : TRUE
  <2>3. t \in Tasks
    BY <1>4 DEF MainAccepts, Free
  <2>4. /\ table' = [table EXCEPT ![Dcid(main.pkt)] = t]
        /\ client' = [client EXCEPT ![t] = main.pkt.client]
        /\ pc' = [pc EXCEPT ![t] = "initialSend"]
        /\ out' = [out EXCEPT ![t] = {"quic"}]
        /\ UNCHANGED <<net, mainChan, cancelled, rx, quic, cert, late, tcp, closeCode, forwarded>>
    BY <1>4 DEF MainAccepts
  <2> HIDE DEF t
  <2>5. ServesClient'
    BY <2>2, <2>3, <2>4 DEF ServesClient
  <2> QED
    BY <2>1, <2>2, <2>3, <2>4, <2>5 DEF Running, Blocking
<1>5. CASE MainRejects
  BY <1>0, <1>5 DEF MainRejects, taskVars, ServesClient, MainHolds
<1>6. CASE MainSends
  <2>1. /\ Head(mainChan) \in Replies
        /\ Tail(mainChan) \in Seq(Replies)
        /\ Len(Tail(mainChan)) = Len(mainChan) - 1
    BY <1>6, HeadTailProperties DEF MainSends
  <2>2. Len(mainChan) \in Nat /\ MainCapacity \in Nat
    BY LenProperties, ProxyAssumption DEF ProxyAssumption
  <2>3. Response(Head(mainChan)) \subseteq Datagrams
    BY <2>1 DEF Response, Replies, Datagrams
  <2>4. main' \in Main /\ main'.at = "select"
    BY <1>0, <1>6 DEF MainSends
  <2> QED
    BY <1>6, <2>1, <2>2, <2>3, <2>4 DEF MainSends, taskVars, ServesClient, MainHolds
<1>7. CASE MainStops
  <2>1. main' \in Main /\ main'.at = "stopped"
    BY <1>0, <1>7 DEF MainStops, Select
  <2>2. mainChan' \in Seq(Replies) /\ Len(mainChan') <= MainCapacity
    BY <1>7, ProxyAssumption DEF MainStops, ProxyAssumption
  <2> QED
    BY <1>7, <2>1, <2>2 DEF MainStops, taskVars, ServesClient, MainHolds
<1>8. CASE MainReceiveFails
  <2>1. main' \in Main /\ main'.at = "deaf"
    BY <1>0, <1>8 DEF MainReceiveFails, Select
  <2> QED
    BY <1>8, <2>1 DEF MainReceiveFails, taskVars, ServesClient, MainHolds
<1> QED
  BY <1>1, <1>2, <1>3, <1>4, <1>5, <1>6, <1>7, <1>8 DEF MainStep

\* A step of a task that takes at most the first datagram from its channel and
\* puts at most one reply into the main channel.
LEMMA TaskSendsType == ASSUME TypeInv, NEW t \in Tasks, TaskSends(t) PROVE TypeInv'
<1> USE DEF TypeInv, TypeOK
<1>1. client[t] \in Clients
  BY DEF TaskSends, Blocking, ServesClient
<1>2. \A k \in {"close", "quic"} :
        /\ Append(mainChan, [kind |-> k, client |-> client[t]]) \in Seq(Replies)
        /\ Len(Append(mainChan, [kind |-> k, client |-> client[t]])) <= MainCapacity
  BY <1>1, ReplyType DEF TaskSends, Replies
<1>3. mainChan' \in Seq(Replies) /\ Len(mainChan') <= MainCapacity
  BY <1>2 DEF TaskSends
<1>4. /\ quic' \in [Tasks -> {"handshake", "established", "closing", "draining", "closed"}]
      /\ out' \in [Tasks -> SUBSET {"quic", "close"}]
  BY DEF TaskSends
<1> QED
  BY <1>3, <1>4 DEF TaskSends, ServesClient, MainHolds

\* What conn.close() leaves has its type.
LEMMA CloseType ==
    ASSUME TypeOK, NEW t \in Tasks, NEW next \in Running, NEW code \in Codes,
           NEW q \in {"handshake", "established", "closing", "draining", "closed"},
           Close(t, q, code, next)
    PROVE  /\ pc' \in [Tasks -> {"free", "returned", "removed", "gone"} \cup Running]
           /\ quic' \in [Tasks -> {"handshake", "established", "closing", "draining", "closed"}]
           /\ out' \in [Tasks -> SUBSET {"quic", "close"}]
           /\ closeCode' \in [Tasks -> Codes]
           /\ pc'[t] # "free" /\ \A u \in Tasks \ {t} : pc'[u] = pc[u]
<1>1. PICK w \in {next, "returned"} : pc' = [pc EXCEPT ![t] = w]
  BY DEF Close, Goto
<1>2. w \in {"returned"} \cup Running /\ w # "free"
  BY DEF Running, Blocking
<1>3. /\ pc' \in [Tasks -> {"free", "returned", "removed", "gone"} \cup Running]
      /\ pc'[t] # "free" /\ \A u \in Tasks \ {t} : pc'[u] = pc[u]
  BY <1>1, <1>2 DEF TypeOK
<1>4. /\ quic' \in [Tasks -> {"handshake", "established", "closing", "draining", "closed"}]
      /\ out' \in [Tasks -> SUBSET {"quic", "close"}]
      /\ closeCode' \in [Tasks -> Codes]
  <2>1. CASE q \in {"closing", "draining"}
    <3>1. quic' = [quic EXCEPT ![t] = q] /\ out' = out /\ closeCode' = closeCode
      BY <2>1 DEF Close
    <3> QED
      BY <3>1 DEF TypeOK
  <2>2. CASE q \notin {"closing", "draining"}
    <3>1. /\ quic' = [quic EXCEPT ![t] = "closing"]
          /\ out' = [out EXCEPT ![t] = {"close"}]
          /\ closeCode' = [closeCode EXCEPT ![t] = code]
      BY <2>2 DEF Close
    <3>2. {"close"} \in SUBSET {"quic", "close"}
      OBVIOUS
    <3> QED
      BY <3>1, <3>2 DEF TypeOK
  <2> QED
    BY <2>1, <2>2
<1> QED
  BY <1>3, <1>4

LEMMA TaskReceivesType == ASSUME TypeInv, NEW t \in Tasks, TaskReceives(t) PROVE TypeInv'
<1> USE DEF TypeInv, TypeOK
<1>1. /\ Tail(rx[t]) \in Seq(Datagrams)
      /\ Len(Tail(rx[t])) = Len(rx[t]) - 1
  BY HeadTailProperties DEF TaskReceives
<1>2. Len(rx[t]) \in Nat /\ ClientCapacity \in Nat
  BY LenProperties, ProxyAssumption DEF ProxyAssumption
<1>3. rx' \in [Tasks -> Seq(Datagrams)] /\ \A u \in Tasks : Len(rx'[u]) <= ClientCapacity
  <2>1. rx' = [rx EXCEPT ![t] = Tail(rx[t])]
    BY DEF TaskReceives
  <2>2. Len(Tail(rx[t])) <= ClientCapacity
    BY <1>1, <1>2
  <2> QED
    BY <1>1, <2>1, <2>2
<1> DEFINE d == Head(rx[t])
<1>4. PICK q \in Effects(t, d) :
        /\ cert' = [cert EXCEPT ![t] = HasCert(t, q)]
        /\ forwarded' \in {forwarded} \cup
             (IF MayForward(t, d, q) THEN {[forwarded EXCEPT ![t] = TRUE]} ELSE {})
        /\ IF ~HasCert(t, q) /\ late[t]
             THEN Close(t, q, "noCert", "flush")
             ELSE /\ Goto(t, "flush")
                  /\ quic' = [quic EXCEPT ![t] = q]
                  /\ out' = [out EXCEPT ![t] =
                               CASE q \in {"handshake", "established"} -> {"quic"}
                                 [] q = "draining" -> {}
                                 [] OTHER -> @]
                  /\ closeCode' = closeCode
  BY DEF TaskReceives
<1> HIDE DEF d
<1>5. q \in {"handshake", "established", "closing", "draining", "closed"}
  BY DEF Effects
<1>6. cert' \in [Tasks -> BOOLEAN] /\ forwarded' \in [Tasks -> BOOLEAN]
  BY <1>4 DEF HasCert
<1>7. /\ pc' \in [Tasks -> {"free", "returned", "removed", "gone"} \cup Running]
      /\ quic' \in [Tasks -> {"handshake", "established", "closing", "draining", "closed"}]
      /\ out' \in [Tasks -> SUBSET {"quic", "close"}]
      /\ closeCode' \in [Tasks -> Codes]
      /\ pc'[t] # "free" /\ \A u \in Tasks \ {t} : pc'[u] = pc[u]
  <2>1. CASE ~HasCert(t, q) /\ late[t]
    <3>1. "flush" \in Running /\ "noCert" \in Codes
      BY DEF Running, Blocking, Codes
    <3> QED
      BY <1>4, <1>5, <2>1, <3>1, CloseType
  <2>2. CASE ~(~HasCert(t, q) /\ late[t])
    <3>1. quic' = [quic EXCEPT ![t] = q] /\ closeCode' = closeCode
      BY <1>4, <2>2
    <3>2. pc' = [pc EXCEPT ![t] = "flush"] /\ "flush" \in Running
      BY <1>4, <2>2 DEF Goto, Running, Blocking
    <3>3. PICK o : /\ out' = [out EXCEPT ![t] = o]
                   /\ o = {"quic"} \/ o = {} \/ o = out[t]
      BY <1>4, <2>2
    <3>4. o \in SUBSET {"quic", "close"}
      BY <3>3
    <3>5. out' \in [Tasks -> SUBSET {"quic", "close"}]
      BY <3>3, <3>4
    <3> QED
      BY <1>5, <3>1, <3>2, <3>5
  <2> QED
    BY <2>1, <2>2
<1>8. UNCHANGED <<net, main, mainChan, table, cancelled, client, late, tcp>>
  BY DEF TaskReceives
<1>9. pc[t] # "free"
  BY DEF TaskReceives, At
<1> QED
  BY <1>3, <1>6, <1>7, <1>8, <1>9 DEF ServesClient, MainHolds

\* The other steps of a task, and those around it.
LEMMA TaskStepType == ASSUME TypeInv, NEW t \in Tasks, TaskStep(t) PROVE TypeInv'
<1> USE DEF TypeInv
<1>1. CASE TaskSendFails(t) \/ TaskFlushed(t) \/ TaskFails(t)
  <2>1. PICK w \in {"returned", "tcpConnect", "select"} : pc' = [pc EXCEPT ![t] = w]
    BY <1>1 DEF TaskSendFails, TaskFlushed, TaskFails, Goto
  <2>2. w \in {"returned"} \cup Running /\ w # "free" /\ pc[t] # "free"
    BY <1>1 DEF TaskSendFails, TaskFlushed, TaskFails, At, Running, Blocking
  <2>3. /\ pc' \in [Tasks -> {"free", "returned", "removed", "gone"} \cup Running]
        /\ pc'[t] # "free" /\ \A u \in Tasks \ {t} : pc'[u] = pc[u]
    BY <2>1, <2>2 DEF TypeOK
  <2>4. UNCHANGED <<net, main, mainChan, table, cancelled, client, rx, quic, cert, late, out,
                    tcp, closeCode, forwarded>>
    BY <1>1 DEF TaskSendFails, TaskFlushed, TaskFails
  <2> QED
    BY <2>2, <2>3, <2>4 DEF TypeOK, ServesClient, MainHolds
<1>2. CASE TcpConnects(t) \/ TaskReadsEof(t)
  <2>1. {"select", "flush"} \subseteq Running /\ {"tcpRefused", "tcpClosed"} \subseteq Codes
    BY DEF Running, Blocking, Codes
  <2>2. /\ pc' \in [Tasks -> {"free", "returned", "removed", "gone"} \cup Running]
        /\ quic' \in [Tasks -> {"handshake", "established", "closing", "draining", "closed"}]
        /\ out' \in [Tasks -> SUBSET {"quic", "close"}]
        /\ closeCode' \in [Tasks -> Codes]
        /\ pc'[t] # "free" /\ \A u \in Tasks \ {t} : pc'[u] = pc[u]
    <3>1. quic[t] \in {"handshake", "established", "closing", "draining", "closed"}
      BY DEF TypeOK
    <3>2. CASE Close(t, quic[t], "tcpRefused", "select") \/ Close(t, quic[t], "tcpClosed", "flush")
      BY <2>1, <3>1, <3>2, CloseType
    <3>3. CASE Goto(t, "select") /\ UNCHANGED <<quic, out, closeCode>>
      BY <2>1, <3>3 DEF Goto, TypeOK
    <3> QED
      BY <1>2, <3>2, <3>3 DEF TcpConnects, TaskReadsEof, OnRefusal, OnEof
  <2>3. tcp' \in [Tasks -> {"none", "open", "eof"}] /\ pc[t] # "free"
    <3>1. tcp' = tcp \/ tcp' = [tcp EXCEPT ![t] = "open"]
      BY <1>2 DEF TcpConnects, TaskReadsEof
    <3>2. tcp' \in [Tasks -> {"none", "open", "eof"}]
      BY <3>1 DEF TypeOK
    <3> QED
      BY <1>2, <3>2 DEF TcpConnects, TaskReadsEof, At
  <2>4. UNCHANGED <<net, main, mainChan, table, cancelled, client, rx, cert, late, forwarded>>
    BY <1>2 DEF TcpConnects, TaskReadsEof
  <2> QED
    BY <2>2, <2>3, <2>4 DEF TypeOK, ServesClient, MainHolds
<1>3. CASE HandlerBreaks(t) \/ TimerFires(t) \/ TaskReadsBroker(t)
  <2>1. /\ pc' \in [Tasks -> {"free", "returned", "removed", "gone"} \cup Running]
        /\ pc'[t] # "free" /\ \A u \in Tasks \ {t} : pc'[u] = pc[u]
    <3>1. PICK w \in {"returned", "flush"} : pc' = [pc EXCEPT ![t] = w]
      BY <1>3 DEF HandlerBreaks, TimerFires, TaskReadsBroker, Goto
    <3>2. w \in {"returned"} \cup Running
      BY DEF Running, Blocking
    <3> QED
      BY <3>1, <3>2 DEF TypeOK
  <2>2. quic' \in [Tasks -> {"handshake", "established", "closing", "draining", "closed"}]
    BY <1>3 DEF HandlerBreaks, TimerFires, TaskReadsBroker, TypeOK
  <2>3. out' \in [Tasks -> SUBSET {"quic", "close"}] /\ pc[t] # "free"
    <3>1. out' = out \/ out' = [out EXCEPT ![t] = {"quic"}]
      BY <1>3 DEF HandlerBreaks, TimerFires, TaskReadsBroker
    <3>2. pc[t] # "free"
      BY <1>3 DEF HandlerBreaks, TimerFires, TaskReadsBroker, At
    <3>3. {"quic"} \in SUBSET {"quic", "close"}
      OBVIOUS
    <3>4. out' \in [Tasks -> SUBSET {"quic", "close"}]
      BY <3>1, <3>3 DEF TypeOK
    <3> QED
      BY <3>2, <3>4
  <2>4. UNCHANGED <<net, main, mainChan, table, cancelled, client, rx, cert, late, tcp,
                    closeCode, forwarded>>
    BY <1>3 DEF HandlerBreaks, TimerFires, TaskReadsBroker
  <2> QED
    BY <2>1, <2>2, <2>3, <2>4 DEF TypeOK, ServesClient, MainHolds
<1>4. CASE TaskRemoves(t)
  <2>1. table' \in [ConnIds -> {0} \cup Tasks]
    BY <1>4 DEF TaskRemoves, TypeOK
  <2> QED
    BY <1>4, <2>1 DEF TaskRemoves, TypeOK, Goto, At, ServesClient, MainHolds
<1>5. CASE TaskEnds(t)
  <2>1. rx' \in [Tasks -> Seq(Datagrams)] /\ \A u \in Tasks : Len(rx'[u]) <= ClientCapacity
    BY <1>5, EmptySeq, ProxyAssumption DEF TaskEnds, TypeOK, ProxyAssumption
  <2> QED
    BY <1>5, <2>1 DEF TaskEnds, TypeOK, Goto, At, Codes, ServesClient, MainHolds
<1> QED
  BY <1>1, <1>2, <1>3, <1>4, <1>5, TaskSendsType, TaskReceivesType DEF TaskStep

LEMMA StepTypeInv == TypeInv /\ [Next]_vars => TypeInv'
<1> SUFFICES ASSUME TypeInv, [Next]_vars PROVE TypeInv'
  OBVIOUS
<1>1. CASE MainStep \/ \E t \in Tasks : TaskStep(t)
  BY <1>1, MainStepType, TaskStepType
<1>2. ASSUME NEW c \in Clients, ClientStarts(c) PROVE TypeInv'
  <2>1. net' \subseteq Datagrams
    BY <1>2, ProxyAssumption DEF ClientStarts, TypeInv, TypeOK, Datagrams, ProxyAssumption
  <2> QED
    BY <1>2, <2>1 DEF ClientStarts, TypeInv, TypeOK, taskVars, ServesClient, MainHolds
<1>3. ASSUME NEW t \in Tasks, CertTimerElapses(t) \/ BrokerCloses(t) PROVE TypeInv'
  <2>1. late' \in [Tasks -> BOOLEAN] /\ tcp' \in [Tasks -> {"none", "open", "eof"}]
    <3>1. CASE CertTimerElapses(t)
      BY <3>1 DEF CertTimerElapses, TypeInv, TypeOK
    <3>2. CASE BrokerCloses(t)
      BY <3>2 DEF BrokerCloses, TypeInv, TypeOK
    <3> QED
      BY <1>3, <3>1, <3>2
  <2>2. UNCHANGED <<net, main, mainChan, table, cancelled, client, pc, rx, quic, cert, out,
                    closeCode, forwarded>>
    BY <1>3 DEF CertTimerElapses, BrokerCloses
  <2> QED
    BY <2>1, <2>2 DEF TypeInv, TypeOK, ServesClient, MainHolds
<1>4. CASE UNCHANGED vars
  BY <1>4 DEF vars, taskVars, TypeInv, TypeOK, ServesClient, MainHolds
<1> QED
  BY <1>1, <1>2, <1>3, <1>4 DEF Next, Environment

\* Every variable of the proxy keeps its type, and no channel exceeds its capacity.
THEOREM ProxyTypeCorrect == Spec => []TypeOK
<1>1. TypeInv => TypeOK
  BY DEF TypeInv
<1> QED
  BY <1>1, InitTypeInv, StepTypeInv, PTL DEF Spec

-----------------------------------------------------------------------------
(* The table.                                                              *)

\* When the main loop is about to accept, nobody has the connection id: it
\* looked, and nobody but itself adds entries.
NewIdFree == main.at = "initial" /\ main.pkt.type = "retried" => table[Dcid(main.pkt)] = 0
TableInv == TypeInv /\ TableOwned /\ NewIdFree

\* Where a task may go: it starts once, and its end is final.
LEMMA TaskMoves ==
    ASSUME TypeInv, NEW t \in Tasks, TaskStep(t)
    PROVE  /\ \A u \in Tasks \ {t} : pc'[u] = pc[u]
           /\ UNCHANGED <<main, client, cancelled>>
           /\ \/ /\ pc[t] \in Running /\ pc'[t] \in Running \cup {"returned"}
                 /\ table' = table
              \/ /\ pc[t] = "returned" /\ pc'[t] = "removed"
                 /\ table' = [table EXCEPT ![<<client[t], 1>>] = 0]
              \/ /\ pc[t] = "removed" /\ pc'[t] = "gone"
                 /\ table' = table
<1>0. pc \in [Tasks -> {"free", "returned", "removed", "gone"} \cup Running]
  BY DEF TypeInv, TypeOK
<1>1. CASE TaskRemoves(t) \/ TaskEnds(t)
  BY <1>0, <1>1 DEF TaskRemoves, TaskEnds, At, Goto
<1>2. CASE ~(TaskRemoves(t) \/ TaskEnds(t))
  <2>1. UNCHANGED <<main, client, cancelled, table>>
    BY <1>2 DEF TaskStep, TaskSends, TaskSendFails, TaskFlushed, TcpConnects, HandlerBreaks,
       TimerFires, TaskReceives, TaskFails, TaskReadsBroker, TaskReadsEof
  <2>2. pc[t] \in Running
    BY <1>2 DEF TaskStep, TaskSends, TaskSendFails, TaskFlushed, TcpConnects, HandlerBreaks,
       TimerFires, TaskReceives, TaskFails, TaskReadsBroker, TaskReadsEof, At, Running
  <2>3. \/ pc' = pc
        \/ \E w \in {"tcpConnect", "select", "flush", "returned"} : pc' = [pc EXCEPT ![t] = w]
    BY <1>2 DEF TaskStep, TaskSends, TaskSendFails, TaskFlushed, TcpConnects, HandlerBreaks,
       TimerFires, TaskReceives, TaskFails, TaskReadsBroker, TaskReadsEof, Goto, Close, OnEof,
       OnRefusal
  <2>4. {"tcpConnect", "select", "flush"} \subseteq Running
    BY DEF Running, Blocking
  <2> QED
    BY <1>0, <2>1, <2>2, <2>3, <2>4
<1> QED
  BY <1>1, <1>2

LEMMA TableUnchanged ==
    ASSUME TableInv, Registered' = Registered, UNCHANGED <<table, client>>,
           main' = main \/ main'.at \notin {"forward", "initial"}
    PROVE  TableOwned' /\ NewIdFree'
  BY DEF TableInv, TableOwned, OwnsEntry, EntryIsOwned, ForwardsToOwner, NewIdFree

LEMMA TaskStepTable ==
    ASSUME TableInv, NEW t \in Tasks, TaskStep(t) PROVE TableOwned' /\ NewIdFree'
<1>0. TypeInv
  BY DEF TableInv
<1>1. CASE table' = table /\ pc[t] # "returned"
  <2>1. \A u \in Tasks : u \in Registered' <=> u \in Registered
    BY <1>0, <1>1, TaskMoves DEF Registered, Running, Blocking
  <2>2. Registered' = Registered
    BY <2>1 DEF Registered
  <2> QED
    BY <1>0, <1>1, <2>2, TaskMoves, TableUnchanged
<1>2. CASE pc[t] = "returned"
  <2>1. /\ pc'[t] = "removed"
        /\ table' = [table EXCEPT ![<<client[t], 1>>] = 0]
        /\ \A u \in Tasks \ {t} : pc'[u] = pc[u]
        /\ UNCHANGED <<main, client>>
    BY <1>0, <1>2, TaskMoves DEF Running, Blocking
  <2>2. Registered' = Registered \ {t} /\ t \in Registered
    BY <1>2, <2>1 DEF Registered, Running, Blocking
  <2>3. \A i \in ConnIds : table'[i] = IF i = <<client[t], 1>> THEN 0 ELSE table[i]
    BY <1>0, <2>1 DEF TypeInv, TypeOK
  <2>4. OwnsEntry'
    <3> SUFFICES ASSUME NEW u \in Registered \ {t} PROVE table'[<<client[u], 1>>] = u
      BY <2>1, <2>2 DEF OwnsEntry
    <3>1. table[<<client[u], 1>>] = u /\ table[<<client[t], 1>>] = t
      BY <2>2 DEF TableInv, TableOwned, OwnsEntry
    <3>2. <<client[u], 1>> \in ConnIds
      BY <1>0 DEF Registered, TypeInv, ServesClient, ConnIds, Running, Blocking
    <3> QED
      BY <2>3, <3>1, <3>2
  <2>5. EntryIsOwned'
    <3> SUFFICES ASSUME NEW i \in ConnIds, table'[i] # 0
                 PROVE  table'[i] \in Registered \ {t} /\ i = <<client[table'[i]], 1>>
      BY <2>1, <2>2 DEF EntryIsOwned
    <3>1. i # <<client[t], 1>> /\ table'[i] = table[i]
      BY <2>3
    <3>2. table[i] \in Registered /\ i = <<client[table[i]], 1>>
      BY <3>1 DEF TableInv, TableOwned, EntryIsOwned
    <3> QED
      BY <3>1, <3>2
  <2>6. ForwardsToOwner'
    BY <2>1 DEF ForwardsToOwner, TableInv, TableOwned
  <2>7. NewIdFree'
    <3> SUFFICES ASSUME main.at = "initial", main.pkt.type = "retried"
                 PROVE  table'[Dcid(main.pkt)] = 0
      BY <2>1 DEF NewIdFree
    <3>1. Dcid(main.pkt) \in ConnIds
      BY <1>0, IdTypes DEF TypeInv, MainHolds
    <3> QED
      BY <2>3, <3>1 DEF TableInv, NewIdFree
  <2> QED
    BY <2>4, <2>5, <2>6, <2>7 DEF TableOwned
<1> QED
  BY <1>0, <1>1, <1>2, TaskMoves DEF Running, Blocking

\* The lookup finds a task of the client that sent the datagram, or nothing.
LEMMA ReceiveTable ==
    ASSUME TableInv, NEW d \in Datagrams, MainReceive(d) PROVE TableOwned' /\ NewIdFree'
<1>1. UNCHANGED <<table, client, pc>>
  BY DEF MainReceive, taskVars
<1>2. Lookup(d) # 0 => client[Lookup(d)] = d.client
  <2>1. \A i \in ConnIds : table[i] # 0 => client[table[i]] = i[1]
    BY DEF TableInv, TableOwned, EntryIsOwned
  <2> QED
    BY <2>1, IdTypes DEF Lookup
<1>3. Lookup(d) = 0 => table[Dcid(d)] = 0
  BY DEF Lookup
<1>4. ForwardsToOwner'
  BY <1>1, <1>2 DEF MainReceive, ForwardsToOwner, Select
<1>5. NewIdFree'
  BY <1>1, <1>3 DEF MainReceive, NewIdFree, Select
<1> QED
  BY <1>1, <1>4, <1>5 DEF TableInv, TableOwned, OwnsEntry, EntryIsOwned, Registered

\* A new connection takes an id that nobody has.
LEMMA AcceptTable ==
    ASSUME TableInv, MainAccepts PROVE TableOwned' /\ NewIdFree'
<1> DEFINE t == CHOOSE t \in Free : TRUE
           c == main.pkt.client
<1>1. t \in Tasks /\ pc[t] = "free"
  BY DEF MainAccepts, Free
<1>2. /\ main.pkt \in Datagrams /\ c \in Clients
      /\ Dcid(main.pkt) = <<c, 1>> /\ <<c, 1>> \in ConnIds
      /\ table[<<c, 1>>] = 0
  <2>1. main.pkt \in Datagrams /\ main.pkt.type = "retried" /\ main.at = "initial"
    BY DEF MainAccepts, TableInv, TypeInv, MainHolds
  <2>2. Dcid(main.pkt) = <<c, 1>> /\ c \in Clients
    BY <2>1 DEF Dcid, Datagrams
  <2> QED
    BY <2>1, <2>2 DEF ConnIds, TableInv, NewIdFree
<1>3. /\ table' = [table EXCEPT ![<<c, 1>>] = t]
      /\ client' = [client EXCEPT ![t] = c]
      /\ pc' = [pc EXCEPT ![t] = "initialSend"]
      /\ main' = Select
  BY <1>2 DEF MainAccepts
<1> HIDE DEF t, c
<1>4. /\ \A i \in ConnIds : table'[i] = IF i = <<c, 1>> THEN t ELSE table[i]
      /\ \A u \in Tasks : client'[u] = IF u = t THEN c ELSE client[u]
      /\ \A u \in Tasks : pc'[u] = IF u = t THEN "initialSend" ELSE pc[u]
  BY <1>1, <1>2, <1>3 DEF TableInv, TypeInv, TypeOK
<1>5. Registered' = Registered \cup {t} /\ t \notin Registered
  BY <1>1, <1>4 DEF Registered, Running, Blocking
<1>6. OwnsEntry'
  <2> SUFFICES ASSUME NEW u \in Registered \cup {t} PROVE table'[<<client'[u], 1>>] = u
    BY <1>5 DEF OwnsEntry
  <2>1. CASE u = t
    BY <1>1, <1>2, <1>4, <2>1
  <2>2. CASE u # t
    <3>1. u \in Registered /\ u \in Tasks /\ client'[u] = client[u]
      BY <1>4, <2>2 DEF Registered
    <3>2. table[<<client[u], 1>>] = u /\ u # 0
      BY <3>1, ProxyAssumption DEF TableInv, TableOwned, OwnsEntry, Tasks, ProxyAssumption
    <3>3. <<client[u], 1>> \in ConnIds
      BY <3>1 DEF Registered, TableInv, TypeInv, ServesClient, ConnIds, Running, Blocking
    <3> QED
      BY <1>2, <1>4, <3>1, <3>2, <3>3
  <2> QED
    BY <2>1, <2>2
<1>7. EntryIsOwned'
  <2> SUFFICES ASSUME NEW i \in ConnIds, table'[i] # 0
               PROVE  table'[i] \in Registered \cup {t} /\ i = <<client'[table'[i]], 1>>
    BY <1>5 DEF EntryIsOwned
  <2>1. CASE i = <<c, 1>>
    BY <1>1, <1>4, <2>1
  <2>2. CASE i # <<c, 1>>
    <3>1. table'[i] = table[i] /\ table[i] \in Registered /\ i = <<client[table[i]], 1>>
      BY <1>4, <2>2 DEF TableInv, TableOwned, EntryIsOwned
    <3>2. table[i] # t /\ table[i] \in Tasks
      BY <1>5, <3>1 DEF Registered
    <3> QED
      BY <1>4, <3>1, <3>2
  <2> QED
    BY <2>1, <2>2
<1>8. ForwardsToOwner' /\ NewIdFree'
  BY <1>3 DEF ForwardsToOwner, NewIdFree, Select
<1> QED
  BY <1>6, <1>7, <1>8 DEF TableOwned

LEMMA StepTableInv == TableInv /\ [Next]_vars => TableInv'
<1> SUFFICES ASSUME TableInv, [Next]_vars PROVE TableInv'
  OBVIOUS
<1>0. TypeInv'
  BY StepTypeInv DEF TableInv
<1>1. ASSUME NEW d \in Datagrams, MainReceive(d) PROVE TableInv'
  BY <1>0, <1>1, ReceiveTable DEF TableInv
<1>2. CASE MainAccepts
  BY <1>0, <1>2, AcceptTable DEF TableInv
<1>3. ASSUME NEW t \in Tasks, TaskStep(t) PROVE TableInv'
  BY <1>0, <1>3, TaskStepTable DEF TableInv
<1>4. ASSUME \/ MainReceiveFails \/ MainForward \/ MainReplies \/ MainRejects \/ MainSends \/ MainStops
             \/ Environment \/ UNCHANGED vars
      PROVE  TableInv'
  <2>1. UNCHANGED <<table, client, pc>>
    BY <1>4 DEF MainForward, MainReplies, MainRejects, MainSends, MainStops, MainReceiveFails,
       Environment, ClientStarts, CertTimerElapses, BrokerCloses, vars, taskVars
  <2>2. main' = main \/ main'.at \in {"select", "deaf", "stopped"}
    BY <1>4 DEF MainForward, MainReplies, MainRejects, MainSends, MainStops, MainReceiveFails,
       Environment, ClientStarts, CertTimerElapses, BrokerCloses, vars, Select
  <2>3. Registered' = Registered
    BY <2>1 DEF Registered
  <2> QED
    BY <1>0, <2>1, <2>2, <2>3, TableUnchanged DEF TableInv
<1> QED
  BY <1>1, <1>2, <1>3, <1>4 DEF Next, MainStep

LEMMA InitTableInv == Init => TableInv
<1> SUFFICES ASSUME Init PROVE TableInv
  OBVIOUS
<1>1. Registered = {}
  BY DEF Init, Registered, Running, Blocking
<1>2. \A i \in ConnIds : table[i] = 0
  BY DEF Init
<1>3. main.at = "select"
  BY DEF Init, Select
<1> QED
  BY <1>1, <1>2, <1>3, InitTypeInv DEF TableInv, TableOwned, OwnsEntry, EntryIsOwned,
     ForwardsToOwner, NewIdFree

\* Every connection that has not ended has its entry in quic_connections, every
\* entry leads to such a connection, and what the main loop forwards after it
\* let go of the lock goes to a task of the client that sent it.
THEOREM TableIsOwned == Spec => []TableOwned
<1>1. TableInv => TableOwned
  BY DEF TableInv
<1> QED
  BY <1>1, InitTableInv, StepTableInv, PTL DEF Spec

-----------------------------------------------------------------------------
(* The tasks.                                                              *)

\* Only a client with a certificate has one on record, or its data forwarded.
Certified == \A t \in Tasks :
    cert[t] \/ forwarded[t] => client[t] \in CertClients /\ pc[t] # "free"

\* In the handler's loop, a connection that is not closing has its TCP stream.
LoopHasBroker == \A t \in Tasks :
    pc[t] \in {"select", "flush"} /\ quic[t] \in {"handshake", "established"} => tcp[t] # "none"

\* A CONNECTION_CLOSE that is due waits in front of the select!, no further.
ClosePending(t) == closeCode[t] \in {"noCert", "tcpClosed"} /\ "close" \in out[t]
CloseGoesFirst == \A t \in Tasks :
    ClosePending(t) /\ main.at # "stopped" => pc[t] = "flush"

TaskInv == /\ CancelledAreGone /\ Certified
           /\ LoopHasBroker /\ WritesHaveBroker /\ CloseGoesFirst
ProxyInv == TableInv /\ TaskInv

LEMMA InitTaskInv == Init => TaskInv
  BY DEF Init, TaskInv, CancelledAreGone, Certified, LoopHasBroker, WritesHaveBroker,
     CloseGoesFirst, ClosePending

\* A step of one task leaves the others alone.
LEMMA OtherTasks ==
    ASSUME TypeInv, NEW t \in Tasks, TaskStep(t), NEW u \in Tasks \ {t}
    PROVE  /\ quic'[u] = quic[u] /\ cert'[u] = cert[u] /\ out'[u] = out[u] /\ tcp'[u] = tcp[u]
           /\ closeCode'[u] = closeCode[u] /\ forwarded'[u] = forwarded[u] /\ pc'[u] = pc[u]
<1>1. pc'[u] = pc[u]
  BY TaskMoves
<1>2. CASE TaskSends(t) \/ TaskSendFails(t) \/ TaskFlushed(t) \/ HandlerBreaks(t) \/ TimerFires(t)
  BY <1>1, <1>2 DEF TaskSends, TaskSendFails, TaskFlushed, HandlerBreaks, TimerFires,
     TypeInv, TypeOK
<1>3. CASE TaskFails(t) \/ TaskReadsBroker(t) \/ TaskRemoves(t) \/ TaskEnds(t)
  BY <1>1, <1>3 DEF TaskFails, TaskReadsBroker, TaskRemoves, TaskEnds, TypeInv, TypeOK
<1>4. ASSUME NEW q, NEW code, NEW next, Close(t, q, code, next)
      PROVE  quic'[u] = quic[u] /\ out'[u] = out[u] /\ closeCode'[u] = closeCode[u]
  BY <1>4 DEF Close, TypeInv, TypeOK
<1>5. CASE TcpConnects(t) \/ TaskReadsEof(t)
  <2>1. tcp'[u] = tcp[u] /\ UNCHANGED <<cert, forwarded>>
    BY <1>5 DEF TcpConnects, TaskReadsEof, TypeInv, TypeOK
  <2>2. quic'[u] = quic[u] /\ out'[u] = out[u] /\ closeCode'[u] = closeCode[u]
    BY <1>4, <1>5 DEF TcpConnects, TaskReadsEof, OnEof, OnRefusal
  <2> QED
    BY <1>1, <2>1, <2>2
<1>6. CASE TaskReceives(t)
  <2> DEFINE d == Head(rx[t])
  <2>1. PICK q \in Effects(t, d) :
          /\ cert' = [cert EXCEPT ![t] = HasCert(t, q)]
          /\ forwarded' \in {forwarded} \cup
               (IF MayForward(t, d, q) THEN {[forwarded EXCEPT ![t] = TRUE]} ELSE {})
          /\ \/ Close(t, q, "noCert", "flush")
             \/ /\ quic' = [quic EXCEPT ![t] = q]
                /\ \E o : out' = [out EXCEPT ![t] = o]
                /\ closeCode' = closeCode
    BY <1>6 DEF TaskReceives
  <2> HIDE DEF d
  <2>2. cert'[u] = cert[u] /\ forwarded'[u] = forwarded[u]
    BY <2>1 DEF TypeInv, TypeOK
  <2>3. quic'[u] = quic[u] /\ out'[u] = out[u] /\ closeCode'[u] = closeCode[u]
    <3>1. CASE Close(t, q, "noCert", "flush")
      BY <1>4, <3>1
    <3>2. CASE ~Close(t, q, "noCert", "flush")
      BY <2>1, <3>2 DEF TypeInv, TypeOK
    <3> QED
      BY <3>1, <3>2
  <2>4. tcp'[u] = tcp[u]
    BY <1>6 DEF TaskReceives
  <2> QED
    BY <1>1, <2>2, <2>3, <2>4
<1> QED
  BY <1>2, <1>3, <1>5, <1>6 DEF TaskStep

\* What a step does to its own task, as far as TaskInv speaks of it.
OwnTaskInv(t) ==
    /\ cancelled[t] => pc[t] = "gone"
    /\ cert[t] \/ forwarded[t] => client[t] \in CertClients /\ pc[t] # "free"
    /\ pc[t] \in {"select", "flush"} /\ quic[t] \in {"handshake", "established"} => tcp[t] # "none"
    /\ forwarded[t] => tcp[t] # "none"
    /\ ClosePending(t) /\ main.at # "stopped" => pc[t] = "flush"

LEMMA TaskInvByTask == TaskInv <=> \A t \in Tasks : OwnTaskInv(t)
  BY DEF TaskInv, CancelledAreGone, Certified, LoopHasBroker, WritesHaveBroker,
     CloseGoesFirst, OwnTaskInv

\* What conn.close() leaves.
LEMMA CloseLeaves ==
    ASSUME TypeInv, NEW t \in Tasks, NEW q, NEW code, NEW next, Close(t, q, code, next)
    PROVE  \/ /\ pc'[t] = "returned" /\ quic'[t] = q
              /\ out'[t] = out[t] /\ closeCode'[t] = closeCode[t]
           \/ /\ pc'[t] = next /\ quic'[t] = "closing"
              /\ out'[t] = {"close"} /\ closeCode'[t] = code
  BY DEF Close, Goto, TypeInv, TypeOK

LEMMA SendsOwn ==
    ASSUME ProxyInv, NEW t \in Tasks,
           TaskSends(t) \/ TaskSendFails(t) \/ TaskFlushed(t)
    PROVE  OwnTaskInv(t)'
<1>1. OwnTaskInv(t) /\ TypeOK
  BY TaskInvByTask DEF ProxyInv, TableInv, TypeInv
<1>2. UNCHANGED <<main, cancelled, client, cert, tcp, closeCode, forwarded>>
  BY DEF TaskSends, TaskSendFails, TaskFlushed
<1>3. CASE TaskSends(t)
  <2>1. pc' = pc /\ out'[t] = {} /\ quic'[t] \in {quic[t], "draining"}
    BY <1>1, <1>3 DEF TaskSends, TypeOK
  <2> QED
    BY <1>1, <1>2, <2>1 DEF OwnTaskInv, ClosePending
<1>4. CASE TaskSendFails(t)
  BY <1>1, <1>2, <1>4 DEF TaskSendFails, OwnTaskInv, ClosePending, Goto, TypeOK, Blocking
<1>5. CASE TaskFlushed(t)
  <2>1. /\ UNCHANGED <<out, quic>> /\ out[t] = {}
        /\ \/ pc[t] = "initialSend" /\ pc'[t] = "tcpConnect"
           \/ pc[t] = "flush" /\ pc'[t] = "select"
    BY <1>1, <1>5 DEF TaskFlushed, Blocking, Goto, At, TypeOK
  <2> QED
    BY <1>1, <1>2, <2>1 DEF OwnTaskInv, ClosePending
<1> QED
  BY <1>3, <1>4, <1>5

LEMMA BrokerOwn ==
    ASSUME ProxyInv, NEW t \in Tasks,
           TcpConnects(t) \/ TaskReadsEof(t) \/ TaskReadsBroker(t)
    PROVE  OwnTaskInv(t)'
<1>1. OwnTaskInv(t) /\ TypeInv /\ TypeOK
  BY TaskInvByTask DEF ProxyInv, TableInv, TypeInv
<1>2. UNCHANGED <<main, cancelled, client, cert, forwarded>>
  BY DEF TcpConnects, TaskReadsEof, TaskReadsBroker
<1>3. CASE TcpConnects(t)
  <2>1. pc[t] = "tcpConnect"
    BY <1>3 DEF TcpConnects, At
  <2>2. CASE tcp' = [tcp EXCEPT ![t] = "open"] /\ Goto(t, "select") /\ UNCHANGED <<quic, out, closeCode>>
    BY <1>1, <1>2, <2>1, <2>2 DEF OwnTaskInv, ClosePending, Goto, TypeOK
  <2>3. CASE tcp' = tcp /\ Close(t, quic[t], "tcpRefused", "select")
    <3>1. \/ /\ pc'[t] = "returned" /\ out'[t] = out[t] /\ closeCode'[t] = closeCode[t]
          \/ /\ pc'[t] = "select" /\ quic'[t] = "closing" /\ closeCode'[t] = "tcpRefused"
      BY <1>1, <2>3, CloseLeaves
    <3> QED
      BY <1>1, <1>2, <2>1, <2>3, <3>1 DEF OwnTaskInv, ClosePending
  <2> QED
    BY <1>3, <2>2, <2>3 DEF TcpConnects, OnRefusal
<1>4. CASE TaskReadsEof(t)
  <2>1. pc[t] = "select" /\ tcp' = tcp
    BY <1>4 DEF TaskReadsEof, At
  <2>2. \/ /\ pc'[t] = "returned" /\ out'[t] = out[t] /\ closeCode'[t] = closeCode[t]
        \/ /\ pc'[t] = "flush" /\ quic'[t] = "closing"
    BY <1>1, <1>4, CloseLeaves DEF TaskReadsEof, OnEof
  <2> QED
    BY <1>1, <1>2, <2>1, <2>2 DEF OwnTaskInv, ClosePending
<1>5. CASE TaskReadsBroker(t)
  <2>1. pc[t] = "select" /\ pc'[t] = "flush" /\ tcp[t] = "open" /\ UNCHANGED <<tcp, quic, closeCode>>
    BY <1>1, <1>5 DEF TaskReadsBroker, At, Goto, TypeOK
  <2> QED
    BY <1>1, <1>2, <2>1 DEF OwnTaskInv
<1> QED
  BY <1>3, <1>4, <1>5

LEMMA LoopOwn ==
    ASSUME ProxyInv, NEW t \in Tasks,
           HandlerBreaks(t) \/ TimerFires(t) \/ TaskFails(t) \/ TaskRemoves(t) \/ TaskEnds(t)
    PROVE  OwnTaskInv(t)'
<1>1. OwnTaskInv(t) /\ TypeInv /\ TypeOK
  BY TaskInvByTask DEF ProxyInv, TableInv, TypeInv
<1>2. UNCHANGED <<main, cancelled, client>>
  BY DEF HandlerBreaks, TimerFires, TaskFails, TaskRemoves, TaskEnds
<1>3. CASE HandlerBreaks(t) \/ TaskFails(t)
  <2>1. /\ pc[t] = "select" /\ pc'[t] = "returned"
        /\ UNCHANGED <<out, tcp, cert, forwarded, closeCode>>
    BY <1>1, <1>3 DEF HandlerBreaks, TaskFails, At, Goto, TypeOK
  <2> QED
    BY <1>1, <1>2, <2>1 DEF OwnTaskInv, ClosePending
<1>4. CASE TimerFires(t)
  <2>1. /\ pc[t] = "select" /\ pc'[t] = "flush"
        /\ UNCHANGED <<quic, tcp, cert, forwarded, closeCode>>
    BY <1>1, <1>4 DEF TimerFires, At, Goto, TypeOK
  <2> QED
    BY <1>1, <1>2, <2>1 DEF OwnTaskInv
<1>5. CASE TaskRemoves(t)
  <2>1. /\ pc[t] = "returned" /\ pc'[t] = "removed"
        /\ UNCHANGED <<quic, out, tcp, cert, forwarded, closeCode>>
    BY <1>1, <1>5 DEF TaskRemoves, At, Goto, TypeOK
  <2> QED
    BY <1>1, <1>2, <2>1 DEF OwnTaskInv, ClosePending
<1>6. CASE TaskEnds(t)
  <2>1. /\ pc'[t] = "gone" /\ out'[t] = {} /\ ~cert'[t] /\ ~forwarded'[t]
    BY <1>1, <1>6 DEF TaskEnds, Goto, TypeOK
  <2> QED
    BY <1>1, <1>2, <2>1 DEF OwnTaskInv, ClosePending
<1> QED
  BY <1>3, <1>4, <1>5, <1>6

\* A datagram: the certificate is looked at before any data goes on.
LEMMA ReceivesOwn ==
    ASSUME ProxyInv, NEW t \in Tasks, TaskReceives(t) PROVE OwnTaskInv(t)'
<1>1. OwnTaskInv(t) /\ TypeInv /\ TypeOK
  BY TaskInvByTask DEF ProxyInv, TableInv, TypeInv
<1>2. UNCHANGED <<main, cancelled, client, tcp>> /\ pc[t] = "select"
  BY DEF TaskReceives, At
<1> DEFINE d == Head(rx[t])
<1>3. PICK q \in Effects(t, d) :
        /\ cert' = [cert EXCEPT ![t] = HasCert(t, q)]
        /\ forwarded' \in {forwarded} \cup
             (IF MayForward(t, d, q) THEN {[forwarded EXCEPT ![t] = TRUE]} ELSE {})
        /\ \/ Close(t, q, "noCert", "flush")
           \/ /\ Goto(t, "flush")
              /\ quic' = [quic EXCEPT ![t] = q]
  BY DEF TaskReceives
<1> HIDE DEF d
<1>4. q \in {"handshake", "established"} => quic[t] \in {"handshake", "established"}
  BY DEF Effects
<1>5. HasCert(t, q) => client[t] \in CertClients
  BY <1>1 DEF HasCert, OwnTaskInv
<1>6. /\ cert'[t] => client[t] \in CertClients
      /\ forwarded'[t] => forwarded[t] \/ MayForward(t, d, q)
  BY <1>1, <1>3, <1>5 DEF TypeOK
<1>7. MayForward(t, d, q) => client[t] \in CertClients /\ tcp[t] # "none"
  BY <1>1, <1>2, <1>5 DEF MayForward, Opened, OwnTaskInv
<1>8. CASE Close(t, q, "noCert", "flush")
  <2>1. \/ /\ pc'[t] = "returned" /\ out'[t] = out[t] /\ closeCode'[t] = closeCode[t]
        \/ /\ pc'[t] = "flush" /\ quic'[t] = "closing"
    BY <1>1, <1>8, CloseLeaves
  <2> QED
    BY <1>1, <1>2, <1>6, <1>7, <2>1 DEF OwnTaskInv, ClosePending
<1>9. CASE Goto(t, "flush") /\ quic' = [quic EXCEPT ![t] = q]
  <2>1. pc'[t] = "flush" /\ quic'[t] = q
    BY <1>1, <1>9 DEF Goto, TypeOK
  <2> QED
    BY <1>1, <1>2, <1>4, <1>6, <1>7, <2>1 DEF OwnTaskInv
<1> QED
  BY <1>3, <1>8, <1>9

LEMMA TaskStepInv ==
    ASSUME ProxyInv, NEW t \in Tasks, TaskStep(t) PROVE TaskInv'
<1>1. OwnTaskInv(t)'
  BY SendsOwn, BrokerOwn, LoopOwn, ReceivesOwn DEF TaskStep
<1>2. ASSUME NEW u \in Tasks \ {t} PROVE OwnTaskInv(u)'
  <2>1. OwnTaskInv(u)
    BY TaskInvByTask DEF ProxyInv
  <2>2. UNCHANGED <<main, client, cancelled>>
    BY TaskMoves DEF ProxyInv, TableInv
  <2>3. /\ quic'[u] = quic[u] /\ cert'[u] = cert[u] /\ out'[u] = out[u] /\ tcp'[u] = tcp[u]
        /\ closeCode'[u] = closeCode[u] /\ forwarded'[u] = forwarded[u] /\ pc'[u] = pc[u]
    BY OtherTasks DEF ProxyInv, TableInv
  <2> QED
    BY <2>1, <2>2, <2>3 DEF OwnTaskInv, ClosePending
<1>3. \A u \in Tasks : OwnTaskInv(u)'
  BY <1>1, <1>2
<1> QED
  BY <1>3 DEF TaskInv, CancelledAreGone, Certified, LoopHasBroker,
     WritesHaveBroker, CloseGoesFirst, OwnTaskInv

LEMMA MainStepInv ==
    ASSUME ProxyInv, MainStep \/ Environment \/ UNCHANGED vars PROVE TaskInv'
<1>0. TypeOK /\ TypeInv
  BY DEF ProxyInv, TableInv, TypeInv
<1>1. CASE MainForward
  <2>1. main.task \in Tasks
    BY <1>0, <1>1 DEF MainForward, TypeInv, MainHolds
  <2>2. \A t \in Tasks : cancelled'[t] => cancelled[t] \/ pc[t] = "gone"
    BY <1>0, <1>1, <2>1 DEF MainForward, ReceiverGone, TypeOK
  <2>3. main.at # "stopped" /\ UNCHANGED <<client, pc, quic, cert, out, tcp, closeCode, forwarded>>
    BY <1>1 DEF MainForward
  <2> QED
    BY <2>2, <2>3 DEF ProxyInv, TaskInv, CancelledAreGone, Certified, LoopHasBroker,
       WritesHaveBroker, CloseGoesFirst, ClosePending
<1>2. CASE MainAccepts
  <2> DEFINE t == CHOOSE t \in Free : TRUE
  <2>1. t \in Tasks /\ pc[t] = "free"
    BY <1>2 DEF MainAccepts, Free
  <2>2. /\ \A u \in Tasks : pc'[u] = IF u = t THEN "initialSend" ELSE pc[u]
        /\ \A u \in Tasks : out'[u] = IF u = t THEN {"quic"} ELSE out[u]
        /\ \A u \in Tasks \ {t} : client'[u] = client[u]
        /\ UNCHANGED <<cancelled, quic, cert, tcp, closeCode, forwarded>>
        /\ main.at # "stopped"
    BY <1>0, <1>2, <2>1 DEF MainAccepts, TypeOK
  <2> HIDE DEF t
  <2>3. \A u \in Tasks : OwnTaskInv(u)
    BY TaskInvByTask DEF ProxyInv
  <2>4. \A u \in Tasks : OwnTaskInv(u)'
    BY <2>1, <2>2, <2>3 DEF OwnTaskInv, ClosePending
  <2> QED
    BY <2>4 DEF TaskInv, CancelledAreGone, Certified, LoopHasBroker,
       WritesHaveBroker, CloseGoesFirst, OwnTaskInv
<1>3. CASE (MainStep /\ ~MainForward /\ ~MainAccepts) \/ (\E c \in Clients : ClientStarts(c))
           \/ UNCHANGED vars
  <2>1. UNCHANGED <<cancelled, client, pc, quic, cert, out, tcp, closeCode, forwarded>>
    BY <1>3 DEF MainStep, MainReceive, MainReplies, MainRejects, MainSends, MainStops,
       MainReceiveFails, ClientStarts, vars, taskVars
  <2>2. main'.at # "stopped" => main.at # "stopped"
    BY <1>3 DEF MainStep, MainReceive, MainReplies, MainRejects, MainSends, MainStops,
       MainReceiveFails, ClientStarts, vars, taskVars
  <2> QED
    BY <2>1, <2>2 DEF ProxyInv, TaskInv, CancelledAreGone, Certified, LoopHasBroker,
       WritesHaveBroker, CloseGoesFirst, ClosePending
<1>4. ASSUME NEW t \in Tasks, CertTimerElapses(t) \/ BrokerCloses(t) PROVE TaskInv'
  <2>1. \A u \in Tasks : tcp'[u] = tcp[u] \/ tcp'[u] = "eof"
    BY <1>0, <1>4 DEF CertTimerElapses, BrokerCloses, TypeOK
  <2>2. UNCHANGED <<main, cancelled, client, pc, quic, cert, out, closeCode, forwarded>>
    BY <1>4 DEF CertTimerElapses, BrokerCloses
  <2> QED
    BY <2>1, <2>2 DEF ProxyInv, TaskInv, CancelledAreGone, Certified, LoopHasBroker,
       WritesHaveBroker, CloseGoesFirst, ClosePending
<1> QED
  BY <1>1, <1>2, <1>3, <1>4 DEF Environment

LEMMA StepProxyInv == ProxyInv /\ [Next]_vars => ProxyInv'
  BY StepTableInv, TaskStepInv, MainStepInv DEF ProxyInv, Next
LEMMA InitProxyInv == Init => ProxyInv
  BY InitTableInv, InitTaskInv DEF ProxyInv

\* The cancel token fires only for a task that is gone.
THEOREM OnlyGoneAreCancelled == Spec => []CancelledAreGone
<1>1. ProxyInv => CancelledAreGone
  BY DEF ProxyInv, TaskInv
<1> QED
  BY <1>1, InitProxyInv, StepProxyInv, PTL DEF Spec

\* Nothing of a client without a certificate reaches the broker.
THEOREM CertificateFirst == Spec => []NoCertNoData
<1>1. ProxyInv => NoCertNoData
  BY DEF ProxyInv, TaskInv, Certified, NoCertNoData
<1> QED
  BY <1>1, InitProxyInv, StepProxyInv, PTL DEF Spec

\* The TCP stream the handler unwraps to write to the broker is there.
THEOREM UnwrapIsSafe == Spec => []WritesHaveBroker
<1>1. ProxyInv => WritesHaveBroker
  BY DEF ProxyInv, TaskInv
<1> QED
  BY <1>1, InitProxyInv, StepProxyInv, PTL DEF Spec

\* A client is told before the handler returns that the broker closed, or that
\* its certificate is missing.
THEOREM CloseIsSent == Spec => []ClientIsTold
<1>1. ProxyInv => ClientIsTold
  BY DEF ProxyInv, TaskInv, CloseGoesFirst, ClosePending, ClientIsTold, Told
<1> QED
  BY <1>1, InitProxyInv, StepProxyInv, PTL DEF Spec

-----------------------------------------------------------------------------
(* Refinement of Sessions.                                                 *)

LEMMA ClientsOfType ==
    ASSUME NEW s \in Seq(Datagrams)
    PROVE  /\ ClientsOf(s) \in Seq(Clients)
           /\ Len(ClientsOf(s)) = Len(s)
           /\ \A i \in 1..Len(s) : ClientsOf(s)[i] = s[i].client
<1>1. Len(s) \in Nat /\ \A i \in 1..Len(s) : s[i] \in Datagrams
  BY LenProperties, ElementOfSeq
<1>2. ClientsOf(s) \in [1..Len(s) -> Clients]
  BY <1>1, IdTypes DEF ClientsOf
<1>3. ClientsOf(s) \in Seq(Clients)
  BY <1>1, <1>2, SeqDef
<1>4. DOMAIN ClientsOf(s) = 1..Len(ClientsOf(s)) /\ Len(ClientsOf(s)) \in Nat
  BY <1>3, LenProperties
<1>5. 1..Len(ClientsOf(s)) = 1..Len(s)
  BY <1>2, <1>4
<1>6. Len(ClientsOf(s)) = Len(s)
  BY <1>1, <1>4, <1>5
<1> QED
  BY <1>3, <1>6 DEF ClientsOf

LEMMA ClientsOfAppend ==
    ASSUME NEW s \in Seq(Datagrams), NEW d \in Datagrams
    PROVE  ClientsOf(Append(s, d)) = Append(ClientsOf(s), d.client)
<1> DEFINE u == Append(s, d)
           v == Append(ClientsOf(s), d.client)
<1>1. /\ u \in Seq(Datagrams) /\ Len(u) = Len(s) + 1 /\ Len(s) \in Nat
      /\ \A i \in 1..(Len(s) + 1) : u[i] = IF i = Len(s) + 1 THEN d ELSE s[i]
  BY AppendProperties, LenProperties
<1>2. /\ v \in Seq(Clients) /\ Len(v) = Len(s) + 1
      /\ \A i \in 1..(Len(s) + 1) : v[i] = IF i = Len(s) + 1 THEN d.client ELSE s[i].client
  BY ClientsOfType, IdTypes, AppendProperties, <1>1
<1> HIDE DEF u, v
<1>3. /\ ClientsOf(u) \in Seq(Clients) /\ Len(ClientsOf(u)) = Len(u)
      /\ \A i \in 1..Len(u) : ClientsOf(u)[i] = u[i].client
  BY <1>1, ClientsOfType
<1>4. ClientsOf(u) = v
  BY <1>1, <1>2, <1>3, SeqEqual
<1> QED
  BY <1>4 DEF u, v

LEMMA ClientsOfTail ==
    ASSUME NEW s \in Seq(Datagrams), s # <<>>
    PROVE  ClientsOf(s) # <<>> /\ ClientsOf(Tail(s)) = Tail(ClientsOf(s))
<1> DEFINE u == Tail(s)
           w == ClientsOf(s)
           v == Tail(w)
<1>0. w \in Seq(Clients) /\ Len(w) = Len(s) /\ \A i \in 1..Len(s) : w[i] = s[i].client
  BY ClientsOfType
<1>1. /\ u \in Seq(Datagrams) /\ Len(u) = Len(s) - 1 /\ Len(s) \in Nat \ {0}
      /\ \A i \in 1..Len(u) : u[i] = s[i + 1]
  BY HeadTailProperties, LenProperties, EmptySeq
<1>2. w # <<>>
  BY <1>0, <1>1, EmptySeq
<1> HIDE DEF w
<1>3. /\ v \in Seq(Clients) /\ Len(v) = Len(s) - 1
      /\ \A i \in 1..Len(v) : v[i] = w[i + 1]
  BY <1>0, <1>2, HeadTailProperties
<1> HIDE DEF u, v
<1>4. \A i \in 1..Len(u) : v[i] = u[i].client
  <2> TAKE i \in 1..Len(u)
  <2>1. i + 1 \in 1..Len(s) /\ i \in 1..Len(v)
    BY <1>1, <1>3
  <2> QED
    BY <1>0, <1>1, <1>3, <2>1
<1>5. /\ ClientsOf(u) \in Seq(Clients) /\ Len(ClientsOf(u)) = Len(u)
      /\ \A i \in 1..Len(u) : ClientsOf(u)[i] = u[i].client
  BY <1>1, ClientsOfType
<1>6. ClientsOf(u) = v
  BY <1>1, <1>3, <1>4, <1>5, SeqEqual
<1> QED
  BY <1>2, <1>6 DEF u, v, w

\* A task that was never started has no client yet.
FreshTasks == \A t \in Tasks : pc[t] = "free" => client[t] = NoClient
SessionInv == TableInv /\ FreshTasks

LEMMA InitSessionInv == Init => SessionInv
  BY InitTableInv DEF SessionInv, FreshTasks, Init

\* Only MainAccepts starts a task, and it records the client with it.
LEMMA StepSessionInv == SessionInv /\ [Next]_vars => SessionInv'
<1> SUFFICES ASSUME SessionInv, [Next]_vars PROVE SessionInv'
  OBVIOUS
<1>0. TypeInv /\ TypeOK /\ FreshTasks
  BY DEF SessionInv, TableInv, TypeInv
<1>1. TableInv'
  BY StepTableInv DEF SessionInv
<1>2. CASE MainAccepts
  <2>1. PICK t \in Tasks : /\ client' = [client EXCEPT ![t] = main.pkt.client]
                           /\ pc' = [pc EXCEPT ![t] = "initialSend"]
    BY <1>2 DEF MainAccepts, Free
  <2>2. FreshTasks'
    BY <1>0, <2>1 DEF FreshTasks, TypeOK
  <2> QED
    BY <1>1, <2>2 DEF SessionInv
<1>3. ASSUME NEW t \in Tasks, TaskStep(t) PROVE SessionInv'
  <2>1. pc'[t] # "free" /\ client' = client /\ \A u \in Tasks \ {t} : pc'[u] = pc[u]
    BY <1>0, <1>3, TaskMoves DEF Running, Blocking
  <2> QED
    BY <1>0, <1>1, <2>1 DEF SessionInv, FreshTasks
<1>4. CASE (MainStep /\ ~MainAccepts) \/ Environment \/ UNCHANGED vars
  <2>1. UNCHANGED <<client, pc>>
    BY <1>4 DEF MainStep, MainReceive, MainForward, MainReplies, MainRejects, MainSends, MainStops,
       MainReceiveFails, Environment, ClientStarts, CertTimerElapses, BrokerCloses, vars, taskVars
  <2> QED
    BY <1>0, <1>1, <2>1 DEF SessionInv, FreshTasks
<1> QED
  BY <1>2, <1>3, <1>4 DEF Next

absVars == <<client, Registered, Inbox>>

LEMMA InitSessions == Init => Abstract!Init
<1> SUFFICES ASSUME Init PROVE Abstract!Init
  OBVIOUS
<1>1. client = [t \in Tasks |-> NoClient] /\ rx = [t \in Tasks |-> <<>>]
  BY DEF Init
<1>2. Registered = {}
  BY DEF Init, Registered, Running, Blocking
<1>3. ClientsOf(<<>>) = <<>>
  BY ClientsOfType, EmptySeq
<1>4. Inbox = [t \in Tasks |-> <<>>]
  BY <1>1, <1>3 DEF Inbox
<1> QED
  BY <1>1, <1>2, <1>4 DEF Abstract!Init

\* try_send() puts a datagram of the session's client before the session.
LEMMA ForwardIsPut ==
    ASSUME SessionInv, MainForward
    PROVE  Abstract!Next \/ UNCHANGED absVars
<1> DEFINE t == main.task
<1>0. TypeInv /\ TypeOK
  BY DEF SessionInv, TableInv, TypeInv
<1>1. /\ t \in Tasks /\ main.pkt \in Datagrams
      /\ main.pkt.client \in Clients /\ client[t] = main.pkt.client
  <2>1. t \in Tasks /\ main.pkt \in Datagrams
    BY <1>0 DEF MainForward, TypeInv, MainHolds
  <2> QED
    BY <2>1, IdTypes DEF MainForward, SessionInv, TableInv, TableOwned, ForwardsToOwner
<1>2. UNCHANGED <<client, Registered>>
  BY DEF MainForward, Registered
<1>3. rx' = rx \/ rx' = [rx EXCEPT ![t] = Append(@, main.pkt)]
  BY DEF MainForward
<1> HIDE DEF t
<1>4. CASE rx' = rx
  BY <1>2, <1>4 DEF absVars, Inbox
<1>5. CASE rx' = [rx EXCEPT ![t] = Append(@, main.pkt)]
  <2>1. \A u \in Tasks : rx[u] \in Seq(Datagrams)
    BY <1>0 DEF TypeOK
  <2>2. \A u \in Tasks : rx'[u] = IF u = t THEN Append(rx[t], main.pkt) ELSE rx[u]
    BY <1>0, <1>1, <1>5 DEF TypeOK
  <2>3. ClientsOf(rx'[t]) = Append(ClientsOf(rx[t]), client[t])
    BY <1>1, <2>1, <2>2, ClientsOfAppend
  <2>4. Inbox' = [Inbox EXCEPT ![t] = Append(@, client[t])]
    BY <1>1, <2>2, <2>3 DEF Inbox
  <2>5. client[t] # NoClient
    BY <1>1, ProxyAssumption DEF ProxyAssumption
  <2>6. Abstract!Put(t)
    BY <1>2, <2>4, <2>5 DEF Abstract!Put
  <2> QED
    BY <1>1, <2>6 DEF Abstract!Next
<1> QED
  BY <1>3, <1>4, <1>5

\* The insertion into the table opens a session: nobody has one for the client.
LEMMA AcceptIsOpen == ASSUME SessionInv, MainAccepts PROVE Abstract!Next
<1> DEFINE t == CHOOSE t \in Free : TRUE
           c == main.pkt.client
<1>0. TypeInv /\ TypeOK /\ FreshTasks /\ TableInv
  BY DEF SessionInv, TableInv, TypeInv
<1>1. t \in Tasks /\ pc[t] = "free"
  BY DEF MainAccepts, Free
<1>2. /\ main.pkt \in Datagrams /\ c \in Clients
      /\ Dcid(main.pkt) = <<c, 1>> /\ table[<<c, 1>>] = 0
  <2>1. main.pkt \in Datagrams /\ main.pkt.type = "retried" /\ main.at = "initial"
    BY <1>0 DEF MainAccepts, TypeInv, MainHolds
  <2>2. Dcid(main.pkt) = <<c, 1>> /\ c \in Clients
    BY <2>1 DEF Dcid, Datagrams
  <2> QED
    BY <1>0, <2>1, <2>2 DEF TableInv, NewIdFree
<1>3. /\ client' = [client EXCEPT ![t] = c]
      /\ pc' = [pc EXCEPT ![t] = "initialSend"]
      /\ rx' = rx
  BY DEF MainAccepts
<1> HIDE DEF t, c
<1>4. \A u \in Tasks : pc'[u] = IF u = t THEN "initialSend" ELSE pc[u]
  BY <1>0, <1>1, <1>3 DEF TypeOK
<1>5. Registered' = Registered \cup {t}
  BY <1>1, <1>4 DEF Registered, Running, Blocking
<1>6. \A u \in Registered : client[u] # c
  <2> SUFFICES ASSUME NEW u \in Registered PROVE client[u] # c
    OBVIOUS
  <2>1. table[<<client[u], 1>>] = u
    BY <1>0 DEF TableInv, TableOwned, OwnsEntry
  <2>2. u # 0
    BY ProxyAssumption DEF Registered, Tasks, ProxyAssumption
  <2> QED
    BY <1>2, <2>1, <2>2
<1>7. client[t] = NoClient
  BY <1>0, <1>1 DEF FreshTasks
<1>8. Inbox' = Inbox
  BY <1>3 DEF Inbox
<1>9. Abstract!Open(t, c)
  BY <1>3, <1>5, <1>6, <1>7, <1>8 DEF Abstract!Open
<1> QED
  BY <1>1, <1>2, <1>9 DEF Abstract!Next

\* A task takes what was put before it, closes its session when it removes its
\* entry, and loses what is left when it drops the receiver.
LEMMA TaskIsSession ==
    ASSUME SessionInv, NEW t \in Tasks, TaskStep(t)
    PROVE  Abstract!Next \/ UNCHANGED absVars
<1>0. TypeInv /\ TypeOK
  BY DEF SessionInv, TableInv, TypeInv
<1>1. \A u \in Tasks : rx[u] \in Seq(Datagrams)
  BY <1>0 DEF TypeOK
<1>2. /\ client' = client /\ \A u \in Tasks \ {t} : pc'[u] = pc[u]
      /\ \/ pc[t] \in Running /\ pc'[t] \in Running \cup {"returned"}
         \/ pc[t] = "returned" /\ pc'[t] = "removed"
         \/ pc[t] = "removed" /\ pc'[t] = "gone"
  BY <1>0, TaskMoves
<1>3. pc[t] # "returned" => Registered' = Registered
  <2>1. pc[t] # "returned" => \A u \in Tasks : u \in Registered' <=> u \in Registered
    BY <1>2 DEF Registered, Running, Blocking
  <2> QED
    BY <2>1 DEF Registered
<1>4. CASE TaskReceives(t)
  <2>1. rx' = [rx EXCEPT ![t] = Tail(@)] /\ rx[t] # <<>> /\ pc[t] = "select"
    BY <1>4 DEF TaskReceives, At
  <2>2. \A u \in Tasks : rx'[u] = IF u = t THEN Tail(rx[t]) ELSE rx[u]
    BY <1>0, <2>1 DEF TypeOK
  <2>3. ClientsOf(rx[t]) # <<>> /\ ClientsOf(rx'[t]) = Tail(ClientsOf(rx[t]))
    BY <1>1, <2>1, <2>2, ClientsOfTail
  <2>4. Inbox' = [Inbox EXCEPT ![t] = Tail(@)] /\ Inbox[t] # <<>>
    BY <2>2, <2>3 DEF Inbox
  <2>5. t \in Registered
    BY <2>1 DEF Registered, Running
  <2>6. Abstract!Take(t)
    BY <1>2, <1>3, <2>1, <2>4, <2>5 DEF Abstract!Take
  <2> QED
    BY <2>6 DEF Abstract!Next
<1>5. CASE TaskRemoves(t)
  <2>1. pc[t] = "returned" /\ pc'[t] = "removed" /\ rx' = rx
    BY <1>0, <1>5 DEF TaskRemoves, At, Goto, TypeOK
  <2>2. \A u \in Tasks : u \in Registered' <=> u \in Registered /\ u # t
    BY <1>2, <2>1 DEF Registered, Running, Blocking
  <2>3. Registered' = Registered \ {t}
    BY <2>2 DEF Registered
  <2>4. Abstract!Close(t)
    BY <1>2, <2>1, <2>3 DEF Abstract!Close, Inbox
  <2> QED
    BY <2>4 DEF Abstract!Next
<1>6. CASE TaskEnds(t)
  <2>1. pc[t] = "removed" /\ rx' = [rx EXCEPT ![t] = <<>>]
    BY <1>6 DEF TaskEnds, At
  <2>2. t \notin Registered
    BY <2>1 DEF Registered, Running, Blocking
  <2>3. ClientsOf(<<>>) = <<>>
    BY ClientsOfType, EmptySeq
  <2>4. \A u \in Tasks : rx'[u] = IF u = t THEN <<>> ELSE rx[u]
    BY <1>0, <2>1 DEF TypeOK
  <2>5. Inbox' = [Inbox EXCEPT ![t] = <<>>]
    BY <2>3, <2>4 DEF Inbox
  <2>6. Abstract!Discard(t)
    BY <1>2, <1>3, <2>1, <2>2, <2>5 DEF Abstract!Discard
  <2> QED
    BY <2>6 DEF Abstract!Next
<1>7. CASE ~(TaskReceives(t) \/ TaskRemoves(t) \/ TaskEnds(t))
  <2>1. rx' = rx /\ pc[t] # "returned"
    BY <1>7 DEF TaskStep, TaskSends, TaskSendFails, TaskFlushed, TcpConnects, HandlerBreaks,
       TimerFires, TaskFails, TaskReadsBroker, TaskReadsEof, At, Blocking
  <2> QED
    BY <1>2, <1>3, <2>1 DEF absVars, Inbox
<1> QED
  BY <1>4, <1>5, <1>6, <1>7

\* QuicEndpoint mode gives a client one session at a time, gives a session one
\* client, and puts nothing before a session that is not of its client.
THEOREM QuicImplementsSessions == Spec => ImplementsSessions
<1>1. ASSUME SessionInv, [Next]_vars PROVE [Abstract!Next]_absVars
  <2>1. CASE MainForward
    BY <1>1, <2>1, ForwardIsPut
  <2>2. CASE MainAccepts
    BY <1>1, <2>2, AcceptIsOpen
  <2>3. ASSUME NEW t \in Tasks, TaskStep(t) PROVE [Abstract!Next]_absVars
    BY <1>1, <2>3, TaskIsSession
  <2>4. CASE (MainStep /\ ~MainForward /\ ~MainAccepts) \/ Environment \/ UNCHANGED vars
    <3>1. UNCHANGED <<client, pc, rx>>
      BY <2>4 DEF MainStep, MainReceive, MainReplies, MainRejects, MainSends, MainStops,
         MainReceiveFails, Environment, ClientStarts, CertTimerElapses, BrokerCloses, vars, taskVars
    <3> QED
      BY <3>1 DEF absVars, Registered, Inbox
  <2> QED
    BY <1>1, <2>1, <2>2, <2>3, <2>4 DEF Next
<1>2. Abstract!Init /\ [][Abstract!Next]_absVars => ImplementsSessions
  BY DEF ImplementsSessions, Abstract!Spec, absVars
<1> QED
  BY <1>1, <1>2, InitSessions, InitSessionInv, StepSessionInv, PTL DEF Spec

=============================================================================

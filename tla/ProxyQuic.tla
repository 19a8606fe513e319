------------------------------- MODULE ProxyQuic -------------------------------
(***************************************************************************)
(* The proxy in QuicEndpoint mode: the main loop of src/proxy/mod.rs, which *)
(* owns the SCION socket, and one task of connection_mode_quic.rs for each *)
(* QUIC connection.                                                        *)
(*                                                                         *)
(* The main loop looks a datagram up in the table quic_connections, lets   *)
(* go of the lock, and forwards the datagram with try_send.  The tasks     *)
(* send what leaves the proxy through one bounded channel that only the    *)
(* main loop drains.  A task removes its own table entry when it ends.     *)
(*                                                                         *)
(* The UDP network keeps every datagram ever sent and delivers it any      *)
(* number of times, or never.  quiche, the broker's TCP endpoint and the   *)
(* clients are external.                                                   *)
(***************************************************************************)
EXTENDS Integers, Sequences, FiniteSets

CONSTANTS
    Clients,        \* QUIC clients; each picks one original destination id
    CertClients,    \* the clients that present a TLS certificate
    NoClient,       \* stands for "no client"
    FirstPackets,   \* what each client may start with: "initial", "oldVersion"
    Faults,         \* what may go wrong outside
    MaxTasks,       \* bound: QUIC connections accepted
    MainCapacity,   \* MAIN_CHANNEL_CAPACITY (10000)
    ClientCapacity  \* CLIENT_CHANNEL_CAPACITY (200)

Tasks == 1..MaxTasks

ASSUME ProxyAssumption ==
    /\ CertClients \subseteq Clients
    /\ NoClient \notin Clients
    /\ FirstPackets \in [Clients -> SUBSET {"initial", "oldVersion"}]
    /\ Faults \subseteq {"receive", "socket", "tcpRefused", "eof", "certTimer", "handler"}
    /\ MaxTasks \in Nat
    /\ MainCapacity \in Nat \ {0}
    /\ ClientCapacity \in Nat \ {0}

\* Connection ids: <<c, 0>> is the one client c made up, <<c, 1>> the one the
\* Retry packet gave it; the HMAC of an id is a fresh id.
ConnIds == Clients \X (0..2)
Hmac(id) == <<id[1], id[2] + 1>>

\* Datagrams towards the proxy: a first Initial (of a version quiche supports or
\* not), the Initial that repeats the token, and everything after it.
Datagrams == [type : {"oldVersion", "initial", "retried", "short"}, client : Clients]
Dcid(d) == <<d.client, IF d.type \in {"oldVersion", "initial"} THEN 0 ELSE 1>>
Replies == [kind : {"versions", "retry", "quic", "close"}, client : Clients]

VARIABLES
    net,        \* datagrams sent to the proxy
    main,       \* the main loop: where it is, its datagram and the task it found
    mainChan,   \* rx_quic_to_udp
    table,      \* quic_connections: connection id -> task, 0 if absent
    client,     \* per task: the client of its connection
    pc,         \* per task: where handle_client_connection() is
    rx,         \* per task: rx_udp_to_quic
    cancelled,  \* per task: cancel_token
    quic,       \* per task: state of the quiche connection
    cert,       \* per task: peer_cert() is present
    late,       \* per task: client_cert_timer is past 5 seconds
    out,        \* per task: what conn.send() has yet to produce
    tcp,        \* per task: tcp_stream
    closeCode,  \* per task: the code of the first successful conn.close()
    forwarded   \* per task: stream data was written to the broker

taskVars == <<client, pc, rx, quic, cert, late, out, tcp, closeCode, forwarded>>
vars == <<net, main, mainChan, table, cancelled, taskVars>>

NoPacket == [type |-> "none", client |-> NoClient]
Select == [at |-> "select", pkt |-> NoPacket, task |-> 0]
Codes == {"none", "noCert", "tcpClosed", "tcpRefused"}
Blocking == {"initialSend", "flush"}
Running == Blocking \cup {"tcpConnect", "select"}

TypeOK ==
    /\ net \subseteq Datagrams
    /\ main \in [at : {"select", "deaf", "forward", "initial", "stopped"},
                 pkt : Datagrams \cup {NoPacket}, task : {0} \cup Tasks]
    /\ mainChan \in Seq(Replies) /\ Len(mainChan) <= MainCapacity
    /\ table \in [ConnIds -> {0} \cup Tasks]
    /\ client \in [Tasks -> Clients \cup {NoClient}]
    /\ pc \in [Tasks -> {"free", "returned", "removed", "gone"} \cup Running]
    /\ rx \in [Tasks -> Seq(Datagrams)]
    /\ \A t \in Tasks : Len(rx[t]) <= ClientCapacity
    /\ cancelled \in [Tasks -> BOOLEAN]
    /\ quic \in [Tasks -> {"handshake", "established", "closing", "draining", "closed"}]
    /\ cert \in [Tasks -> BOOLEAN]
    /\ late \in [Tasks -> BOOLEAN]
    /\ out \in [Tasks -> SUBSET {"quic", "close"}]
    /\ tcp \in [Tasks -> {"none", "open", "eof"}]
    /\ closeCode \in [Tasks -> Codes]
    /\ forwarded \in [Tasks -> BOOLEAN]

Init ==
    /\ net = {}
    /\ main = Select
    /\ mainChan = <<>>
    /\ table = [i \in ConnIds |-> 0]
    /\ client = [t \in Tasks |-> NoClient]
    /\ pc = [t \in Tasks |-> "free"]
    /\ rx = [t \in Tasks |-> <<>>]
    /\ cancelled = [t \in Tasks |-> FALSE]
    /\ quic = [t \in Tasks |-> "handshake"]
    /\ cert = [t \in Tasks |-> FALSE]
    /\ late = [t \in Tasks |-> FALSE]
    /\ out = [t \in Tasks |-> {}]
    /\ tcp = [t \in Tasks |-> "none"]
    /\ closeCode = [t \in Tasks |-> "none"]
    /\ forwarded = [t \in Tasks |-> FALSE]

-----------------------------------------------------------------------------
(* The main loop.                                                          *)

\* A client opens a connection, perhaps with a version quiche does not know.
ClientStarts(c) ==
    /\ \E v \in FirstPackets[c] :
         net' = net \cup {[type |-> v, client |-> c]}
    /\ UNCHANGED <<main, mainChan, table, cancelled, taskVars>>

\* The task that gets a datagram: by its connection id, or by the HMAC of it.
LookupByHmac(d) == table[Hmac(Dcid(d))]                     \* mutant
Lookup(d) ==
    IF table[Dcid(d)] # 0 THEN table[Dcid(d)] ELSE table[Hmac(Dcid(d))]

\* recv_from(), and the lookup under the lock.  The clone of the entry is used
\* after the lock is released.
MainReceive(d) ==
    /\ main.at = "select" /\ d \in net
    /\ main' = CASE Lookup(d) # 0 -> [at |-> "forward", pkt |-> d, task |-> Lookup(d)]
                 [] Lookup(d) = 0 /\ d.type # "short" ->
                      [at |-> "initial", pkt |-> d, task |-> 0]
                 [] OTHER -> Select
    /\ UNCHANGED <<net, mainChan, table, cancelled, taskVars>>

\* Has the receiver of task t's channel been dropped?
ReceiverGoneOrFull(t) ==                                    \* mutant
    pc[t] = "gone" \/ Len(rx[t]) >= ClientCapacity
ReceiverGone(t) == pc[t] = "gone"

\* try_send() to the task: a full channel drops the datagram, a channel whose
\* receiver is gone cancels the task.
MainForward ==
    /\ main.at = "forward"
    /\ LET t == main.task IN
         IF ReceiverGone(t)
           THEN /\ cancelled' = [cancelled EXCEPT ![t] = TRUE]
                /\ rx' = rx
           ELSE /\ cancelled' = cancelled
                /\ rx' = IF Len(rx[t]) < ClientCapacity
                           THEN [rx EXCEPT ![t] = Append(@, main.pkt)] ELSE rx
    /\ main' = Select
    /\ UNCHANGED <<net, mainChan, table, client, pc, quic, cert, late, out, tcp,
                   closeCode, forwarded>>

RoomOffByOne == Len(mainChan) <= MainCapacity               \* mutant
Room == Len(mainChan) < MainCapacity

\* Version negotiation and the stateless Retry.  try_send: the main loop is the
\* only one to drain the channel it sends to.
ReplyBlocking(d, kind) ==                                   \* mutant
    /\ Room
    /\ mainChan' = Append(mainChan, [kind |-> kind, client |-> d.client])
Reply(d, kind) ==
    mainChan' = IF Room THEN Append(mainChan, [kind |-> kind, client |-> d.client])
                        ELSE mainChan

MainReplies ==
    /\ main.at = "initial" /\ main.pkt.type \in {"oldVersion", "initial"}
    /\ Reply(main.pkt, IF main.pkt.type = "oldVersion" THEN "versions" ELSE "retry")
    /\ main' = Select
    /\ UNCHANGED <<net, table, cancelled, taskVars>>

Free == {t \in Tasks : pc[t] = "free"}

\* A valid token: accept(), the first recv(), the table entry and the task.
MainAccepts ==
    /\ main.at = "initial" /\ main.pkt.type = "retried"
    /\ Free # {}
    /\ LET t == CHOOSE t \in Free : TRUE IN
         /\ table' = [table EXCEPT ![Dcid(main.pkt)] = t]
         /\ client' = [client EXCEPT ![t] = main.pkt.client]
         /\ pc' = [pc EXCEPT ![t] = "initialSend"]
         /\ out' = [out EXCEPT ![t] = {"quic"}]
    /\ main' = Select
    /\ UNCHANGED <<net, mainChan, cancelled, rx, quic, cert, late, tcp,
                   closeCode, forwarded>>

\* accept() or recv() fails, or the token is refused: the datagram is dropped.
MainRejects ==
    /\ main.at = "initial" /\ main.pkt.type = "retried"
    /\ main' = Select
    /\ UNCHANGED <<net, mainChan, table, cancelled, taskVars>>

\* What a client sends once a reply reached it.
Response(r) ==
    CASE r.kind = "versions" -> {[type |-> "initial", client |-> r.client]}
      [] r.kind = "retry"    -> {[type |-> "retried", client |-> r.client]}
      [] OTHER               -> {[type |-> "short", client |-> r.client]}

\* recv_from() returns an error: its branch, whose pattern is Ok(...), is
\* disabled, and this turn of select! can only end by sending something.
MainReceiveFails ==
    /\ "receive" \in Faults
    /\ main.at = "select"
    /\ main' = [Select EXCEPT !.at = "deaf"]
    /\ UNCHANGED <<net, mainChan, table, cancelled, taskVars>>

MainSends ==
    /\ main.at \in {"select", "deaf"} /\ mainChan # <<>>
    /\ net' = net \cup Response(Head(mainChan))
    /\ mainChan' = Tail(mainChan)
    /\ main' = Select
    /\ UNCHANGED <<table, cancelled, taskVars>>

\* socket.send_to() fails: run() returns and drops its end of the channel.
MainStops ==
    /\ "socket" \in Faults
    /\ main.at \in {"select", "deaf"} /\ mainChan # <<>>
    /\ main' = [Select EXCEPT !.at = "stopped"]
    /\ mainChan' = <<>>
    /\ UNCHANGED <<net, table, cancelled, taskVars>>

-----------------------------------------------------------------------------
(* A connection's task.                                                    *)

At(t, where) == pc[t] = where
Goto(t, where) == pc' = [pc EXCEPT ![t] = where]

\* send().await of one packet.  Once conn.close() was called, the only packet
\* conn.send() makes is the CONNECTION_CLOSE, and the connection drains.
TaskSends(t) ==
    /\ pc[t] \in Blocking /\ out[t] # {}
    /\ main.at # "stopped" /\ Room
    /\ IF "close" \in out[t]
         THEN /\ mainChan' = Append(mainChan, [kind |-> "close", client |-> client[t]])
              /\ quic' = [quic EXCEPT ![t] = "draining"]
         ELSE /\ mainChan' = Append(mainChan, [kind |-> "quic", client |-> client[t]])
              /\ quic' = quic
    /\ out' = [out EXCEPT ![t] = {}]
    /\ UNCHANGED <<net, main, table, cancelled, client, pc, rx, cert, late, tcp,
                   closeCode, forwarded>>

\* send() fails when run() has ended: the handler returns the error.
TaskSendFails(t) ==
    /\ pc[t] \in Blocking /\ out[t] # {} /\ main.at = "stopped"
    /\ Goto(t, "returned")
    /\ UNCHANGED <<net, main, mainChan, table, cancelled, client, rx, quic, cert, late, out,
                   tcp, closeCode, forwarded>>

\* conn.send() has no more: on to the TCP connection, or to the next select!.
TaskFlushed(t) ==
    /\ pc[t] \in Blocking /\ out[t] = {}
    /\ Goto(t, IF At(t, "initialSend") THEN "tcpConnect" ELSE "select")
    /\ UNCHANGED <<net, main, mainChan, table, cancelled, client, rx, quic, cert, late, out,
                   tcp, closeCode, forwarded>>

\* conn.close() of a connection in state q: an error (Done) if it is closing
\* already, which the handler returns; otherwise a CONNECTION_CLOSE is pending.
CloseWithoutFlush(t, q, code, next) ==                      \* mutant
    /\ Goto(t, "returned")
    /\ quic' = [quic EXCEPT ![t] = "closing"]
    /\ out' = [out EXCEPT ![t] = {"close"}]
    /\ closeCode' = [closeCode EXCEPT ![t] = code]
Close(t, q, code, next) ==
    IF q \in {"closing", "draining"}
      THEN /\ Goto(t, "returned")
           /\ quic' = [quic EXCEPT ![t] = q]
           /\ UNCHANGED <<out, closeCode>>
      ELSE /\ Goto(t, next)
           /\ quic' = [quic EXCEPT ![t] = "closing"]
           /\ out' = [out EXCEPT ![t] = {"close"}]
           /\ closeCode' = [closeCode EXCEPT ![t] = code]

OnRefusalIgnored(t) ==                                      \* mutant
    Goto(t, "select") /\ UNCHANGED <<quic, out, closeCode>>
OnRefusal(t) == Close(t, quic[t], "tcpRefused", "select")

TcpConnects(t) ==
    /\ At(t, "tcpConnect")
    /\ \/ /\ tcp' = [tcp EXCEPT ![t] = "open"]
          /\ Goto(t, "select")
          /\ UNCHANGED <<quic, out, closeCode>>
       \/ /\ "tcpRefused" \in Faults
          /\ tcp' = tcp
          /\ OnRefusal(t)
    /\ UNCHANGED <<net, main, mainChan, table, cancelled, client, rx, cert, late, forwarded>>

\* Five seconds have passed since the connection was accepted.  (Of no interest
\* once there is a certificate.)
CertTimerElapses(t) ==
    /\ "certTimer" \in Faults
    /\ pc[t] \in Running /\ ~late[t] /\ ~cert[t]
    /\ late' = [late EXCEPT ![t] = TRUE]
    /\ UNCHANGED <<net, main, mainChan, table, cancelled, client, pc, rx, quic, cert, out,
                   tcp, closeCode, forwarded>>

\* The idle timeout, the end of the draining period, or the cancel token:
\* the handler leaves its loop.
HandlerBreaks(t) ==
    /\ At(t, "select")
    /\ \E q \in {"closed"} \cup (IF cancelled[t] THEN {quic[t]} ELSE {}) :
         quic' = [quic EXCEPT ![t] = q]
    /\ Goto(t, "returned")
    /\ UNCHANGED <<net, main, mainChan, table, cancelled, client, rx, cert, late, out, tcp,
                   closeCode, forwarded>>

\* A keepalive or a loss-recovery timeout: something to send, unless closing.
TimerFires(t) ==
    /\ At(t, "select")
    /\ Goto(t, "flush")
    /\ out' = IF quic[t] \in {"handshake", "established"}
                THEN [out EXCEPT ![t] = {"quic"}] ELSE out
    /\ UNCHANGED <<net, main, mainChan, table, cancelled, client, rx, quic, cert, late, tcp,
                   closeCode, forwarded>>

\* What conn.recv() of datagram d may make of the connection.  Repeated Initials
\* and whatever arrives at a closing connection have no effect.
Effects(t, d) ==
    CASE d.type = "short" /\ quic[t] = "handshake" -> {"handshake", "established", "draining"}
      [] d.type = "short" /\ quic[t] = "established" -> {"established", "draining"}
      [] OTHER -> {quic[t]}

HasCert(t, q) == cert[t] \/ (q = "established" /\ client[t] \in CertClients)

\* Does data that datagram d brought on stream 0 go to the broker?  (A closing
\* connection takes nothing in; the CONNECTION_CLOSE of the peer may come with
\* the last data.)
Opened(t, d, q) == d.type = "short" /\ quic[t] \in {"handshake", "established"} /\ q # "handshake"
MayForwardAny(t, d, q) == Opened(t, d, q)                   \* mutant
MayForward(t, d, q) == Opened(t, d, q) /\ HasCert(t, q)

TaskReceives(t) ==
    /\ At(t, "select") /\ rx[t] # <<>>
    /\ rx' = [rx EXCEPT ![t] = Tail(@)]
    /\ LET d == Head(rx[t]) IN
       \E q \in Effects(t, d) :
         /\ cert' = [cert EXCEPT ![t] = HasCert(t, q)]
         /\ forwarded' \in {forwarded} \cup
              (IF MayForward(t, d, q) THEN {[forwarded EXCEPT ![t] = TRUE]} ELSE {})
         /\ IF ~HasCert(t, q) /\ late[t]
              THEN Close(t, q, "noCert", "flush")
              ELSE /\ Goto(t, "flush")
                   /\ quic' = [quic EXCEPT ![t] = q]
                   /\ out' = [out EXCEPT ![t] =
                                CASE q \in {"handshake", "established"} -> {"quic"}
                                  [] q = "draining" -> {}
                                  [] OTHER -> @]
                   /\ closeCode' = closeCode
    /\ UNCHANGED <<net, main, mainChan, table, cancelled, client, late, tcp>>

\* conn.recv(), the write to the broker or stream_send() fails: the handler
\* returns the error, and no CONNECTION_CLOSE leaves.
TaskFails(t) ==
    /\ "handler" \in Faults
    /\ At(t, "select")
    /\ rx[t] # <<>> \/ (tcp[t] = "open" /\ forwarded[t])
    /\ quic[t] \in {"handshake", "established"}
    /\ Goto(t, "returned")
    /\ UNCHANGED <<net, main, mainChan, table, cancelled, client, rx, quic, cert, late, out,
                   tcp, closeCode, forwarded>>

\* Data from the broker, which speaks only when spoken to.
TaskReadsBroker(t) ==
    /\ At(t, "select") /\ tcp[t] = "open" /\ forwarded[t]
    /\ Goto(t, "flush")
    /\ out' = IF quic[t] = "established" THEN [out EXCEPT ![t] = {"quic"}] ELSE out
    /\ UNCHANGED <<net, main, mainChan, table, cancelled, client, rx, quic, cert, late, tcp,
                   closeCode, forwarded>>

BrokerCloses(t) ==
    /\ "eof" \in Faults
    /\ pc[t] \in Running /\ tcp[t] = "open"
    /\ tcp' = [tcp EXCEPT ![t] = "eof"]
    /\ UNCHANGED <<net, main, mainChan, table, cancelled, client, pc, rx, quic, cert, late,
                   out, closeCode, forwarded>>

OnEofIgnored(t) ==                                          \* mutant
    Goto(t, "flush") /\ UNCHANGED <<quic, out, closeCode>>
OnEof(t) == Close(t, quic[t], "tcpClosed", "flush")

\* End of file or an error of the TCP stream.  The socket stays readable, so
\* the second time round close() fails and ends the handler.
TaskReadsEof(t) ==
    /\ At(t, "select") /\ tcp[t] = "eof"
    /\ OnEof(t)
    /\ UNCHANGED <<net, main, mainChan, table, cancelled, client, rx, cert, late, tcp, forwarded>>

\* The spawned block after the handler: it removes the entry of its connection
\* id, and only then drops the receiver.
TaskRemoves(t) ==
    /\ At(t, "returned")
    /\ table' = [table EXCEPT ![<<client[t], 1>>] = 0]
    /\ Goto(t, "removed")
    /\ UNCHANGED <<net, main, mainChan, cancelled, client, rx, quic, cert, late, out, tcp,
                   closeCode, forwarded>>

\* The Connection is dropped.
TaskEnds(t) ==
    /\ At(t, "removed")
    /\ Goto(t, "gone")
    /\ rx' = [rx EXCEPT ![t] = <<>>]
    /\ quic' = [quic EXCEPT ![t] = "closed"]
    /\ out' = [out EXCEPT ![t] = {}]
    /\ tcp' = [tcp EXCEPT ![t] = "none"]
    /\ cert' = [cert EXCEPT ![t] = FALSE]
    /\ late' = [late EXCEPT ![t] = FALSE]
    /\ closeCode' = [closeCode EXCEPT ![t] = "none"]
    /\ forwarded' = [forwarded EXCEPT ![t] = FALSE]
    /\ UNCHANGED <<net, main, mainChan, table, cancelled, client>>

-----------------------------------------------------------------------------
MainStep ==
    \/ \E d \in Datagrams : MainReceive(d)
    \/ MainReceiveFails \/ MainForward \/ MainReplies \/ MainAccepts \/ MainRejects
    \/ MainSends \/ MainStops

TaskStep(t) ==
    \/ TaskSends(t) \/ TaskSendFails(t) \/ TaskFlushed(t) \/ TcpConnects(t)
    \/ HandlerBreaks(t) \/ TimerFires(t) \/ TaskReceives(t) \/ TaskFails(t)
    \/ TaskReadsBroker(t) \/ TaskReadsEof(t) \/ TaskRemoves(t) \/ TaskEnds(t)

Environment ==
    \/ \E c \in Clients : ClientStarts(c)
    \/ \E t \in Tasks : CertTimerElapses(t) \/ BrokerCloses(t)

Next == MainStep \/ (\E t \in Tasks : TaskStep(t)) \/ Environment

Spec == Init /\ [][Next]_vars

\* The select! of the main loop picks at random among what is ready, and the
\* channel grants room in the order it was asked for: strong fairness for
\* draining and for sending.  A handler that can go on, goes on; TCP connect and
\* timers end.  Nothing is assumed of clients, the network or the broker.
Fairness ==
    /\ WF_vars(MainForward \/ MainReplies \/ MainAccepts \/ MainRejects)
    /\ SF_vars(MainSends \/ MainStops)
    /\ \A t \in Tasks :
         /\ SF_vars(TaskSends(t))
         /\ WF_vars(TaskSendFails(t) \/ TaskFlushed(t))
         /\ WF_vars(TcpConnects(t))
         /\ SF_vars(HandlerBreaks(t) /\ quic[t] \in {"closing", "draining"})
         /\ SF_vars(TaskReadsEof(t))
         /\ WF_vars(TaskRemoves(t) \/ TaskEnds(t))

FairSpec == Spec /\ Fairness

-----------------------------------------------------------------------------
\* Every connection that has not ended owns its entry of the table, and an entry
\* leads to such a connection of the same client: a task never removes the entry
\* of its successor, two tasks never serve one connection id, and the datagram
\* the main loop is about to forward goes to a task of the client that sent it,
\* though the table may have changed since the lookup.
Registered == {t \in Tasks : pc[t] \in Running \cup {"returned"}}
OwnsEntry == \A t \in Registered : table[<<client[t], 1>>] = t
EntryIsOwned ==
    \A i \in ConnIds : table[i] # 0 =>
        table[i] \in Registered /\ i = <<client[table[i]], 1>>
ForwardsToOwner == main.at = "forward" => client[main.task] = main.pkt.client
TableOwned == OwnsEntry /\ EntryIsOwned /\ ForwardsToOwner

\* The mode implements Sessions: a task is a session, open from the insertion of
\* its entry to the removal.  What the tables, the two locks and the clone of an
\* entry add up to is one session per client, and nobody gets another's datagram.
ClientsOf(s) == [i \in 1..Len(s) |-> s[i].client]
Inbox == [t \in Tasks |-> ClientsOf(rx[t])]
Abstract ==
    INSTANCE Sessions WITH Keys <- Clients, NoKey <- NoClient, Ids <- Tasks,
                           of <- client, live <- Registered, inbox <- Inbox
ImplementsSessions == Abstract!Spec

\* The cancel token fires only for a task that is gone: the forward found the
\* receiver dropped.  No handler is ever stopped by it.
CancelledAreGone == \A t \in Tasks : cancelled[t] => pc[t] = "gone"

\* Nothing of a client without a certificate reaches the broker.
NoCertNoData == \A t \in Tasks : forwarded[t] => client[t] \in CertClients

\* The handler unwraps tcp_stream to write to the broker.  The stream is there:
\* when the broker refused, the connection was closed before any data came in.
WritesHaveBroker == \A t \in Tasks : forwarded[t] => tcp[t] # "none"

\* When the proxy closes a connection because the broker did, or for want of a
\* certificate, the client is told before the handler returns.
Told(t) == "close" \notin out[t] \/ main.at = "stopped"
ClientIsTold ==
    \A t \in Tasks :
        pc[t] = "returned" /\ closeCode[t] \in {"noCert", "tcpClosed"}
            => Told(t)

\* The same for a broker that could not be reached.
RefusalIsTold ==
    \A t \in Tasks :
        pc[t] = "returned" /\ closeCode[t] = "tcpRefused"
            => Told(t) \/ quic[t] = "closed"

\* No task waits for the main channel for ever, and the main loop never waits
\* for a task.
SendsGoOn == \A t \in Tasks : (pc[t] \in Blocking) ~> (pc[t] \notin Blocking)

\* A connection whose broker closed ends, and with it its table entry.
EofEndsTask == \A t \in Tasks : (tcp[t] = "eof") ~> (pc[t] = "gone")

=============================================================================

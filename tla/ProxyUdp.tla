-------------------------------- MODULE ProxyUdp --------------------------------
(***************************************************************************)
(* The proxy in UdpEndpoint mode: the main loop of src/proxy/mod.rs and one *)
(* task of connection_mode_udp.rs for each client address.  A task owns a  *)
(* UDP socket towards the broker, forwards what its client sends, and      *)
(* hands what the socket receives to the main loop.                        *)
(*                                                                         *)
(* Both networks are datagram networks: `from' lists what reached the main *)
(* loop, whatever was lost, repeated or reordered before; a socket may     *)
(* receive a datagram at any time.                                         *)
(***************************************************************************)
EXTENDS Integers, Sequences, FiniteSets

CONSTANTS
    Clients,        \* SCION addresses of clients
    NoClient,       \* stands for "no client"
    Faults,         \* what may go wrong outside
    MaxTasks,       \* bound: tasks started
    MaxArrivals,    \* bound: datagrams that reach the main loop
    MaxReplies,     \* bound: datagrams received from the broker, per task
    MainCapacity,   \* MAIN_CHANNEL_CAPACITY (10000)
    ClientCapacity  \* CLIENT_CHANNEL_CAPACITY (200)

Tasks == 1..MaxTasks

ASSUME UdpAssumption ==
    /\ NoClient \notin Clients
    /\ Faults \subseteq {"receive", "socket", "bind", "broker"}
    /\ MaxTasks \in Nat /\ MaxArrivals \in Nat /\ MaxReplies \in Nat
    /\ MainCapacity \in Nat \ {0}
    /\ ClientCapacity \in Nat \ {0}

VARIABLES
    from,       \* the sources of the datagrams, in the order the main loop took them
    main,       \* the main loop: where it is, its datagram, the task it found
    mainChan,   \* rx_quic_to_udp
    table,      \* udp_connections: client address -> task, 0 if absent
    client,     \* per task: the address it was created for
    opener,     \* per task: the datagram it was created upon
    remote,     \* per task: config.remote_client_addr
    pc,         \* per task: where handle_client_connection() is
    rx,         \* per task: rx_udp_to_quic, datagrams by their place in `from'
    cancelled,  \* per task: cancel_token
    toBroker,   \* per task: what its UDP socket was told to send
    replies,    \* per task: datagrams its UDP socket received
    sent        \* what the main loop sent, [task, reply, dst]

taskVars == <<client, opener, remote, pc, rx, toBroker, replies>>
vars == <<from, main, mainChan, table, cancelled, sent, taskVars>>

Packets == [task : Tasks, reply : 1..MaxReplies, dst : Clients]
Select == [at |-> "select", pkt |-> 0, task |-> 0]
Running == {"bind", "select", "send"}

TypeOK ==
    /\ from \in Seq(Clients) /\ Len(from) <= MaxArrivals
    /\ main \in [at : {"select", "deaf", "forward", "create", "stopped"},
                 pkt : 0..Len(from), task : {0} \cup Tasks]
    /\ mainChan \in Seq(Packets) /\ Len(mainChan) <= MainCapacity
    /\ table \in [Clients -> {0} \cup Tasks]
    /\ client \in [Tasks -> Clients \cup {NoClient}]
    /\ opener \in [Tasks -> 0..Len(from)]
    /\ remote \in [Tasks -> Clients \cup {NoClient}]
    /\ pc \in [Tasks -> {"free", "returned", "removed", "gone"} \cup Running]
    /\ rx \in [Tasks -> Seq(1..Len(from))]
    /\ \A t \in Tasks : Len(rx[t]) <= ClientCapacity
    /\ cancelled \in [Tasks -> BOOLEAN]
    /\ toBroker \in [Tasks -> Seq(1..Len(from))]
    /\ replies \in [Tasks -> 0..MaxReplies]
    /\ sent \in SUBSET Packets

Init ==
    /\ from = <<>>
    /\ main = Select
    /\ mainChan = <<>>
    /\ table = [c \in Clients |-> 0]
    /\ client = [t \in Tasks |-> NoClient]
    /\ opener = [t \in Tasks |-> 0]
    /\ remote = [t \in Tasks |-> NoClient]
    /\ pc = [t \in Tasks |-> "free"]
    /\ rx = [t \in Tasks |-> <<>>]
    /\ cancelled = [t \in Tasks |-> FALSE]
    /\ toBroker = [t \in Tasks |-> <<>>]
    /\ replies = [t \in Tasks |-> 0]
    /\ sent = {}

-----------------------------------------------------------------------------
(* The main loop.                                                          *)

\* The table is read under the lock; the clone is used after it.
LookupIfRoom(c) ==                                          \* mutant
    IF table[c] # 0 /\ Len(rx[table[c]]) < ClientCapacity THEN table[c] ELSE 0
LookupAnyone(c) ==                                          \* mutant
    IF \E d \in Clients : table[d] # 0
      THEN CHOOSE t \in Tasks : \E d \in Clients : table[d] = t ELSE 0
Lookup(c) == table[c]

\* (The bound on tasks is applied to arrivals: the loop itself never waits.)
Free == {t \in Tasks : pc[t] = "free"}

MainReceive(c) ==
    /\ main.at = "select" /\ Len(from) < MaxArrivals
    /\ Lookup(c) # 0 \/ Free # {}
    /\ from' = Append(from, c)
    /\ main' = [at |-> IF Lookup(c) # 0 THEN "forward" ELSE "create",
                pkt |-> Len(from'), task |-> Lookup(c)]
    /\ UNCHANGED <<mainChan, table, cancelled, sent, taskVars>>

\* try_send() to the task: a full channel drops the datagram, a channel whose
\* receiver is gone cancels the task.
TryForwardBlocking(t) ==                                    \* mutant
    /\ Len(rx[t]) < ClientCapacity
    /\ rx' = [rx EXCEPT ![t] = Append(@, main.pkt)]
TryForwardOffByOne(t) ==                                    \* mutant
    rx' = IF Len(rx[t]) <= ClientCapacity
            THEN [rx EXCEPT ![t] = Append(@, main.pkt)] ELSE rx
TryForwardTimid(t) ==                                       \* mutant
    rx' = IF Len(rx[t]) + 1 < ClientCapacity
            THEN [rx EXCEPT ![t] = Append(@, main.pkt)] ELSE rx
TryForward(t) ==
    rx' = IF Len(rx[t]) < ClientCapacity
            THEN [rx EXCEPT ![t] = Append(@, main.pkt)] ELSE rx

MainForward ==
    /\ main.at = "forward"
    /\ IF pc[main.task] = "gone"
         THEN /\ cancelled' = [cancelled EXCEPT ![main.task] = TRUE]
              /\ rx' = rx
         ELSE /\ cancelled' = cancelled
              /\ TryForward(main.task)
    /\ main' = Select
    /\ UNCHANGED <<from, mainChan, table, sent, client, opener, remote, pc, toBroker, replies>>

\* A new client: the entry and the task.  The datagram itself goes nowhere, as
\* nothing puts it into the new channel.
MainCreates ==
    /\ main.at = "create"
    /\ LET t == CHOOSE t \in Free : TRUE
           c == from[main.pkt]
       IN
       /\ table' = [table EXCEPT ![c] = t]
       /\ client' = [client EXCEPT ![t] = c]
       /\ remote' = [remote EXCEPT ![t] = c]
       /\ opener' = [opener EXCEPT ![t] = main.pkt]
       /\ pc' = [pc EXCEPT ![t] = "bind"]
    /\ main' = Select
    /\ UNCHANGED <<from, mainChan, cancelled, sent, rx, toBroker, replies>>

\* recv_from() returns an error: its branch, whose pattern is Ok(...), is
\* disabled, and this turn of select! can only end by sending something.
MainReceiveFails ==
    /\ "receive" \in Faults
    /\ main.at = "select"
    /\ main' = [Select EXCEPT !.at = "deaf"]
    /\ UNCHANGED <<from, mainChan, table, cancelled, sent, taskVars>>

DrainsOnlyListening == {"select"}                           \* mutant
Drains == {"select", "deaf"}

MainSends ==
    /\ main.at \in Drains /\ mainChan # <<>>
    /\ sent' = sent \cup {Head(mainChan)}
    /\ mainChan' = Tail(mainChan)
    /\ main' = Select
    /\ UNCHANGED <<from, table, cancelled, taskVars>>

\* socket.send_to() fails: run() returns and drops its end of the channel.
MainStops ==
    /\ "socket" \in Faults
    /\ main.at \in Drains /\ mainChan # <<>>
    /\ main' = [Select EXCEPT !.at = "stopped"]
    /\ mainChan' = <<>>
    /\ UNCHANGED <<from, table, cancelled, sent, taskVars>>

-----------------------------------------------------------------------------
(* A client's task.                                                        *)

Goto(t, where) == pc' = [pc EXCEPT ![t] = where]

TaskBinds(t) ==
    /\ pc[t] = "bind"
    /\ \/ Goto(t, "select")
       \/ "bind" \in Faults /\ Goto(t, "returned")
    /\ UNCHANGED <<from, main, mainChan, table, cancelled, sent, client, opener, remote, rx,
                   toBroker, replies>>

\* The oldest datagram of the channel goes to the broker, and answers go to its
\* source from now on.  When the socket refuses it, the handler returns the error.
SendNewestFirst(t) ==                                       \* mutant
    /\ toBroker' = [toBroker EXCEPT ![t] = Append(@, rx[t][Len(rx[t])])]
    /\ rx' = [rx EXCEPT ![t] = SubSeq(@, 1, Len(@) - 1)]
SendToBroker(t) ==
    /\ toBroker' = [toBroker EXCEPT ![t] = Append(@, Head(rx[t]))]
    /\ rx' = [rx EXCEPT ![t] = Tail(@)]

TaskReceives(t) ==
    /\ pc[t] = "select" /\ rx[t] # <<>>
    /\ remote' = [remote EXCEPT ![t] = from[Head(rx[t])]]
    /\ SendToBroker(t)
    /\ \/ pc' = pc
       \/ "broker" \in Faults /\ Goto(t, "returned")
    /\ UNCHANGED <<from, main, mainChan, table, cancelled, sent, client, opener, replies>>

\* The socket received a datagram.  (Where from is not looked at; an error of
\* recv_from() changes nothing.)
TaskReadsSocket(t) ==
    /\ pc[t] = "select" /\ replies[t] < MaxReplies
    /\ replies' = [replies EXCEPT ![t] = @ + 1]
    /\ Goto(t, "send")
    /\ UNCHANGED <<from, main, mainChan, table, cancelled, sent, client, opener, remote, rx,
                   toBroker>>

\* send().await to the main loop.
TaskSends(t) ==
    /\ pc[t] = "send" /\ main.at # "stopped"
    /\ Len(mainChan) < MainCapacity
    /\ mainChan' = Append(mainChan, [task |-> t, reply |-> replies[t], dst |-> remote[t]])
    /\ Goto(t, "select")
    /\ UNCHANGED <<from, main, table, cancelled, sent, client, opener, remote, rx, toBroker,
                   replies>>

TaskSendFails(t) ==
    /\ pc[t] = "send" /\ main.at = "stopped"
    /\ Goto(t, "returned")
    /\ UNCHANGED <<from, main, mainChan, table, cancelled, sent, client, opener, remote, rx,
                   toBroker, replies>>

\* The idle timer, which may run out although a datagram has just arrived, or
\* the cancel token.
TaskBreaks(t) ==
    /\ pc[t] = "select"
    /\ Goto(t, "returned")
    /\ UNCHANGED <<from, main, mainChan, table, cancelled, sent, client, opener, remote, rx,
                   toBroker, replies>>

\* The spawned block after the handler: it removes the entry of its client, and
\* only then drops the receiver and what is in the channel.
RemoveNothing(t) == table' = table                          \* mutant
RemoveEntry(t) == table' = [table EXCEPT ![client[t]] = 0]

TaskRemoves(t) ==
    /\ pc[t] = "returned"
    /\ RemoveEntry(t)
    /\ Goto(t, "removed")
    /\ UNCHANGED <<from, main, mainChan, cancelled, sent, client, opener, remote, rx, toBroker,
                   replies>>

TaskEnds(t) ==
    /\ pc[t] = "removed"
    /\ Goto(t, "gone")
    /\ rx' = [rx EXCEPT ![t] = <<>>]
    /\ UNCHANGED <<from, main, mainChan, table, cancelled, sent, client, opener, remote,
                   toBroker, replies>>

-----------------------------------------------------------------------------
MainStep ==
    \/ \E c \in Clients : MainReceive(c)
    \/ MainReceiveFails \/ MainForward \/ MainCreates \/ MainSends \/ MainStops

TaskStep(t) ==
    \/ TaskBinds(t) \/ TaskReceives(t) \/ TaskReadsSocket(t) \/ TaskSends(t)
    \/ TaskSendFails(t) \/ TaskBreaks(t) \/ TaskRemoves(t) \/ TaskEnds(t)

Next == MainStep \/ (\E t \in Tasks : TaskStep(t))

Spec == Init /\ [][Next]_vars

\* As in QuicEndpoint mode: the main loop's select! picks at random, the channel
\* grants room in the order it was asked for, what can go on goes on, and a
\* client that falls silent runs into the idle timer.
Fairness ==
    /\ WF_vars(MainForward \/ MainCreates)
    /\ SF_vars(MainSends \/ MainStops)
    /\ \A t \in Tasks :
         /\ SF_vars(TaskSends(t))
         /\ WF_vars(TaskBinds(t) \/ TaskSendFails(t))
         /\ WF_vars(TaskBreaks(t))
         /\ WF_vars(TaskRemoves(t) \/ TaskEnds(t))

FairSpec == Spec /\ Fairness

-----------------------------------------------------------------------------
\* Every task that has not ended owns its client's entry, and an entry leads to
\* such a task: a task never removes the entry of its successor, and no client
\* has two tasks, though lookup and insertion are two critical sections.
Registered == {t \in Tasks : pc[t] \in Running \cup {"returned"}}
OwnsEntry == \A t \in Registered : table[client[t]] = t
EntryIsOwned ==
    \A c \in Clients : table[c] # 0 => table[c] \in Registered /\ client[table[c]] = c
ForwardsToOwner ==
    /\ main.at = "forward" => client[main.task] = from[main.pkt]
    /\ main.at = "create" => table[from[main.pkt]] = 0
TableOwned == OwnsEntry /\ EntryIsOwned /\ ForwardsToOwner

\* The mode implements Sessions: a task is a session, open from the insertion of
\* its entry to the removal.  What the tables, the two locks and the clone of an
\* entry add up to is one session per client, and nobody gets another's datagram.
Inbox == [t \in Tasks |-> [i \in 1..Len(rx[t]) |-> from[rx[t][i]]]]
Abstract ==
    INSTANCE Sessions WITH Keys <- Clients, NoKey <- NoClient, Ids <- Tasks,
                           of <- client, live <- Registered, inbox <- Inbox
ImplementsSessions == Abstract!Spec

\* What a task sends out or still holds, and where its socket's datagrams go:
\* a task's two directions both belong to the client it was created for, so what
\* a broker answers one client is never sent to another.
Kept(t) == toBroker[t] \o rx[t]
RepliesGoHome ==
    /\ \A t \in Tasks : \A i \in 1..Len(Kept(t)) : from[Kept(t)[i]] = client[t]
    /\ \A i \in 1..Len(mainChan) : mainChan[i].dst = client[mainChan[i].task]
    /\ \A p \in sent : p.dst = client[p.task]

\* The broker sees the datagrams of a client in the order they arrived, none
\* twice, through one task and through the tasks that follow it.  The datagram a
\* task was created upon is never among them: the code drops it.
Increasing(s) == \A i, j \in 1..Len(s) : i < j => s[i] < s[j]
ForwardOrder ==
    /\ \A t \in Tasks :
         Increasing(Kept(t)) /\ \A i \in 1..Len(Kept(t)) : Kept(t)[i] > opener[t]
    /\ \A t, u \in Tasks :
         client[t] = client[u] /\ client[t] # NoClient /\ opener[t] < opener[u] =>
           \A i \in 1..Len(Kept(t)) : Kept(t)[i] < opener[u]

\* A datagram that arrived between the opener and one that was kept is missing
\* only if it met a full channel: as many as that were kept before it.
DropsOnlyWhenFull ==
    \A t \in Tasks : \A n \in 1..Len(Kept(t)) : \A i \in (opener[t] + 1)..Kept(t)[n] :
        from[i] = client[t] /\ (\A k \in 1..Len(Kept(t)) : Kept(t)[k] # i)
            => \E k \in 1..Len(Kept(t)) : k >= ClientCapacity /\ Kept(t)[k] < i

\* No task waits for the main channel for ever: the main loop never waits for a
\* task whose channel is full.
SendsGoOn == \A t \in Tasks : (pc[t] = "send") ~> (pc[t] # "send")

\* After an error of recv_from() the main loop hears nothing until it sends.  It
\* hears again as soon as any task has something for it; nothing else, not even
\* the next datagram, makes it listen.
HearsAgain == (main.at = "deaf" /\ \E t \in Tasks : pc[t] = "send") ~> (main.at # "deaf")

\* The entry of a client that falls silent, or whose task failed, goes away, so
\* that its next datagram finds a new socket and not a dead channel.
EntryGoes == \A c \in Clients : (table[c] # 0) ~> (table[c] = 0)

=============================================================================

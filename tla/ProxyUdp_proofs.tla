----------------------------- MODULE ProxyUdp_proofs -----------------------------
(***************************************************************************)
(* Proofs about ProxyUdp, for any number of clients, tasks and datagrams   *)
(* and any capacity of the two channels.                                   *)
(***************************************************************************)
EXTENDS ProxyUdp, SequenceTheorems, TLAPS

-----------------------------------------------------------------------------
(* Type correctness.                                                       *)

\* What the types rest on: a task that was started has a client to answer to,
\* and the main loop past its receive has a datagram, and a task to forward it
\* to or one that it may start.
Started(t) == pc[t] # "free"
TaskHolds == \A t \in Tasks :
    /\ Started(t) => client[t] \in Clients /\ remote[t] \in Clients
    /\ pc[t] = "send" => replies[t] \in 1..MaxReplies
MainHolds ==
    /\ main.at \in {"forward", "create"} => main.pkt \in 1..Len(from)
    /\ main.at = "forward" => main.task \in Tasks
    /\ main.at = "create" => Free # {}
TypeInv == TypeOK /\ TaskHolds /\ MainHolds

LEMMA InitTypeInv == Init => TypeInv
<1> SUFFICES ASSUME Init PROVE TypeInv
  OBVIOUS
<1> USE UdpAssumption DEF Init, UdpAssumption
<1>1. from \in Seq(Clients) /\ Len(from) = 0 /\ Len(from) <= MaxArrivals
  OBVIOUS
<1>2. mainChan \in Seq(Packets) /\ Len(mainChan) <= MainCapacity
  OBVIOUS
<1>3. /\ rx \in [Tasks -> Seq(1..Len(from))] /\ \A t \in Tasks : Len(rx[t]) <= ClientCapacity
      /\ toBroker \in [Tasks -> Seq(1..Len(from))]
  OBVIOUS
<1>4. main \in [at : {"select", "deaf", "forward", "create", "stopped"},
                pkt : 0..Len(from), task : {0} \cup Tasks]
  BY <1>1 DEF Select
<1>5. opener \in [Tasks -> 0..Len(from)] /\ replies \in [Tasks -> 0..MaxReplies]
  BY <1>1
<1>6. TypeOK
  BY <1>1, <1>2, <1>3, <1>4, <1>5 DEF TypeOK, Running
<1> QED
  BY <1>6 DEF TypeInv, TaskHolds, MainHolds, Started, Select

\* A step that leaves the tasks alone, and the main loop where it waits.
LEMMA MainRestsType ==
    ASSUME TypeInv, UNCHANGED <<from, taskVars>>,
           main'.at \in {"select", "deaf", "stopped"},
           main' \in [at : {"select", "deaf", "forward", "create", "stopped"},
                      pkt : 0..Len(from), task : {0} \cup Tasks],
           mainChan' \in Seq(Packets), Len(mainChan') <= MainCapacity,
           table' \in [Clients -> {0} \cup Tasks],
           cancelled' \in [Tasks -> BOOLEAN],
           sent' \in SUBSET Packets
    PROVE  TypeInv'
<1>1. UNCHANGED <<from, client, opener, remote, pc, rx, toBroker, replies>>
  BY DEF taskVars
<1>2. TypeOK'
  BY <1>1 DEF TypeInv, TypeOK
<1>3. TaskHolds' /\ MainHolds'
  BY <1>1 DEF TypeInv, TaskHolds, MainHolds, Started
<1> QED
  BY <1>2, <1>3 DEF TypeInv

LEMMA SelectType ==
    ASSUME TypeOK
    PROVE  /\ Select \in [at : {"select", "deaf", "forward", "create", "stopped"},
                          pkt : 0..Len(from), task : {0} \cup Tasks]
           /\ Select.at = "select"
           /\ [Select EXCEPT !.at = "deaf"] = [at |-> "deaf", pkt |-> 0, task |-> 0]
           /\ [Select EXCEPT !.at = "stopped"] = [at |-> "stopped", pkt |-> 0, task |-> 0]
<1>1. Len(from) \in Nat
  BY LenProperties DEF TypeOK
<1> QED
  BY <1>1 DEF Select

LEMMA ReceiveType == ASSUME TypeInv, NEW c \in Clients, MainReceive(c) PROVE TypeInv'
<1>0. TypeOK
  BY DEF TypeInv
<1>1. /\ from' \in Seq(Clients) /\ Len(from') = Len(from) + 1 /\ Len(from) \in Nat
      /\ Len(from') <= MaxArrivals
  <2>1. from \in Seq(Clients) /\ from' = Append(from, c) /\ Len(from) < MaxArrivals
    BY <1>0 DEF TypeOK, MainReceive
  <2>2. Len(from) \in Nat /\ from' \in Seq(Clients) /\ Len(from') = Len(from) + 1
    BY <2>1, AppendProperties, LenProperties
  <2> QED
    BY <2>1, <2>2, UdpAssumption DEF UdpAssumption
<1>2. /\ UNCHANGED <<mainChan, table, cancelled, sent, client, opener, remote, pc, rx, toBroker, replies>>
      /\ main' = [at |-> IF Lookup(c) # 0 THEN "forward" ELSE "create",
                  pkt |-> Len(from'), task |-> Lookup(c)]
      /\ Lookup(c) # 0 \/ Free # {}
  BY DEF MainReceive, taskVars
<1>3. 1..Len(from) \subseteq 1..Len(from') /\ 0..Len(from) \subseteq 0..Len(from')
  BY <1>1
<1>4. \A s \in Seq(1..Len(from)) : s \in Seq(1..Len(from'))
  BY <1>3, SeqMonotonic
<1>5. Lookup(c) \in {0} \cup Tasks
  BY <1>0 DEF TypeOK, Lookup
<1>6. /\ rx' \in [Tasks -> Seq(1..Len(from'))]
      /\ toBroker' \in [Tasks -> Seq(1..Len(from'))]
      /\ opener' \in [Tasks -> 0..Len(from')]
  BY <1>0, <1>2, <1>3, <1>4 DEF TypeOK
<1>7. main' \in [at : {"select", "deaf", "forward", "create", "stopped"},
                 pkt : 0..Len(from'), task : {0} \cup Tasks]
  BY <1>1, <1>2, <1>5
<1>8. TypeOK'
  BY <1>0, <1>1, <1>2, <1>6, <1>7 DEF TypeOK
<1>9. TaskHolds' /\ MainHolds'
  BY <1>1, <1>2, <1>5 DEF TypeInv, TaskHolds, MainHolds, Started, Free
<1> QED
  BY <1>8, <1>9 DEF TypeInv

LEMMA ForwardType == ASSUME TypeInv, MainForward PROVE TypeInv'
<1> DEFINE t == main.task
<1>0. TypeOK
  BY DEF TypeInv
<1>1. t \in Tasks /\ main.pkt \in 1..Len(from)
  BY DEF TypeInv, MainHolds, MainForward
<1>2. /\ UNCHANGED <<from, mainChan, table, sent, client, opener, remote, pc, toBroker, replies>>
      /\ main' = Select
  BY DEF MainForward
<1>3. cancelled' \in [Tasks -> BOOLEAN]
  BY <1>0, <1>1 DEF MainForward, TypeOK
<1>4. \/ rx' = rx
      \/ /\ rx' = [rx EXCEPT ![t] = Append(@, main.pkt)]
         /\ Len(rx[t]) < ClientCapacity
  BY DEF MainForward, TryForward
<1> HIDE DEF t
<1>5. rx' \in [Tasks -> Seq(1..Len(from))] /\ \A u \in Tasks : Len(rx'[u]) <= ClientCapacity
  <2>1. CASE rx' = rx
    BY <1>0, <2>1 DEF TypeOK
  <2>2. CASE /\ rx' = [rx EXCEPT ![t] = Append(@, main.pkt)]
             /\ Len(rx[t]) < ClientCapacity
    <3>1. rx[t] \in Seq(1..Len(from)) /\ Len(rx[t]) \in Nat /\ ClientCapacity \in Nat
      BY <1>0, <1>1, LenProperties, UdpAssumption DEF TypeOK, UdpAssumption
    <3>2. /\ Append(rx[t], main.pkt) \in Seq(1..Len(from))
          /\ Len(Append(rx[t], main.pkt)) = Len(rx[t]) + 1
      BY <1>1, <3>1, AppendProperties
    <3>3. Len(Append(rx[t], main.pkt)) <= ClientCapacity
      BY <2>2, <3>1, <3>2
    <3> QED
      BY <1>0, <1>1, <2>2, <3>2, <3>3 DEF TypeOK
  <2> QED
    BY <1>4, <2>1, <2>2
<1>6. TypeOK'
  BY <1>0, <1>2, <1>3, <1>5, SelectType DEF TypeOK
<1>7. TaskHolds' /\ MainHolds'
  BY <1>0, <1>2, SelectType DEF TypeInv, TaskHolds, MainHolds, Started
<1> QED
  BY <1>6, <1>7 DEF TypeInv

LEMMA CreateType == ASSUME TypeInv, MainCreates PROVE TypeInv'
<1> DEFINE t == CHOOSE t \in Free : TRUE
           c == from[main.pkt]
<1>0. TypeOK
  BY DEF TypeInv
<1>1. t \in Tasks /\ main.pkt \in 1..Len(from) /\ main.pkt \in 0..Len(from)
  <2>1. Free # {} /\ main.pkt \in 1..Len(from)
    BY DEF TypeInv, MainHolds, MainCreates
  <2>2. t \in Free
    BY <2>1
  <2>3. main.pkt \in 0..Len(from)
    BY <1>0 DEF TypeOK
  <2> QED
    BY <2>1, <2>2, <2>3 DEF Free
<1>2. c \in Clients
  BY <1>0, <1>1, ElementOfSeq DEF TypeOK
<1>3. /\ table' = [table EXCEPT ![c] = t]
      /\ client' = [client EXCEPT ![t] = c]
      /\ remote' = [remote EXCEPT ![t] = c]
      /\ opener' = [opener EXCEPT ![t] = main.pkt]
      /\ pc' = [pc EXCEPT ![t] = "bind"]
      /\ main' = Select
      /\ UNCHANGED <<from, mainChan, cancelled, sent, rx, toBroker, replies>>
  BY DEF MainCreates
<1> HIDE DEF t, c
<1>4. TypeOK'
  BY <1>0, <1>1, <1>2, <1>3, SelectType DEF TypeOK, Running
<1>5. TaskHolds'
  BY <1>0, <1>1, <1>2, <1>3 DEF TypeInv, TaskHolds, Started, TypeOK
<1>6. MainHolds'
  BY <1>0, <1>3, SelectType DEF MainHolds
<1> QED
  BY <1>4, <1>5, <1>6 DEF TypeInv

\* Where a task may go, and what it leaves alone.
LEMMA TaskMoves ==
    ASSUME TypeInv, NEW t \in Tasks, TaskStep(t)
    PROVE  /\ pc' = [pc EXCEPT ![t] = pc'[t]]
           /\ \A u \in Tasks \ {t} : pc'[u] = pc[u]
           /\ pc'[t] \in {"select", "send", "returned", "removed", "gone"}
           /\ UNCHANGED <<from, main, cancelled, sent, client, opener>>
           /\ \/ /\ pc[t] \in Running /\ pc'[t] \in Running \cup {"returned"}
                 /\ table' = table
              \/ /\ pc[t] = "returned" /\ pc'[t] = "removed"
                 /\ table' = [table EXCEPT ![client[t]] = 0]
              \/ /\ pc[t] = "removed" /\ pc'[t] = "gone"
                 /\ table' = table
<1>0. pc \in [Tasks -> {"free", "returned", "removed", "gone"} \cup Running]
  BY DEF TypeInv, TypeOK
<1>1. CASE TaskRemoves(t) \/ TaskEnds(t)
  BY <1>0, <1>1 DEF TaskRemoves, TaskEnds, Goto, RemoveEntry
<1>2. CASE ~(TaskRemoves(t) \/ TaskEnds(t))
  <2>1. UNCHANGED <<from, main, cancelled, sent, client, opener, table>>
    BY <1>2 DEF TaskStep, TaskBinds, TaskReceives, TaskReadsSocket, TaskSends, TaskSendFails, TaskBreaks
  <2>2. pc[t] \in Running
    BY <1>2 DEF TaskStep, TaskBinds, TaskReceives, TaskReadsSocket, TaskSends, TaskSendFails,
       TaskBreaks, Running
  <2>3. \/ pc' = pc /\ pc[t] = "select"
        \/ \E w \in {"select", "send", "returned"} : pc' = [pc EXCEPT ![t] = w]
    BY <1>2 DEF TaskStep, TaskBinds, TaskReceives, TaskReadsSocket, TaskSends, TaskSendFails,
       TaskBreaks, Goto
  <2> QED
    BY <1>0, <2>1, <2>2, <2>3 DEF Running
<1> QED
  BY <1>1, <1>2

\* The task's own variables.
LEMMA TaskStepType == ASSUME TypeInv, NEW t \in Tasks, TaskStep(t) PROVE TypeInv'
<1>0. TypeOK /\ client[t] \in Clients /\ remote[t] \in Clients
  BY TaskMoves DEF TypeInv, TaskHolds, Started, Running
<1>1. /\ pc' = [pc EXCEPT ![t] = pc'[t]]
      /\ pc'[t] \in {"select", "send", "returned", "removed", "gone"}
      /\ UNCHANGED <<from, main, cancelled, sent, client, opener>>
      /\ table' = table \/ table' = [table EXCEPT ![client[t]] = 0]
  BY TaskMoves
<1>2. /\ pc' \in [Tasks -> {"free", "returned", "removed", "gone"} \cup Running]
      /\ \A u \in Tasks \ {t} : pc'[u] = pc[u]
      /\ table' \in [Clients -> {0} \cup Tasks]
  BY <1>0, <1>1 DEF TypeOK, Running
<1>3. rx[t] \in Seq(1..Len(from)) /\ toBroker[t] \in Seq(1..Len(from))
      /\ Len(rx[t]) <= ClientCapacity /\ Len(rx[t]) \in Nat /\ ClientCapacity \in Nat
  BY <1>0, LenProperties, UdpAssumption DEF TypeOK, UdpAssumption
<1>4. /\ rx' \in [Tasks -> Seq(1..Len(from))] /\ \A u \in Tasks : Len(rx'[u]) <= ClientCapacity
      /\ toBroker' \in [Tasks -> Seq(1..Len(from))]
      /\ remote' \in [Tasks -> Clients \cup {NoClient}]
      /\ remote'[t] \in Clients /\ \A u \in Tasks \ {t} : remote'[u] = remote[u]
  <2>1. CASE TaskReceives(t)
    <3>1. /\ Head(rx[t]) \in 1..Len(from) /\ Tail(rx[t]) \in Seq(1..Len(from))
          /\ Len(Tail(rx[t])) = Len(rx[t]) - 1
      BY <1>3, <2>1, HeadTailProperties DEF TaskReceives
    <3>2. Append(toBroker[t], Head(rx[t])) \in Seq(1..Len(from))
      BY <1>3, <3>1, AppendProperties
    <3>3. from[Head(rx[t])] \in Clients
      BY <1>0, <3>1, ElementOfSeq DEF TypeOK
    <3>4. Len(Tail(rx[t])) <= ClientCapacity
      BY <1>3, <3>1
    <3>5. /\ rx' = [rx EXCEPT ![t] = Tail(rx[t])]
          /\ toBroker' = [toBroker EXCEPT ![t] = Append(toBroker[t], Head(rx[t]))]
          /\ remote' = [remote EXCEPT ![t] = from[Head(rx[t])]]
      BY <2>1 DEF TaskReceives, SendToBroker
    <3> QED
      BY <1>0, <3>1, <3>2, <3>3, <3>4, <3>5 DEF TypeOK
  <2>2. CASE TaskEnds(t)
    <3>1. <<>> \in Seq(1..Len(from)) /\ Len(<<>>) <= ClientCapacity
      BY <1>3, EmptySeq
    <3>2. rx' = [rx EXCEPT ![t] = <<>>] /\ UNCHANGED <<toBroker, remote>>
      BY <2>2 DEF TaskEnds
    <3> QED
      BY <1>0, <3>1, <3>2 DEF TypeOK
  <2>3. CASE ~TaskReceives(t) /\ ~TaskEnds(t)
    <3>1. UNCHANGED <<rx, toBroker, remote>>
      BY <2>3 DEF TaskStep, TaskBinds, TaskReadsSocket, TaskSends, TaskSendFails, TaskBreaks,
         TaskRemoves
    <3> QED
      BY <1>0, <3>1 DEF TypeOK
  <2> QED
    BY <2>1, <2>2, <2>3
<1>5. /\ replies' \in [Tasks -> 0..MaxReplies] /\ \A u \in Tasks \ {t} : replies'[u] = replies[u]
      /\ pc'[t] = "send" => replies'[t] \in 1..MaxReplies
  <2>1. CASE TaskReadsSocket(t)
    <3>1. replies' = [replies EXCEPT ![t] = @ + 1] /\ replies[t] < MaxReplies
      BY <2>1 DEF TaskReadsSocket
    <3>2. replies[t] \in 0..MaxReplies /\ MaxReplies \in Nat
      BY <1>0, UdpAssumption DEF TypeOK, UdpAssumption
    <3>3. replies[t] + 1 \in 1..MaxReplies
      BY <3>1, <3>2
    <3> QED
      BY <1>0, <3>1, <3>3 DEF TypeOK
  <2>2. CASE ~TaskReadsSocket(t)
    <3>1. replies' = replies
      BY <2>2 DEF TaskStep, TaskBinds, TaskReceives, TaskSends, TaskSendFails, TaskBreaks,
         TaskRemoves, TaskEnds
    <3>2. pc'[t] # "send"
      BY <1>0, <2>2 DEF TaskStep, TaskBinds, TaskReceives, TaskSends, TaskSendFails, TaskBreaks,
         TaskRemoves, TaskEnds, Goto, TypeOK
    <3> QED
      BY <1>0, <3>1, <3>2 DEF TypeOK
  <2> QED
    BY <2>1, <2>2
<1>6. mainChan' \in Seq(Packets) /\ Len(mainChan') <= MainCapacity
  <2>1. CASE TaskSends(t)
    <3> DEFINE p == [task |-> t, reply |-> replies[t], dst |-> remote[t]]
    <3>1. p \in Packets
      BY <1>0, <2>1 DEF TaskSends, Packets, TypeInv, TaskHolds
    <3>2. mainChan' = Append(mainChan, p) /\ Len(mainChan) < MainCapacity
      BY <2>1 DEF TaskSends
    <3>3. mainChan \in Seq(Packets) /\ Len(mainChan) \in Nat /\ MainCapacity \in Nat
      BY <1>0, LenProperties, UdpAssumption DEF TypeOK, UdpAssumption
    <3> HIDE DEF p
    <3>4. Append(mainChan, p) \in Seq(Packets) /\ Len(Append(mainChan, p)) = Len(mainChan) + 1
      BY <3>1, <3>3, AppendProperties
    <3> QED
      BY <3>2, <3>3, <3>4
  <2>2. CASE ~TaskSends(t)
    <3>1. mainChan' = mainChan
      BY <2>2 DEF TaskStep, TaskBinds, TaskReceives, TaskReadsSocket, TaskSendFails, TaskBreaks,
         TaskRemoves, TaskEnds
    <3> QED
      BY <1>0, <3>1 DEF TypeOK
  <2> QED
    BY <2>1, <2>2
<1>7. TypeOK'
  BY <1>0, <1>1, <1>2, <1>4, <1>5, <1>6 DEF TypeOK
<1>8. TaskHolds'
  BY <1>0, <1>1, <1>2, <1>4, <1>5 DEF TypeInv, TaskHolds, Started
<1>9. MainHolds'
  <2>1. pc[t] # "free"
    BY TaskMoves DEF Running
  <2>2. Free' = Free
    BY <1>1, <1>2, <2>1 DEF Free
  <2> QED
    BY <1>1, <2>2 DEF TypeInv, MainHolds
<1> QED
  BY <1>7, <1>8, <1>9 DEF TypeInv

LEMMA StepTypeInv == TypeInv /\ [Next]_vars => TypeInv'
<1> SUFFICES ASSUME TypeInv, [Next]_vars PROVE TypeInv'
  OBVIOUS
<1>0. TypeOK
  BY DEF TypeInv
<1>1. CASE (\E c \in Clients : MainReceive(c)) \/ MainForward \/ MainCreates
           \/ \E t \in Tasks : TaskStep(t)
  BY <1>1, ReceiveType, ForwardType, CreateType, TaskStepType
<1>2. CASE MainReceiveFails
  <2>1. /\ main' = [at |-> "deaf", pkt |-> 0, task |-> 0]
        /\ UNCHANGED <<from, mainChan, table, cancelled, sent, taskVars>>
    BY <1>0, <1>2, SelectType DEF MainReceiveFails
  <2>2. main' \in [at : {"select", "deaf", "forward", "create", "stopped"},
                   pkt : 0..Len(from), task : {0} \cup Tasks]
    BY <1>0, <2>1, LenProperties DEF TypeOK
  <2> QED
    BY <1>0, <2>1, <2>2, MainRestsType DEF TypeOK
<1>3. CASE MainSends
  <2>1. /\ Head(mainChan) \in Packets
        /\ Tail(mainChan) \in Seq(Packets)
        /\ Len(Tail(mainChan)) = Len(mainChan) - 1
    BY <1>0, <1>3, HeadTailProperties DEF MainSends, TypeOK
  <2>2. Len(mainChan) \in Nat /\ MainCapacity \in Nat
    BY <1>0, LenProperties, UdpAssumption DEF UdpAssumption, TypeOK
  <2>3. mainChan' \in Seq(Packets) /\ Len(mainChan') <= MainCapacity /\ sent' \in SUBSET Packets
    BY <1>0, <1>3, <2>1, <2>2 DEF MainSends, TypeOK
  <2>4. UNCHANGED <<from, table, cancelled, taskVars>> /\ main' = Select
    BY <1>3 DEF MainSends
  <2> QED
    BY <1>0, <2>3, <2>4, SelectType, MainRestsType DEF TypeOK
<1>4. CASE MainStops
  <2>1. /\ main' = [at |-> "stopped", pkt |-> 0, task |-> 0] /\ mainChan' = <<>>
        /\ UNCHANGED <<from, table, cancelled, sent, taskVars>>
    BY <1>0, <1>4, SelectType DEF MainStops
  <2>2. main' \in [at : {"select", "deaf", "forward", "create", "stopped"},
                   pkt : 0..Len(from), task : {0} \cup Tasks]
    BY <1>0, <2>1, LenProperties DEF TypeOK
  <2>3. mainChan' \in Seq(Packets) /\ Len(mainChan') <= MainCapacity
    BY <2>1, UdpAssumption DEF UdpAssumption
  <2> QED
    BY <1>0, <2>1, <2>2, <2>3, MainRestsType DEF TypeOK
<1>5. CASE UNCHANGED vars
  BY <1>5 DEF vars, taskVars, TypeInv, TypeOK, TaskHolds, MainHolds, Started, Free
<1> QED
  BY <1>1, <1>2, <1>3, <1>4, <1>5 DEF Next, MainStep

\* Every variable of the mode keeps its type, and no channel exceeds its capacity.
THEOREM UdpTypeCorrect == Spec => []TypeOK
<1>1. TypeInv => TypeOK
  BY DEF TypeInv
<1> QED
  BY <1>1, InitTypeInv, StepTypeInv, PTL DEF Spec

-----------------------------------------------------------------------------
(* The table.                                                              *)

\* A task that was never started has no client yet.
FreshTasks == \A t \in Tasks : pc[t] = "free" => client[t] = NoClient
TableInv == TypeInv /\ TableOwned /\ FreshTasks

LEMMA InitTableInv == Init => TableInv
<1> SUFFICES ASSUME Init PROVE TableInv
  OBVIOUS
<1>1. Registered = {}
  BY DEF Init, Registered, Running
<1>2. \A c \in Clients : table[c] = 0
  BY DEF Init
<1>3. main.at = "select"
  BY DEF Init, Select
<1> QED
  BY <1>1, <1>2, <1>3, InitTypeInv DEF TableInv, TableOwned, OwnsEntry, EntryIsOwned,
     ForwardsToOwner, FreshTasks, Init

\* The lookup finds the task of the client that sent the datagram, or nothing.
LEMMA ReceiveTable ==
    ASSUME TableInv, NEW c \in Clients, MainReceive(c) PROVE TableOwned' /\ FreshTasks'
<1>1. UNCHANGED <<table, client, pc>>
  BY DEF MainReceive, taskVars
<1>2. from'[Len(from')] = c
  <2>1. from \in Seq(Clients) /\ from' = Append(from, c)
    BY DEF TableInv, TypeInv, TypeOK, MainReceive
  <2> QED
    BY <2>1, AppendProperties, LenProperties
<1>3. main' = [at |-> IF Lookup(c) # 0 THEN "forward" ELSE "create",
               pkt |-> Len(from'), task |-> Lookup(c)]
  BY DEF MainReceive
<1>4. table[c] # 0 => client[table[c]] = c
  BY DEF TableInv, TableOwned, EntryIsOwned
<1>5. ForwardsToOwner'
  BY <1>1, <1>2, <1>3, <1>4 DEF ForwardsToOwner, Lookup
<1> QED
  BY <1>1, <1>5 DEF TableInv, TableOwned, OwnsEntry, EntryIsOwned, Registered, FreshTasks

\* What a creation does.
LEMMA CreateMoves ==
    ASSUME TableInv, MainCreates
    PROVE  \E t \in Tasks : \E c \in Clients :
             /\ pc[t] = "free" /\ client[t] = NoClient
             /\ c = from[main.pkt] /\ table[c] = 0
             /\ main.pkt \in 1..Len(from)
             /\ table' = [table EXCEPT ![c] = t]
             /\ client' = [client EXCEPT ![t] = c]
             /\ remote' = [remote EXCEPT ![t] = c]
             /\ opener' = [opener EXCEPT ![t] = main.pkt]
             /\ pc' = [pc EXCEPT ![t] = "bind"]
             /\ main' = Select
             /\ UNCHANGED <<from, mainChan, cancelled, sent, rx, toBroker, replies>>
<1> DEFINE t == CHOOSE t \in Free : TRUE
           c == from[main.pkt]
<1>1. Free # {} /\ main.pkt \in 1..Len(from)
  BY DEF TableInv, TypeInv, MainHolds, MainCreates
<1>2. t \in Tasks /\ pc[t] = "free" /\ client[t] = NoClient
  BY <1>1 DEF Free, TableInv, FreshTasks
<1>3. c \in Clients
  BY <1>1, ElementOfSeq DEF TableInv, TypeInv, TypeOK
<1>4. table[c] = 0
  BY DEF TableInv, TableOwned, ForwardsToOwner, MainCreates
<1>5. /\ table' = [table EXCEPT ![c] = t]
      /\ client' = [client EXCEPT ![t] = c]
      /\ remote' = [remote EXCEPT ![t] = c]
      /\ opener' = [opener EXCEPT ![t] = main.pkt]
      /\ pc' = [pc EXCEPT ![t] = "bind"]
      /\ main' = Select
      /\ UNCHANGED <<from, mainChan, cancelled, sent, rx, toBroker, replies>>
  BY DEF MainCreates
<1> HIDE DEF t
<1> QED
  BY <1>1, <1>2, <1>3, <1>4, <1>5

LEMMA TaskIsNotZero == \A t \in Tasks : t # 0
  BY UdpAssumption DEF Tasks, UdpAssumption

\* A new task takes an address that nobody has.
LEMMA CreateTable ==
    ASSUME TableInv, MainCreates PROVE TableOwned' /\ FreshTasks'
<1>0. TypeOK /\ TypeInv
  BY DEF TableInv, TypeInv
<1>1. PICK t \in Tasks, c \in Clients :
        /\ pc[t] = "free" /\ table[c] = 0
        /\ table' = [table EXCEPT ![c] = t]
        /\ client' = [client EXCEPT ![t] = c]
        /\ pc' = [pc EXCEPT ![t] = "bind"]
        /\ main' = Select
  BY CreateMoves
<1>2. /\ \A d \in Clients : table'[d] = IF d = c THEN t ELSE table[d]
      /\ \A u \in Tasks : client'[u] = IF u = t THEN c ELSE client[u]
      /\ \A u \in Tasks : pc'[u] = IF u = t THEN "bind" ELSE pc[u]
  BY <1>0, <1>1 DEF TypeOK
<1>3. Registered' = Registered \cup {t} /\ t \notin Registered
  BY <1>1, <1>2 DEF Registered, Running
<1>4. OwnsEntry'
  <2> SUFFICES ASSUME NEW u \in Registered \cup {t} PROVE table'[client'[u]] = u
    BY <1>3 DEF OwnsEntry
  <2>1. CASE u = t
    BY <1>1, <1>2, <2>1
  <2>2. CASE u # t
    <3>1. u \in Registered /\ u \in Tasks /\ client'[u] = client[u]
      BY <1>2, <2>2 DEF Registered
    <3>2. table[client[u]] = u /\ client[u] \in Clients
      BY <1>0, <3>1 DEF TableInv, TableOwned, OwnsEntry, TypeInv, TaskHolds, Started, Registered,
         Running
    <3> QED
      BY <1>1, <1>2, <3>1, <3>2, TaskIsNotZero
  <2> QED
    BY <2>1, <2>2
<1>5. EntryIsOwned'
  <2> SUFFICES ASSUME NEW d \in Clients, table'[d] # 0
               PROVE  table'[d] \in Registered \cup {t} /\ client'[table'[d]] = d
    BY <1>3 DEF EntryIsOwned
  <2>1. CASE d = c
    BY <1>1, <1>2, <2>1
  <2>2. CASE d # c
    <3>1. table'[d] = table[d] /\ table[d] \in Registered /\ client[table[d]] = d
      BY <1>2, <2>2 DEF TableInv, TableOwned, EntryIsOwned
    <3>2. table[d] # t /\ table[d] \in Tasks
      BY <1>3, <3>1 DEF Registered
    <3> QED
      BY <1>2, <3>1, <3>2
  <2> QED
    BY <2>1, <2>2
<1>6. ForwardsToOwner' /\ FreshTasks'
  BY <1>0, <1>1, <1>2, SelectType DEF ForwardsToOwner, FreshTasks, TableInv
<1> QED
  BY <1>4, <1>5, <1>6 DEF TableOwned

\* A task that ends removes its own entry and no other.
LEMMA TaskStepTable ==
    ASSUME TableInv, NEW t \in Tasks, TaskStep(t) PROVE TableOwned' /\ FreshTasks'
<1>0. TypeInv /\ TypeOK
  BY DEF TableInv, TypeInv
<1>1. /\ \A u \in Tasks \ {t} : pc'[u] = pc[u]
      /\ pc'[t] # "free" /\ pc[t] # "free"
      /\ UNCHANGED <<main, client, from>>
  BY <1>0, TaskMoves DEF TypeOK, Running
<1>2. FreshTasks'
  BY <1>1 DEF TableInv, FreshTasks
<1>3. CASE table' = table /\ pc[t] # "returned"
  <2>1. \A u \in Tasks : u \in Registered' <=> u \in Registered
    BY <1>0, <1>1, <1>3, TaskMoves DEF Registered, Running
  <2>2. Registered' = Registered
    BY <2>1 DEF Registered
  <2>3. TableOwned'
    BY <1>1, <1>3, <2>2 DEF TableInv, TableOwned, OwnsEntry, EntryIsOwned, ForwardsToOwner
  <2> QED
    BY <1>2, <2>3
<1>4. CASE pc[t] = "returned"
  <2>1. pc'[t] = "removed" /\ table' = [table EXCEPT ![client[t]] = 0]
    BY <1>0, <1>4, TaskMoves DEF Running
  <2>2. Registered' = Registered \ {t} /\ t \in Registered
    BY <1>1, <1>4, <2>1 DEF Registered, Running
  <2>3. \A d \in Clients : table'[d] = IF d = client[t] THEN 0 ELSE table[d]
    BY <1>0, <2>1 DEF TypeOK
  <2>4. OwnsEntry'
    <3> SUFFICES ASSUME NEW u \in Registered \ {t} PROVE table'[client[u]] = u
      BY <1>1, <2>2 DEF OwnsEntry
    <3>1. table[client[u]] = u /\ table[client[t]] = t
      BY <2>2 DEF TableInv, TableOwned, OwnsEntry
    <3>2. client[u] \in Clients
      BY <1>0 DEF Registered, TypeInv, TaskHolds, Started, Running
    <3> QED
      BY <2>3, <3>1, <3>2
  <2>5. EntryIsOwned'
    <3> SUFFICES ASSUME NEW d \in Clients, table'[d] # 0
                 PROVE  table'[d] \in Registered \ {t} /\ client[table'[d]] = d
      BY <1>1, <2>2 DEF EntryIsOwned
    <3>1. d # client[t] /\ table'[d] = table[d]
      BY <2>3
    <3> QED
      BY <3>1 DEF TableInv, TableOwned, EntryIsOwned
  <2>6. ForwardsToOwner'
    <3>1. main.at = "forward" => client[main.task] = from[main.pkt]
      BY DEF TableInv, TableOwned, ForwardsToOwner
    <3>2. main.at = "create" => from[main.pkt] \in Clients /\ table[from[main.pkt]] = 0
      BY <1>0, ElementOfSeq DEF TableInv, TableOwned, ForwardsToOwner, TypeInv, MainHolds, TypeOK
    <3> QED
      BY <1>1, <2>3, <3>1, <3>2 DEF ForwardsToOwner
  <2> QED
    BY <1>2, <2>4, <2>5, <2>6 DEF TableOwned
<1> QED
  BY <1>0, <1>3, <1>4, TaskMoves DEF Running

LEMMA StepTableInv == TableInv /\ [Next]_vars => TableInv'
<1> SUFFICES ASSUME TableInv, [Next]_vars PROVE TableInv'
  OBVIOUS
<1>0. TypeInv'
  BY StepTypeInv DEF TableInv
<1>1. CASE (\E c \in Clients : MainReceive(c)) \/ MainCreates \/ \E t \in Tasks : TaskStep(t)
  BY <1>0, <1>1, ReceiveTable, CreateTable, TaskStepTable DEF TableInv
<1>2. CASE MainReceiveFails \/ MainForward \/ MainSends \/ MainStops \/ UNCHANGED vars
  <2>1. UNCHANGED <<from, table, client, pc>>
    BY <1>2 DEF MainReceiveFails, MainForward, MainSends, MainStops, vars, taskVars
  <2>2. main' = main \/ main'.at \in {"select", "deaf", "stopped"}
    BY <1>2, SelectType DEF MainReceiveFails, MainForward, MainSends, MainStops, vars, TableInv,
       TypeInv
  <2> QED
    BY <1>0, <2>1, <2>2 DEF TableInv, TableOwned, OwnsEntry, EntryIsOwned, ForwardsToOwner,
       Registered, FreshTasks
<1> QED
  BY <1>1, <1>2 DEF Next, MainStep

\* Every task that has not ended owns its client's entry, every entry leads to
\* such a task, and what the main loop forwards or creates after it let go of
\* the lock is still right.
THEOREM UdpTableIsOwned == Spec => []TableOwned
<1>1. TableInv => TableOwned
  BY DEF TableInv
<1> QED
  BY <1>1, InitTableInv, StepTableInv, PTL DEF Spec

-----------------------------------------------------------------------------
(* What a task keeps: the datagrams it sent and those it holds.            *)

LEMMA KeptType ==
    ASSUME TypeOK, NEW t \in Tasks
    PROVE  /\ Kept(t) \in Seq(1..Len(from))
           /\ Len(Kept(t)) \in Nat /\ Len(from) \in Nat
           /\ \A i \in 1..Len(Kept(t)) : Kept(t)[i] \in 1..Len(from)
<1>1. toBroker[t] \in Seq(1..Len(from)) /\ rx[t] \in Seq(1..Len(from)) /\ from \in Seq(Clients)
  BY DEF TypeOK
<1>2. Kept(t) \in Seq(1..Len(from)) /\ Len(from) \in Nat
  BY <1>1, ConcatProperties, LenProperties DEF Kept
<1> QED
  BY <1>2, LenProperties, ElementOfSeq

\* Sequence r is s and one more element x; sequence r is how s begins.
Extends(r, s, x) ==
    Len(r) = Len(s) + 1 /\ r[Len(s) + 1] = x /\ \A i \in 1..Len(s) : r[i] = s[i]
Begins(r, s) == Len(r) <= Len(s) /\ \A i \in 1..Len(r) : r[i] = s[i]

LEMMA AppendExtends ==
    ASSUME NEW S, NEW b \in Seq(S), NEW r \in Seq(S), NEW x \in S
    PROVE  Extends(b \o Append(r, x), b \o r, x)
<1>1. /\ Append(r, x) = r \o <<x>> /\ <<x>> \in Seq(S) /\ b \o r \in Seq(S)
      /\ Append(b \o r, x) = (b \o r) \o <<x>>
  BY AppendIsConcat, ConcatProperties
<1>2. b \o Append(r, x) = Append(b \o r, x)
  BY <1>1, ConcatAssociative
<1> QED
  BY <1>1, <1>2, AppendProperties DEF Extends

LEMMA MovingKeeps ==
    ASSUME NEW S, NEW b \in Seq(S), NEW r \in Seq(S), r # <<>>
    PROVE  Append(b, Head(r)) \o Tail(r) = b \o r
<1>1. Head(r) \in S /\ Tail(r) \in Seq(S) /\ <<Head(r)>> \in Seq(S)
  BY HeadTailProperties
<1>2. Append(b, Head(r)) = b \o <<Head(r)>>
  BY <1>1, AppendIsConcat
<1>3. r = <<Head(r)>> \o Tail(r)
  <2>1. Len(r) \in Nat \ {0} /\ 1 \in 1..Len(r) /\ Len(r) \in 1..Len(r)
    BY EmptySeq
  <2>2. SubSeq(r, 1, Len(r)) = <<r[1]>> \o SubSeq(r, 1 + 1, Len(r))
    BY <2>1, SubSeqRecursiveFirst
  <2> QED
    BY <2>2, SubSeqFull, TailIsSubSeq
<1> QED
  BY <1>1, <1>2, <1>3, ConcatAssociative

LEMMA PartBegins ==
    ASSUME NEW S, NEW b \in Seq(S), NEW r \in Seq(S)
    PROVE  Begins(b, b \o r)
<1>1. /\ Len(b) \in Nat /\ Len(r) \in Nat /\ Len(b \o r) = Len(b) + Len(r)
      /\ \A i \in 1..(Len(b) + Len(r)) : i <= Len(b) => (b \o r)[i] = b[i]
  BY ConcatProperties, LenProperties
<1> DEFINE m == Len(b)
           n == Len(r)
<1> HIDE DEF m, n
<1>2. \A i \in 1..m : i \in 1..(m + n) /\ i <= m
  BY <1>1 DEF m, n
<1> QED
  BY <1>1, <1>2 DEF Begins, m, n

\* Only a forward adds to what a task keeps, and only its end takes away.
Forwarded(t) ==
    /\ main.at = "forward" /\ t = main.task /\ pc[t] # "gone"
    /\ main' = Select /\ UNCHANGED <<from, client, opener, pc>>
    /\ Extends(Kept(t)', Kept(t), main.pkt)
Truncated(t) ==
    /\ pc[t] = "removed" /\ pc'[t] = "gone" /\ UNCHANGED <<main, from, client, opener>>
    /\ Begins(Kept(t)', Kept(t))

LEMMA KeptStep ==
    ASSUME TypeInv, [Next]_vars, NEW t \in Tasks
    PROVE  Kept(t)' = Kept(t) \/ Forwarded(t) \/ Truncated(t)
<1>0. TypeOK /\ pc \in [Tasks -> {"free", "returned", "removed", "gone"} \cup Running]
  BY DEF TypeInv, TypeOK
<1>1. CASE UNCHANGED <<rx, toBroker>>
  BY <1>1 DEF Kept
<1>2. CASE MainForward
  <2>1. main.task \in Tasks /\ main.pkt \in 1..Len(from) /\ main.at = "forward"
    BY <1>2 DEF TypeInv, MainHolds, MainForward
  <2>2. CASE rx'[t] = rx[t]
    BY <1>2, <2>2 DEF MainForward, Kept
  <2>3. CASE rx'[t] # rx[t]
    <3>1. /\ t = main.task /\ pc[t] # "gone"
          /\ rx' = [rx EXCEPT ![t] = Append(@, main.pkt)]
      BY <1>0, <1>2, <2>3 DEF MainForward, TryForward, TypeOK
    <3>2. rx[t] \in Seq(1..Len(from)) /\ rx'[t] = Append(rx[t], main.pkt)
      BY <1>0, <3>1 DEF TypeOK
    <3>3. UNCHANGED <<from, client, opener, pc, toBroker>> /\ main' = Select
      BY <1>2 DEF MainForward
    <3>4. Extends(Kept(t)', Kept(t), main.pkt)
      <4>1. toBroker[t] \in Seq(1..Len(from)) /\ toBroker'[t] = toBroker[t]
        BY <1>0, <3>3 DEF TypeOK
      <4> QED
        BY <2>1, <3>2, <4>1, AppendExtends DEF Kept
    <3> QED
      BY <2>1, <3>1, <3>3, <3>4 DEF Forwarded
  <2> QED
    BY <2>2, <2>3
<1>3. ASSUME NEW u \in Tasks, TaskReceives(u) PROVE Kept(t)' = Kept(t)
  <2>1. CASE u # t
    BY <1>0, <1>3, <2>1 DEF TaskReceives, SendToBroker, Kept, TypeOK
  <2>2. CASE u = t
    <3>1. toBroker[t] \in Seq(1..Len(from)) /\ rx[t] \in Seq(1..Len(from)) /\ rx[t] # <<>>
      BY <1>0, <1>3, <2>2 DEF TypeOK, TaskReceives
    <3>2. toBroker'[t] = Append(toBroker[t], Head(rx[t])) /\ rx'[t] = Tail(rx[t])
      BY <1>0, <1>3, <2>2 DEF TypeOK, TaskReceives, SendToBroker
    <3> QED
      BY <3>1, <3>2, MovingKeeps DEF Kept
  <2> QED
    BY <2>1, <2>2
<1>4. ASSUME NEW u \in Tasks, TaskEnds(u) PROVE Kept(t)' = Kept(t) \/ Truncated(t)
  <2>1. CASE u # t
    BY <1>0, <1>4, <2>1 DEF TaskEnds, Kept, TypeOK
  <2>2. CASE u = t
    <3>1. /\ rx'[t] = <<>> /\ UNCHANGED <<from, client, opener, toBroker, main>>
          /\ pc[t] = "removed" /\ pc'[t] = "gone"
      BY <1>0, <1>4, <2>2 DEF TaskEnds, Goto, TypeOK
    <3>2. Kept(t)' = toBroker[t]
      BY <1>0, <3>1, ConcatEmptySeq DEF Kept, TypeOK
    <3>3. Begins(Kept(t)', Kept(t))
      <4>1. toBroker[t] \in Seq(1..Len(from)) /\ rx[t] \in Seq(1..Len(from))
        BY <1>0 DEF TypeOK
      <4> QED
        BY <3>2, <4>1, PartBegins DEF Kept
    <3> QED
      BY <3>1, <3>3 DEF Truncated
  <2> QED
    BY <2>1, <2>2
<1>5. CASE (Next \/ UNCHANGED vars) /\ ~MainForward
           /\ ~(\E u \in Tasks : TaskReceives(u) \/ TaskEnds(u))
  <2>1. UNCHANGED <<rx, toBroker>>
    BY <1>5 DEF Next, MainStep, TaskStep, MainReceive, MainReceiveFails, MainCreates, MainSends,
       MainStops, TaskBinds, TaskReadsSocket, TaskSends, TaskSendFails, TaskBreaks, TaskRemoves,
       vars, taskVars
  <2> QED
    BY <1>1, <2>1
<1> QED
  BY <1>2, <1>3, <1>4, <1>5

-----------------------------------------------------------------------------
(* Replies.                                                                *)

\* A task answers the client it was created for, keeps only that client's
\* datagrams, and what it handed to the main loop is addressed likewise.
KeepsOwn == \A t \in Tasks :
    /\ Started(t) => remote[t] = client[t]
    /\ Kept(t) # <<>> => Started(t)
    /\ \A i \in 1..Len(Kept(t)) : from[Kept(t)[i]] = client[t]
Addressed(p) == Started(p.task) /\ p.dst = client[p.task]
RepliesAddressed ==
    /\ \A i \in 1..Len(mainChan) : Addressed(mainChan[i])
    /\ \A p \in sent : Addressed(p)
HomeInv == TableInv /\ KeepsOwn /\ RepliesAddressed

LEMMA InitHomeInv == Init => HomeInv
<1> SUFFICES ASSUME Init PROVE HomeInv
  OBVIOUS
<1>1. \A t \in Tasks : ~Started(t) /\ Kept(t) = <<>>
  BY ConcatEmptySeq, EmptySeq DEF Init, Started, Kept
<1>2. Len(<<>>) = 0
  BY EmptySeq
<1>3. KeepsOwn
  BY <1>1, <1>2 DEF KeepsOwn
<1>4. RepliesAddressed
  BY <1>2 DEF RepliesAddressed, Init
<1> QED
  BY <1>3, <1>4, InitTableInv DEF HomeInv

\* A task once started stays started and keeps its client; `from' only grows.
LEMMA StableClients ==
    ASSUME TableInv, [Next]_vars
    PROVE  /\ \A t \in Tasks : Started(t) => Started(t)' /\ client'[t] = client[t]
                                             /\ opener'[t] = opener[t]
           /\ Len(from) \in Nat /\ Len(from') \in Nat /\ Len(from) <= Len(from')
           /\ \A i \in 1..Len(from) : from'[i] = from[i]
<1>0. TypeInv /\ TypeOK
  BY DEF TableInv, TypeInv
<1>1. Len(from) \in Nat /\ from \in Seq(Clients)
  BY <1>0, LenProperties DEF TypeOK
<1>2. ASSUME NEW c \in Clients, MainReceive(c)
      PROVE  /\ UNCHANGED <<client, opener, pc>> /\ Len(from') = Len(from) + 1
             /\ \A i \in 1..Len(from) : from'[i] = from[i]
  <2>1. UNCHANGED <<client, opener, pc>> /\ from' = Append(from, c)
    BY <1>2 DEF MainReceive, taskVars
  <2> QED
    BY <1>1, <2>1, AppendProperties
<1>3. CASE MainCreates
  <2>1. PICK t \in Tasks, c \in Clients :
          /\ pc[t] = "free" /\ client' = [client EXCEPT ![t] = c]
          /\ opener' = [opener EXCEPT ![t] = main.pkt]
          /\ pc' = [pc EXCEPT ![t] = "bind"] /\ from' = from
    BY <1>3, CreateMoves
  <2> QED
    BY <1>0, <1>1, <2>1 DEF TypeOK, Started
<1>4. ASSUME NEW t \in Tasks, TaskStep(t)
      PROVE  /\ UNCHANGED <<client, opener, from>> /\ pc'[t] # "free"
             /\ \A u \in Tasks \ {t} : pc'[u] = pc[u]
  BY <1>0, <1>4, TaskMoves
<1>5. CASE MainReceiveFails \/ MainForward \/ MainSends \/ MainStops \/ UNCHANGED vars
  <2>1. UNCHANGED <<client, opener, pc, from>>
    BY <1>5 DEF MainReceiveFails, MainForward, MainSends, MainStops, vars, taskVars
  <2> QED
    BY <1>1, <2>1 DEF Started
<1> QED
  BY <1>1, <1>2, <1>3, <1>4, <1>5 DEF Next, MainStep, Started

LEMMA StepKeepsOwn == ASSUME HomeInv, [Next]_vars PROVE KeepsOwn'
<1>0. TypeInv /\ TypeOK /\ TableInv /\ KeepsOwn
  BY DEF HomeInv, TableInv, TypeInv
<1> SUFFICES ASSUME NEW t \in Tasks
             PROVE  /\ Started(t)' => remote'[t] = client'[t]
                    /\ Kept(t)' # <<>> => Started(t)'
                    /\ \A i \in 1..Len(Kept(t)') : from'[Kept(t)'[i]] = client'[t]
  BY DEF KeepsOwn
<1>1. /\ Kept(t) \in Seq(1..Len(from)) /\ Len(Kept(t)) \in Nat
      /\ \A i \in 1..Len(Kept(t)) : Kept(t)[i] \in 1..Len(from)
  BY <1>0, KeptType
<1>2. /\ Kept(t)' # <<>> => Started(t)'
      /\ \A i \in 1..Len(Kept(t)') : from'[Kept(t)'[i]] = client'[t]
  <2>1. CASE Kept(t)' = Kept(t)
    <3>1. Kept(t) # <<>> => Started(t)
      BY <1>0 DEF KeepsOwn
    <3>2. ASSUME NEW i \in 1..Len(Kept(t)) PROVE from'[Kept(t)[i]] = client'[t]
      <4>1. Kept(t) # <<>>
        BY <1>1, EmptySeq
      <4> QED
        BY <1>0, <1>1, <3>1, <4>1, StableClients DEF KeepsOwn
    <3> QED
      BY <1>0, <2>1, <3>1, <3>2, StableClients
  <2>2. CASE Forwarded(t)
    <3>1. /\ main.at = "forward" /\ t = main.task /\ client[t] = from[main.pkt]
          /\ UNCHANGED <<from, client, pc>>
      BY <1>0, <2>2 DEF Forwarded, TableInv, TableOwned, ForwardsToOwner
    <3>2. from[main.pkt] \in Clients
      BY <1>0, <3>1, ElementOfSeq DEF TypeInv, MainHolds, TypeOK
    <3>3. Started(t)
      BY <1>0, <3>1, <3>2, UdpAssumption DEF TableInv, FreshTasks, Started, UdpAssumption
    <3> QED
      BY <1>0, <1>1, <2>2, <3>1, <3>3 DEF Forwarded, Extends, KeepsOwn, Started
  <2>3. CASE Truncated(t)
    <3>1. Started(t) /\ Started(t)' /\ UNCHANGED <<from, client>>
      BY <2>3 DEF Truncated, Started
    <3>2. Len(Kept(t)') \in Nat
      BY <1>0, StepTypeInv, KeptType DEF TypeInv
    <3>3. \A i \in 1..Len(Kept(t)') : i \in 1..Len(Kept(t)) /\ Kept(t)'[i] = Kept(t)[i]
      BY <1>1, <2>3, <3>2 DEF Truncated, Begins
    <3> QED
      BY <1>0, <3>1, <3>3 DEF KeepsOwn
  <2> QED
    BY <1>0, <2>1, <2>2, <2>3, KeptStep
<1>3. Started(t)' => remote'[t] = client'[t]
  <2>1. CASE MainCreates
    <3>1. PICK u \in Tasks, c \in Clients :
            /\ client' = [client EXCEPT ![u] = c]
            /\ remote' = [remote EXCEPT ![u] = c]
            /\ pc' = [pc EXCEPT ![u] = "bind"]
      BY <1>0, <2>1, CreateMoves
    <3> QED
      BY <1>0, <3>1 DEF KeepsOwn, Started, TypeOK
  <2>2. ASSUME NEW u \in Tasks, TaskReceives(u) PROVE Started(t)' => remote'[t] = client'[t]
    <3>1. /\ remote' = [remote EXCEPT ![u] = from[Head(rx[u])]] /\ client' = client
          /\ pc[u] = "select" /\ rx[u] # <<>> /\ rx[u] \in Seq(1..Len(from))
      BY <1>0, <2>2 DEF TaskReceives, TypeOK
    <3>2. from[Head(rx[u])] = client[u]
      <4>1. /\ toBroker[u] \in Seq(1..Len(from)) /\ Head(rx[u]) \in 1..Len(from)
            /\ Tail(rx[u]) \in Seq(1..Len(from))
        BY <1>0, <3>1, HeadTailProperties DEF TypeOK
      <4> DEFINE w == Append(toBroker[u], Head(rx[u]))
      <4>2. w \in Seq(1..Len(from)) /\ w # <<>> /\ w[Len(toBroker[u]) + 1] = Head(rx[u])
            /\ Len(w) = Len(toBroker[u]) + 1
        BY <4>1, AppendProperties
      <4>3. Kept(u) = w \o Tail(rx[u])
        BY <3>1, <4>1, MovingKeeps DEF Kept
      <4> HIDE DEF w
      <4>4. Begins(w, Kept(u)) /\ Len(Kept(u)) \in Nat /\ Len(w) \in Nat \ {0}
        BY <1>0, <4>1, <4>2, <4>3, PartBegins, KeptType, EmptySeq
      <4>5. Len(w) \in 1..Len(Kept(u)) /\ Kept(u)[Len(w)] = w[Len(w)]
        BY <4>2, <4>4 DEF Begins
      <4> QED
        BY <1>0, <4>2, <4>5 DEF KeepsOwn
    <3>3. \A v \in Tasks : remote'[v] = IF v = u THEN client[u] ELSE remote[v]
      BY <1>0, <3>1, <3>2 DEF TypeOK
    <3>4. t # u => pc'[t] = pc[t]
      BY <1>0, <2>2, TaskMoves DEF TaskStep
    <3> QED
      BY <1>0, <3>1, <3>3, <3>4 DEF KeepsOwn, Started
  <2>3. CASE (Next \/ UNCHANGED vars) /\ ~MainCreates /\ ~(\E u \in Tasks : TaskReceives(u))
    <3>1. UNCHANGED <<client, remote>>
      BY <2>3 DEF Next, MainStep, TaskStep, MainReceive, MainReceiveFails, MainForward, MainSends,
         MainStops, TaskBinds, TaskReadsSocket, TaskSends, TaskSendFails, TaskBreaks, TaskRemoves,
         TaskEnds, vars, taskVars
    <3>2. Started(t)' => Started(t)
      <4>1. CASE \E u \in Tasks : TaskStep(u)
        BY <1>0, <4>1, TaskMoves DEF Started, Running
      <4>2. CASE ~(\E u \in Tasks : TaskStep(u))
        BY <2>3, <4>2 DEF Next, MainStep, MainReceive, MainReceiveFails, MainForward, MainSends,
           MainStops, vars, taskVars, Started
      <4> QED
        BY <4>1, <4>2
    <3> QED
      BY <1>0, <3>1, <3>2 DEF KeepsOwn
  <2> QED
    BY <2>1, <2>2, <2>3
<1> QED
  BY <1>2, <1>3

LEMMA StepRepliesAddressed == ASSUME HomeInv, [Next]_vars PROVE RepliesAddressed'
<1>0. TypeInv /\ TypeOK /\ TableInv /\ KeepsOwn /\ RepliesAddressed
  BY DEF HomeInv, TableInv, TypeInv
<1> DEFINE Then(p) == pc'[p.task] # "free" /\ p.dst = client'[p.task]
<1>1. \A p \in Packets : Addressed(p) => Then(p)
  BY <1>0, StableClients DEF Addressed, Packets, Started
<1>3. RepliesAddressed' <=> (\A i \in 1..Len(mainChan') : Then(mainChan'[i]))
                            /\ (\A p \in sent' : Then(p))
  BY DEF RepliesAddressed, Addressed, Started
<1> HIDE DEF Then
<1>2. /\ mainChan \in Seq(Packets) /\ sent \in SUBSET Packets /\ Len(mainChan) \in Nat
      /\ \A i \in 1..Len(mainChan) : mainChan[i] \in Packets
  BY <1>0, LenProperties, ElementOfSeq DEF TypeOK
<1>4. CASE UNCHANGED <<mainChan, sent>>
  BY <1>0, <1>1, <1>2, <1>3, <1>4 DEF RepliesAddressed
<1>5. CASE MainSends
  <2>1. mainChan' = Tail(mainChan) /\ sent' = sent \cup {Head(mainChan)} /\ mainChan # <<>>
    BY <1>5 DEF MainSends
  <2>2. /\ Len(mainChan') = Len(mainChan) - 1
        /\ \A i \in 1..Len(mainChan') : mainChan'[i] = mainChan[i + 1]
        /\ Head(mainChan) = mainChan[1] /\ Len(mainChan) \in Nat \ {0}
    BY <1>2, <2>1, HeadTailProperties, EmptySeq
  <2>3. ASSUME NEW i \in 1..Len(mainChan') PROVE Then(mainChan'[i])
    <3>1. i + 1 \in 1..Len(mainChan)
      BY <2>2
    <3> QED
      BY <1>0, <1>1, <1>2, <2>2, <3>1 DEF RepliesAddressed
  <2>4. ASSUME NEW p \in sent' PROVE Then(p)
    <3>1. 1 \in 1..Len(mainChan)
      BY <2>2
    <3> QED
      BY <1>0, <1>1, <1>2, <2>1, <2>2, <3>1 DEF RepliesAddressed
  <2> QED
    BY <1>3, <2>3, <2>4
<1>6. CASE MainStops
  <2>1. mainChan' = <<>> /\ sent' = sent /\ Len(<<>>) = 0
    BY <1>6, EmptySeq DEF MainStops
  <2> QED
    BY <1>0, <1>1, <1>2, <1>3, <2>1 DEF RepliesAddressed
<1>7. ASSUME NEW t \in Tasks, TaskSends(t) PROVE RepliesAddressed'
  <2> DEFINE p == [task |-> t, reply |-> replies[t], dst |-> remote[t]]
  <2>1. mainChan' = Append(mainChan, p) /\ sent' = sent /\ pc[t] = "send"
    BY <1>7 DEF TaskSends
  <2>2. p \in Packets /\ Addressed(p)
    BY <1>0, <2>1 DEF TypeInv, TaskHolds, Packets, Addressed, KeepsOwn, Started
  <2> HIDE DEF p
  <2>3. /\ Len(mainChan') = Len(mainChan) + 1
        /\ \A i \in 1..Len(mainChan) : mainChan'[i] = mainChan[i]
        /\ mainChan'[Len(mainChan) + 1] = p
    BY <1>2, <2>1, <2>2, AppendProperties
  <2>4. ASSUME NEW i \in 1..Len(mainChan') PROVE Then(mainChan'[i])
    <3>1. i \in 1..Len(mainChan) \/ i = Len(mainChan) + 1
      BY <1>2, <2>3
    <3> QED
      BY <1>0, <1>1, <1>2, <2>2, <2>3, <3>1 DEF RepliesAddressed
  <2> QED
    BY <1>0, <1>1, <1>2, <1>3, <2>1, <2>4 DEF RepliesAddressed
<1>8. CASE (Next \/ UNCHANGED vars) /\ ~MainSends /\ ~MainStops /\ ~(\E t \in Tasks : TaskSends(t))
  <2>1. UNCHANGED <<mainChan, sent>>
    BY <1>8 DEF Next, MainStep, TaskStep, MainReceive, MainReceiveFails, MainForward, MainCreates,
       TaskBinds, TaskReceives, TaskReadsSocket, TaskSendFails, TaskBreaks, TaskRemoves, TaskEnds,
       vars, taskVars
  <2> QED
    BY <1>4, <2>1
<1> QED
  BY <1>5, <1>6, <1>7, <1>8

LEMMA StepHomeInv == HomeInv /\ [Next]_vars => HomeInv'
  BY StepTableInv, StepKeepsOwn, StepRepliesAddressed DEF HomeInv

\* What the broker answers one client is never sent to another: a task sends and
\* holds only its client's datagrams, and its replies go to that client.
THEOREM RepliesStayHome == Spec => []RepliesGoHome
<1>1. HomeInv => RepliesGoHome
  BY DEF HomeInv, KeepsOwn, RepliesAddressed, Addressed, RepliesGoHome
<1> QED
  BY <1>1, InitHomeInv, StepHomeInv, PTL DEF Spec

-----------------------------------------------------------------------------
(* Order.                                                                  *)

\* The datagram in the main loop's hands is newer than all that is kept and than
\* all that opened a task; a task that has its entry, or that was looked up, is
\* the newest of its client.
NewestInHand ==
    main.at \in {"forward", "create"} =>
        /\ main.pkt = Len(from)
        /\ \A t \in Tasks : opener[t] < main.pkt
                            /\ \A i \in 1..Len(Kept(t)) : Kept(t)[i] < main.pkt
InOrder(t) == Increasing(Kept(t)) /\ \A i \in 1..Len(Kept(t)) : Kept(t)[i] > opener[t]
Precedes(t, u) ==
    client[t] = client[u] /\ client[t] # NoClient /\ opener[t] < opener[u]
        => \A i \in 1..Len(Kept(t)) : Kept(t)[i] < opener[u]
Newest(t) == \A u \in Tasks : client[u] = client[t] => opener[u] <= opener[t]
OrderInv ==
    /\ HomeInv /\ NewestInHand
    /\ \A t \in Tasks : InOrder(t) /\ \A u \in Tasks : Precedes(t, u)
    /\ \A t \in Registered : Newest(t)
    /\ main.at = "forward" => Newest(main.task)

LEMMA ExtendsIncreasing ==
    ASSUME NEW s \in Seq(Nat), NEW r, NEW x \in Nat, Extends(r, s, x),
           Increasing(s), \A i \in 1..Len(s) : s[i] < x
    PROVE  Increasing(r)
<1>1. Len(s) \in Nat /\ \A i \in 1..Len(s) : s[i] \in Nat
  BY LenProperties, ElementOfSeq
<1> DEFINE n == Len(s)
<1>2. /\ Len(r) = n + 1 /\ r[n + 1] = x
      /\ \A i \in 1..n : r[i] = s[i] /\ s[i] < x
      /\ \A i, j \in 1..n : i < j => s[i] < s[j]
  BY DEF Extends, Increasing
<1>3. n \in Nat
  BY <1>1
<1> HIDE DEF n
<1> SUFFICES ASSUME NEW i \in 1..(n + 1), NEW j \in 1..(n + 1), i < j PROVE r[i] < r[j]
  BY <1>2 DEF Increasing
<1>4. i \in 1..n /\ (j \in 1..n \/ j = n + 1)
  BY <1>3
<1> QED
  BY <1>2, <1>4

LEMMA BeginsIncreasing ==
    ASSUME NEW s, NEW r, Begins(r, s), Len(s) \in Nat, Len(r) \in Nat, Increasing(s)
    PROVE  Increasing(r)
  BY DEF Begins, Increasing

LEMMA KeptIsNat ==
    ASSUME TypeOK, NEW t \in Tasks
    PROVE  /\ Kept(t) \in Seq(Nat) /\ Len(Kept(t)) \in Nat /\ Len(from) \in Nat
           /\ \A i \in 1..Len(Kept(t)) : Kept(t)[i] \in Nat /\ Kept(t)[i] <= Len(from)
           /\ opener[t] \in Nat /\ opener[t] <= Len(from)
<1>1. /\ Kept(t) \in Seq(1..Len(from)) /\ Len(Kept(t)) \in Nat /\ Len(from) \in Nat
      /\ \A i \in 1..Len(Kept(t)) : Kept(t)[i] \in 1..Len(from)
  BY KeptType
<1>2. 1..Len(from) \subseteq Nat
  BY <1>1
<1>3. Kept(t) \in Seq(Nat)
  BY <1>1, <1>2, SeqMonotonic
<1>4. opener[t] \in 0..Len(from)
  BY DEF TypeOK
<1> QED
  BY <1>1, <1>3, <1>4

LEMMA InitOrderInv == Init => OrderInv
<1> SUFFICES ASSUME Init PROVE OrderInv
  OBVIOUS
<1>1. \A t \in Tasks : Kept(t) = <<>> /\ Len(Kept(t)) = 0
  BY ConcatEmptySeq, EmptySeq DEF Init, Kept
<1>2. Registered = {} /\ main.at = "select"
  BY DEF Init, Registered, Running, Select
<1>3. \A t \in Tasks : InOrder(t) /\ \A u \in Tasks : Precedes(t, u)
  BY <1>1 DEF InOrder, Increasing, Precedes
<1> QED
  BY <1>2, <1>3, InitHomeInv DEF OrderInv, NewestInHand

\* A datagram that was just received is the newest of all.
LEMMA ReceiveOrder == ASSUME OrderInv, NEW c \in Clients, MainReceive(c) PROVE OrderInv'
<1>0. HomeInv /\ TableInv /\ TypeInv /\ TypeOK /\ HomeInv'
  BY StepHomeInv DEF OrderInv, HomeInv, TableInv, TypeInv, Next, MainStep
<1>1. /\ UNCHANGED <<client, opener, pc, rx, toBroker>>
      /\ main' = [at |-> IF Lookup(c) # 0 THEN "forward" ELSE "create",
                  pkt |-> Len(from'), task |-> Lookup(c)]
  BY DEF MainReceive, taskVars
<1>2. Len(from') = Len(from) + 1 /\ Len(from) \in Nat
  BY <1>0, AppendProperties, LenProperties DEF MainReceive, TypeOK
<1>3. \A t \in Tasks : Kept(t)' = Kept(t)
  BY <1>1 DEF Kept
<1>4. NewestInHand'
  <2> SUFFICES ASSUME NEW t \in Tasks
               PROVE  /\ opener[t] < Len(from')
                      /\ \A i \in 1..Len(Kept(t)) : Kept(t)[i] < Len(from')
    BY <1>1, <1>3 DEF NewestInHand
  <2> QED
    BY <1>0, <1>2, KeptIsNat
<1>5. main'.at = "forward" => main'.task \in Registered
  BY <1>0, <1>1 DEF Lookup, TableInv, TableOwned, EntryIsOwned
<1>6. Registered' = Registered
  BY <1>1 DEF Registered
<1>7. \A t \in Tasks : InOrder(t)' /\ \A u \in Tasks : Precedes(t, u)'
  BY <1>1, <1>3 DEF OrderInv, InOrder, Precedes
<1>8. \A t \in Registered : Newest(t)'
  BY <1>1 DEF OrderInv, Newest
<1>9. main'.at = "forward" => Newest(main.task)'
  BY <1>1, <1>5 DEF OrderInv, Newest
<1> QED
  BY <1>0, <1>4, <1>6, <1>7, <1>8, <1>9 DEF OrderInv

\* A task that keeps one more keeps the newest, and nobody has succeeded it.
LEMMA ForwardOrdered == ASSUME OrderInv, MainForward PROVE OrderInv'
<1>0. HomeInv /\ TableInv /\ TypeInv /\ TypeOK /\ HomeInv'
  BY StepHomeInv DEF OrderInv, HomeInv, TableInv, TypeInv, Next, MainStep
<1>1. UNCHANGED <<from, client, opener, pc>> /\ main' = Select /\ main.at = "forward"
  BY DEF MainForward
<1>2. main.pkt \in Nat
  BY <1>0, <1>1, KeptIsNat DEF TypeInv, MainHolds
<1>3. ASSUME NEW t \in Tasks PROVE InOrder(t)' /\ \A u \in Tasks : Precedes(t, u)'
  <2>1. CASE Kept(t)' = Kept(t)
    BY <1>1, <2>1 DEF OrderInv, InOrder, Precedes
  <2>2. CASE Forwarded(t)
    <3>1. Extends(Kept(t)', Kept(t), main.pkt) /\ t = main.task
      BY <2>2 DEF Forwarded
    <3>2. /\ Kept(t) \in Seq(Nat) /\ Len(Kept(t)) \in Nat
          /\ \A i \in 1..Len(Kept(t)) : Kept(t)[i] < main.pkt
          /\ opener[t] < main.pkt /\ Increasing(Kept(t))
          /\ \A i \in 1..Len(Kept(t)) : Kept(t)[i] > opener[t]
      BY <1>0, <1>1, KeptIsNat DEF OrderInv, NewestInHand, InOrder
    <3>3. Increasing(Kept(t)')
      BY <1>2, <3>1, <3>2, ExtendsIncreasing
    <3>4. ASSUME NEW i \in 1..Len(Kept(t)') PROVE Kept(t)'[i] > opener[t]
      <4>1. i \in 1..Len(Kept(t)) \/ i = Len(Kept(t)) + 1
        BY <3>1, <3>2 DEF Extends
      <4> QED
        BY <1>2, <3>1, <3>2, <4>1 DEF Extends
    <3>5. InOrder(t)'
      BY <1>1, <3>3, <3>4 DEF InOrder, Increasing
    <3>6. \A u \in Tasks : client[u] = client[t] => ~(opener[t] < opener[u])
      BY <1>0, <1>1, <3>1, KeptIsNat DEF OrderInv, Newest
    <3> QED
      BY <1>1, <3>5, <3>6 DEF Precedes
  <2> QED
    BY <1>0, <1>1, <2>1, <2>2, KeptStep DEF Next, MainStep, Truncated, Select
<1>4. \A t \in Registered : Newest(t)'
  BY <1>1 DEF OrderInv, Newest
<1>5. Registered' = Registered /\ main'.at = "select"
  BY <1>1 DEF Registered, Select
<1> QED
  BY <1>0, <1>3, <1>4, <1>5 DEF OrderInv, NewestInHand

\* A new task is the newest of its client, and has kept nothing.
LEMMA CreateOrder == ASSUME OrderInv, MainCreates PROVE OrderInv'
<1>0. HomeInv /\ TableInv /\ TypeInv /\ TypeOK /\ HomeInv'
  BY StepHomeInv DEF OrderInv, HomeInv, TableInv, TypeInv, Next, MainStep
<1>1. PICK t \in Tasks, c \in Clients :
        /\ pc[t] = "free" /\ table[c] = 0
        /\ client' = [client EXCEPT ![t] = c]
        /\ opener' = [opener EXCEPT ![t] = main.pkt]
        /\ pc' = [pc EXCEPT ![t] = "bind"]
        /\ main' = Select
        /\ UNCHANGED <<from, rx, toBroker>>
  BY <1>0, CreateMoves
<1>2. \A u \in Tasks : Kept(u)' = Kept(u)
  BY <1>1 DEF Kept
<1>3. Kept(t) = <<>> /\ Len(Kept(t)) = 0
  BY <1>0, <1>1, EmptySeq DEF HomeInv, KeepsOwn, Started
<1>4. \A u \in Tasks : /\ client'[u] = IF u = t THEN c ELSE client[u]
                       /\ opener'[u] = IF u = t THEN main.pkt ELSE opener[u]
                       /\ pc'[u] = IF u = t THEN "bind" ELSE pc[u]
  BY <1>0, <1>1 DEF TypeOK
<1>5. \A u \in Tasks : /\ opener[u] < main.pkt /\ opener[u] \in Nat /\ main.pkt \in Nat
                       /\ \A i \in 1..Len(Kept(u)) : Kept(u)[i] < main.pkt
  BY <1>0, KeptIsNat DEF OrderInv, NewestInHand, MainCreates, TypeInv, MainHolds
<1>6. ASSUME NEW u \in Tasks PROVE InOrder(u)' /\ \A v \in Tasks : Precedes(u, v)'
  <2>1. CASE u = t
    BY <1>2, <1>3, <2>1 DEF InOrder, Increasing, Precedes
  <2>2. CASE u # t
    <3>1. InOrder(u)'
      BY <1>2, <1>4, <2>2 DEF OrderInv, InOrder
    <3>2. ASSUME NEW v \in Tasks PROVE Precedes(u, v)'
      <4>1. CASE v = t
        BY <1>2, <1>4, <1>5, <2>2, <4>1 DEF Precedes
      <4>2. CASE v # t
        BY <1>2, <1>4, <2>2, <4>2 DEF OrderInv, Precedes
      <4> QED
        BY <4>1, <4>2
    <3> QED
      BY <3>1, <3>2
  <2> QED
    BY <2>1, <2>2
<1>7. \A u \in Tasks : u \in Registered' <=> u = t \/ u \in Registered
  BY <1>1, <1>4 DEF Registered, Running
<1>8. ASSUME NEW u \in Registered' PROVE Newest(u)'
  <2>0. u \in Tasks
    BY DEF Registered
  <2>1. CASE u = t
    BY <1>4, <1>5, <2>1 DEF Newest
  <2>2. CASE u # t
    <3>1. u \in Registered /\ client[u] # c
      BY <1>0, <1>1, <1>7, <2>0, <2>2, TaskIsNotZero DEF TableInv, TableOwned, OwnsEntry
    <3> QED
      BY <1>4, <2>0, <2>2, <3>1 DEF OrderInv, Newest
  <2> QED
    BY <2>1, <2>2
<1>9. main'.at = "select"
  BY <1>1 DEF Select
<1> QED
  BY <1>0, <1>6, <1>8, <1>9 DEF OrderInv, NewestInHand

\* Nothing else opens a task or adds to what one keeps.
LEMMA OtherOrder ==
    ASSUME OrderInv,
           \/ MainReceiveFails \/ MainSends \/ MainStops \/ UNCHANGED vars
           \/ \E t \in Tasks : TaskStep(t)
    PROVE  OrderInv'
<1>0. HomeInv /\ TableInv /\ TypeInv /\ TypeOK /\ HomeInv' /\ [Next]_vars
  BY StepHomeInv DEF OrderInv, HomeInv, TableInv, TypeInv, Next, MainStep
<1>1. /\ UNCHANGED <<from, client, opener>>
      /\ main' = main \/ (main'.at \notin {"forward", "create"} /\ main.at # "forward")
  <2>1. CASE \E t \in Tasks : TaskStep(t)
    BY <1>0, <2>1, TaskMoves
  <2>2. CASE MainReceiveFails \/ MainSends \/ MainStops \/ UNCHANGED vars
    BY <1>0, <2>2, SelectType DEF MainReceiveFails, MainSends, MainStops, vars, taskVars, Drains
  <2> QED
    BY <2>1, <2>2
<1>2. \A t \in Tasks : Kept(t)' = Kept(t) \/ Truncated(t)
  <2>1. \A t \in Tasks : ~Forwarded(t)
    BY <1>1, SelectType, <1>0 DEF Forwarded
  <2> QED
    BY <1>0, <2>1, KeptStep
<1>3. \A t \in Tasks :
        /\ Len(Kept(t)) \in Nat /\ Len(Kept(t)') \in Nat
        /\ Begins(Kept(t)', Kept(t))
  <2> TAKE t \in Tasks
  <2>1. Len(Kept(t)) \in Nat
    BY <1>0, KeptType
  <2> QED
    BY <1>0, <1>2, <2>1, KeptType, StepTypeInv DEF Begins, Truncated, TypeInv
<1>4. ASSUME NEW t \in Tasks PROVE InOrder(t)' /\ \A u \in Tasks : Precedes(t, u)'
  <2>1. Increasing(Kept(t)')
    BY <1>3, BeginsIncreasing DEF OrderInv, InOrder
  <2>2. ASSUME NEW i \in 1..Len(Kept(t)')
        PROVE  i \in 1..Len(Kept(t)) /\ Kept(t)'[i] = Kept(t)[i]
    BY <1>3 DEF Begins
  <2>3. InOrder(t)'
    BY <1>1, <2>1, <2>2 DEF OrderInv, InOrder, Increasing
  <2> QED
    BY <1>1, <2>2, <2>3 DEF OrderInv, Precedes
<1>5. NewestInHand'
  <2> SUFFICES ASSUME main'.at \in {"forward", "create"}
               PROVE  /\ main'.pkt = Len(from)
                      /\ \A t \in Tasks : opener[t] < main'.pkt
                            /\ \A i \in 1..Len(Kept(t)') : Kept(t)'[i] < main'.pkt
    BY <1>1 DEF NewestInHand
  <2>1. main' = main
    BY <1>1
  <2> QED
    BY <1>3, <2>1 DEF OrderInv, NewestInHand, Begins
<1>6. \A t \in Tasks : t \in Registered' => t \in Registered
  <2>1. ASSUME NEW t \in Tasks, TaskStep(t) PROVE \A u \in Tasks : u \in Registered' => u \in Registered
    BY <1>0, <2>1, TaskMoves DEF Registered, Running
  <2>2. CASE MainReceiveFails \/ MainSends \/ MainStops \/ UNCHANGED vars
    BY <2>2 DEF MainReceiveFails, MainSends, MainStops, vars, taskVars, Registered
  <2> QED
    BY <2>1, <2>2
<1>7. \A t \in Registered' : Newest(t)'
  BY <1>1, <1>6 DEF OrderInv, Newest, Registered
<1>8. main'.at = "forward" => Newest(main.task)'
  BY <1>1 DEF OrderInv, Newest
<1> QED
  BY <1>0, <1>4, <1>5, <1>7, <1>8 DEF OrderInv

LEMMA StepOrderInv == OrderInv /\ [Next]_vars => OrderInv'
  BY ReceiveOrder, ForwardOrdered, CreateOrder, OtherOrder DEF Next, MainStep

\* The broker sees a client's datagrams in the order they arrived, none twice,
\* through one task and through the tasks that follow it, and never the datagram
\* that opened a task.
THEOREM UdpKeepsOrder == Spec => []ForwardOrder
<1>1. OrderInv => ForwardOrder
  BY DEF OrderInv, InOrder, Precedes, ForwardOrder
<1> QED
  BY <1>1, InitOrderInv, StepOrderInv, PTL DEF Spec

-----------------------------------------------------------------------------
(* Drops.                                                                  *)

\* Of a task that can still be forwarded to, every datagram of its client since
\* it was opened is kept, was dropped from a full channel, or is in hand.
Holds(t, i) == \E k \in 1..Len(Kept(t)) : Kept(t)[k] = i
WasFull(t, i) == \E k \in 1..Len(Kept(t)) : k >= ClientCapacity /\ Kept(t)[k] < i
Served(t) == t \in Registered \/ (main.at = "forward" /\ main.task = t /\ pc[t] # "gone")
InHand(i) == main.at = "forward" /\ i = main.pkt
Accounted(t) == Served(t) => \A i \in 1..Len(from) :
    i > opener[t] /\ from[i] = client[t] => Holds(t, i) \/ WasFull(t, i) \/ InHand(i)
NoGaps(t) == \A n \in 1..Len(Kept(t)) : \A i \in 1..Len(from) :
    i > opener[t] /\ i <= Kept(t)[n] /\ from[i] = client[t] => Holds(t, i) \/ WasFull(t, i)
OneTarget == main.at = "forward" =>
    \A u \in Registered : client[u] = client[main.task] => u = main.task
DropInv == OrderInv /\ OneTarget /\ \A t \in Tasks : Accounted(t) /\ NoGaps(t)

LEMMA InitDropInv == Init => DropInv
<1> SUFFICES ASSUME Init PROVE DropInv
  OBVIOUS
<1>1. \A t \in Tasks : Len(Kept(t)) = 0
  BY ConcatEmptySeq, EmptySeq DEF Init, Kept
<1>2. Registered = {} /\ main.at = "select"
  BY DEF Init, Registered, Running, Select
<1> QED
  BY <1>1, <1>2, InitOrderInv DEF DropInv, OneTarget, Accounted, NoGaps, Served

LEMMA ReceiveDrops == ASSUME DropInv, NEW c \in Clients, MainReceive(c) PROVE DropInv'
<1>0. OrderInv /\ TableInv /\ TypeInv /\ TypeOK /\ OrderInv'
  BY StepOrderInv DEF DropInv, OrderInv, HomeInv, TableInv, TypeInv, Next, MainStep
<1>1. /\ UNCHANGED <<client, opener, pc, rx, toBroker, table>>
      /\ main' = [at |-> IF table[c] # 0 THEN "forward" ELSE "create",
                  pkt |-> Len(from'), task |-> table[c]]
      /\ main.at = "select"
  BY DEF MainReceive, taskVars, Lookup
<1>2. /\ Len(from') = Len(from) + 1 /\ Len(from) \in Nat
      /\ from'[Len(from) + 1] = c /\ \A i \in 1..Len(from) : from'[i] = from[i]
  BY <1>0, AppendProperties, LenProperties DEF MainReceive, TypeOK
<1>3. \A t \in Tasks : Kept(t)' = Kept(t)
  BY <1>1 DEF Kept
<1>4. Registered' = Registered /\ Registered \subseteq Tasks
  BY <1>1 DEF Registered
<1>5. \A t \in Registered : table[client[t]] = t /\ t # 0
  BY <1>0, <1>4, TaskIsNotZero DEF TableInv, TableOwned, OwnsEntry
<1>6. main'.at = "forward" => main'.task = table[c] /\ table[c] \in Registered /\ client[table[c]] = c
  BY <1>0, <1>1 DEF TableInv, TableOwned, EntryIsOwned
<1>7. OneTarget'
  BY <1>1, <1>4, <1>5, <1>6 DEF OneTarget
<1>8. ASSUME NEW t \in Tasks PROVE Accounted(t)'
  <2> SUFFICES ASSUME Served(t)', NEW i \in 1..Len(from'), i > opener[t], from'[i] = client[t]
               PROVE  Holds(t, i)' \/ WasFull(t, i)' \/ InHand(i)'
    BY <1>1 DEF Accounted
  <2>1. t \in Registered
    BY <1>4, <1>6 DEF Served
  <2>2. CASE i \in 1..Len(from)
    BY <1>1, <1>2, <1>3, <2>1, <2>2 DEF DropInv, Accounted, Served, Holds, WasFull, InHand
  <2>3. CASE i = Len(from) + 1
    <3>1. table[c] = t /\ t # 0
      BY <1>2, <1>5, <2>1, <2>3
    <3> QED
      BY <1>1, <1>2, <2>3, <3>1 DEF InHand
  <2> QED
    BY <1>2, <2>2, <2>3
<1>9. ASSUME NEW t \in Tasks PROVE NoGaps(t)'
  <2> SUFFICES ASSUME NEW n \in 1..Len(Kept(t)), NEW i \in 1..Len(from'),
                      i > opener[t], i <= Kept(t)[n], from'[i] = client[t]
               PROVE  Holds(t, i)' \/ WasFull(t, i)'
    BY <1>1, <1>3 DEF NoGaps
  <2>1. i \in 1..Len(from)
    BY <1>0, <1>2, KeptIsNat
  <2> QED
    BY <1>2, <1>3, <2>1 DEF DropInv, NoGaps, Holds, WasFull
<1> QED
  BY <1>0, <1>7, <1>8, <1>9 DEF DropInv

\* A datagram in hand is kept unless the channel is full.
LEMMA KeptOrFull ==
    ASSUME TypeInv, MainForward, NEW t \in Tasks, t = main.task, pc[t] # "gone",
           Kept(t)' = Kept(t)
    PROVE  Len(Kept(t)) >= ClientCapacity
<1>0. /\ toBroker[t] \in Seq(1..Len(from)) /\ rx[t] \in Seq(1..Len(from))
      /\ rx \in [Tasks -> Seq(1..Len(from))] /\ main.pkt \in 1..Len(from)
      /\ toBroker' = toBroker
  BY DEF TypeInv, TypeOK, MainHolds, MainForward
<1>1. /\ Len(Kept(t)) = Len(toBroker[t]) + Len(rx[t])
      /\ Len(toBroker[t]) \in Nat /\ Len(rx[t]) \in Nat
  BY <1>0, ConcatProperties, LenProperties DEF Kept
<1>2. ~(Len(rx[t]) < ClientCapacity)
  <2> SUFFICES ASSUME Len(rx[t]) < ClientCapacity PROVE FALSE
    OBVIOUS
  <2>1. rx'[t] = Append(rx[t], main.pkt)
    BY <1>0 DEF MainForward, TryForward
  <2>2. Extends(Kept(t)', Kept(t), main.pkt)
    BY <1>0, <2>1, AppendExtends DEF Kept
  <2>3. Len(Kept(t)) \in Nat
    BY KeptType DEF TypeInv
  <2> QED
    BY <2>2, <2>3 DEF Extends
<1> DEFINE m == Len(toBroker[t])
           n == Len(rx[t])
<1>3. m \in Nat /\ n \in Nat /\ ~(n < ClientCapacity) /\ Len(Kept(t)) = m + n /\ ClientCapacity \in Nat
  BY <1>1, <1>2, UdpAssumption DEF UdpAssumption
<1> HIDE DEF m, n
<1> QED
  BY <1>3

LEMMA ForwardDrops == ASSUME DropInv, MainForward PROVE DropInv'
<1>0. OrderInv /\ TableInv /\ TypeInv /\ TypeOK /\ OrderInv'
  BY StepOrderInv DEF DropInv, OrderInv, HomeInv, TableInv, TypeInv, Next, MainStep
<1>1. UNCHANGED <<from, client, opener, pc>> /\ main' = Select /\ main.at = "forward"
  BY DEF MainForward
<1>2. Registered' = Registered /\ main'.at = "select"
  BY <1>1 DEF Registered, Select
<1>3. /\ client[main.task] = from[main.pkt] /\ main.pkt \in 1..Len(from) /\ main.pkt \in Nat
      /\ main.task \in Tasks
  BY <1>0, <1>1, KeptIsNat DEF TableInv, TableOwned, ForwardsToOwner, TypeInv, MainHolds
<1>4. ASSUME NEW t \in Tasks PROVE Accounted(t)' /\ NoGaps(t)'
  <2>0. /\ Len(Kept(t)) \in Nat /\ \A i \in 1..Len(Kept(t)) : Kept(t)[i] \in Nat
        /\ \A i \in 1..Len(Kept(t)) : Kept(t)[i] < main.pkt
    BY <1>0, <1>1, KeptIsNat DEF OrderInv, NewestInHand
  <2>1. CASE Kept(t)' = Kept(t)
    <3>1. NoGaps(t)'
      BY <1>1, <2>1 DEF DropInv, NoGaps, Holds, WasFull
    <3>2. ASSUME Served(t)', NEW i \in 1..Len(from), i > opener[t], from[i] = client[t]
          PROVE  Holds(t, i)' \/ WasFull(t, i)'
      <4>1. t \in Registered
        BY <1>2, <3>2 DEF Served
      <4>2. CASE i # main.pkt
        BY <2>1, <3>2, <4>1, <4>2 DEF DropInv, Accounted, Served, InHand, Holds, WasFull
      <4>3. CASE i = main.pkt
        <5>1. t = main.task /\ pc[t] # "gone"
          BY <1>1, <1>3, <3>2, <4>1, <4>3 DEF DropInv, OneTarget, Registered, Running
        <5>2. Len(Kept(t)) >= ClientCapacity /\ ClientCapacity \in Nat \ {0}
          BY <1>0, <2>1, <5>1, KeptOrFull, UdpAssumption DEF UdpAssumption
        <5>3. Len(Kept(t)) \in 1..Len(Kept(t))
          BY <2>0, <5>2
        <5> QED
          BY <2>0, <2>1, <4>3, <5>2, <5>3 DEF WasFull
      <4> QED
        BY <4>2, <4>3
    <3> QED
      BY <1>1, <3>1, <3>2 DEF Accounted
  <2>2. CASE Forwarded(t)
    <3>1. Extends(Kept(t)', Kept(t), main.pkt) /\ Served(t)
      BY <2>2 DEF Forwarded, Served
    <3>2. \A i \in 1..Len(from) : /\ Holds(t, i) => Holds(t, i)'
                                  /\ WasFull(t, i) => WasFull(t, i)'
                                  /\ InHand(i) => Holds(t, i)'
      <4>1. \A k \in 1..Len(Kept(t)) : k \in 1..Len(Kept(t)') /\ Kept(t)'[k] = Kept(t)[k]
        BY <2>0, <3>1 DEF Extends
      <4>2. Len(Kept(t)) + 1 \in 1..Len(Kept(t)') /\ Kept(t)'[Len(Kept(t)) + 1] = main.pkt
        BY <2>0, <3>1 DEF Extends
      <4> QED
        BY <4>1, <4>2 DEF Holds, WasFull, InHand
    <3>3. \A i \in 1..Len(from) : i > opener[t] /\ from[i] = client[t]
                                    => Holds(t, i)' \/ WasFull(t, i)'
      BY <3>1, <3>2 DEF DropInv, Accounted
    <3> QED
      BY <1>1, <3>3 DEF Accounted, NoGaps
  <2> QED
    BY <1>0, <1>1, <2>1, <2>2, KeptStep DEF Next, MainStep, Truncated, Select
<1> QED
  BY <1>0, <1>2, <1>4 DEF DropInv, OneTarget

LEMMA CreateDrops == ASSUME DropInv, MainCreates PROVE DropInv'
<1>0. OrderInv /\ HomeInv /\ TableInv /\ TypeInv /\ TypeOK /\ OrderInv'
  BY StepOrderInv DEF DropInv, OrderInv, HomeInv, TableInv, TypeInv, Next, MainStep
<1>1. PICK t \in Tasks, c \in Clients :
        /\ pc[t] = "free" /\ client' = [client EXCEPT ![t] = c]
        /\ opener' = [opener EXCEPT ![t] = main.pkt]
        /\ pc' = [pc EXCEPT ![t] = "bind"]
        /\ main' = Select
        /\ UNCHANGED <<from, rx, toBroker>>
  BY <1>0, CreateMoves
<1>2. \A u \in Tasks : Kept(u)' = Kept(u)
  BY <1>1 DEF Kept
<1>3. Len(Kept(t)) = 0 /\ main.pkt = Len(from) /\ Len(from) \in Nat /\ main.at = "create"
  BY <1>0, <1>1, EmptySeq, KeptIsNat
     DEF HomeInv, KeepsOwn, Started, OrderInv, NewestInHand, MainCreates
<1>4. \A u \in Tasks \ {t} : client'[u] = client[u] /\ opener'[u] = opener[u] /\ pc'[u] = pc[u]
  BY <1>0, <1>1 DEF TypeOK
<1>5. opener'[t] = main.pkt
  BY <1>0, <1>1 DEF TypeOK
<1>6. main'.at = "select"
  BY <1>1 DEF Select
<1>7. ASSUME NEW u \in Tasks PROVE Accounted(u)' /\ NoGaps(u)'
  <2>1. CASE u = t
    BY <1>1, <1>2, <1>3, <1>5, <2>1 DEF Accounted, NoGaps
  <2>2. CASE u # t
    <3>1. Served(u)' => Served(u)
      BY <1>4, <1>6, <2>2 DEF Served, Registered
    <3> QED
      BY <1>1, <1>2, <1>3, <1>4, <2>2, <3>1 DEF DropInv, Accounted, NoGaps, Holds, WasFull, InHand
  <2> QED
    BY <2>1, <2>2
<1> QED
  BY <1>0, <1>6, <1>7 DEF DropInv, OneTarget

LEMMA OtherDrops ==
    ASSUME DropInv,
           \/ MainReceiveFails \/ MainSends \/ MainStops \/ UNCHANGED vars
           \/ \E t \in Tasks : TaskStep(t)
    PROVE  DropInv'
<1>0. /\ OrderInv /\ TableInv /\ TypeInv /\ TypeOK /\ OrderInv' /\ [Next]_vars
      /\ pc \in [Tasks -> {"free", "returned", "removed", "gone"} \cup Running]
  BY StepOrderInv DEF DropInv, OrderInv, HomeInv, TableInv, TypeInv, TypeOK, Next, MainStep
<1>1. /\ UNCHANGED <<from, client, opener>>
      /\ main' = main \/ (main'.at # "forward" /\ main.at # "forward")
      /\ \A t \in Tasks : /\ t \in Registered' => t \in Registered
                          /\ pc[t] = "gone" => pc'[t] = "gone"
  <2>1. ASSUME NEW t \in Tasks, TaskStep(t)
        PROVE  /\ UNCHANGED <<from, client, opener, main>>
               /\ \A u \in Tasks : /\ u \in Registered' => u \in Registered
                                   /\ pc[u] = "gone" => pc'[u] = "gone"
    BY <1>0, <2>1, TaskMoves DEF Registered, Running
  <2>2. CASE MainReceiveFails \/ MainSends \/ MainStops \/ UNCHANGED vars
    BY <1>0, <2>2, SelectType DEF MainReceiveFails, MainSends, MainStops, vars, taskVars, Drains,
       Registered
  <2> QED
    BY <2>1, <2>2
<1>2. ASSUME NEW t \in Tasks PROVE Kept(t)' = Kept(t) \/ Truncated(t)
  <2>1. ~Forwarded(t)
    BY <1>0, <1>1, SelectType DEF Forwarded
  <2> QED
    BY <1>0, <2>1, KeptStep
<1>3. ASSUME NEW t \in Tasks PROVE Accounted(t)' /\ NoGaps(t)'
  <2>1. CASE Kept(t)' = Kept(t)
    <3>1. Served(t)' => Served(t)
      BY <1>1 DEF Served
    <3>2. \A i \in 1..Len(from) : InHand(i) => InHand(i)'
      BY <1>1 DEF InHand
    <3> QED
      BY <1>1, <2>1, <3>1, <3>2 DEF DropInv, Accounted, NoGaps, Holds, WasFull
  <2>2. CASE Truncated(t)
    <3>1. ~Served(t)'
      BY <2>2 DEF Truncated, Served, Registered, Running
    <3>2. /\ Len(Kept(t)) \in Nat /\ Len(Kept(t)') \in Nat
          /\ Begins(Kept(t)', Kept(t)) /\ Increasing(Kept(t))
          /\ \A i \in 1..Len(Kept(t)) : Kept(t)[i] \in Nat
      BY <1>0, <2>2, KeptIsNat, StepTypeInv DEF Truncated, TypeInv, OrderInv, InOrder
    <3>3. ASSUME NEW n \in 1..Len(Kept(t)'), NEW i \in 1..Len(from), i > opener[t],
                 i <= Kept(t)'[n], from[i] = client[t]
          PROVE  Holds(t, i)' \/ WasFull(t, i)'
      <4>1. n \in 1..Len(Kept(t)) /\ Kept(t)'[n] = Kept(t)[n]
        BY <3>2 DEF Begins
      <4>2. Holds(t, i) \/ WasFull(t, i)
        BY <3>3, <4>1 DEF DropInv, NoGaps
      <4>3. \A k \in 1..Len(Kept(t)) : Kept(t)[k] <= i => k <= n
        BY <3>2, <3>3, <4>1 DEF Increasing
      <4>4. \A k \in 1..Len(Kept(t)) : Kept(t)[k] <= i
                => k \in 1..Len(Kept(t)') /\ Kept(t)'[k] = Kept(t)[k]
        BY <3>2, <4>1, <4>3 DEF Begins
      <4> QED
        BY <3>2, <4>2, <4>4 DEF Holds, WasFull
    <3> QED
      BY <1>1, <3>1, <3>3 DEF Accounted, NoGaps
  <2> QED
    BY <1>2, <2>1, <2>2
<1>4. OneTarget'
  BY <1>1 DEF DropInv, OneTarget, Registered
<1> QED
  BY <1>0, <1>3, <1>4 DEF DropInv

LEMMA StepDropInv == DropInv /\ [Next]_vars => DropInv'
  BY ReceiveDrops, ForwardDrops, CreateDrops, OtherDrops DEF Next, MainStep

\* A datagram that arrived between the one that opened a task and one the task
\* kept is missing only if it met a full channel.
THEOREM UdpDropsOnlyWhenFull == Spec => []DropsOnlyWhenFull
<1>1. DropInv => DropsOnlyWhenFull
  <2> SUFFICES ASSUME DropInv, NEW t \in Tasks, NEW n \in 1..Len(Kept(t)),
                      NEW i \in (opener[t] + 1)..Kept(t)[n],
                      from[i] = client[t], ~Holds(t, i)
               PROVE  WasFull(t, i)
    BY DEF DropsOnlyWhenFull, Holds, WasFull
  <2>1. TypeOK
    BY DEF DropInv, OrderInv, HomeInv, TableInv, TypeInv
  <2>2. i \in 1..Len(from) /\ i > opener[t] /\ i <= Kept(t)[n]
    BY <2>1, KeptIsNat
  <2> QED
    BY <2>2 DEF DropInv, NoGaps
<1> QED
  BY <1>1, InitDropInv, StepDropInv, PTL DEF Spec

-----------------------------------------------------------------------------
(* Refinement of Sessions.                                                 *)

\* The sources f of the datagrams s, as Inbox has them.
Sources(s, f) == [i \in 1..Len(s) |-> f[s[i]]]

LEMMA SourcesType ==
    ASSUME NEW f \in Seq(Clients), NEW s \in Seq(1..Len(f))
    PROVE  /\ Sources(s, f) \in Seq(Clients)
           /\ Len(Sources(s, f)) = Len(s) /\ Len(s) \in Nat
           /\ \A i \in 1..Len(s) : Sources(s, f)[i] = f[s[i]] /\ s[i] \in 1..Len(f)
<1>1. Len(s) \in Nat /\ \A i \in 1..Len(s) : s[i] \in 1..Len(f)
  BY LenProperties, ElementOfSeq
<1>2. Sources(s, f) \in [1..Len(s) -> Clients]
  BY <1>1, ElementOfSeq DEF Sources
<1>3. Sources(s, f) \in Seq(Clients)
  BY <1>1, <1>2, SeqDef
<1>4. DOMAIN Sources(s, f) = 1..Len(Sources(s, f)) /\ Len(Sources(s, f)) \in Nat
  BY <1>3, LenProperties
<1>5. 1..Len(Sources(s, f)) = 1..Len(s)
  BY <1>2, <1>4
<1>6. Len(Sources(s, f)) = Len(s)
  BY <1>1, <1>4, <1>5
<1> QED
  BY <1>1, <1>3, <1>6 DEF Sources

LEMMA SourcesAppend ==
    ASSUME NEW f \in Seq(Clients), NEW s \in Seq(1..Len(f)), NEW x \in 1..Len(f)
    PROVE  Sources(Append(s, x), f) = Append(Sources(s, f), f[x])
<1> DEFINE u == Append(s, x)
           w == Sources(s, f)
           v == Append(w, f[x])
<1>0. w \in Seq(Clients) /\ Len(w) = Len(s) /\ \A i \in 1..Len(s) : w[i] = f[s[i]]
  BY SourcesType
<1> HIDE DEF w
<1>1. /\ u \in Seq(1..Len(f)) /\ Len(u) = Len(s) + 1 /\ Len(s) \in Nat
      /\ \A i \in 1..Len(s) : u[i] = s[i]
      /\ u[Len(s) + 1] = x
  BY AppendProperties, LenProperties
<1>2. f[x] \in Clients
  BY ElementOfSeq
<1>3. /\ v \in Seq(Clients) /\ Len(v) = Len(s) + 1
      /\ \A i \in 1..Len(s) : v[i] = f[s[i]]
      /\ v[Len(s) + 1] = f[x]
  BY <1>0, <1>2, AppendProperties
<1> HIDE DEF u, v
<1>4. /\ Sources(u, f) \in Seq(Clients) /\ Len(Sources(u, f)) = Len(u)
      /\ \A i \in 1..Len(u) : Sources(u, f)[i] = f[u[i]]
  BY <1>1, SourcesType
<1>5. \A i \in 1..Len(u) : Sources(u, f)[i] = v[i]
  <2> TAKE i \in 1..Len(u)
  <2>1. i \in 1..Len(s) \/ i = Len(s) + 1
    BY <1>1
  <2>2. CASE i \in 1..Len(s)
    BY <1>1, <1>3, <1>4, <2>2
  <2>3. CASE i = Len(s) + 1
    BY <1>1, <1>3, <1>4, <2>3
  <2> QED
    BY <2>1, <2>2, <2>3
<1>6. Sources(u, f) = v
  BY <1>1, <1>3, <1>4, <1>5, SeqEqual
<1> QED
  BY <1>6 DEF u, v, w

LEMMA SourcesTail ==
    ASSUME NEW f \in Seq(Clients), NEW s \in Seq(1..Len(f)), s # <<>>
    PROVE  Sources(s, f) # <<>> /\ Sources(Tail(s), f) = Tail(Sources(s, f))
<1> DEFINE u == Tail(s)
           w == Sources(s, f)
           v == Tail(w)
<1>1. w \in Seq(Clients) /\ Len(w) = Len(s) /\ \A i \in 1..Len(s) : w[i] = f[s[i]]
  BY SourcesType
<1>2. /\ u \in Seq(1..Len(f)) /\ Len(u) = Len(s) - 1 /\ Len(s) \in Nat \ {0}
      /\ \A i \in 1..Len(u) : u[i] = s[i + 1]
  BY HeadTailProperties, LenProperties, EmptySeq
<1>3. w # <<>>
  BY <1>1, <1>2, EmptySeq
<1> HIDE DEF w
<1>4. /\ v \in Seq(Clients) /\ Len(v) = Len(s) - 1
      /\ \A i \in 1..Len(v) : v[i] = w[i + 1]
  BY <1>1, <1>3, HeadTailProperties
<1> HIDE DEF u, v
<1>5. \A i \in 1..Len(u) : v[i] = f[u[i]]
  <2> TAKE i \in 1..Len(u)
  <2>1. i + 1 \in 1..Len(s) /\ i \in 1..Len(v)
    BY <1>2, <1>4
  <2> QED
    BY <1>1, <1>2, <1>4, <2>1
<1>6. /\ Sources(u, f) \in Seq(Clients) /\ Len(Sources(u, f)) = Len(u)
      /\ \A i \in 1..Len(u) : Sources(u, f)[i] = f[u[i]]
  BY <1>2, SourcesType
<1>7. Len(Sources(u, f)) = Len(v) /\ \A i \in 1..Len(Sources(u, f)) : Sources(u, f)[i] = v[i]
  BY <1>2, <1>4, <1>5, <1>6
<1>8. Sources(u, f) = v
  BY <1>4, <1>6, <1>7, SeqEqual
<1> QED
  BY <1>3, <1>8 DEF u, v, w

\* Later arrivals do not change where earlier ones came from.
LEMMA SourcesStay ==
    ASSUME NEW f \in Seq(Clients), NEW c \in Clients, NEW s \in Seq(1..Len(f))
    PROVE  Sources(s, Append(f, c)) = Sources(s, f)
<1>1. \A i \in 1..Len(s) : s[i] \in 1..Len(f)
  BY ElementOfSeq
<1> QED
  BY <1>1, AppendProperties DEF Sources

absVars == <<client, Registered, Inbox>>

LEMMA InboxIsSources == Inbox = [t \in Tasks |-> Sources(rx[t], from)]
  BY DEF Inbox, Sources

LEMMA InitSessions == Init => Abstract!Init
<1> SUFFICES ASSUME Init PROVE Abstract!Init
  OBVIOUS
<1>1. client = [t \in Tasks |-> NoClient] /\ rx = [t \in Tasks |-> <<>>] /\ from = <<>>
  BY DEF Init
<1>2. Registered = {}
  BY DEF Init, Registered, Running
<1>3. Sources(<<>>, <<>>) = <<>>
  BY SourcesType, EmptySeq
<1>4. Inbox = [t \in Tasks |-> <<>>]
  BY <1>1, <1>3, InboxIsSources
<1> QED
  BY <1>1, <1>2, <1>4 DEF Abstract!Init

LEMMA ReceiveIsStutter ==
    ASSUME TableInv, NEW c \in Clients, MainReceive(c) PROVE UNCHANGED absVars
<1>1. /\ UNCHANGED <<client, pc, rx>> /\ from' = Append(from, c) /\ from \in Seq(Clients)
      /\ \A t \in Tasks : rx[t] \in Seq(1..Len(from))
  BY DEF MainReceive, taskVars, TableInv, TypeInv, TypeOK
<1>2. \A t \in Tasks : Sources(rx[t], from') = Sources(rx[t], from)
  BY <1>1, SourcesStay
<1>3. Inbox' = [t \in Tasks |-> Sources(rx'[t], from')]
  BY DEF Inbox, Sources
<1>4. Inbox' = Inbox
  BY <1>1, <1>2, <1>3, InboxIsSources
<1> QED
  BY <1>1, <1>4 DEF absVars, Registered

\* try_send() puts a datagram of the session's client before the session.
LEMMA ForwardIsPut ==
    ASSUME TableInv, MainForward PROVE Abstract!Next \/ UNCHANGED absVars
<1> DEFINE t == main.task
<1>0. TypeInv /\ TypeOK
  BY DEF TableInv, TypeInv
<1>1. /\ t \in Tasks /\ main.pkt \in 1..Len(from) /\ from \in Seq(Clients)
      /\ from[main.pkt] \in Clients /\ client[t] = from[main.pkt]
  BY <1>0, ElementOfSeq
     DEF MainForward, TypeInv, MainHolds, TypeOK, TableInv, TableOwned, ForwardsToOwner
<1>2. UNCHANGED <<client, Registered, from>>
  BY DEF MainForward, Registered
<1>3. rx' = rx \/ rx' = [rx EXCEPT ![t] = Append(@, main.pkt)]
  BY DEF MainForward, TryForward
<1> HIDE DEF t
<1>4. CASE rx' = rx
  BY <1>2, <1>4 DEF absVars, Inbox
<1>5. CASE rx' = [rx EXCEPT ![t] = Append(@, main.pkt)]
  <2>1. \A u \in Tasks : rx[u] \in Seq(1..Len(from))
    BY <1>0 DEF TypeOK
  <2>2. \A u \in Tasks : rx'[u] = IF u = t THEN Append(rx[t], main.pkt) ELSE rx[u]
    BY <1>0, <1>1, <1>5 DEF TypeOK
  <2>3. Sources(rx'[t], from) = Append(Sources(rx[t], from), client[t])
    BY <1>1, <2>1, <2>2, SourcesAppend
  <2>4. Inbox' = [u \in Tasks |-> Sources(rx'[u], from)]
    BY <1>2 DEF Inbox, Sources
  <2>5. Inbox' = [Inbox EXCEPT ![t] = Append(@, client[t])]
    BY <1>1, <2>2, <2>3, <2>4, InboxIsSources
  <2>6. client[t] # NoClient
    BY <1>1, UdpAssumption DEF UdpAssumption
  <2>7. Abstract!Put(t)
    BY <1>2, <2>5, <2>6 DEF Abstract!Put
  <2> QED
    BY <1>1, <2>7 DEF Abstract!Next
<1> QED
  BY <1>3, <1>4, <1>5

\* The insertion into the table opens a session: nobody has one for the client.
LEMMA CreateIsOpen == ASSUME TableInv, MainCreates PROVE Abstract!Next
<1>0. TypeInv /\ TypeOK
  BY DEF TableInv, TypeInv
<1>1. PICK t \in Tasks, c \in Clients :
        /\ pc[t] = "free" /\ client[t] = NoClient /\ table[c] = 0
        /\ client' = [client EXCEPT ![t] = c]
        /\ pc' = [pc EXCEPT ![t] = "bind"]
        /\ UNCHANGED <<from, rx>>
  BY CreateMoves
<1>2. \A u \in Tasks : pc'[u] = IF u = t THEN "bind" ELSE pc[u]
  BY <1>0, <1>1 DEF TypeOK
<1>3. Registered' = Registered \cup {t}
  BY <1>1, <1>2 DEF Registered, Running
<1>4. \A u \in Registered : client[u] # c
  BY <1>1, TaskIsNotZero DEF TableInv, TableOwned, OwnsEntry, Registered
<1>5. Inbox' = Inbox
  BY <1>1 DEF Inbox
<1>6. Abstract!Open(t, c)
  BY <1>1, <1>3, <1>4, <1>5 DEF Abstract!Open
<1> QED
  BY <1>1, <1>6 DEF Abstract!Next

\* A task takes what was put before it, closes its session when it removes its
\* entry, and loses what is left when it drops the receiver.
LEMMA TaskIsSession ==
    ASSUME TableInv, NEW t \in Tasks, TaskStep(t)
    PROVE  Abstract!Next \/ UNCHANGED absVars
<1>0. TypeInv /\ TypeOK
  BY DEF TableInv, TypeInv
<1>1. from \in Seq(Clients) /\ \A u \in Tasks : rx[u] \in Seq(1..Len(from))
  BY <1>0 DEF TypeOK
<1>2. /\ UNCHANGED <<client, from>> /\ \A u \in Tasks \ {t} : pc'[u] = pc[u]
      /\ \/ pc[t] \in Running /\ pc'[t] \in Running \cup {"returned"}
         \/ pc[t] = "returned" /\ pc'[t] = "removed"
         \/ pc[t] = "removed" /\ pc'[t] = "gone"
  BY <1>0, TaskMoves
<1>3. pc[t] # "returned" => Registered' = Registered
  <2>1. pc[t] # "returned" => \A u \in Tasks : u \in Registered' <=> u \in Registered
    BY <1>2 DEF Registered, Running
  <2> QED
    BY <2>1 DEF Registered
<1>4. Inbox' = [u \in Tasks |-> Sources(rx'[u], from)]
  BY <1>2 DEF Inbox, Sources
<1>5. CASE TaskReceives(t)
  <2>1. rx' = [rx EXCEPT ![t] = Tail(@)] /\ rx[t] # <<>> /\ pc[t] = "select"
    BY <1>5 DEF TaskReceives, SendToBroker
  <2>2. \A u \in Tasks : rx'[u] = IF u = t THEN Tail(rx[t]) ELSE rx[u]
    BY <1>0, <2>1 DEF TypeOK
  <2>3. Sources(rx[t], from) # <<>> /\ Sources(rx'[t], from) = Tail(Sources(rx[t], from))
    BY <1>1, <2>1, <2>2, SourcesTail
  <2>4. Inbox' = [Inbox EXCEPT ![t] = Tail(@)] /\ Inbox[t] # <<>>
    BY <1>4, <2>2, <2>3, InboxIsSources
  <2>5. t \in Registered
    BY <2>1 DEF Registered, Running
  <2>6. Abstract!Take(t)
    BY <1>2, <1>3, <2>1, <2>4, <2>5 DEF Abstract!Take
  <2> QED
    BY <2>6 DEF Abstract!Next
<1>6. CASE TaskRemoves(t)
  <2>1. pc[t] = "returned" /\ pc'[t] = "removed" /\ rx' = rx
    BY <1>0, <1>6 DEF TaskRemoves, Goto, TypeOK
  <2>2. \A u \in Tasks : u \in Registered' <=> u \in Registered /\ u # t
    BY <1>2, <2>1 DEF Registered, Running
  <2>3. Registered' = Registered \ {t}
    BY <2>2 DEF Registered
  <2>4. Abstract!Close(t)
    BY <1>2, <2>1, <2>3 DEF Abstract!Close, Inbox
  <2> QED
    BY <2>4 DEF Abstract!Next
<1>7. CASE TaskEnds(t)
  <2>1. pc[t] = "removed" /\ rx' = [rx EXCEPT ![t] = <<>>]
    BY <1>7 DEF TaskEnds
  <2>2. t \notin Registered
    BY <2>1 DEF Registered, Running
  <2>3. Sources(<<>>, from) = <<>>
    BY <1>1, SourcesType, EmptySeq
  <2>4. \A u \in Tasks : rx'[u] = IF u = t THEN <<>> ELSE rx[u]
    BY <1>0, <2>1 DEF TypeOK
  <2>5. Inbox' = [Inbox EXCEPT ![t] = <<>>]
    BY <1>4, <2>3, <2>4, InboxIsSources
  <2>6. Abstract!Discard(t)
    BY <1>2, <1>3, <2>1, <2>2, <2>5 DEF Abstract!Discard
  <2> QED
    BY <2>6 DEF Abstract!Next
<1>8. CASE ~(TaskReceives(t) \/ TaskRemoves(t) \/ TaskEnds(t))
  <2>1. rx' = rx /\ pc[t] # "returned"
    BY <1>8 DEF TaskStep, TaskBinds, TaskReadsSocket, TaskSends, TaskSendFails, TaskBreaks
  <2> QED
    BY <1>2, <1>3, <2>1 DEF absVars, Inbox
<1> QED
  BY <1>5, <1>6, <1>7, <1>8

\* UdpEndpoint mode gives a client one session at a time, gives a session one
\* client, and puts nothing before a session that is not of its client.
THEOREM UdpImplementsSessions == Spec => ImplementsSessions
<1>1. ASSUME TableInv, [Next]_vars PROVE [Abstract!Next]_absVars
  <2>1. ASSUME NEW c \in Clients, MainReceive(c) PROVE [Abstract!Next]_absVars
    BY <1>1, <2>1, ReceiveIsStutter
  <2>2. CASE MainForward
    BY <1>1, <2>2, ForwardIsPut
  <2>3. CASE MainCreates
    BY <1>1, <2>3, CreateIsOpen
  <2>4. ASSUME NEW t \in Tasks, TaskStep(t) PROVE [Abstract!Next]_absVars
    BY <1>1, <2>4, TaskIsSession
  <2>5. CASE MainReceiveFails \/ MainSends \/ MainStops \/ UNCHANGED vars
    <3>1. UNCHANGED <<client, pc, rx, from>>
      BY <2>5 DEF MainReceiveFails, MainSends, MainStops, vars, taskVars
    <3> QED
      BY <3>1 DEF absVars, Registered, Inbox
  <2> QED
    BY <1>1, <2>1, <2>2, <2>3, <2>4, <2>5 DEF Next, MainStep
<1>2. Abstract!Init /\ [][Abstract!Next]_absVars => ImplementsSessions
  BY DEF ImplementsSessions, Abstract!Spec, absVars
<1> QED
  BY <1>1, <1>2, InitSessions, InitTableInv, StepTableInv, PTL DEF Spec

=============================================================================

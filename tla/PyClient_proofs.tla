----------------------------- MODULE PyClient_proofs -----------------------------
(***************************************************************************)
(* The Python bindings: whatever tasks call whatever methods, the library  *)
(* sees one call at a time, of the future that holds the mutex, so that    *)
(* all that holds of the library holds of the bindings.                    *)
(***************************************************************************)
EXTENDS PyClient, ClientSessions_proofs, AckedCalls_proofs

\* A future waits for the mutex, once, or holds it while its call is in progress.
QueueOfWaiting ==
    /\ \A k \in 1..Len(queue) : job[queue[k]] = "waiting"
    /\ \A i, k \in 1..Len(queue) : queue[i] = queue[k] => i = k
    /\ \A j \in Jobs : job[j] = "waiting" => \E k \in 1..Len(queue) : queue[k] = j
OneHolder ==
    /\ \A j \in Jobs : job[j] = "holding" <=> holder = j
    /\ holder = NoJob <=> call.op = "idle"
CallOfHolder ==
    /\ holder \in Connects => call.op \in {"initializing", "awaitConnack"} /\ call.req = NoReq
    /\ holder \in Requests => call.op \in {"sending", "awaitAck"} /\ call.req = holder
    /\ holder \in Receives => call.op = "receiving" /\ call.req = NoReq

\* A request is made once, when its future has the mutex, and is in progress
\* as long as the future holds it.
CalledOnce ==
    \A r \in Requests :
        /\ job[r] \in {"new", "waiting"} => outcome[r] = "unused"
        /\ job[r] = "holding" <=> outcome[r] = "pending"

MutexInv == PyTypeOK /\ QueueOfWaiting /\ OneHolder /\ CallOfHolder /\ CalledOnce

LEMMA JobKinds ==
    /\ NoReq \notin Requests /\ NoJob \notin Jobs
    /\ \A j \in Jobs : \/ j \in Connects /\ j \notin Requests /\ j \notin Receives
                       \/ j \in Requests /\ j \notin Connects /\ j \notin Receives
                       \/ j \in Receives /\ j \notin Connects /\ j \notin Requests
BY ClientAssumption, PyAssumption DEF ClientAssumption, PyAssumption, Jobs

LEMMA InitMutexInv == PyInit => MutexInv
<1> SUFFICES ASSUME PyInit PROVE MutexInv
  OBVIOUS
<1>1. TypeOK
  BY InitTypeOK DEF PyInit
<1>2. queue = <<>> /\ queue \in Seq(Jobs) /\ 1..Len(queue) = {}
  <2>1. Len(<<>>) = 0 /\ 1..0 = {} /\ <<>> \in Seq(Jobs)
    BY EmptySeq
  <2> QED
    BY <2>1 DEF PyInit
<1>3. PyTypeOK
  BY <1>1, <1>2 DEF PyInit, PyTypeOK
<1>4. QueueOfWaiting
  BY <1>2 DEF PyInit, QueueOfWaiting
<1>5. OneHolder /\ CallOfHolder /\ CalledOnce
  BY JobKinds DEF PyInit, Init, Idle, OneHolder, CallOfHolder, CalledOnce, Jobs
<1> QED
  BY <1>3, <1>4, <1>5 DEF MutexInv

-----------------------------------------------------------------------------
(* The bindings implement the library.                                     *)

LEMMA PyStepIsStep == [PyNext]_allVars => [Next]_vars
<1> SUFFICES ASSUME [PyNext]_allVars PROVE [Next]_vars
  OBVIOUS
<1>1. CASE UNCHANGED allVars
  BY <1>1 DEF allVars
<1>2. CASE \E j \in Jobs : PyCall(j) \/ PyCancelWaiting(j)
  BY <1>2 DEF PyCall, PyCancelWaiting
<1>3. CASE PyStart
  BY <1>3 DEF PyStart, Calls, Next, ClientStep
<1>4. CASE PyContinue
  BY <1>4 DEF PyContinue, Continues, Next, ClientStep
<1>5. CASE \E c \in Conns : ConnectionStep(c) \/ PeerStep(c)
  BY <1>5 DEF Next
<1> QED
  BY <1>1, <1>2, <1>3, <1>4, <1>5 DEF PyNext

\* What the Python program sees is a behaviour of the library, with one caller.
THEOREM PyImplementsClient == PySpec => Spec
<1>1. PyInit => Init
  BY DEF PyInit
<1> QED
  BY <1>1, PyStepIsStep, PTL DEF PySpec, Spec

-----------------------------------------------------------------------------
(* One call at a time.                                                     *)

\* The queue after its element at place k has left.
LEMMA RemoveAtPlaces ==
    ASSUME NEW S, NEW s \in Seq(S), NEW k \in 1..Len(s)
    PROVE  /\ RemoveAt(s, k) \in Seq(S) /\ Len(RemoveAt(s, k)) = Len(s) - 1
           /\ \A i \in 1..(Len(s) - 1) :
                RemoveAt(s, k)[i] = IF i < k THEN s[i] ELSE s[i + 1]
<1> DEFINE n == Len(s)
           a == SubSeq(s, 1, k - 1)
           b == SubSeq(s, k + 1, Len(s))
<1>1. n \in Nat /\ k \in 1..n
  BY LenProperties
<1>2. /\ a \in Seq(S) /\ Len(a) = k - 1 /\ \A i \in 1..(k - 1) : a[i] = s[i]
      /\ b \in Seq(S) /\ Len(b) = n - k /\ \A i \in 1..(n - k) : b[i] = s[k + i]
  <2>1. /\ SubSeq(s, 1, k - 1) \in Seq(S)
        /\ Len(SubSeq(s, 1, k - 1)) = IF 1 <= k - 1 THEN (k - 1) - 1 + 1 ELSE 0
        /\ \A i \in 1..((k - 1) - 1 + 1) : SubSeq(s, 1, k - 1)[i] = s[1 + i - 1]
    BY <1>1, SubSeqProperties
  <2>2. /\ SubSeq(s, k + 1, n) \in Seq(S)
        /\ Len(SubSeq(s, k + 1, n)) = IF k + 1 <= n THEN n - (k + 1) + 1 ELSE 0
        /\ \A i \in 1..(n - (k + 1) + 1) : SubSeq(s, k + 1, n)[i] = s[(k + 1) + i - 1]
    BY <1>1, SubSeqProperties
  <2> HIDE DEF n
  <2>3. (k - 1) - 1 + 1 = k - 1 /\ n - (k + 1) + 1 = n - k
    BY <1>1
  <2>4. /\ \A i \in 1..(k - 1) : 1 + i - 1 = i
        /\ \A i \in 1..(n - k) : (k + 1) + i - 1 = k + i
    BY <1>1
  <2> QED
    BY <1>1, <2>1, <2>2, <2>3, <2>4 DEF n
<1>3. RemoveAt(s, k) = a \o b
  BY DEF RemoveAt
<1> HIDE DEF a, b
<1>4. /\ a \o b \in Seq(S) /\ Len(a \o b) = Len(a) + Len(b)
      /\ \A i \in 1..(Len(a) + Len(b)) :
           (a \o b)[i] = IF i <= Len(a) THEN a[i] ELSE b[i - Len(a)]
  BY <1>2, ConcatProperties
<1> HIDE DEF n
<1>5. Len(a) + Len(b) = n - 1
  BY <1>1, <1>2
<1>6. ASSUME NEW i \in 1..(n - 1) PROVE (a \o b)[i] = IF i < k THEN s[i] ELSE s[i + 1]
  <2>1. CASE i < k
    <3>1. i <= Len(a) /\ i \in 1..(k - 1)
      BY <1>1, <1>2, <2>1
    <3> QED
      BY <1>2, <1>4, <1>5, <2>1, <3>1
  <2>2. CASE ~(i < k)
    <3>1. ~(i <= Len(a)) /\ i - Len(a) = i - k + 1 /\ i - k + 1 \in 1..(n - k)
          /\ k + (i - k + 1) = i + 1
      BY <1>1, <1>2, <2>2
    <3> QED
      BY <1>2, <1>4, <1>5, <2>2, <3>1
  <2> QED
    BY <2>1, <2>2
<1> QED
  BY <1>3, <1>4, <1>5, <1>6 DEF n

\* A future enters the queue, or leaves it.
LEMMA QueueLeft ==
    ASSUME QueueOfWaiting, queue \in Seq(Jobs), NEW k \in 1..Len(queue), NEW s,
           job \in [Jobs -> {"new", "waiting", "holding", "done"}],
           queue' = RemoveAt(queue, k), s # "waiting",
           job' = [job EXCEPT ![queue[k]] = s]
    PROVE  QueueOfWaiting'
<1> DEFINE n == Len(queue)
<1>1. /\ n \in Nat /\ k \in 1..n /\ Len(queue') = n - 1
      /\ \A i \in 1..(n - 1) : queue'[i] = IF i < k THEN queue[i] ELSE queue[i + 1]
  BY RemoveAtPlaces, LenProperties
<1>2. \A i \in 1..n : queue[i] \in Jobs
  BY ElementOfSeq
<1>3. /\ \A i \in 1..n : job[queue[i]] = "waiting"
      /\ \A i, j \in 1..n : queue[i] = queue[j] => i = j
      /\ \A j \in Jobs : job[j] = "waiting" => \E i \in 1..n : queue[i] = j
  BY DEF QueueOfWaiting
<1> DEFINE At(i) == IF i < k THEN i ELSE i + 1
<1> HIDE DEF n
<1>4. ASSUME NEW i \in 1..(n - 1)
      PROVE  At(i) \in 1..n /\ At(i) # k /\ queue'[i] = queue[At(i)]
  BY <1>1
<1>a. \A i, j \in 1..(n - 1) : At(i) = At(j) => i = j
  BY <1>1
<1> HIDE DEF At
<1>5. ASSUME NEW i \in 1..(n - 1)
      PROVE  queue'[i] \in Jobs /\ queue'[i] # queue[k] /\ job'[queue'[i]] = "waiting"
  <2>1. queue[At(i)] \in Jobs /\ queue[At(i)] # queue[k] /\ job[queue[At(i)]] = "waiting"
    BY <1>1, <1>2, <1>3, <1>4
  <2> QED
    BY <1>4, <2>1
<1>6. ASSUME NEW i \in 1..(n - 1), NEW j \in 1..(n - 1), queue'[i] = queue'[j] PROVE i = j
  <2>1. At(i) = At(j)
    BY <1>3, <1>4, <1>6
  <2> QED
    BY <1>a, <2>1
<1>7. ASSUME NEW j \in Jobs, job'[j] = "waiting" PROVE \E i \in 1..(n - 1) : queue'[i] = j
  <2>1. j # queue[k] /\ job[j] = "waiting"
    BY <1>7
  <2>2. PICK i \in 1..n : queue[i] = j
    BY <1>3, <2>1
  <2>3. CASE i < k
    <3>1. i \in 1..(n - 1)
      BY <1>1, <2>3
    <3> QED
      BY <1>1, <2>2, <2>3, <3>1
  <2>4. CASE ~(i < k)
    <3>1. i - 1 \in 1..(n - 1) /\ ~(i - 1 < k) /\ (i - 1) + 1 = i
      BY <1>1, <2>1, <2>2, <2>4
    <3> QED
      BY <1>1, <2>2, <3>1
  <2> QED
    BY <2>3, <2>4
<1> QED
  BY <1>1, <1>5, <1>6, <1>7 DEF QueueOfWaiting

LEMMA QueueEntered ==
    ASSUME MutexInv, NEW j \in Jobs, PyCall(j) PROVE QueueOfWaiting' /\ queue' \in Seq(Jobs)
<1> DEFINE n == Len(queue)
<1>1. /\ queue \in Seq(Jobs) /\ job \in [Jobs -> {"new", "waiting", "holding", "done"}]
      /\ queue' = Append(queue, j) /\ job' = [job EXCEPT ![j] = "waiting"] /\ job[j] = "new"
  BY DEF MutexInv, PyTypeOK, PyCall
<1>2. /\ n \in Nat /\ Len(queue') = n + 1 /\ queue'[n + 1] = j /\ queue' \in Seq(Jobs)
      /\ \A i \in 1..n : queue'[i] = queue[i] /\ queue[i] \in Jobs
  BY <1>1, AppendProperties, LenProperties, ElementOfSeq
<1>3. /\ \A i \in 1..n : job[queue[i]] = "waiting"
      /\ \A i, k \in 1..n : queue[i] = queue[k] => i = k
      /\ \A d \in Jobs : job[d] = "waiting" => \E i \in 1..n : queue[i] = d
  BY DEF MutexInv, QueueOfWaiting
<1> HIDE DEF n
<1>4. /\ \A i \in 1..(n + 1) : i \in 1..n \/ i = n + 1
      /\ \A i \in 1..n : i \in 1..(n + 1)
      /\ n + 1 \in 1..(n + 1)
  BY <1>2
<1>5. \A i \in 1..n : queue'[i] # j
  BY <1>1, <1>2, <1>3
<1>6. \A i \in 1..(n + 1) : job'[queue'[i]] = "waiting"
  BY <1>1, <1>2, <1>3, <1>4
<1>7. \A i, k \in 1..(n + 1) : queue'[i] = queue'[k] => i = k
  BY <1>2, <1>3, <1>4, <1>5
<1>8. \A d \in Jobs : job'[d] = "waiting" => \E i \in 1..(n + 1) : queue'[i] = d
  BY <1>1, <1>2, <1>3, <1>4
<1> QED
  BY <1>2, <1>6, <1>7, <1>8 DEF QueueOfWaiting

\* What the call of future j does to the call in progress and to the requests.
Proceeds(j) ==
    /\ call' = Idle \/ call'.op # "idle"
    /\ call' # Idle =>
         /\ j \in Connects => call'.op \in {"initializing", "awaitConnack"} /\ call'.req = NoReq
         /\ j \in Requests => call'.op \in {"sending", "awaitAck"} /\ call'.req = j
         /\ j \in Receives => call'.op = "receiving" /\ call'.req = NoReq
    /\ \A r \in Requests \ {j} : outcome'[r] = outcome[r]
    /\ j \in Requests => (outcome'[j] = "pending" <=> call' # Idle)

LEMMA CallProceeds ==
    ASSUME MutexInv, NEW j \in Jobs, Calls(j) PROVE Proceeds(j)
<1>1. outcome \in [Requests -> {"unused", "pending", "ok", "err", "cancelled"}]
  BY DEF MutexInv, PyTypeOK, TypeOK, ApiType
<1>2. CASE j \in Connects /\ CallConnect
  BY <1>2, JobKinds DEF CallConnect, Idle, Proceeds
<1>3. CASE j \in Requests /\ CallRequest(j)
  BY <1>1, <1>3, JobKinds DEF CallRequest, Idle, Proceeds
<1>4. CASE j \in Receives /\ CallRcv
  BY <1>4, JobKinds DEF CallRcv, Idle, Proceeds, apiVars
<1> QED
  BY <1>2, <1>3, <1>4 DEF Calls

LEMMA HolderProceeds ==
    ASSUME MutexInv, holder # NoJob, Continues PROVE holder \in Jobs /\ Proceeds(holder)
<1> DEFINE j == holder
<1>1. /\ outcome \in [Requests -> {"unused", "pending", "ok", "err", "cancelled"}]
      /\ j \in Jobs /\ OneHolder /\ CallOfHolder /\ CalledOnce
  BY DEF MutexInv, PyTypeOK, TypeOK, ApiType
<1>2. /\ j \in Connects => call.op \in {"initializing", "awaitConnack"} /\ call.req = NoReq
      /\ j \in Requests => call.op \in {"sending", "awaitAck"} /\ call.req = j
      /\ j \in Receives => call.op = "receiving" /\ call.req = NoReq
  BY <1>1 DEF CallOfHolder
<1>3. j \in Requests => outcome[j] = "pending"
  BY <1>1 DEF OneHolder, CalledOnce, Jobs
<1>4. CASE ConnectInitFails \/ ConnectSpawns \/ ConnectReturns
  <2>1. /\ outcome' = outcome /\ j \in Connects
        /\ call' = Idle \/ call' = [op |-> "awaitConnack", req |-> NoReq]
    BY <1>1, <1>2, <1>4, JobKinds
       DEF ConnectInitFails, ConnectSpawns, ConnectReturns, apiVars
  <2> QED
    BY <1>1, <2>1, JobKinds DEF Proceeds, Idle
<1>5. CASE RequestEnqueue
  BY <1>1, <1>2, <1>3, <1>5, JobKinds DEF RequestEnqueue, Proceeds, Idle, apiVars
<1>6. CASE RequestReturns \/ RequestSendFails
  <2>1. /\ j \in Requests /\ call' = Idle
        /\ \/ outcome' = [outcome EXCEPT ![j] = "ok"]
           \/ outcome' = [outcome EXCEPT ![j] = "err"]
    BY <1>1, <1>2, <1>6, JobKinds DEF RequestReturns, RequestSendFails, FailsWhenEnded
  <2> QED
    BY <1>1, <2>1 DEF Proceeds
<1>7. CASE ReceiveReturns \/ ReceiveFails
  <2>1. /\ outcome' = outcome /\ j \in Receives /\ call' = Idle
    BY <1>1, <1>2, <1>7, JobKinds DEF ReceiveReturns, ReceiveFails, apiVars
  <2> QED
    BY <1>1, <2>1, JobKinds DEF Proceeds
<1>8. CASE CancelCall
  <2>1. /\ call' = Idle
        /\ outcome' = IF call.req \in Requests
                        THEN [outcome EXCEPT ![call.req] = "cancelled"] ELSE outcome
    BY <1>8 DEF CancelCall
  <2>2. CASE j \in Requests
    BY <1>1, <1>2, <2>1, <2>2 DEF Proceeds
  <2>3. CASE j \notin Requests
    <3>1. outcome' = outcome
      BY <1>1, <1>2, <2>1, <2>3, JobKinds
    <3> QED
      BY <1>1, <2>1, <2>3, <3>1 DEF Proceeds
  <2> QED
    BY <2>2, <2>3
<1> QED
  BY <1>1, <1>4, <1>5, <1>6, <1>7, <1>8 DEF Continues

\* A future that has the mutex keeps it exactly as long as its call.
LEMMA FollowKeeps ==
    ASSUME MutexInv, PyTypeOK', QueueOfWaiting', NEW j \in Jobs, holder \in {NoJob, j},
           Proceeds(j), Follow(j)
    PROVE  MutexInv'
<1>1. /\ job \in [Jobs -> {"new", "waiting", "holding", "done"}]
      /\ holder' = IF call' = Idle THEN NoJob ELSE j
      /\ job' = [job EXCEPT ![j] = IF call' = Idle THEN "done" ELSE "holding"]
      /\ OneHolder /\ CallOfHolder /\ CalledOnce /\ j # NoJob
  BY JobKinds DEF MutexInv, PyTypeOK, Follow, GuardOf
<1>2. OneHolder'
  <2>1. ASSUME NEW d \in Jobs PROVE job'[d] = "holding" <=> holder' = d
    BY <1>1, JobKinds DEF OneHolder
  <2>2. holder' = NoJob <=> call'.op = "idle"
    BY <1>1 DEF Proceeds, Idle
  <2> QED
    BY <2>1, <2>2 DEF OneHolder
<1>3. CallOfHolder'
  <2>1. CASE call' = Idle
    <3>1. holder' \notin Jobs
      BY <1>1, <2>1, JobKinds
    <3> QED
      BY <3>1 DEF CallOfHolder, Jobs
  <2>2. CASE call' # Idle
    BY <1>1, <2>2 DEF CallOfHolder, Proceeds
  <2> QED
    BY <2>1, <2>2
<1>4. CalledOnce'
  <2>1. ASSUME NEW r \in Requests, r # j
        PROVE  outcome'[r] = outcome[r] /\ job'[r] = job[r]
    BY <1>1, <2>1 DEF Proceeds, Jobs
  <2>2. ASSUME j \in Requests
        PROVE  /\ job'[j] \notin {"new", "waiting"}
               /\ job'[j] = "holding" <=> outcome'[j] = "pending"
    BY <1>1, <2>2 DEF Proceeds
  <2> QED
    BY <1>1, <2>1, <2>2 DEF CalledOnce
<1> QED
  BY <1>2, <1>3, <1>4 DEF MutexInv

LEMMA StepMutexInv == MutexInv /\ [PyNext]_allVars => MutexInv'
<1> SUFFICES ASSUME MutexInv, [PyNext]_allVars PROVE MutexInv'
  OBVIOUS
<1>t. /\ job \in [Jobs -> {"new", "waiting", "holding", "done"}]
      /\ queue \in Seq(Jobs) /\ holder \in Jobs \cup {NoJob}
      /\ outcome \in [Requests -> {"unused", "pending", "ok", "err", "cancelled"}]
      /\ QueueOfWaiting /\ OneHolder /\ CallOfHolder /\ CalledOnce
  BY DEF MutexInv, PyTypeOK, TypeOK, ApiType
<1>1. TypeOK'
  BY PyStepIsStep, StepTypeOK DEF MutexInv, PyTypeOK
<1>2. CASE UNCHANGED <<pyVars, call, outcome>>
  BY <1>1, <1>2 DEF MutexInv, PyTypeOK, QueueOfWaiting, OneHolder, CallOfHolder, CalledOnce, pyVars
<1>3. ASSUME NEW j \in Jobs, PyCall(j) PROVE MutexInv'
  <2>1. /\ UNCHANGED <<call, outcome, holder>> /\ job[j] = "new"
        /\ job' = [job EXCEPT ![j] = "waiting"]
    BY <1>3 DEF PyCall, vars, apiVars
  <2>2. QueueOfWaiting' /\ queue' \in Seq(Jobs)
    BY <1>3, QueueEntered
  <2>3. OneHolder' /\ CallOfHolder' /\ CalledOnce'
    BY <1>t, <2>1 DEF OneHolder, CallOfHolder, CalledOnce, Jobs
  <2> QED
    BY <1>t, <1>1, <2>1, <2>2, <2>3 DEF MutexInv, PyTypeOK
<1>4. ASSUME NEW j \in Jobs, PyCancelWaiting(j) PROVE MutexInv'
  <2>1. PICK k \in 1..Len(queue) : queue[k] = j /\ queue' = RemoveAt(queue, k)
    BY <1>4 DEF PyCancelWaiting
  <2>2. /\ UNCHANGED <<call, outcome, holder>> /\ job[j] = "waiting"
        /\ job' = [job EXCEPT ![j] = "done"]
    BY <1>4 DEF PyCancelWaiting, vars, apiVars
  <2>3. QueueOfWaiting'
    BY <1>t, <2>1, <2>2, QueueLeft
  <2>4. queue' \in Seq(Jobs)
    BY <1>t, <2>1, RemoveAtPlaces
  <2>5. OneHolder' /\ CallOfHolder' /\ CalledOnce'
    BY <1>t, <2>2 DEF OneHolder, CallOfHolder, CalledOnce, Jobs
  <2> QED
    BY <1>t, <1>1, <2>2, <2>3, <2>4, <2>5 DEF MutexInv, PyTypeOK
<1>5. CASE PyStart
  <2> DEFINE j == Head(queue)
  <2>1. /\ holder = NoJob /\ queue # <<>> /\ Calls(j) /\ Follow(j) /\ queue' = Tail(queue)
    BY <1>5 DEF PyStart
  <2>2. j \in Jobs /\ j = queue[1] /\ 1 \in 1..Len(queue) /\ Tail(queue) \in Seq(Jobs)
    BY <1>t, <2>1, HeadTailProperties, EmptySeq, LenProperties
  <2>3. Proceeds(j)
    BY <2>1, <2>2, CallProceeds
  <2>4. RemoveAt(queue, 1) = Tail(queue)
    <3>1. /\ RemoveAt(queue, 1) = SubSeq(queue, 1, 1 - 1) \o SubSeq(queue, 1 + 1, Len(queue))
          /\ SubSeq(queue, 1, 1 - 1) = <<>>
      BY <1>t, SubSeqEmpty DEF RemoveAt
    <3>2. SubSeq(queue, 1 + 1, Len(queue)) = Tail(queue)
      BY <1>t, <2>1, TailIsSubSeq
    <3> QED
      BY <2>2, <3>1, <3>2, ConcatEmptySeq
  <2>5. QueueOfWaiting'
    <3> DEFINE s == IF call' = Idle THEN "done" ELSE "holding"
    <3>1. s # "waiting" /\ job' = [job EXCEPT ![queue[1]] = s]
      BY <2>1, <2>2 DEF Follow
    <3> HIDE DEF s
    <3> QED
      BY <1>t, <2>1, <2>2, <2>4, <3>1, QueueLeft
  <2>6. PyTypeOK'
    BY <1>t, <1>1, <2>1, <2>2 DEF PyTypeOK, Follow, GuardOf
  <2> HIDE DEF j
  <2> QED
    BY <2>1, <2>2, <2>3, <2>5, <2>6, FollowKeeps
<1>6. CASE PyContinue
  <2>1. holder # NoJob /\ Continues /\ Follow(holder) /\ queue' = queue
    BY <1>6 DEF PyContinue
  <2>2. holder \in Jobs /\ Proceeds(holder)
    BY <2>1, HolderProceeds
  <2>3. PyTypeOK'
    BY <1>t, <1>1, <2>1, <2>2 DEF PyTypeOK, Follow, GuardOf
  <2>4. QueueOfWaiting'
    <3>1. job[holder] = "holding"
      BY <1>t, <2>2 DEF OneHolder
    <3> DEFINE s == IF call' = Idle THEN "done" ELSE "holding"
    <3>2. s # "waiting" /\ job' = [job EXCEPT ![holder] = s]
      BY <2>1 DEF Follow
    <3> HIDE DEF s
    <3>3. \A k \in 1..Len(queue) : queue[k] \in Jobs
      BY <1>t, ElementOfSeq
    <3> QED
      BY <1>t, <2>1, <2>2, <3>1, <3>2, <3>3 DEF QueueOfWaiting
  <2> QED
    BY <2>1, <2>2, <2>3, <2>4, FollowKeeps
<1>7. CASE (\E c \in Conns : ConnectionStep(c) \/ PeerStep(c)) /\ UNCHANGED pyVars
  <2>1. UNCHANGED <<call, outcome>>
    BY <1>7 DEF ConnectionStep, PeerStep, HandshakeCompletes, HandleRequest, NoPacketId,
       ConnectionClosed, ConnectionLost, EndTask, HandleIncoming, ConnackReceived, AckReceived,
       MessageReceived, DisconnectReceived, PeerCloses, BrokerAcks, BrokerAck, BrokerConnack,
       BrokerAnswers, BrokerPublish, BrokerDisconnect, apiVars
  <2> QED
    BY <1>2, <1>7, <2>1
<1>8. CASE UNCHANGED allVars
  BY <1>2, <1>8 DEF allVars, vars, apiVars
<1> QED
  BY <1>3, <1>4, <1>5, <1>6, <1>7, <1>8 DEF PyNext

\* The futures, the mutex and its queue keep their types, and so does all of the
\* library underneath.
THEOREM PyTypeCorrect == PySpec => []PyTypeOK
<1>1. MutexInv => PyTypeOK
  BY DEF MutexInv
<1> QED
  BY InitMutexInv, StepMutexInv, <1>1, PTL DEF PySpec

\* However many Python tasks call, the call in progress is that of the future
\* that holds the mutex, every other call that was made waits in the queue, once,
\* and a request is handed to the library at most once.
THEOREM OneCallAtATime == PySpec => [](QueueOfWaiting /\ OneHolder /\ CallOfHolder /\ CalledOnce)
<1>1. MutexInv => QueueOfWaiting /\ OneHolder /\ CallOfHolder /\ CalledOnce
  BY DEF MutexInv
<1> QED
  BY InitMutexInv, StepMutexInv, <1>1, PTL DEF PySpec

\* What the library promises its caller it promises the Python program.
THEOREM PyKeepsPromises ==
    PySpec => /\ ImplementsAckedCalls
              /\ [](OkMeansAnswered /\ FailedMeansUnsent)
              /\ [](ConnectOkMeansConnack /\ DeliveryOrder /\ GapsOnlyWhenFull)
              /\ []NoWakeUpLost
BY PyImplementsClient, ClientImplementsAckedCalls, OkIsAnswered, FailedIsUnsent,
   ConnectsAreAnswered, DeliveredInOrder, LostOnlyWhenFull, WakeUpsAreNotLost, PTL

=============================================================================

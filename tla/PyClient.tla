-------------------------------- MODULE PyClient --------------------------------
(***************************************************************************)
(* The Python bindings, src/python.rs, over the client library.  Every     *)
(* method of PyMqttClient spawns a future that locks the one mutex around  *)
(* the Client, calls the method of the Client and holds the mutex until it *)
(* returns.  Python tasks may have any number of them in progress.         *)
(***************************************************************************)
EXTENDS MqttClient, SequencesExt

CONSTANTS
    Connects,   \* the connect() calls the Python program may make
    Receives,   \* the receive() calls it may make
    NoJob       \* stands for "nobody holds the mutex"

Jobs == Requests \cup Connects \cup Receives

ASSUME PyAssumption ==
    /\ NoJob \notin Jobs
    /\ Requests \cap (Connects \cup Receives) = {}
    /\ Connects \cap Receives = {}

VARIABLES
    job,        \* per call of the Python program: where its future is
    queue,      \* the futures that wait for the mutex: Tokio's is first come, first served
    holder      \* the future whose guard is alive

pyVars == <<job, queue, holder>>
allVars == <<vars, pyVars>>

PyTypeOK ==
    /\ TypeOK
    /\ job \in [Jobs -> {"new", "waiting", "holding", "done"}]
    /\ queue \in Seq(Jobs)
    /\ holder \in Jobs \cup {NoJob}

PyInit ==
    /\ Init
    /\ job = [j \in Jobs |-> "new"]
    /\ queue = <<>>
    /\ holder = NoJob

\* future_into_py() spawns the future; it runs as far as lock().await.
PyCall(j) ==
    /\ job[j] = "new"
    /\ job' = [job EXCEPT ![j] = "waiting"]
    /\ queue' = Append(queue, j)
    /\ UNCHANGED <<vars, holder>>

\* What the future calls once it has the guard.
Calls(j) ==
    \/ j \in Connects /\ CallConnect
    \/ j \in Requests /\ CallRequest(j)
    \/ j \in Receives /\ CallRcv

\* The guard lives as long as the call: it is dropped when the call returns,
\* well or not, and when the future is dropped.
GuardKeptOnError(j) == IF call' = Idle /\ connected THEN NoJob ELSE j   \* mutant
GuardOf(j) == IF call' = Idle THEN NoJob ELSE j

Follow(j) ==
    /\ holder' = GuardOf(j)
    /\ job' = [job EXCEPT ![j] = IF call' = Idle THEN "done" ELSE "holding"]

PyStart ==
    /\ holder = NoJob /\ queue # <<>>
    /\ Calls(Head(queue))
    /\ Follow(Head(queue))
    /\ queue' = Tail(queue)

\* A step of the call in progress, the drop of its future included.
Continues ==
    \/ ConnectInitFails \/ ConnectSpawns \/ ConnectReturns
    \/ RequestEnqueue \/ RequestReturns \/ RequestSendFails
    \/ ReceiveReturns \/ ReceiveFails \/ CancelCall

PyContinue ==
    /\ holder # NoJob
    /\ Continues
    /\ Follow(holder)
    /\ queue' = queue

\* Python cancels a call that still waits for the mutex.
PyCancelWaiting(j) ==
    /\ job[j] = "waiting"
    /\ job' = [job EXCEPT ![j] = "done"]
    /\ \E k \in 1..Len(queue) : queue[k] = j /\ queue' = RemoveAt(queue, k)
    /\ UNCHANGED <<vars, holder>>

PyNext ==
    \/ \E j \in Jobs : PyCall(j) \/ PyCancelWaiting(j)
    \/ PyStart \/ PyContinue
    \/ (\E c \in Conns : ConnectionStep(c) \/ PeerStep(c)) /\ UNCHANGED pyVars

PySpec == PyInit /\ [][PyNext]_allVars

PyFairSpec == PySpec /\ Fairness /\ WF_allVars(PyStart)

-----------------------------------------------------------------------------
\* receive() holds the mutex while it waits for a message, and a call whose
\* connection is lost holds it for ever, so no call is sure to get its turn.  But
\* nothing else delays one: if every call that has the mutex ends, however it
\* ends, so does every wait for the mutex.
Holding == \E j \in Jobs : job[j] = "holding"
HoldersEnd == Holding ~> ~Holding
TurnsCome == (queue # <<>>) ~> (queue = <<>>)
OnlyHoldersDelay == HoldersEnd => TurnsCome

=============================================================================

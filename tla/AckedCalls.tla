------------------------------- MODULE AckedCalls -------------------------------
(***************************************************************************)
(* What publish() and subscribe() promise their caller: a call ends well   *)
(* only after the broker answered that very request; a call that ended in  *)
(* an error was not answered and never will be, so it may be repeated; a   *)
(* call that was given up may be answered later, or never.                 *)
(***************************************************************************)
CONSTANT Requests

VARIABLES
    outcome,    \* per request: how its call ended, as the caller saw it
    answered    \* the requests the broker has answered

Init ==
    /\ outcome = [r \in Requests |-> "unused"]
    /\ answered = {}

Becomes(r, from, to) ==
    /\ outcome[r] = from
    /\ outcome' = [outcome EXCEPT ![r] = to]
    /\ UNCHANGED answered

Call(r) == Becomes(r, "unused", "pending")
FailAtOnce(r) == Becomes(r, "unused", "err")
GiveUp(r) == Becomes(r, "pending", "cancelled")
Succeed(r) == r \in answered /\ Becomes(r, "pending", "ok")
Fail(r) == r \notin answered /\ Becomes(r, "pending", "err")

Answer(r) ==
    /\ outcome[r] \in {"pending", "cancelled"}
    /\ r \notin answered
    /\ answered' = answered \cup {r}
    /\ UNCHANGED outcome

Next ==
    \E r \in Requests :
        Call(r) \/ FailAtOnce(r) \/ GiveUp(r) \/ Succeed(r) \/ Fail(r) \/ Answer(r)

Spec == Init /\ [][Next]_<<outcome, answered>>

=============================================================================

-------------------------------- MODULE Sessions --------------------------------
(***************************************************************************)
(* What the proxy promises its clients in either mode: a client has one    *)
(* session at a time, a session belongs to one client for ever, and what   *)
(* is put before a session is of its client.  Opening a session is one     *)
(* step here; in the proxy it is a lookup under one lock, an insertion     *)
(* under another, and a removal by somebody else.                          *)
(***************************************************************************)
EXTENDS Sequences

CONSTANTS Keys, NoKey, Ids

VARIABLES
    of,     \* per session: its client, NoKey if it was never opened
    live,   \* the sessions that are open
    inbox   \* per session: the datagrams it has yet to take, by their client

Init ==
    /\ of = [s \in Ids |-> NoKey]
    /\ live = {}
    /\ inbox = [s \in Ids |-> <<>>]

Open(s, k) ==
    /\ of[s] = NoKey
    /\ \A u \in live : of[u] # k
    /\ of' = [of EXCEPT ![s] = k]
    /\ live' = live \cup {s}
    /\ UNCHANGED inbox

Put(s) ==
    /\ of[s] # NoKey
    /\ inbox' = [inbox EXCEPT ![s] = Append(@, of[s])]
    /\ UNCHANGED <<of, live>>

Take(s) ==
    /\ s \in live /\ inbox[s] # <<>>
    /\ inbox' = [inbox EXCEPT ![s] = Tail(@)]
    /\ UNCHANGED <<of, live>>

\* A session that is closed stays closed; what is left in its inbox is lost.
Close(s) ==
    /\ live' = live \ {s}
    /\ UNCHANGED <<of, inbox>>

Discard(s) ==
    /\ s \notin live
    /\ inbox' = [inbox EXCEPT ![s] = <<>>]
    /\ UNCHANGED <<of, live>>

Next ==
    \E s \in Ids :
        \/ \E k \in Keys : Open(s, k)
        \/ Put(s) \/ Take(s) \/ Close(s) \/ Discard(s)

Spec == Init /\ [][Next]_<<of, live, inbox>>

=============================================================================

------------------------------- MODULE RetryToken -------------------------------
(***************************************************************************)
(* The address-validation token of a Retry packet: mint_token() and        *)
(* validate_token() of src/proxy/mod.rs.  A token is a sequence of bytes:  *)
(* a prefix, the client's address, the connection id of its first Initial, *)
(* and an HMAC of all that under a key made when the proxy starts.         *)
(*                                                                         *)
(* The token of an Initial is read before anything of the packet is        *)
(* authenticated, so it arrives as it was minted, damaged on its way,      *)
(* at another address, or after the proxy has restarted.                   *)
(***************************************************************************)
EXTENDS Integers, Sequences, FiniteSets

CONSTANTS
    Byte,           \* the bytes of prefixes, addresses and connection ids
    Prefix,         \* TOKEN_PREFIX
    Addresses,      \* the octets of clients' addresses, IPv4 and IPv6
    Dcids,          \* the connection ids clients choose
    TagLen,         \* HMAC_TAG_LEN
    MaxKeys,        \* bound: starts of the proxy
    MaxMinted,      \* bound: tokens minted
    Damaged(_)      \* what may arrive in place of a set of tokens

\* The bytes of a tag: which one it is, of which key, over what.  Nobody makes
\* them without the key, so they are none of the bytes above, which are written
\* as sequences of one.
Keys == 1..(MaxKeys + 1)
TagBytes == (1..TagLen) \X Keys \X Seq(Byte)
Tokens == Seq(Byte \cup TagBytes)

ASSUME TokenAssumption ==
    /\ Prefix \in Seq(Byte)
    /\ Addresses \subseteq Seq(Byte)
    /\ Dcids \subseteq Seq(Byte)
    /\ \A b \in Byte : Len(b) = 1
    /\ TagLen \in Nat \ {0}
    /\ MaxKeys \in Nat /\ MaxMinted \in Nat

VARIABLES
    key,        \* token_key, by the number of the start that made it
    minted,     \* tokens sent in Retry packets, with what they were made from
    last        \* the last Initial with a token, and what became of the token

vars == <<key, minted, last>>

\* An HMAC.
Tag(k, data) == [i \in 1..TagLen |-> <<i, k, data>>]

MintWithoutPrefix(k, a, dcid) ==                            \* mutant
    a \o dcid \o Tag(k, a \o dcid)
MintTagOfAddress(k, a, dcid) ==                             \* mutant
    Prefix \o a \o dcid \o Tag(k, Prefix \o a)
MintToken(k, a, dcid) == Prefix \o a \o dcid \o Tag(k, Prefix \o a \o dcid)

\* &s[from..to] of a Rust slice, which panics out of bounds.
Panic == [is |-> "panic", id |-> <<>>]
None == [is |-> "none", id |-> <<>>]
Some(id) == [is |-> "some", id |-> id]
InBounds(s, from, to) == 0 <= from /\ from <= to /\ to <= Len(s)
Slice(s, from, to) == SubSeq(s, from + 1, to)

StartsAt(s, from, part) ==
    /\ InBounds(s, from, from + Len(part))
    /\ Slice(s, from, from + Len(part)) = part

HasAnyAddress(a, token) == Len(token) >= Len(Prefix) + Len(a)   \* mutant
HasAddress(a, token) == StartsAt(token, Len(Prefix), a)

LongEnoughForTag(a, token) == TRUE                          \* mutant
LongEnough(a, token) == Len(token) >= Len(Prefix) + Len(a) + TagLen

ValidateToken(k, a, token) ==
    LET start == Len(Prefix) + Len(a)
        end == Len(token) - TagLen
        data == Slice(token, 0, end)
    IN
    IF ~(StartsAt(token, 0, Prefix) /\ HasAddress(a, token) /\ LongEnough(a, token)) THEN None
    ELSE IF ~InBounds(token, 0, end) THEN Panic
    ELSE IF Slice(token, end, Len(token)) # Tag(k, data) THEN None
    ELSE IF ~InBounds(token, start, end) THEN Panic
    ELSE Some(Slice(token, start, end))

-----------------------------------------------------------------------------
NoInitial == [key |-> 0, addr |-> <<>>, token |-> <<>>, result |-> None]

Init ==
    /\ key = 1
    /\ minted = {}
    /\ last = NoInitial

\* An Initial without a token is answered by a Retry.
Retry(a, dcid) ==
    /\ Cardinality(minted) < MaxMinted
    /\ minted' = minted \cup
         {[key |-> key, addr |-> a, dcid |-> dcid, token |-> MintToken(key, a, dcid)]}
    /\ UNCHANGED <<key, last>>

\* What may arrive: a token that was minted, or what became of one.  It is made of
\* bytes anybody can make, and of parts of minted tokens.
Unforged(token) ==
    \A i \in 1..Len(token) :
        token[i] \in Byte \/ \E m \in minted : \E j \in 1..Len(m.token) : m.token[j] = token[i]
Minted == {m.token : m \in minted}
Arriving == {token \in Minted \cup Damaged(Minted) :
                token \in Tokens \ {<<>>} /\ Unforged(token)}

\* An Initial with a token: it is accepted if the token is valid, and dropped if not.
Arrive(a, token) ==
    /\ last' = [key |-> key, addr |-> a, token |-> token,
                result |-> ValidateToken(key, a, token)]
    /\ UNCHANGED <<key, minted>>

\* Proxy::new() generates a new key.
Restart ==
    /\ key < MaxKeys
    /\ key' = key + 1
    /\ UNCHANGED <<minted, last>>

Next ==
    \/ \E a \in Addresses : \E dcid \in Dcids : Retry(a, dcid)
    \/ \E a \in Addresses : \E token \in Arriving : Arrive(a, token)
    \/ Restart

Spec == Init /\ [][Next]_vars

-----------------------------------------------------------------------------
TypeOK ==
    /\ key \in Keys
    /\ \A m \in minted :
         /\ m.key \in 1..key /\ m.addr \in Addresses /\ m.dcid \in Dcids
         /\ m.token \in Tokens
         /\ Len(m.token) = Len(Prefix) + Len(m.addr) + Len(m.dcid) + TagLen
    /\ last.result.is \in {"none", "some", "panic"}

\* A client that repeats the token it was given, from the address it was given
\* it at, is accepted with the connection id it began with (quiche refuses the
\* handshake otherwise), as long as the proxy has not restarted.
OwnTokenAccepted ==
    \A m \in minted :
        m.key = key => ValidateToken(key, m.addr, m.token) = Some(m.dcid)

\* Nothing else is: an accepted token was minted by the same start, whole, for
\* the address it came from.  The token does not say where the address ends, so
\* what is certain is address and connection id together; addresses of one
\* family, being of one length, are certain too.
OnlyMintedAccepted ==
    last.result.is = "some" =>
        \E m \in minted :
            /\ m.token = last.token /\ m.key = last.key
            /\ m.addr \o m.dcid = last.addr \o last.result.id
            /\ Len(m.addr) = Len(last.addr) => m.addr = last.addr

\* No token, however short, makes a slice out of bounds: a panic in the main
\* loop would end the proxy for all its clients.
NeverPanics == last.result.is # "panic"

=============================================================================

------------------------------ MODULE MCRetryToken ------------------------------
(* Constants for model-checking RetryToken.                                *)
EXTENDS RetryToken

B == {<<0>>, <<1>>}
P == <<<<0>>>>
\* Two addresses of one family and one of another, which is longer.
Three == {<<<<0>>>>, <<<<1>>>>, <<<<0>>, <<1>>>>}
\* With the first one, one of the connection ids goes on like the long address.
Ids == {<<<<0>>>>, <<<<1>>, <<0>>>>}

\* A token cut off at either end or with one byte taken out, two tokens whose
\* tags were exchanged, and short runs of bytes.
Cut(s, i, j) == SubSeq(s, 1, i) \o SubSeq(s, j, Len(s))
MCDamaged(tokens) ==
    UNION { {SubSeq(s, 1, n) : n \in 1..Len(s)} \cup {SubSeq(s, n, Len(s)) : n \in 1..Len(s)}
              \cup {Cut(s, n, n + 2) : n \in 0..(Len(s) - 1)} : s \in tokens }
    \cup { SubSeq(s, 1, Len(s) - TagLen) \o SubSeq(t, Len(t) - TagLen + 1, Len(t)) :
              s \in tokens, t \in tokens }
    \cup UNION { [1..n -> Byte] : n \in 1..3 }
=============================================================================

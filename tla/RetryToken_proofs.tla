---------------------------- MODULE RetryToken_proofs ----------------------------
(***************************************************************************)
(* Proofs about RetryToken: for any prefix, addresses and connection ids,   *)
(* any length of the tag, and whatever becomes of a token on its way.      *)
(***************************************************************************)
EXTENDS RetryToken, SequenceTheorems, TLAPS

-----------------------------------------------------------------------------
(* Slices.                                                                 *)

\* What a slice within bounds is.
LEMMA SliceType ==
    ASSUME NEW S, NEW s \in Seq(S), NEW i \in Nat, NEW j \in Nat, InBounds(s, i, j)
    PROVE  /\ Slice(s, i, j) \in Seq(S) /\ Len(Slice(s, i, j)) = j - i
           /\ \A n \in 1..(j - i) : Slice(s, i, j)[n] = s[i + n]
<1>1. Len(s) \in Nat /\ \A n \in 1..Len(s) : s[n] \in S
  BY LenProperties, ElementOfSeq
<1>2. i + 1 \in Int /\ j \in Int /\ i <= j /\ j <= Len(s)
  BY <1>1 DEF InBounds
<1>3. \A n \in (i + 1)..j : s[n] \in S
  BY <1>1, <1>2
<1>4. /\ SubSeq(s, i + 1, j) \in Seq(S)
      /\ Len(SubSeq(s, i + 1, j)) = IF i + 1 <= j THEN j - (i + 1) + 1 ELSE 0
      /\ \A n \in 1..(j - (i + 1) + 1) : SubSeq(s, i + 1, j)[n] = s[(i + 1) + n - 1]
  BY ONLY <1>2, <1>3, SubSeqProperties
<1> QED
  BY <1>2, <1>4 DEF Slice

\* The middle part of three, and the first and the last of two.
LEMMA MiddleSlice ==
    ASSUME NEW S, NEW x \in Seq(S), NEW y \in Seq(S), NEW z \in Seq(S)
    PROVE  /\ InBounds((x \o y) \o z, Len(x), Len(x) + Len(y))
           /\ Slice((x \o y) \o z, Len(x), Len(x) + Len(y)) = y
<1> DEFINE s == (x \o y) \o z
<1>1. Len(x) \in Nat /\ Len(y) \in Nat /\ Len(z) \in Nat
  BY LenProperties
<1>2. /\ x \o y \in Seq(S) /\ Len(x \o y) = Len(x) + Len(y)
      /\ \A n \in 1..(Len(x) + Len(y)) :
           (x \o y)[n] = IF n <= Len(x) THEN x[n] ELSE y[n - Len(x)]
  BY ConcatProperties
<1>3. /\ s \in Seq(S) /\ Len(s) = Len(x) + Len(y) + Len(z)
      /\ \A n \in 1..(Len(x) + Len(y)) : s[n] = (x \o y)[n]
  BY <1>1, <1>2, ConcatProperties
<1> HIDE DEF s
<1>4. InBounds(s, Len(x), Len(x) + Len(y))
  BY <1>1, <1>3 DEF InBounds
<1> DEFINE c == Slice(s, Len(x), Len(x) + Len(y))
<1>5. /\ c \in Seq(S) /\ Len(c) = Len(y)
      /\ \A n \in 1..Len(y) : c[n] = s[Len(x) + n]
  <2>1. Len(x) + Len(y) \in Nat /\ (Len(x) + Len(y)) - Len(x) = Len(y)
    BY <1>1
  <2> QED
    BY <1>1, <1>3, <1>4, <2>1, SliceType
<1> HIDE DEF c
<1>6. \A n \in 1..Len(c) : c[n] = y[n]
  <2> TAKE n \in 1..Len(c)
  <2>1. n \in 1..Len(y) /\ Len(x) + n \in 1..(Len(x) + Len(y)) /\ ~(Len(x) + n <= Len(x))
        /\ (Len(x) + n) - Len(x) = n
    BY <1>1, <1>5
  <2> QED
    BY <1>2, <1>3, <1>5, <2>1
<1>7. c = y
  BY <1>5, <1>6, SeqEqual
<1> QED
  BY <1>4, <1>7 DEF s, c

LEMMA FirstSlice ==
    ASSUME NEW S, NEW x \in Seq(S), NEW z \in Seq(S)
    PROVE  InBounds(x \o z, 0, Len(x)) /\ Slice(x \o z, 0, Len(x)) = x
<1>1. <<>> \in Seq(S) /\ Len(<<>>) = 0 /\ <<>> \o x = x
  BY EmptySeq, ConcatEmptySeq
<1>2. Len(x) \in Nat
  BY LenProperties
<1>3. /\ InBounds((<<>> \o x) \o z, Len(<<>>), Len(<<>>) + Len(x))
      /\ Slice((<<>> \o x) \o z, Len(<<>>), Len(<<>>) + Len(x)) = x
  BY <1>1, MiddleSlice
<1> QED
  BY <1>1, <1>2, <1>3

LEMMA LastSlice ==
    ASSUME NEW S, NEW x \in Seq(S), NEW z \in Seq(S)
    PROVE  Slice(x \o z, Len(x), Len(x \o z)) = z
<1>1. x \o z \in Seq(S) /\ Len(x \o z) = Len(x) + Len(z)
  BY ConcatProperties
<1>2. <<>> \in Seq(S) /\ (x \o z) \o <<>> = x \o z
  BY <1>1, EmptySeq, ConcatEmptySeq
<1>3. Slice((x \o z) \o <<>>, Len(x), Len(x) + Len(z)) = z
  BY <1>2, MiddleSlice
<1> QED
  BY <1>1, <1>2, <1>3

-----------------------------------------------------------------------------
(* Tokens as they are minted.                                              *)

Any == Byte \cup TagBytes

\* A tag carries its key and what it is a tag of.
LEMMA TagShape ==
    ASSUME NEW k, NEW d
    PROVE  \A i \in 1..TagLen : Tag(k, d)[i] = <<i, k, d>>
BY DEF Tag

LEMMA EqualIntervals ==
    ASSUME NEW n \in Nat, NEW m \in Nat, 1..n = 1..m
    PROVE  n = m
<1>1. n \in 1..n \/ n = 0
  OBVIOUS
<1>2. m \in 1..m \/ m = 0
  OBVIOUS
<1>3. n <= m /\ m <= n
  BY <1>1, <1>2
<1> QED
  BY <1>3

LEMMA TagType ==
    ASSUME NEW k \in Keys, NEW d \in Seq(Byte)
    PROVE  Tag(k, d) \in Seq(TagBytes) /\ Len(Tag(k, d)) = TagLen
<1>1. TagLen \in Nat \ {0}
  BY TokenAssumption
<1>2. Tag(k, d) \in [1..TagLen -> TagBytes]
  BY <1>1 DEF Tag, TagBytes
<1>3. Tag(k, d) \in Seq(TagBytes)
  BY <1>1, <1>2, SeqDef
<1>4. DOMAIN Tag(k, d) = 1..Len(Tag(k, d)) /\ Len(Tag(k, d)) \in Nat
  BY <1>3, LenProperties
<1>5. 1..Len(Tag(k, d)) = 1..TagLen
  BY <1>2, <1>4
<1>6. Len(Tag(k, d)) = TagLen
  BY <1>1, <1>4, <1>5, EqualIntervals
<1> QED
  BY <1>3, <1>6

\* No byte of a tag is one that anybody can make.
LEMMA TagBytesAreNotBytes ==
    ASSUME NEW i, NEW k, NEW d
    PROVE  <<i, k, d>> \notin Byte
<1>1. Len(<<i, k, d>>) = 3
  OBVIOUS
<1> QED
  BY <1>1, TokenAssumption

\* What a token is the tag of.
Body(a, dcid) == (Prefix \o a) \o dcid

LEMMA MintType ==
    ASSUME NEW k \in Keys, NEW a \in Seq(Byte), NEW dcid \in Seq(Byte)
    PROVE  /\ Body(a, dcid) \in Seq(Byte)
           /\ Len(Body(a, dcid)) = Len(Prefix) + Len(a) + Len(dcid)
           /\ MintToken(k, a, dcid) = Body(a, dcid) \o Tag(k, Body(a, dcid))
           /\ Tag(k, Body(a, dcid)) \in Seq(Any) /\ Body(a, dcid) \in Seq(Any)
           /\ MintToken(k, a, dcid) \in Seq(Any)
           /\ Len(MintToken(k, a, dcid)) = Len(Prefix) + Len(a) + Len(dcid) + TagLen
<1> DEFINE b == Body(a, dcid)
<1>1. Prefix \in Seq(Byte)
  BY TokenAssumption
<1>2. /\ Len(Prefix) \in Nat /\ Len(a) \in Nat /\ Len(dcid) \in Nat /\ TagLen \in Nat
  BY <1>1, LenProperties, TokenAssumption
<1>3. Prefix \o a \in Seq(Byte) /\ Len(Prefix \o a) = Len(Prefix) + Len(a)
  BY <1>1, ConcatProperties
<1>4. b \in Seq(Byte) /\ Len(b) = Len(Prefix) + Len(a) + Len(dcid)
  BY <1>3, ConcatProperties DEF Body
<1>5. MintToken(k, a, dcid) = b \o Tag(k, b)
  BY DEF MintToken, Body
<1> HIDE DEF b
<1>6. Tag(k, b) \in Seq(TagBytes) /\ Len(Tag(k, b)) = TagLen
  BY <1>4, TagType
<1>7. Byte \subseteq Any /\ TagBytes \subseteq Any
  BY DEF Any
<1>8. b \in Seq(Any) /\ Tag(k, b) \in Seq(Any)
  BY <1>4, <1>6, <1>7, SeqMonotonic
<1>9. b \o Tag(k, b) \in Seq(Any) /\ Len(b \o Tag(k, b)) = Len(b) + TagLen
  BY <1>6, <1>8, ConcatProperties
<1> QED
  BY <1>2, <1>4, <1>5, <1>8, <1>9 DEF b

-----------------------------------------------------------------------------
(* What was minted.                                                        *)

\* Every token is what mint_token() makes of the values kept with it.
TokenInv ==
    /\ TypeOK
    /\ \A m \in minted : m.token = MintToken(m.key, m.addr, m.dcid)

LEMMA ValidateType ==
    ASSUME NEW k, NEW a \in Seq(Byte), NEW token \in Seq(Any)
    PROVE  ValidateToken(k, a, token).is \in {"none", "some"}
<1> DEFINE start == Len(Prefix) + Len(a)
           end == Len(token) - TagLen
<1>1. /\ Len(Prefix) \in Nat /\ Len(a) \in Nat /\ Len(token) \in Nat
      /\ TagLen \in Nat
  BY LenProperties, TokenAssumption
<1>2. LongEnough(a, token) => InBounds(token, 0, end) /\ InBounds(token, start, end)
  BY <1>1 DEF LongEnough, InBounds
<1>3. None.is = "none" /\ \A id : Some(id).is = "some"
  BY DEF None, Some
<1> HIDE DEF start, end
<1>4. \/ ValidateToken(k, a, token) = None
      \/ \E id : ValidateToken(k, a, token) = Some(id)
  BY <1>2 DEF ValidateToken, start, end
<1> QED
  BY <1>3, <1>4

LEMMA InitTokenInv == Init => TokenInv
<1> SUFFICES ASSUME Init PROVE TokenInv
  OBVIOUS
<1>1. key \in Keys /\ minted = {}
  BY TokenAssumption DEF Init, Keys
<1>2. last.result.is = "none"
  BY DEF Init, NoInitial, None
<1> QED
  BY <1>1, <1>2 DEF TokenInv, TypeOK

LEMMA StepTokenInv == TokenInv /\ [Next]_vars => TokenInv'
<1> SUFFICES ASSUME TokenInv, [Next]_vars PROVE TokenInv'
  OBVIOUS
<1> USE TokenAssumption
<1>1. ASSUME NEW a \in Addresses, NEW dcid \in Dcids, Retry(a, dcid)
      PROVE  TokenInv'
  <2> DEFINE n == [key |-> key, addr |-> a, dcid |-> dcid, token |-> MintToken(key, a, dcid)]
  <2>1. minted' = minted \cup {n} /\ key' = key /\ last' = last
    BY <1>1 DEF Retry
  <2>2. a \in Seq(Byte) /\ dcid \in Seq(Byte) /\ key \in Keys
    BY DEF TokenInv, TypeOK
  <2>3. /\ MintToken(key, a, dcid) \in Tokens
        /\ Len(MintToken(key, a, dcid)) = Len(Prefix) + Len(a) + Len(dcid) + TagLen
    BY <2>2, MintType DEF Tokens, Any
  <2>4. key \in 1..key
    BY <2>2 DEF Keys
  <2>5. /\ n.key = key /\ n.addr = a /\ n.dcid = dcid
        /\ n.token = MintToken(key, a, dcid)
    OBVIOUS
  <2> HIDE DEF n
  <2> QED
    BY <2>1, <2>3, <2>4, <2>5 DEF TokenInv, TypeOK
<1>2. ASSUME NEW a \in Addresses, NEW token \in Arriving, Arrive(a, token)
      PROVE  TokenInv'
  <2>1. token \in Seq(Any) /\ a \in Seq(Byte)
    BY DEF Arriving, Tokens, Any
  <2>2. last'.result = ValidateToken(key, a, token)
    BY <1>2 DEF Arrive
  <2>3. last'.result.is \in {"none", "some", "panic"}
    BY <2>1, <2>2, ValidateType
  <2> QED
    BY <1>2, <2>3 DEF Arrive, TokenInv, TypeOK
<1>3. CASE Restart
  <2>1. /\ key' = key + 1 /\ key < MaxKeys /\ minted' = minted /\ last' = last
    BY <1>3 DEF Restart
  <2>2. key' \in Keys /\ \A x \in 1..key : x \in 1..key'
    BY <2>1 DEF TokenInv, TypeOK, Keys
  <2> QED
    BY <2>1, <2>2 DEF TokenInv, TypeOK
<1>4. CASE UNCHANGED vars
  BY <1>4 DEF vars, TokenInv, TypeOK
<1> QED
  BY <1>1, <1>2, <1>3, <1>4 DEF Next

\* Every token kept is of the length its parts have, and of a start up to now.
THEOREM TokenTypeCorrect == Spec => []TypeOK
<1>1. TokenInv => TypeOK
  BY DEF TokenInv
<1> QED
  BY <1>1, InitTokenInv, StepTokenInv, PTL DEF Spec

-----------------------------------------------------------------------------
(* What validate_token() promises.                                         *)

\* Whatever bytes arrive, every slice of validate_token() is within bounds.
THEOREM NeverOutOfBounds == Spec => []NeverPanics
<1>1. Init => NeverPanics
  BY DEF Init, NoInitial, None, NeverPanics
<1>2. TokenInv /\ NeverPanics /\ [Next]_vars => NeverPanics'
  <2> SUFFICES ASSUME TokenInv, NeverPanics, [Next]_vars PROVE NeverPanics'
    OBVIOUS
  <2>1. CASE last' = last
    BY <2>1 DEF NeverPanics
  <2>2. ASSUME NEW a \in Addresses, NEW token \in Arriving, Arrive(a, token)
        PROVE  NeverPanics'
    <3>1. token \in Seq(Any) /\ a \in Seq(Byte)
      BY TokenAssumption DEF Arriving, Tokens, Any
    <3>2. last'.result = ValidateToken(key, a, token)
      BY <2>2 DEF Arrive
    <3> QED
      BY <3>1, <3>2, ValidateType DEF NeverPanics
  <2> QED
    BY <2>1, <2>2 DEF Next, Retry, Restart, vars
<1> QED
  BY <1>1, <1>2, InitTokenInv, StepTokenInv, PTL DEF Spec

\* Validating a token at the address and under the key it was minted for.
LEMMA RoundTrip ==
    ASSUME NEW k \in Keys, NEW a \in Seq(Byte), NEW dcid \in Seq(Byte)
    PROVE  ValidateToken(k, a, MintToken(k, a, dcid)) = Some(dcid)
<1> DEFINE token == MintToken(k, a, dcid)
           b == Body(a, dcid)
           t == Tag(k, b)
           start == Len(Prefix) + Len(a)
           end == Len(token) - TagLen
<1>1. /\ b \in Seq(Any) /\ t \in Seq(Any) /\ token = b \o t
      /\ Len(b) = start + Len(dcid) /\ Len(token) = start + Len(dcid) + TagLen
  BY MintType
<1>2. Prefix \in Seq(Any) /\ a \in Seq(Any) /\ dcid \in Seq(Any)
  BY TokenAssumption, SeqMonotonic DEF Any
<1>3. /\ Len(Prefix) \in Nat /\ Len(a) \in Nat /\ Len(dcid) \in Nat /\ TagLen \in Nat
  BY <1>2, LenProperties, TokenAssumption
<1>4. b = (Prefix \o a) \o dcid /\ Prefix \o a \in Seq(Any) /\ Len(Prefix \o a) = start
  BY <1>2, ConcatProperties DEF Body
<1>5. end = Len(b) /\ start <= end
  BY <1>1, <1>3
<1> HIDE DEF token, b, t, start, end
<1>6. start + Len(dcid) = end
  BY <1>1, <1>5
<1>7. InBounds(token, 0, end) /\ Slice(token, 0, end) = b
  BY <1>1, <1>5, FirstSlice
<1>8. Slice(token, end, Len(token)) = t
  BY <1>1, <1>5, LastSlice
<1>9. InBounds(token, start, end) /\ Slice(token, start, end) = dcid
  <2> DEFINE x == Prefix \o a
  <2>1. token = (x \o dcid) \o t /\ x \in Seq(Any) /\ Len(x) = start
    BY <1>1, <1>4
  <2> HIDE DEF x
  <2>2. /\ InBounds((x \o dcid) \o t, Len(x), Len(x) + Len(dcid))
        /\ Slice((x \o dcid) \o t, Len(x), Len(x) + Len(dcid)) = dcid
    BY <2>1, <1>1, <1>2, MiddleSlice
  <2> QED
    BY <2>1, <2>2, <1>6
<1>10. StartsAt(token, 0, Prefix) /\ HasAddress(a, token)
  <2> DEFINE u == dcid \o t
  <2>1. u \in Seq(Any)
    BY <1>1, <1>2, ConcatProperties
  <2>2. token = (Prefix \o a) \o u
    BY <1>1, <1>2, <1>4, ConcatAssociative
  <2> HIDE DEF u
  <2>3. a \o u \in Seq(Any)
    BY <2>1, <1>2, ConcatProperties
  <2>4. token = Prefix \o (a \o u)
    BY <2>1, <2>2, <1>2, ConcatAssociative
  <2>5. InBounds(token, 0, Len(Prefix)) /\ Slice(token, 0, Len(Prefix)) = Prefix
    BY <2>3, <2>4, <1>2, FirstSlice
  <2>6. /\ InBounds(token, Len(Prefix), Len(Prefix) + Len(a))
        /\ Slice(token, Len(Prefix), Len(Prefix) + Len(a)) = a
    BY <2>1, <2>2, <1>2, MiddleSlice
  <2>7. 0 + Len(Prefix) = Len(Prefix)
    BY <1>3
  <2> QED
    BY <2>5, <2>6, <2>7 DEF StartsAt, HasAddress
<1>11. LongEnough(a, token)
  BY <1>1, <1>3 DEF LongEnough, start
<1>12. ValidateToken(k, a, token) = Some(Slice(token, start, end))
  <2>1. Slice(token, end, Len(token)) = Tag(k, Slice(token, 0, end))
    BY <1>7, <1>8 DEF t
  <2> QED
    BY <2>1, <1>7, <1>9, <1>10, <1>11 DEF ValidateToken, start, end
<1> QED
  BY <1>9, <1>12 DEF token

\* A client that repeats its token from its address is accepted with the
\* connection id it began with, as long as the proxy has not restarted.
THEOREM OwnTokensPass == Spec => []OwnTokenAccepted
<1>1. TokenInv => OwnTokenAccepted
  <2> SUFFICES ASSUME TokenInv, NEW m \in minted, m.key = key
               PROVE  ValidateToken(key, m.addr, m.token) = Some(m.dcid)
    BY DEF OwnTokenAccepted
  <2>1. key \in Keys /\ m.addr \in Seq(Byte) /\ m.dcid \in Seq(Byte)
    BY TokenAssumption DEF TokenInv, TypeOK
  <2>2. m.token = MintToken(key, m.addr, m.dcid)
    BY DEF TokenInv
  <2> QED
    BY <2>1, <2>2, RoundTrip
<1> QED
  BY <1>1, InitTokenInv, StepTokenInv, PTL DEF Spec

\* A token that passes is one that was minted, byte for byte: the first byte of
\* its tag names the key and the body, and only a token of that key and that body
\* holds such a byte.
LEMMA PassedIsMinted ==
    TokenInv =>
      \A a \in Addresses, token \in Arriving : \A id :
        ValidateToken(key, a, token) = Some(id) =>
          \E m \in minted :
            /\ m.token = token /\ m.key = key
            /\ m.addr \o m.dcid = a \o id
            /\ Len(m.addr) = Len(a) => m.addr = a
<1> SUFFICES ASSUME TokenInv, NEW a \in Addresses, NEW token \in Arriving, NEW id,
                    ValidateToken(key, a, token) = Some(id)
             PROVE  \E m \in minted :
                      /\ m.token = token /\ m.key = key
                      /\ m.addr \o m.dcid = a \o id
                      /\ Len(m.addr) = Len(a) => m.addr = a
  OBVIOUS
<1> DEFINE start == Len(Prefix) + Len(a)
           end == Len(token) - TagLen
           data == Slice(token, 0, end)
<1>1. /\ token \in Seq(Any) /\ Unforged(token) /\ key \in Keys
      /\ a \in Seq(Byte) /\ a \in Seq(Any) /\ Prefix \in Seq(Any)
  <2>1. a \in Seq(Byte) /\ Prefix \in Seq(Byte) /\ Byte \subseteq Any
    BY TokenAssumption DEF Any
  <2>2. a \in Seq(Any) /\ Prefix \in Seq(Any)
    BY <2>1, SeqMonotonic
  <2> QED
    BY <2>1, <2>2 DEF Arriving, Tokens, Any, TokenInv, TypeOK
<1>2. /\ Len(Prefix) \in Nat /\ Len(a) \in Nat /\ Len(token) \in Nat
      /\ TagLen \in Nat \ {0}
  BY <1>1, LenProperties, TokenAssumption
<1>3. /\ StartsAt(token, 0, Prefix) /\ HasAddress(a, token)
      /\ InBounds(token, 0, end) /\ InBounds(token, start, end)
      /\ Slice(token, end, Len(token)) = Tag(key, data)
      /\ id = Slice(token, start, end)
  <2>1. Some(id) # None /\ Some(id) # Panic /\ \A x : Some(x) = Some(id) => x = id
    BY DEF Some, None, Panic
  <2> QED
    BY <2>1 DEF ValidateToken
<1>4. /\ end \in Nat /\ start \in Nat /\ start <= end /\ end < Len(token)
      /\ Len(token) = end + TagLen
  BY <1>2, <1>3 DEF InBounds
<1> HIDE DEF start, end, data
<1>5. InBounds(token, end, Len(token))
  BY <1>2, <1>4 DEF InBounds
\* The first byte of the tag.
<1>6. token[end + 1] = <<1, key, data>>
  <2>1. 1 \in 1..(Len(token) - end) /\ 1 \in 1..TagLen
    BY <1>2, <1>4
  <2>2. Slice(token, end, Len(token))[1] = token[end + 1]
    BY <2>1, <1>1, <1>2, <1>4, <1>5, SliceType
  <2>3. Tag(key, data)[1] = <<1, key, data>>
    BY <2>1, TagShape
  <2> QED
    BY <2>2, <2>3, <1>3
<1>7. PICK m \in minted : \E j \in 1..Len(m.token) : m.token[j] = <<1, key, data>>
  <2>1. end + 1 \in 1..Len(token)
    BY <1>2, <1>4
  <2>2. token[end + 1] \notin Byte
    BY <1>6, TagBytesAreNotBytes
  <2>3. \E m \in minted : \E j \in 1..Len(m.token) : m.token[j] = token[end + 1]
    BY <2>1, <2>2, <1>1 DEF Unforged
  <2> QED
    BY <2>3, <1>6
<1> DEFINE b == Body(m.addr, m.dcid)
           t == Tag(m.key, b)
<1>8. /\ m.key \in Keys /\ m.addr \in Seq(Byte) /\ m.dcid \in Seq(Byte)
      /\ m.token = MintToken(m.key, m.addr, m.dcid)
  <2>1. /\ m.key \in 1..key /\ m.addr \in Addresses /\ m.dcid \in Dcids
        /\ m.token = MintToken(m.key, m.addr, m.dcid)
    BY DEF TokenInv, TypeOK
  <2>2. m.key \in Keys
    BY <2>1, <1>1, TokenAssumption DEF Keys
  <2> QED
    BY <2>1, <2>2, TokenAssumption
<1>9. /\ b \in Seq(Byte) /\ b \in Seq(Any) /\ t \in Seq(Any)
      /\ Len(t) = TagLen /\ Len(b) = Len(Prefix) + Len(m.addr) + Len(m.dcid)
      /\ m.token \in Seq(Any)
      /\ \A n \in 1..(Len(b) + TagLen) :
           m.token[n] = IF n <= Len(b) THEN b[n] ELSE t[n - Len(b)]
      /\ Len(b) \in Nat /\ Len(m.token) = Len(b) + TagLen
  <2>1. /\ b \in Seq(Byte) /\ b \in Seq(Any) /\ t \in Seq(Any)
        /\ m.token = b \o t
        /\ Len(b) = Len(Prefix) + Len(m.addr) + Len(m.dcid)
    BY <1>8, MintType
  <2>2. Len(t) = TagLen
    BY <1>8, <2>1, TagType
  <2> HIDE DEF b, t
  <2>3. Len(b) \in Nat
    BY <2>1, LenProperties
  <2>4. /\ b \o t \in Seq(Any) /\ Len(b \o t) = Len(b) + Len(t)
        /\ \A n \in 1..(Len(b) + Len(t)) :
             (b \o t)[n] = IF n <= Len(b) THEN b[n] ELSE t[n - Len(b)]
    BY <2>1, ConcatProperties
  <2> QED
    BY <2>1, <2>2, <2>3, <2>4
<1>t. \A n \in 1..TagLen : t[n] = <<n, m.key, b>>
  BY TagShape
<1>n. Len(b) \in Nat /\ Len(m.token) = Len(b) + TagLen
  BY <1>9
<1> HIDE DEF b, t
<1>10. m.key = key /\ b = data
  <2>1. PICK j \in 1..Len(m.token) : m.token[j] = <<1, key, data>>
    BY <1>7
  <2>2. j \in Int /\ j \in 1..(Len(b) + TagLen)
    BY <1>2, <1>n
  <2>3. m.token[j] = IF j <= Len(b) THEN b[j] ELSE t[j - Len(b)]
    BY <2>2, <1>9
  <2>4. ~(j <= Len(b))
    <3> SUFFICES ASSUME j <= Len(b) PROVE FALSE
      OBVIOUS
    <3>1. j \in 1..Len(b)
      BY <2>2, <1>n
    <3>2. b[j] \in Byte
      BY <3>1, <1>9, ElementOfSeq
    <3> QED
      BY <3>2, <2>1, <2>3, TagBytesAreNotBytes
  <2>5. j - Len(b) \in 1..TagLen
    BY <2>2, <2>4, <1>2, <1>n
  <2>6. <<j - Len(b), m.key, b>> = <<1, key, data>>
    BY <2>1, <2>3, <2>4, <2>5, <1>t
  <2> QED
    BY <2>6
<1>11. Len(b) = end /\ \A n \in 1..end : b[n] = token[n]
  <2>1. /\ Len(data) = end - 0
        /\ \A n \in 1..(end - 0) : data[n] = token[0 + n]
    BY <1>1, <1>3, <1>4, SliceType DEF data
  <2>2. end - 0 = end /\ \A n \in 1..end : 0 + n = n
    BY <1>4
  <2> QED
    BY <2>1, <2>2, <1>10
<1>12. m.token = token
  <2>1. t = Slice(token, end, Len(token))
    BY <1>3, <1>10 DEF t
  <2>2. \A n \in 1..TagLen : t[n] = token[end + n]
    <3>1. Len(token) - end = TagLen
      BY <1>2, <1>4
    <3>2. \A n \in 1..(Len(token) - end) : Slice(token, end, Len(token))[n] = token[end + n]
      <4> DEFINE l == Len(token)
      <4>1. token \in Seq(Any) /\ end \in Nat /\ l \in Nat /\ InBounds(token, end, l)
        BY <1>1, <1>2, <1>4, <1>5
      <4> HIDE DEF l
      <4>2. \A n \in 1..(l - end) : Slice(token, end, l)[n] = token[end + n]
        BY <4>1, SliceType
      <4> QED
        BY <4>2 DEF l
    <3> QED
      BY <2>1, <3>1, <3>2
  <2>4. Len(m.token) = Len(token)
    BY <1>4, <1>9, <1>11
  <2>5. \A n \in 1..Len(m.token) : m.token[n] = token[n]
    <3> TAKE n \in 1..Len(m.token)
    <3>1. n \in 1..(Len(b) + TagLen) /\ n \in Int
      BY <1>2, <1>n
    <3>2. CASE n <= Len(b)
      <4>1. n \in 1..end /\ n <= Len(b)
        BY <3>1, <3>2, <1>4, <1>n, <1>11
      <4> QED
        BY <3>1, <4>1, <1>9, <1>11
    <3>3. CASE ~(n <= Len(b))
      <4>1. n - Len(b) \in 1..TagLen /\ end + (n - Len(b)) = n
        BY <3>1, <3>3, <1>2, <1>4, <1>n, <1>11
      <4> QED
        BY <3>1, <3>3, <4>1, <2>2, <1>9
    <3> QED
      BY <3>2, <3>3
  <2> QED
    BY <2>4, <2>5, <1>1, <1>9, SeqEqual
<1>13. m.addr \o m.dcid = a \o id
  <2> DEFINE ad == m.addr \o m.dcid
             ai == a \o id
  <2>1. /\ id \in Seq(Any) /\ Len(id) = end - start
        /\ \A n \in 1..(end - start) : id[n] = token[start + n]
    BY <1>1, <1>3, <1>4, SliceType
  <2>2. \A n \in 1..Len(a) : a[n] = token[Len(Prefix) + n]
    <3>1. /\ InBounds(token, Len(Prefix), Len(Prefix) + Len(a))
          /\ Slice(token, Len(Prefix), Len(Prefix) + Len(a)) = a
      BY <1>3 DEF HasAddress, StartsAt
    <3>2. Len(Prefix) + Len(a) \in Nat /\ (Len(Prefix) + Len(a)) - Len(Prefix) = Len(a)
      BY <1>2
    <3> DEFINE q == Len(Prefix) + Len(a)
    <3>3. q \in Nat /\ InBounds(token, Len(Prefix), q) /\ Slice(token, Len(Prefix), q) = a
          /\ q - Len(Prefix) = Len(a)
      BY <3>1, <3>2
    <3> HIDE DEF q
    <3> QED
      BY <3>3, <1>1, <1>2, SliceType
  <2>3. /\ ai \in Seq(Any) /\ Len(ai) = Len(a) + Len(id)
        /\ \A n \in 1..(Len(a) + Len(id)) :
             ai[n] = IF n <= Len(a) THEN a[n] ELSE id[n - Len(a)]
    BY <1>1, <2>1, ConcatProperties
  <2>4. /\ ad \in Seq(Byte) /\ Len(ad) = Len(m.addr) + Len(m.dcid)
        /\ b = Prefix \o ad
    <3>1. Prefix \in Seq(Byte)
      BY TokenAssumption
    <3>2. ad \in Seq(Byte) /\ Len(ad) = Len(m.addr) + Len(m.dcid)
      BY <1>8, ConcatProperties
    <3>3. \A x, y \in Seq(Byte) : (Prefix \o x) \o y = Prefix \o (x \o y)
      BY <3>1, ConcatAssociative
    <3> QED
      BY <3>2, <3>3, <1>8 DEF b, Body
  <2> HIDE DEF ad, ai
  <2>5. \A n \in 1..(Len(Prefix) + Len(ad)) :
            b[n] = IF n <= Len(Prefix) THEN Prefix[n] ELSE ad[n - Len(Prefix)]
    BY <2>4, TokenAssumption, ConcatProperties
  <2>6. Len(m.addr) \in Nat /\ Len(m.dcid) \in Nat
    BY <1>8, LenProperties
  <2>7. /\ Len(ad) = end - Len(Prefix) /\ Len(ai) = end - Len(Prefix)
        /\ start = Len(Prefix) + Len(a)
    <3>1. start = Len(Prefix) + Len(a)
      BY DEF start
    <3>2. Len(ad) = end - Len(Prefix)
      <4>1. Len(b) = Len(Prefix) + Len(m.addr) + Len(m.dcid)
        BY <1>9
      <4>2. Len(b) = end
        BY <1>11
      <4>3. Len(ad) = Len(m.addr) + Len(m.dcid)
        BY <2>4
      <4> QED
        <5> DEFINE x == Len(m.addr)
                   y == Len(m.dcid)
                   p == Len(Prefix)
        <5>1. /\ x \in Nat /\ y \in Nat /\ p \in Nat
              /\ end = p + x + y /\ Len(ad) = x + y
          BY <4>1, <4>2, <4>3, <2>6, <1>2
        <5> HIDE DEF x, y, p
        <5>2. x + y = (p + x + y) - p
          BY <5>1
        <5> QED
          BY <5>1, <5>2 DEF p
    <3>3. Len(ai) = end - Len(Prefix)
      BY <2>1, <2>3, <3>1, <1>2, <1>4
    <3> QED
      BY <3>1, <3>2, <3>3
  <2>8. \A n \in 1..Len(ad) : ad[n] = ai[n]
    <3> TAKE n \in 1..Len(ad)
    <3>1. /\ n \in Nat /\ Len(Prefix) + n \in 1..(Len(Prefix) + Len(ad))
          /\ ~(Len(Prefix) + n <= Len(Prefix)) /\ (Len(Prefix) + n) - Len(Prefix) = n
          /\ Len(Prefix) + n \in 1..end
      BY <2>7, <1>2, <1>4
    <3>2. ad[n] = token[Len(Prefix) + n]
      BY <3>1, <2>5, <1>11
    <3>3. n \in 1..(Len(a) + Len(id))
      BY <2>3, <2>7
    <3>4. CASE n <= Len(a)
      <4>1. n \in 1..Len(a)
        BY <3>1, <3>3, <3>4, <1>2
      <4> QED
        BY <4>1, <3>2, <3>3, <3>4, <2>2, <2>3
    <3>5. CASE ~(n <= Len(a))
      <4>1. n - Len(a) \in 1..(end - start) /\ start + (n - Len(a)) = Len(Prefix) + n
        BY <3>1, <3>3, <3>5, <2>1, <2>7, <1>2, <1>4
      <4> QED
        BY <4>1, <3>2, <3>3, <3>5, <2>1, <2>3
    <3> QED
      BY <3>4, <3>5
  <2>9. ad \in Seq(Any)
    BY <2>4, SeqMonotonic DEF Any
  <2>10. ad = ai
    BY <2>3, <2>7, <2>8, <2>9, SeqEqual
  <2> QED
    BY <2>10 DEF ad, ai
<1>14. Len(m.addr) = Len(a) => m.addr = a
  <2>1. m.addr \in Seq(Any) /\ m.dcid \in Seq(Any)
    BY <1>8, SeqMonotonic DEF Any
  <2>2. id \in Seq(Any)
    BY <1>1, <1>3, <1>4, SliceType
  <2>3. Slice(m.addr \o m.dcid, 0, Len(m.addr)) = m.addr
    BY <2>1, FirstSlice
  <2>4. Slice(a \o id, 0, Len(a)) = a
    BY <2>2, <1>1, FirstSlice
  <2> QED
    BY <2>3, <2>4, <1>13
<1> QED
  BY <1>10, <1>12, <1>13, <1>14

\* Nothing passes but a token minted by the same start, whole, at the address it
\* was minted for.
THEOREM OnlyMintedPasses == Spec => []OnlyMintedAccepted
<1>1. Init => OnlyMintedAccepted
  BY DEF Init, NoInitial, None, OnlyMintedAccepted
<1>2. TokenInv /\ OnlyMintedAccepted /\ [Next]_vars => OnlyMintedAccepted'
  <2> SUFFICES ASSUME TokenInv, OnlyMintedAccepted, [Next]_vars
               PROVE  OnlyMintedAccepted'
    OBVIOUS
  <2>1. CASE last' = last /\ minted \subseteq minted'
    BY <2>1 DEF OnlyMintedAccepted
  <2>2. ASSUME NEW a \in Addresses, NEW token \in Arriving, Arrive(a, token)
        PROVE  OnlyMintedAccepted'
    <3> DEFINE r == ValidateToken(key, a, token)
    <3>1. /\ minted' = minted
          /\ last'.key = key /\ last'.addr = a /\ last'.token = token /\ last'.result = r
      BY <2>2 DEF Arrive
    <3>2. r.is = "some" => r = Some(r.id)
      BY DEF ValidateToken, None, Panic, Some
    <3> HIDE DEF r
    <3>3. \A x : r = Some(x) =>
            \E m \in minted :
              /\ m.token = token /\ m.key = key
              /\ m.addr \o m.dcid = a \o x
              /\ Len(m.addr) = Len(a) => m.addr = a
      BY PassedIsMinted DEF r
    <3>4. r.is = "some" =>
            \E m \in minted :
              /\ m.token = token /\ m.key = key
              /\ m.addr \o m.dcid = a \o r.id
              /\ Len(m.addr) = Len(a) => m.addr = a
      BY <3>2, <3>3
    <3> QED
      BY <3>1, <3>4 DEF OnlyMintedAccepted
  <2> QED
    BY <2>1, <2>2 DEF Next, Retry, Restart, vars
<1> QED
  BY <1>1, <1>2, InitTokenInv, StepTokenInv, PTL DEF Spec

=============================================================================

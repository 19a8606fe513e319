------------------------------ MODULE Relay_proofs ------------------------------
(***************************************************************************)
(* Proofs about Relay: for any number of bytes, and buffers of any size.   *)
(***************************************************************************)
EXTENDS Relay, SequenceTheorems, TLAPS

-----------------------------------------------------------------------------
(* Runs of bytes.                                                          *)

\* The bytes that follow byte k, without a hole.
Run(s, k) == \A i \in 1..Len(s) : s[i] = k + i

LEMMA AppendRun ==
    ASSUME NEW S, NEW s \in Seq(S), NEW x \in S
    PROVE  /\ Append(s, x) \in Seq(S) /\ Len(s) \in Nat /\ Len(Append(s, x)) = Len(s) + 1
           /\ \A k \in Nat : Run(s, k) /\ x = k + Len(s) + 1 => Run(Append(s, x), k)
<1> DEFINE t == Append(s, x)
<1>1. /\ t \in Seq(S) /\ Len(s) \in Nat /\ Len(t) = Len(s) + 1
      /\ \A i \in 1..Len(s) : t[i] = s[i]
      /\ t[Len(s) + 1] = x
  BY AppendProperties, LenProperties
<1> HIDE DEF t
<1>2. ASSUME NEW k \in Nat, Run(s, k), x = k + Len(s) + 1 PROVE Run(t, k)
  <2> SUFFICES ASSUME NEW i \in 1..Len(t) PROVE t[i] = k + i
    BY DEF Run
  <2>1. CASE i \in 1..Len(s)
    BY <2>1, <1>1, <1>2 DEF Run
  <2>2. CASE i = Len(s) + 1
    BY <2>2, <1>1, <1>2
  <2> QED
    BY <2>1, <2>2, <1>1
<1> QED
  BY <1>1, <1>2 DEF t

LEMMA TailRun ==
    ASSUME NEW S, NEW s \in Seq(S), s # <<>>
    PROVE  /\ Head(s) \in S /\ Tail(s) \in Seq(S)
           /\ Len(s) \in Nat \ {0} /\ Len(Tail(s)) = Len(s) - 1
           /\ \A k \in Nat : Run(s, k) => Head(s) = k + 1 /\ Run(Tail(s), k + 1)
<1>1. /\ Head(s) \in S /\ Tail(s) \in Seq(S) /\ Len(Tail(s)) = Len(s) - 1
      /\ \A i \in 1..Len(Tail(s)) : Tail(s)[i] = s[i + 1]
  BY HeadTailProperties
<1>2. Len(s) \in Nat \ {0}
  BY EmptySeq
<1>3. Head(s) = s[1]
  OBVIOUS
<1>4. ASSUME NEW k \in Nat, Run(s, k) PROVE Head(s) = k + 1 /\ Run(Tail(s), k + 1)
  <2>1. Head(s) = k + 1
    BY <1>2, <1>3, <1>4 DEF Run
  <2>2. ASSUME NEW i \in 1..Len(Tail(s)) PROVE Tail(s)[i] = (k + 1) + i
    <3>1. i + 1 \in 1..Len(s) /\ k + (i + 1) = (k + 1) + i
      BY <1>1, <1>2
    <3> QED
      BY <3>1, <1>1, <1>4 DEF Run
  <2> QED
    BY <2>1, <2>2 DEF Run
<1> QED
  BY <1>1, <1>2, <1>4

LEMMA FirstRun ==
    ASSUME NEW S, NEW s \in Seq(S), NEW n \in 0..Len(s)
    PROVE  /\ First(s, n) \in Seq(S) /\ Len(First(s, n)) = n
           /\ \A i \in 1..n : First(s, n)[i] = s[i]
           /\ \A k \in Nat : Run(s, k) => Run(First(s, n), k)
<1>1. Len(s) \in Nat /\ n \in Nat /\ n <= Len(s) /\ \A i \in 1..Len(s) : s[i] \in S
  BY LenProperties, ElementOfSeq
<1>2. \A i \in 1..n : s[i] \in S
  BY <1>1
<1>3. /\ SubSeq(s, 1, n) \in Seq(S)
      /\ Len(SubSeq(s, 1, n)) = IF 1 <= n THEN n - 1 + 1 ELSE 0
      /\ \A i \in 1..(n - 1 + 1) : SubSeq(s, 1, n)[i] = s[1 + i - 1]
  <2>1. 1 \in Int /\ n \in Int
    BY <1>1
  <2> QED
    BY ONLY <2>1, <1>2, SubSeqProperties
<1>4. /\ First(s, n) \in Seq(S) /\ Len(First(s, n)) = n
      /\ \A i \in 1..n : First(s, n)[i] = s[i]
  BY <1>1, <1>3 DEF First
<1>5. ASSUME NEW k \in Nat, Run(s, k) PROVE Run(First(s, n), k)
  <2> SUFFICES ASSUME NEW i \in 1..n PROVE First(s, n)[i] = k + i
    BY <1>4 DEF Run
  <2>1. i \in 1..Len(s)
    BY <1>1
  <2> QED
    BY <2>1, <1>4, <1>5 DEF Run
<1> QED
  BY <1>4, <1>5

LEMMA RestRun ==
    ASSUME NEW S, NEW s \in Seq(S), NEW n \in 0..Len(s)
    PROVE  /\ Rest(s, n) \in Seq(S) /\ Len(Rest(s, n)) = Len(s) - n
           /\ \A i \in 1..(Len(s) - n) : Rest(s, n)[i] = s[n + i]
           /\ \A k \in Nat : Run(s, k) => Run(Rest(s, n), k + n)
<1>1. Len(s) \in Nat /\ n \in Nat /\ n <= Len(s) /\ \A i \in 1..Len(s) : s[i] \in S
  BY LenProperties, ElementOfSeq
<1>2. n + 1 \in Int /\ Len(s) \in Int /\ \A i \in (n + 1)..Len(s) : s[i] \in S
  BY <1>1
<1>3. /\ SubSeq(s, n + 1, Len(s)) \in Seq(S)
      /\ Len(SubSeq(s, n + 1, Len(s))) =
           IF n + 1 <= Len(s) THEN Len(s) - (n + 1) + 1 ELSE 0
      /\ \A i \in 1..(Len(s) - (n + 1) + 1) :
           SubSeq(s, n + 1, Len(s))[i] = s[(n + 1) + i - 1]
  BY ONLY <1>2, SubSeqProperties
<1>4. /\ Rest(s, n) \in Seq(S) /\ Len(Rest(s, n)) = Len(s) - n
      /\ \A i \in 1..(Len(s) - n) : Rest(s, n)[i] = s[n + i]
  BY <1>1, <1>3 DEF Rest
<1>5. ASSUME NEW k \in Nat, Run(s, k) PROVE Run(Rest(s, n), k + n)
  <2> SUFFICES ASSUME NEW i \in 1..(Len(s) - n) PROVE Rest(s, n)[i] = (k + n) + i
    BY <1>4 DEF Run
  <2>1. n + i \in 1..Len(s) /\ k + (n + i) = (k + n) + i
    BY <1>1
  <2> QED
    BY <2>1, <1>4, <1>5 DEF Run
<1> QED
  BY <1>4, <1>5

LEMMA ConcatRun ==
    ASSUME NEW S, NEW s \in Seq(S), NEW t \in Seq(S)
    PROVE  /\ s \o t \in Seq(S) /\ Len(s \o t) = Len(s) + Len(t)
           /\ Len(s) \in Nat /\ Len(t) \in Nat
           /\ \A k \in Nat : Run(s, k) /\ Run(t, k + Len(s)) => Run(s \o t, k)
<1>1. /\ s \o t \in Seq(S) /\ Len(s \o t) = Len(s) + Len(t)
      /\ \A i \in 1..(Len(s) + Len(t)) :
           (s \o t)[i] = IF i <= Len(s) THEN s[i] ELSE t[i - Len(s)]
  BY ConcatProperties
<1>2. Len(s) \in Nat /\ Len(t) \in Nat
  BY LenProperties
<1>3. ASSUME NEW k \in Nat, Run(s, k), Run(t, k + Len(s)) PROVE Run(s \o t, k)
  <2> SUFFICES ASSUME NEW i \in 1..(Len(s) + Len(t)) PROVE (s \o t)[i] = k + i
    BY <1>1 DEF Run
  <2>1. CASE i <= Len(s)
    BY <2>1, <1>1, <1>2, <1>3 DEF Run
  <2>2. CASE ~(i <= Len(s))
    <3>1. i - Len(s) \in 1..Len(t) /\ (k + Len(s)) + (i - Len(s)) = k + i
      BY <2>2, <1>2
    <3> QED
      BY <2>2, <3>1, <1>1, <1>3 DEF Run
  <2> QED
    BY <2>1, <2>2
<1> QED
  BY <1>1, <1>2, <1>3

\* Two runs from the same place are equal as far as the shorter one goes.
LEMMA BytesRun ==
    ASSUME NEW n \in Nat
    PROVE  Bytes(n) \in Seq(Nat) /\ Len(Bytes(n)) = n /\ Run(Bytes(n), 0)
<1>1. Bytes(n) \in [1..n -> Nat]
  BY DEF Bytes
<1>2. Bytes(n) \in Seq(Nat)
  BY <1>1, SeqDef
<1>3. Len(Bytes(n)) = n
  <2>1. DOMAIN Bytes(n) = 1..Len(Bytes(n)) /\ Len(Bytes(n)) \in Nat
    BY <1>2, LenProperties
  <2> DEFINE l == Len(Bytes(n))
  <2>2. 1..l = 1..n /\ l \in Nat
    BY <1>1, <2>1
  <2> HIDE DEF l
  <2>3. l = n
    <3>1. (n \in 1..n \/ n = 0) /\ (l \in 1..l \/ l = 0)
      BY <2>2
    <3> QED
      BY <2>2, <3>1
  <2> QED
    BY <2>3 DEF l
<1> QED
  BY <1>2, <1>3 DEF Bytes, Run

LEMMA RunIsPrefix ==
    ASSUME NEW s \in Seq(Nat), Run(s, 0), NEW n \in Nat, Len(s) <= n
    PROVE  IsPrefix(s, Bytes(n)) /\ (Len(s) = n => s = Bytes(n))
<1> DEFINE b == Bytes(n)
<1>1. b \in Seq(Nat) /\ Len(b) = n /\ \A i \in 1..n : b[i] = i
  BY BytesRun DEF Run
<1>2. Len(s) \in Nat /\ \A i \in 1..Len(s) : s[i] = i
  BY LenProperties DEF Run
<1> HIDE DEF b
<1>3. /\ First(s, Len(s)) \in Seq(Nat) /\ Len(First(s, Len(s))) = Len(s)
      /\ \A i \in 1..Len(s) : First(s, Len(s))[i] = s[i]
  BY <1>2, FirstRun
<1>4. /\ First(b, Len(s)) \in Seq(Nat) /\ Len(First(b, Len(s))) = Len(s)
      /\ \A i \in 1..Len(s) : First(b, Len(s))[i] = b[i]
  BY <1>1, <1>2, FirstRun
<1>5. First(s, Len(s)) = First(b, Len(s))
  BY <1>1, <1>2, <1>3, <1>4, SeqEqual
<1>6. IsPrefix(s, b)
  BY <1>1, <1>5 DEF IsPrefix, First
<1>7. Len(s) = n => s = b
  BY <1>1, <1>2, SeqEqual
<1> QED
  BY <1>6, <1>7 DEF b

-----------------------------------------------------------------------------
(* Types.                                                                  *)

\* The lengths of what is on its way.
LEMMA Lengths ==
    ASSUME TypeOK
    PROVE  /\ Len(rx) \in Nat /\ Len(streamUp) \in Nat /\ Len(pending) \in Nat
           /\ Len(tcpUp) \in Nat /\ Len(gotUp) \in Nat
           /\ Len(tcpDown) \in Nat /\ Len(streamDown) \in Nat /\ Len(gotDown) \in Nat
           /\ MaxUp \in Nat /\ MaxDown \in Nat /\ written \in Nat /\ answered \in Nat
           /\ Chunk \in Nat \ {0} /\ TcpBuffer \in Nat \ {0} /\ Window \in Nat \ {0}
BY LenProperties, RelayAssumption DEF TypeOK, UpBytes, DownBytes

LEMMA EmptyBytes ==
    <<>> \in UpBytes /\ <<>> \in DownBytes /\ Len(<<>>) = 0
BY EmptySeq DEF UpBytes, DownBytes

LEMMA LosesTailsType ==
    ASSUME TypeOK, LosesTails
    PROVE  /\ streamDown' \in DownBytes /\ Len(streamDown') <= Window
           /\ tcpUp' \in UpBytes /\ Len(tcpUp') <= TcpBuffer
<1>1. PICK n \in 0..Len(streamDown) : streamDown' = First(streamDown, n)
  BY DEF LosesTails
<1>2. PICK m \in 0..Len(tcpUp) : tcpUp' = First(tcpUp, m)
  BY DEF LosesTails
<1>3. First(streamDown, n) \in DownBytes /\ Len(First(streamDown, n)) = n
  BY FirstRun DEF TypeOK, DownBytes
<1>4. First(tcpUp, m) \in UpBytes /\ Len(First(tcpUp, m)) = m
  BY FirstRun DEF TypeOK, UpBytes
<1>5. n <= Window /\ m <= TcpBuffer
  BY Lengths DEF TypeOK
<1> QED
  BY <1>1, <1>2, <1>3, <1>4, <1>5

LEMMA EndsType == TypeOK /\ Ends => TypeOK'
BY LosesTailsType DEF TypeOK, Ends

LEMMA InitType == Init => TypeOK
<1> SUFFICES ASSUME Init PROVE TypeOK
  OBVIOUS
<1>1. Len(<<>>) = 0 /\ 0 <= Chunk /\ 0 <= TcpBuffer /\ 0 <= Window
      /\ 0 \in 0..MaxUp /\ 0 \in 0..MaxDown
  BY EmptyBytes, RelayAssumption
<1> QED
  BY <1>1, EmptyBytes DEF Init, TypeOK

LEMMA StepType == TypeOK /\ [Next]_vars => TypeOK'
<1> SUFFICES ASSUME TypeOK, [Next]_vars PROVE TypeOK'
  OBVIOUS
<1>0. /\ Len(rx) \in Nat /\ Len(streamUp) \in Nat /\ Len(pending) \in Nat
      /\ Len(tcpUp) \in Nat /\ Len(tcpDown) \in Nat /\ Len(streamDown) \in Nat
      /\ written \in Nat /\ answered \in Nat
      /\ Chunk \in Nat \ {0} /\ TcpBuffer \in Nat \ {0} /\ Window \in Nat \ {0}
  BY Lengths
<1> USE <1>0
<1>1. CASE ClientWrites
  <2>1. written' \in 1..MaxUp /\ written' \in 0..MaxUp
    BY <1>0, <1>1, RelayAssumption DEF ClientWrites, TypeOK
  <2>2. Append(rx, written') \in UpBytes
    BY <2>1, AppendRun DEF TypeOK, UpBytes
  <2> QED
    BY <1>1, <2>1, <2>2 DEF ClientWrites, TypeOK, down
<1>2. CASE ClientReads
  <2>1. /\ Head(streamDown) \in 1..MaxDown /\ Tail(streamDown) \in DownBytes
        /\ Len(Tail(streamDown)) = Len(streamDown) - 1
    BY <1>2, TailRun DEF ClientReads, TypeOK, DownBytes
  <2>2. Append(gotDown, Head(streamDown)) \in DownBytes
    BY <2>1, AppendRun DEF TypeOK, DownBytes
  <2>3. Len(Tail(streamDown)) <= Window
    BY <2>1 DEF TypeOK
  <2> QED
    BY <1>2, <2>1, <2>2, <2>3 DEF ClientReads, TypeOK, up
<1>3. CASE BrokerReads
  <2>1. /\ Head(tcpUp) \in 1..MaxUp /\ Tail(tcpUp) \in UpBytes
        /\ Len(Tail(tcpUp)) = Len(tcpUp) - 1
    BY <1>3, TailRun DEF BrokerReads, TypeOK, UpBytes
  <2>2. Append(gotUp, Head(tcpUp)) \in UpBytes
    BY <2>1, AppendRun DEF TypeOK, UpBytes
  <2>3. Len(Tail(tcpUp)) <= TcpBuffer
    BY <2>1 DEF TypeOK
  <2> QED
    BY <1>3, <2>1, <2>2, <2>3 DEF BrokerReads, TypeOK, down
<1>4. CASE BrokerWrites
  <2>1. answered' \in 1..MaxDown /\ answered' \in 0..MaxDown
    BY <1>0, <1>4, RelayAssumption DEF BrokerWrites, TypeOK
  <2>2. /\ Append(tcpDown, answered') \in DownBytes
        /\ Len(Append(tcpDown, answered')) = Len(tcpDown) + 1
    BY <2>1, AppendRun DEF TypeOK, DownBytes
  <2>3. Len(tcpDown) + 1 <= TcpBuffer
    BY <1>4 DEF BrokerWrites
  <2> QED
    BY <1>4, <2>1, <2>2, <2>3 DEF BrokerWrites, TypeOK, up
<1>5. CASE BrokerCloses
  <2>1. Len(<<>>) <= TcpBuffer
    BY EmptyBytes
  <2> QED
    BY <1>5, <2>1, EmptyBytes DEF BrokerCloses, TypeOK, down
<1>6. CASE PacketArrives
  <2>1. PICK n \in 1..Len(rx) : streamUp' = streamUp \o First(rx, n) /\ rx' = Rest(rx, n)
    BY <1>6 DEF PacketArrives
  <2>2. n \in 0..Len(rx)
    OBVIOUS
  <2>3. First(rx, n) \in UpBytes /\ Rest(rx, n) \in UpBytes
    BY <2>2, FirstRun, RestRun DEF TypeOK, UpBytes
  <2>4. streamUp \o First(rx, n) \in UpBytes
    BY <2>3, ConcatRun DEF TypeOK, UpBytes
  <2> QED
    BY <1>6, <2>1, <2>3, <2>4 DEF PacketArrives, TypeOK, down
<1>7. CASE ReadsStream
  <2> DEFINE n == Least(Chunk, Len(streamUp))
  <2>1. n \in 0..Len(streamUp) /\ n <= Chunk
    BY <1>0 DEF Least
  <2>2. pending' = First(streamUp, n) /\ streamUp' = Rest(streamUp, n)
    BY <1>7 DEF ReadsStream
  <2> HIDE DEF n
  <2>3. /\ First(streamUp, n) \in UpBytes /\ Rest(streamUp, n) \in UpBytes
        /\ Len(First(streamUp, n)) = n
    BY <2>1, FirstRun, RestRun DEF TypeOK, UpBytes
  <2> QED
    BY <1>7, <2>1, <2>2, <2>3 DEF ReadsStream, TypeOK, down
<1>8. CASE ReadsNoMore
  BY <1>8 DEF ReadsNoMore, TypeOK, up, down
<1>9. CASE WritesTcp
  <2> DEFINE n == Least(Len(pending), TcpBuffer - Len(tcpUp))
  <2>0. TcpBuffer - Len(tcpUp) \in Nat
    BY <1>9 DEF WritesTcp
  <2>1. n \in 0..Len(pending) /\ n <= TcpBuffer - Len(tcpUp) /\ n \in Nat
    BY <2>0 DEF Least
  <2>2. /\ tcpUp' = tcpUp \o First(pending, n)
        /\ pending' \in {Rest(pending, n), <<>>}
        /\ pc' \in {"reading", "writing"}
    BY <1>9 DEF WritesTcp, AfterWrite
  <2> HIDE DEF n
  <2>3. /\ First(pending, n) \in UpBytes /\ Rest(pending, n) \in UpBytes
        /\ Len(First(pending, n)) = n /\ Len(Rest(pending, n)) = Len(pending) - n
    BY <2>1, FirstRun, RestRun DEF TypeOK, UpBytes
  <2>4. /\ tcpUp \o First(pending, n) \in UpBytes
        /\ Len(tcpUp \o First(pending, n)) = Len(tcpUp) + n
    <3> DEFINE f == First(pending, n)
    <3>1. f \in Seq(1..MaxUp) /\ Len(f) = n /\ tcpUp \in Seq(1..MaxUp)
      BY <2>3 DEF TypeOK, UpBytes
    <3> HIDE DEF f
    <3>2. tcpUp \o f \in Seq(1..MaxUp) /\ Len(tcpUp \o f) = Len(tcpUp) + n
      BY <3>1, ConcatRun
    <3> QED
      BY <3>2 DEF f, UpBytes
  <2>5. Len(tcpUp) + n <= TcpBuffer /\ Len(pending) - n <= Chunk /\ Len(<<>>) <= Chunk
    BY <2>0, <2>1, EmptyBytes DEF TypeOK
  <2>6. tcpUp' \in UpBytes /\ Len(tcpUp') <= TcpBuffer
    BY <2>2, <2>4, <2>5
  <2>7. pending' \in UpBytes /\ Len(pending') <= Chunk
    BY <2>2, <2>3, <2>5, EmptyBytes
  <2> QED
    BY <1>9, <2>2, <2>6, <2>7 DEF WritesTcp, TypeOK, down
<1>10. CASE WriteFails
  BY <1>10, EndsType DEF WriteFails
<1>11. CASE ReadsBroker
  <2> DEFINE n == Least(Chunk, Len(tcpDown))
             taken == Accept(n)
  <2>0. Window - Len(streamDown) \in Nat
    BY <1>11 DEF ReadsBroker
  <2>1. n \in Nat /\ n \in 0..Len(tcpDown)
    BY <1>0 DEF Least
  <2>2. taken \in 0..n /\ taken <= Window - Len(streamDown)
    BY <2>0, <2>1 DEF Accept, Least
  <2>3. /\ streamDown' = streamDown \o First(First(tcpDown, n), taken)
        /\ tcpDown' = Rest(tcpDown, n)
    BY <1>11 DEF ReadsBroker, ReadBuffer
  <2> HIDE DEF n, taken
  <2>4. /\ First(tcpDown, n) \in DownBytes /\ Len(First(tcpDown, n)) = n
        /\ Rest(tcpDown, n) \in DownBytes /\ Len(Rest(tcpDown, n)) = Len(tcpDown) - n
    BY <2>1, FirstRun, RestRun DEF TypeOK, DownBytes
  <2>5. /\ First(First(tcpDown, n), taken) \in DownBytes
        /\ Len(First(First(tcpDown, n), taken)) = taken
    <3> DEFINE f == First(tcpDown, n)
    <3>1. f \in Seq(1..MaxDown) /\ taken \in 0..Len(f)
      BY <2>2, <2>4 DEF DownBytes
    <3> HIDE DEF f
    <3>2. First(f, taken) \in Seq(1..MaxDown) /\ Len(First(f, taken)) = taken
      BY <3>1, FirstRun
    <3> QED
      BY <3>2 DEF f, DownBytes
  <2>6. /\ streamDown \o First(First(tcpDown, n), taken) \in DownBytes
        /\ Len(streamDown \o First(First(tcpDown, n), taken)) = Len(streamDown) + taken
    BY <2>5, ConcatRun DEF TypeOK, DownBytes
  <2>7. Len(streamDown) + taken <= Window /\ Len(tcpDown) - n <= TcpBuffer
    BY <2>0, <2>1, <2>2 DEF TypeOK
  <2> QED
    BY <1>11, <2>3, <2>4, <2>6, <2>7 DEF ReadsBroker, TypeOK, up
<1>12. CASE StreamFull
  <2> DEFINE n == Least(Chunk, Len(tcpDown))
  <2>1. n \in Nat /\ n \in 0..Len(tcpDown)
    BY <1>0 DEF Least
  <2>2. tcpDown' = Rest(tcpDown, n)
    BY <1>12 DEF StreamFull
  <2> HIDE DEF n
  <2>3. Rest(tcpDown, n) \in DownBytes /\ Len(Rest(tcpDown, n)) = Len(tcpDown) - n
    BY <2>1, RestRun DEF TypeOK, DownBytes
  <2>4. Len(tcpDown) - n <= TcpBuffer
    BY <2>1 DEF TypeOK
  <2> QED
    BY <1>12, <2>2, <2>3, <2>4, LosesTailsType DEF StreamFull, TypeOK
<1>13. CASE ReadsEof
  BY <1>13, LosesTailsType DEF ReadsEof, TypeOK
<1>14. CASE ConnectionEnds
  BY <1>14, EndsType DEF ConnectionEnds
<1>15. CASE UNCHANGED vars
  BY <1>15 DEF vars, up, down, TypeOK
<1> QED
  BY <1>1, <1>2, <1>3, <1>4, <1>5, <1>6, <1>7, <1>8, <1>9, <1>10, <1>11, <1>12, <1>13,
     <1>14, <1>15 DEF Next, Task

\* Every buffer holds bytes that were written, and no more than its size.
THEOREM RelayTypeCorrect == Spec => []TypeOK
BY InitType, StepType, PTL DEF Spec

-----------------------------------------------------------------------------
(* Upwards.                                                                *)

\* Where each buffer begins.
AtPending == Len(gotUp) + Len(tcpUp)
AtStream == AtPending + Len(pending)
AtRx == AtStream + Len(streamUp)

\* What the broker has and what is on its way to it follow each other; as long as
\* the task relays to an open connection, so does what waits, up to what was written.
Intact ==
    /\ Run(pending, AtPending) /\ Run(streamUp, AtStream) /\ Run(rx, AtRx)
    /\ AtRx + Len(rx) = written

UpInv ==
    /\ TypeOK
    /\ Run(gotUp, 0) /\ Run(tcpUp, Len(gotUp)) /\ AtPending <= written
    /\ pc \in {"select", "reading"} => pending = <<>>
    /\ Relaying /\ broker = "open" => Intact

LEMMA EmptyRun == \A k : Run(<<>>, k) /\ Len(<<>>) = 0
BY EmptySeq DEF Run

\* All is as it was but for what the end of the handler cut off.
LEMMA LosesTailsUp ==
    ASSUME UpInv, TypeOK', LosesTails, gotUp' = gotUp, written' = written,
           pc' \in {"closing", "returned"}
    PROVE  UpInv'
<1>1. PICK n \in 0..Len(tcpUp) : tcpUp' = First(tcpUp, n)
  BY DEF LosesTails
<1>2. Len(gotUp) \in Nat /\ Len(tcpUp) \in Nat /\ written \in Nat
  BY Lengths DEF UpInv
<1>3. Len(tcpUp') = n /\ Run(tcpUp', Len(gotUp))
  BY <1>1, <1>2, FirstRun DEF UpInv, TypeOK, UpBytes
<1>4. AtPending' <= written'
  BY <1>2, <1>3 DEF UpInv, AtPending
<1>5. ~Relaying' /\ pc' \notin {"select", "reading"}
  BY DEF Relaying
<1> QED
  BY <1>3, <1>4, <1>5 DEF UpInv

LEMMA StepUpInv == UpInv /\ [Next]_vars => UpInv'
<1> SUFFICES ASSUME UpInv, [Next]_vars PROVE UpInv'
  OBVIOUS
<1>0. TypeOK /\ TypeOK'
  BY StepType DEF UpInv
<1>l. /\ Len(rx) \in Nat /\ Len(streamUp) \in Nat /\ Len(pending) \in Nat
      /\ Len(tcpUp) \in Nat /\ Len(gotUp) \in Nat /\ written \in Nat
      /\ Chunk \in Nat \ {0} /\ TcpBuffer \in Nat \ {0}
  BY <1>0, Lengths
<1>s. /\ rx \in Seq(1..MaxUp) /\ streamUp \in Seq(1..MaxUp) /\ pending \in Seq(1..MaxUp)
      /\ tcpUp \in Seq(1..MaxUp) /\ gotUp \in Seq(1..MaxUp)
  BY <1>0 DEF TypeOK, UpBytes
<1>u. /\ Run(gotUp, 0) /\ Run(tcpUp, Len(gotUp)) /\ AtPending <= written
      /\ pc \in {"select", "reading"} => pending = <<>>
      /\ Relaying /\ broker = "open" =>
           /\ Run(pending, AtPending) /\ Run(streamUp, AtStream) /\ Run(rx, AtRx)
           /\ AtRx + Len(rx) = written
      /\ AtPending \in Nat /\ AtStream \in Nat /\ AtRx \in Nat
  BY <1>l DEF UpInv, Intact, AtPending, AtStream, AtRx
<1>1. CASE ClientWrites
  <2>1. /\ written' = written + 1 /\ rx' = Append(rx, written')
        /\ UNCHANGED <<streamUp, pending, tcpUp, gotUp, pc, broker>>
    BY <1>1 DEF ClientWrites
  <2>2. written' \in 1..MaxUp
    BY <2>1, <1>0, <1>l DEF TypeOK
  <2>3. /\ Len(rx') = Len(rx) + 1
        /\ Run(rx, AtRx) /\ written' = AtRx + Len(rx) + 1 => Run(rx', AtRx)
    BY <2>1, <2>2, <1>s, <1>u, AppendRun
  <2>4. /\ AtPending' = AtPending /\ AtStream' = AtStream /\ AtRx' = AtRx
        /\ AtPending' <= written'
    BY <2>1, <1>u, <1>l DEF AtPending, AtStream, AtRx
  <2>5. Relaying' /\ broker' = "open" => Intact'
    BY <2>1, <2>3, <2>4, <1>u, <1>l DEF Relaying, Intact
  <2> QED
    BY <1>0, <1>u, <2>1, <2>4, <2>5 DEF UpInv
<1>2. CASE BrokerReads
  <2>1. /\ tcpUp # <<>> /\ gotUp' = Append(gotUp, Head(tcpUp)) /\ tcpUp' = Tail(tcpUp)
        /\ UNCHANGED <<written, rx, streamUp, pending, pc, broker>>
    BY <1>2 DEF BrokerReads
  <2>2. /\ Head(tcpUp) \in 1..MaxUp /\ Len(tcpUp) \in Nat \ {0}
        /\ Len(tcpUp') = Len(tcpUp) - 1
        /\ Head(tcpUp) = Len(gotUp) + 1 /\ Run(tcpUp', Len(gotUp) + 1)
    BY <2>1, <1>s, <1>l, <1>u, TailRun
  <2>3. Len(gotUp') = Len(gotUp) + 1 /\ Run(gotUp', 0)
    <3>1. Head(tcpUp) = 0 + Len(gotUp) + 1
      BY <2>2, <1>l
    <3> QED
      BY <2>1, <2>2, <3>1, <1>s, <1>u, AppendRun
  <2>4. AtPending' = AtPending /\ AtStream' = AtStream /\ AtRx' = AtRx
    BY <2>1, <2>2, <2>3, <1>l DEF AtPending, AtStream, AtRx
  <2>5. Relaying' /\ broker' = "open" => Intact'
    BY <2>1, <2>4, <1>u DEF Relaying, Intact
  <2> QED
    BY <1>0, <1>u, <2>1, <2>2, <2>3, <2>4, <2>5 DEF UpInv
<1>3. CASE BrokerCloses
  <2>1. /\ broker' = "closed" /\ tcpUp' = <<>>
        /\ UNCHANGED <<written, rx, streamUp, pending, gotUp, pc>>
    BY <1>3 DEF BrokerCloses
  <2>2. Run(tcpUp', Len(gotUp')) /\ Len(tcpUp') = 0
    BY <2>1, EmptyRun
  <2>3. AtPending' <= written'
    BY <2>1, <2>2, <1>l, <1>u DEF AtPending
  <2> QED
    BY <1>0, <1>u, <2>1, <2>2, <2>3 DEF UpInv
<1>4. CASE PacketArrives
  <2>1. /\ pc = "select" /\ pc' = "reading"
        /\ UNCHANGED <<written, pending, tcpUp, gotUp, broker>>
    BY <1>4 DEF PacketArrives
  <2>2. PICK n \in 1..Len(rx) : streamUp' = streamUp \o First(rx, n) /\ rx' = Rest(rx, n)
    BY <1>4 DEF PacketArrives
  <2> DEFINE f == First(rx, n)
  <2>3. n \in 0..Len(rx) /\ n \in Nat
    BY <1>l
  <2>4. /\ f \in Seq(1..MaxUp) /\ Len(f) = n /\ (Run(rx, AtRx) => Run(f, AtRx))
        /\ Len(rx') = Len(rx) - n /\ (Run(rx, AtRx) => Run(rx', AtRx + n))
        /\ streamUp' = streamUp \o f
    BY <2>2, <2>3, <1>s, <1>u, FirstRun, RestRun
  <2> HIDE DEF f
  <2>5. /\ Len(streamUp') = Len(streamUp) + n
        /\ Run(streamUp, AtStream) /\ Run(f, AtStream + Len(streamUp)) =>
             Run(streamUp', AtStream)
    <3>1. /\ streamUp \in Seq(1..MaxUp) /\ f \in Seq(1..MaxUp) /\ AtStream \in Nat
          /\ Len(f) = n /\ streamUp' = streamUp \o f
      BY <2>4, <1>s, <1>u
    <3> QED
      BY ONLY <3>1, ConcatRun
  <2>6. /\ AtPending' = AtPending /\ AtStream' = AtStream /\ AtRx' = AtRx + n
        /\ AtRx = AtStream + Len(streamUp)
    BY <2>1, <2>3, <2>5, <1>l DEF AtPending, AtStream, AtRx
  <2>7. Relaying' /\ broker' = "open" => Intact'
    <3> SUFFICES ASSUME broker = "open" PROVE Intact'
      BY <2>1
    <3>1. /\ Run(pending, AtPending) /\ Run(streamUp, AtStream) /\ Run(rx, AtRx)
          /\ AtRx + Len(rx) = written
      BY <2>1, <1>u DEF Relaying
    <3>2. AtRx' + Len(rx') = written'
      <4>1. AtRx' = AtRx + n /\ Len(rx') = Len(rx) - n /\ written' = written
        BY <2>1, <2>4, <2>6
      <4>2. AtRx \in Nat /\ Len(rx) \in Nat /\ n \in Nat
        BY <2>3, <1>l, <1>u
      <4>3. (AtRx + n) + (Len(rx) - n) = AtRx + Len(rx)
        BY <4>2
      <4> QED
        BY <3>1, <4>1, <4>3
    <3> QED
      BY <2>1, <2>4, <2>5, <2>6, <3>1, <3>2 DEF Intact
  <2> QED
    BY <1>0, <1>u, <2>1, <2>6, <2>7 DEF UpInv
<1>5. CASE ReadsStream
  <2> DEFINE n == Least(Chunk, Len(streamUp))
  <2>1. /\ pc = "reading" /\ pc' = "writing"
        /\ pending' = First(streamUp, n) /\ streamUp' = Rest(streamUp, n)
        /\ UNCHANGED <<written, rx, tcpUp, gotUp, broker>>
    BY <1>5 DEF ReadsStream
  <2>2. n \in 0..Len(streamUp) /\ n \in Nat
    BY <1>l DEF Least
  <2> HIDE DEF n
  <2>3. /\ Len(pending') = n /\ (Run(streamUp, AtStream) => Run(pending', AtStream))
        /\ Len(streamUp') = Len(streamUp) - n
        /\ Run(streamUp, AtStream) => Run(streamUp', AtStream + n)
    <3>1. streamUp \in Seq(1..MaxUp) /\ n \in 0..Len(streamUp) /\ AtStream \in Nat
      BY <2>2, <1>s, <1>u
    <3>2. /\ Len(First(streamUp, n)) = n
          /\ Run(streamUp, AtStream) => Run(First(streamUp, n), AtStream)
      BY ONLY <3>1, FirstRun
    <3>3. /\ Len(Rest(streamUp, n)) = Len(streamUp) - n
          /\ Run(streamUp, AtStream) => Run(Rest(streamUp, n), AtStream + n)
      BY ONLY <3>1, RestRun
    <3> QED
      BY <2>1, <3>2, <3>3
  <2>4. pending = <<>> /\ Len(pending) = 0
    BY <2>1, <1>u, EmptyRun
  <2>5. AtPending' = AtPending /\ AtStream = AtPending /\ AtStream' = AtStream + n /\ AtRx' = AtRx
    BY <2>1, <2>2, <2>3, <2>4, <1>l DEF AtPending, AtStream, AtRx
  <2>6. Relaying' /\ broker' = "open" => Intact'
    BY <2>1, <2>3, <2>5, <1>u DEF Relaying, Intact
  <2> QED
    BY <1>0, <1>u, <2>1, <2>5, <2>6 DEF UpInv
<1>6. CASE ReadsNoMore
  <2>1. pc = "reading" /\ pc' = "select" /\ UNCHANGED <<up, broker>>
    BY <1>6 DEF ReadsNoMore
  <2>2. AtPending' = AtPending /\ (Intact <=> Intact') /\ Relaying
    BY <2>1 DEF up, AtPending, AtStream, AtRx, Intact, Relaying, Run
  <2> QED
    BY <1>0, <2>1, <2>2 DEF UpInv, up
<1>7. CASE WritesTcp
  <2> DEFINE n == Least(Len(pending), TcpBuffer - Len(tcpUp))
             f == First(pending, n)
             r == Rest(pending, n)
  <2>1. /\ pc = "writing" /\ broker = "open" /\ Len(tcpUp) < TcpBuffer
        /\ tcpUp' = tcpUp \o f
        /\ pending' = (IF AfterWrite(r) = "writing" THEN r ELSE <<>>)
        /\ pc' = AfterWrite(r)
        /\ UNCHANGED <<written, rx, streamUp, gotUp, broker>>
    BY <1>7 DEF WritesTcp
  <2>2. n \in 0..Len(pending) /\ n \in Nat
    BY <2>1, <1>l DEF Least
  <2>3. pending' = r /\ (pc' \in {"select", "reading"} => pending' = <<>>)
    BY <2>1 DEF AfterWrite
  <2> HIDE DEF n
  <2>4. Intact
    BY <2>1 DEF UpInv, Relaying
  <2>5. /\ f \in Seq(1..MaxUp) /\ Len(f) = n /\ Run(f, AtPending)
        /\ Len(r) = Len(pending) - n /\ Run(r, AtPending + n)
    BY <2>2, <2>4, <1>s, <1>u, FirstRun, RestRun DEF Intact
  <2> HIDE DEF f, r
  <2>6. Len(tcpUp') = Len(tcpUp) + n /\ Run(tcpUp', Len(gotUp))
    <3>1. AtPending = Len(gotUp) + Len(tcpUp)
      BY DEF AtPending
    <3> QED
      <4>1. /\ tcpUp \in Seq(1..MaxUp) /\ f \in Seq(1..MaxUp) /\ Len(gotUp) \in Nat
            /\ Len(f) = n /\ tcpUp' = tcpUp \o f
            /\ Run(tcpUp, Len(gotUp)) /\ Run(f, Len(gotUp) + Len(tcpUp))
        BY <2>1, <2>5, <3>1, <1>s, <1>l, <1>u
      <4>0. tcpUp \in Seq(1..MaxUp) /\ f \in Seq(1..MaxUp)
        BY <4>1
      <4>2. /\ Len(tcpUp \o f) = Len(tcpUp) + Len(f)
            /\ \A k \in Nat : Run(tcpUp, k) /\ Run(f, k + Len(tcpUp)) => Run(tcpUp \o f, k)
        BY ONLY <4>0, ConcatRun
      <4> QED
        BY <4>1, <4>2
  <2>7. /\ AtPending' = AtPending + n /\ AtStream' = AtStream /\ AtRx' = AtRx
        /\ Len(pending') = Len(pending) - n
    <3>1. /\ Len(pending') = Len(pending) - n /\ Len(tcpUp') = Len(tcpUp) + n
          /\ gotUp' = gotUp /\ streamUp' = streamUp
      BY <2>1, <2>3, <2>5, <2>6
    <3> QED
      BY <3>1, <2>2, <1>l DEF AtPending, AtStream, AtRx
  <2>8. AtPending' <= written'
    <3>1. AtRx' + Len(rx') = written' /\ AtPending' <= AtRx'
      <4>1. AtRx + Len(rx) = written /\ rx' = rx /\ written' = written
        BY <2>1, <2>4 DEF Intact
      <4>2. AtPending' <= AtStream /\ AtStream <= AtRx
        BY <2>2, <2>7, <1>l, <1>u DEF AtRx, AtStream
      <4> QED
        BY <4>1, <4>2, <2>7, <1>l, <1>u
    <3> QED
      BY <2>1, <2>7, <3>1, <1>l, <1>u
  <2>9. Intact'
    BY <2>1, <2>3, <2>4, <2>5, <2>7 DEF Intact
  <2> QED
    BY <1>0, <1>u, <2>1, <2>3, <2>6, <2>8, <2>9 DEF UpInv
<1>8. CASE WriteFails
  BY <1>0, <1>8, LosesTailsUp DEF WriteFails, Ends
<1>9. CASE StreamFull
  BY <1>0, <1>9, LosesTailsUp DEF StreamFull
<1>10. CASE ReadsEof
  BY <1>0, <1>10, LosesTailsUp DEF ReadsEof
<1>11. CASE ConnectionEnds
  BY <1>0, <1>11, LosesTailsUp DEF ConnectionEnds, Ends
<1>12. CASE UNCHANGED <<up, pc, broker>>
  <2>1. AtPending' = AtPending /\ (Intact <=> Intact') /\ (Relaying <=> Relaying')
    BY <1>12 DEF up, AtPending, AtStream, AtRx, Intact, Relaying, Run
  <2> QED
    BY <1>0, <1>12, <2>1 DEF UpInv, up
<1>13. CASE ClientReads \/ BrokerWrites \/ ReadsBroker \/ UNCHANGED vars
  BY <1>12, <1>13 DEF ClientReads, BrokerWrites, ReadsBroker, vars, up
<1> QED
  BY <1>1, <1>2, <1>3, <1>4, <1>5, <1>6, <1>7, <1>8, <1>9, <1>10, <1>11, <1>13
     DEF Next, Task

LEMMA InitUpInv == Init => UpInv
<1> SUFFICES ASSUME Init PROVE UpInv
  OBVIOUS
<1>1. TypeOK
  BY InitType
<1>2. /\ AtPending = 0 /\ AtStream = 0 /\ AtRx = 0 /\ Len(rx) = 0 /\ written = 0
      /\ Run(gotUp, 0) /\ Run(tcpUp, Len(gotUp))
      /\ Run(pending, AtPending) /\ Run(streamUp, AtStream) /\ Run(rx, AtRx)
  BY EmptyRun DEF Init, AtPending, AtStream, AtRx
<1> QED
  BY <1>1, <1>2 DEF Init, UpInv, Intact

LEMMA UpInvIsIntact == UpInv => UpIntact
<1> SUFFICES ASSUME UpInv PROVE UpIntact
  OBVIOUS
<1>1. /\ rx \in Seq(Nat) /\ streamUp \in Seq(Nat) /\ pending \in Seq(Nat)
      /\ tcpUp \in Seq(Nat) /\ gotUp \in Seq(Nat) /\ written \in Nat
  <2>1. 1..MaxUp \subseteq Nat
    OBVIOUS
  <2> QED
    BY <2>1, Lengths, SeqMonotonic DEF UpInv, TypeOK, UpBytes
<1> DEFINE a == gotUp \o tcpUp
           b == a \o pending
           c == b \o streamUp
           d == c \o rx
<1>2. /\ a \in Seq(Nat) /\ Len(a) = AtPending /\ AtPending \in Nat /\ AtPending <= written
      /\ Run(a, 0)
  <2>1. /\ a \in Seq(Nat) /\ Len(a) = Len(gotUp) + Len(tcpUp)
        /\ Len(gotUp) \in Nat /\ Len(tcpUp) \in Nat
        /\ Run(gotUp, 0) /\ Run(tcpUp, 0 + Len(gotUp)) => Run(a, 0)
    BY <1>1, ConcatRun
  <2>2. 0 + Len(gotUp) = Len(gotUp)
    BY <2>1
  <2> QED
    BY <2>1, <2>2 DEF UpInv, AtPending
<1> HIDE DEF a
<1>3. IsPrefix(a, Bytes(written))
  BY <1>1, <1>2, RunIsPrefix
<1>4. ASSUME Relaying, broker = "open" PROVE d = Bytes(written)
  <2>1. Intact
    BY <1>4 DEF UpInv
  <2>2. b \in Seq(Nat) /\ Len(b) = AtStream /\ AtStream \in Nat /\ Run(b, 0)
    <3>1. /\ b \in Seq(Nat) /\ Len(b) = Len(a) + Len(pending) /\ Len(pending) \in Nat
          /\ Run(a, 0) /\ Run(pending, 0 + Len(a)) => Run(b, 0)
      BY <1>1, <1>2, ConcatRun
    <3>2. 0 + Len(a) = AtPending
      BY <1>2
    <3> QED
      BY <2>1, <3>1, <3>2, <1>2 DEF Intact, AtStream
  <2> HIDE DEF b
  <2>3. c \in Seq(Nat) /\ Len(c) = AtRx /\ AtRx \in Nat /\ Run(c, 0)
    <3>1. /\ c \in Seq(Nat) /\ Len(c) = Len(b) + Len(streamUp) /\ Len(streamUp) \in Nat
          /\ Run(b, 0) /\ Run(streamUp, 0 + Len(b)) => Run(c, 0)
      BY <1>1, <2>2, ConcatRun
    <3>2. 0 + Len(b) = AtStream
      BY <2>2
    <3> QED
      BY <2>1, <3>1, <3>2, <2>2 DEF Intact, AtRx
  <2> HIDE DEF c
  <2>4. d \in Seq(Nat) /\ Len(d) = written /\ Run(d, 0)
    <3>1. /\ d \in Seq(Nat) /\ Len(d) = Len(c) + Len(rx) /\ Len(rx) \in Nat
          /\ Run(c, 0) /\ Run(rx, 0 + Len(c)) => Run(d, 0)
      BY <1>1, <2>3, ConcatRun
    <3>2. 0 + Len(c) = AtRx
      BY <2>3
    <3> QED
      BY <2>1, <3>1, <3>2, <2>3 DEF Intact
  <2> HIDE DEF d
  <2> QED
    BY <2>4, <1>1, RunIsPrefix
<1> QED
  BY <1>3, <1>4 DEF UpIntact, a

\* The broker gets the bytes of a client in order and whole, and what it never gets
\* is a tail, whatever fails and however the buffers fill.
THEOREM RelaysUp == Spec => []UpIntact
BY InitUpInv, StepUpInv, UpInvIsIntact, PTL DEF Spec

-----------------------------------------------------------------------------
(* Downwards.                                                              *)

\* What try_read() has taken: the last byte before those that wait.
Taken == answered - Len(tcpDown)

DownInv ==
    /\ TypeOK
    /\ Len(tcpDown) <= answered /\ Run(tcpDown, Taken)
    /\ DownOrder
    /\ \A i \in 1..Len(Accepted) : Accepted[i] <= Taken

\* As long as quiche had room for all that was read.
WholeInv ==
    /\ TypeOK
    /\ Len(tcpDown) <= answered /\ Run(tcpDown, Taken)
    /\ Relaying => Run(Accepted, 0) /\ Len(Accepted) = Taken

Values == 1..MaxDown

LEMMA DownTypes ==
    ASSUME TypeOK
    PROVE  /\ gotDown \in Seq(Values) /\ streamDown \in Seq(Values) /\ tcpDown \in Seq(Values)
           /\ Len(gotDown) \in Nat /\ Len(streamDown) \in Nat /\ Len(tcpDown) \in Nat
           /\ Accepted \in Seq(Values) /\ Len(Accepted) = Len(gotDown) + Len(streamDown)
           /\ Len(Accepted) \in Nat /\ \A i \in 1..Len(Accepted) : Accepted[i] \in Int
           /\ answered \in Nat /\ Chunk \in Nat \ {0} /\ Window \in Nat \ {0}
<1>1. gotDown \in Seq(Values) /\ streamDown \in Seq(Values) /\ tcpDown \in Seq(Values)
  BY DEF TypeOK, DownBytes, Values
<1>2. /\ Len(gotDown) \in Nat /\ Len(streamDown) \in Nat /\ Len(tcpDown) \in Nat
      /\ answered \in Nat /\ Chunk \in Nat \ {0} /\ Window \in Nat \ {0}
  BY Lengths
<1>3. Accepted \in Seq(Values) /\ Len(Accepted) = Len(gotDown) + Len(streamDown)
  BY <1>1, ConcatProperties DEF Accepted
<1>4. \A i \in 1..Len(Accepted) : Accepted[i] \in Values
  BY <1>3, ElementOfSeq
<1>5. \A i \in 1..Len(Accepted) : Accepted[i] \in Int
  BY <1>4 DEF Values
<1>6. Len(Accepted) \in Nat
  BY <1>2, <1>3
<1> QED
  BY <1>1, <1>2, <1>3, <1>5, <1>6

\* Moving the head of one sequence to the end of the one before.
LEMMA MoveHead ==
    ASSUME NEW S, NEW s \in Seq(S), NEW t \in Seq(S), t # <<>>
    PROVE  Append(s, Head(t)) \o Tail(t) = s \o t
<1> DEFINE h == Head(t)
           u == Append(s, h)
           r == Tail(t)
<1>1. /\ h \in S /\ r \in Seq(S) /\ Len(r) = Len(t) - 1 /\ Len(t) \in Nat \ {0}
      /\ \A i \in 1..Len(r) : r[i] = t[i + 1]
  BY HeadTailProperties, EmptySeq
<1>2. h = t[1]
  OBVIOUS
<1> HIDE DEF h, r
<1>3. /\ u \in Seq(S) /\ Len(u) = Len(s) + 1 /\ Len(s) \in Nat
      /\ \A i \in 1..Len(s) : u[i] = s[i]
      /\ u[Len(s) + 1] = h
  BY <1>1, AppendProperties, LenProperties
<1> HIDE DEF u
<1>4. /\ u \o r \in Seq(S) /\ Len(u \o r) = Len(u) + Len(r)
      /\ \A i \in 1..(Len(u) + Len(r)) :
           (u \o r)[i] = IF i <= Len(u) THEN u[i] ELSE r[i - Len(u)]
  BY <1>1, <1>3, ConcatProperties
<1>5. /\ s \o t \in Seq(S) /\ Len(s \o t) = Len(s) + Len(t)
      /\ \A i \in 1..(Len(s) + Len(t)) :
           (s \o t)[i] = IF i <= Len(s) THEN s[i] ELSE t[i - Len(s)]
  BY ConcatProperties
<1>6. Len(u \o r) = Len(s \o t) /\ Len(u) + Len(r) = Len(s) + Len(t)
  BY <1>1, <1>3, <1>4, <1>5
<1>7. \A i \in 1..Len(u \o r) : (u \o r)[i] = (s \o t)[i]
  <2> SUFFICES ASSUME NEW i \in 1..(Len(s) + Len(t)) PROVE (u \o r)[i] = (s \o t)[i]
    BY <1>4, <1>6
  <2>1. /\ (u \o r)[i] = IF i <= Len(u) THEN u[i] ELSE r[i - Len(u)]
        /\ (s \o t)[i] = IF i <= Len(s) THEN s[i] ELSE t[i - Len(s)]
    BY <1>4, <1>5, <1>6
  <2>2. CASE i <= Len(s)
    <3>1. i \in 1..Len(s) /\ i <= Len(u)
      BY <2>2, <1>3
    <3> QED
      BY <2>1, <2>2, <3>1, <1>3
  <2>3. CASE i = Len(s) + 1
    <3>1. i <= Len(u) /\ ~(i <= Len(s)) /\ i - Len(s) = 1
      BY <2>3, <1>3
    <3> QED
      BY <2>1, <2>3, <3>1, <1>2, <1>3
  <2>4. CASE i > Len(s) + 1
    <3>1. /\ ~(i <= Len(u)) /\ ~(i <= Len(s))
          /\ i - Len(u) \in 1..Len(r) /\ (i - Len(u)) + 1 = i - Len(s)
      BY <2>4, <1>1, <1>3
    <3> QED
      BY <2>1, <3>1, <1>1
  <2> QED
    BY <2>2, <2>3, <2>4, <1>1, <1>3
<1> QED
  BY <1>4, <1>5, <1>6, <1>7, SeqEqual DEF u, h, r

\* What a client gets when the end of the handler cuts off a tail.
LEMMA CutAccepted ==
    ASSUME TypeOK, NEW n \in 0..Len(streamDown), streamDown' = First(streamDown, n),
           gotDown' = gotDown
    PROVE  /\ Len(Accepted') \in Nat /\ Len(Accepted') <= Len(Accepted)
           /\ \A i \in 1..Len(Accepted') : Accepted'[i] = Accepted[i]
<1> DEFINE f == First(streamDown, n)
           c == gotDown \o f
<1>1. /\ gotDown \in Seq(Values) /\ streamDown \in Seq(Values)
      /\ Len(gotDown) \in Nat /\ Len(streamDown) \in Nat
  BY DownTypes
<1>2. f \in Seq(Values) /\ Len(f) = n /\ \A i \in 1..n : f[i] = streamDown[i]
  BY <1>1, FirstRun
<1>3. /\ Accepted = gotDown \o streamDown /\ Len(Accepted) = Len(gotDown) + Len(streamDown)
      /\ \A i \in 1..(Len(gotDown) + Len(streamDown)) :
           Accepted[i] = IF i <= Len(gotDown) THEN gotDown[i] ELSE streamDown[i - Len(gotDown)]
  BY <1>1, ConcatProperties DEF Accepted
<1>4. Accepted' = c
  BY DEF Accepted
<1> HIDE DEF f
<1>5. /\ Len(c) = Len(gotDown) + n
      /\ \A i \in 1..(Len(gotDown) + n) :
           c[i] = IF i <= Len(gotDown) THEN gotDown[i] ELSE f[i - Len(gotDown)]
  BY <1>1, <1>2, ConcatProperties
<1> HIDE DEF c
<1>6. n \in Nat /\ n <= Len(streamDown)
  BY <1>1
<1>7. \A i \in 1..(Len(gotDown) + n) : c[i] = Accepted[i]
  <2> TAKE i \in 1..(Len(gotDown) + n)
  <2>1. i \in 1..(Len(gotDown) + Len(streamDown))
    BY <1>1, <1>6
  <2>2. CASE i <= Len(gotDown)
    BY <2>1, <2>2, <1>3, <1>5
  <2>3. CASE ~(i <= Len(gotDown))
    <3>1. i - Len(gotDown) \in 1..n
      BY <2>3, <1>1, <1>6
    <3> QED
      BY <2>1, <2>3, <3>1, <1>2, <1>3, <1>5
  <2> QED
    BY <2>2, <2>3
<1> QED
  BY <1>1, <1>3, <1>4, <1>5, <1>6, <1>7

\* What a client gets when more is handed to quiche.
LEMMA MoreAccepted ==
    ASSUME TypeOK, NEW x \in Seq(Values), streamDown' = streamDown \o x, gotDown' = gotDown
    PROVE  Accepted' = Accepted \o x
<1>1. gotDown \in Seq(Values) /\ streamDown \in Seq(Values)
  BY DownTypes
<1>2. (gotDown \o streamDown) \o x = gotDown \o (streamDown \o x)
  BY <1>1, ConcatAssociative
<1> QED
  BY <1>2 DEF Accepted

\* What a step may do to the downward direction: hand a byte to the client, take
\* one from the broker, cut off a tail, or read a buffer full, some of which
\* stream_send() takes.
HandsOver ==
    /\ streamDown # <<>>
    /\ gotDown' = Append(gotDown, Head(streamDown)) /\ streamDown' = Tail(streamDown)
    /\ UNCHANGED <<answered, tcpDown>>
TakesIn ==
    /\ answered' = answered + 1 /\ tcpDown' = Append(tcpDown, answered')
    /\ UNCHANGED <<streamDown, gotDown>>
Cuts ==
    /\ \E n \in 0..Len(streamDown) : streamDown' = First(streamDown, n)
    /\ \E n \in 0..Len(tcpDown) : tcpDown' = Rest(tcpDown, n)
    /\ UNCHANGED <<answered, gotDown>>
    /\ ~Relaying'
Reads ==
    \E n \in 0..Len(tcpDown) : \E taken \in 0..n :
        /\ taken = n \/ Len(streamDown') = Window
        /\ streamDown' = streamDown \o First(First(tcpDown, n), taken)
        /\ tcpDown' = Rest(tcpDown, n)
        /\ UNCHANGED <<answered, gotDown>>

LEMMA StepDown ==
    ASSUME TypeOK, [Next]_vars
    PROVE  /\ HandsOver \/ TakesIn \/ Cuts \/ Reads \/ UNCHANGED down
           /\ Relaying' => Relaying
<1>t. /\ tcpDown \in Seq(Values) /\ Len(tcpDown) \in Nat /\ Len(streamDown) \in Nat
      /\ streamDown \in Seq(Values) /\ Chunk \in Nat \ {0} /\ Window \in Nat \ {0}
  BY DownTypes
<1>0. ASSUME LosesTails, UNCHANGED <<answered, gotDown>>, ~Relaying',
             tcpDown' = tcpDown \/ \E n \in 0..Len(tcpDown) : tcpDown' = Rest(tcpDown, n)
      PROVE  Cuts
  <2>1. \E n \in 0..Len(tcpDown) : tcpDown' = Rest(tcpDown, n)
    <3>1. CASE tcpDown' = tcpDown
      <4>1. 0 \in 0..Len(tcpDown) /\ Rest(tcpDown, 0) \in Seq(Values)
            /\ Len(Rest(tcpDown, 0)) = Len(tcpDown) - 0
            /\ \A i \in 1..(Len(tcpDown) - 0) : Rest(tcpDown, 0)[i] = tcpDown[0 + i]
        <5>1. 0 \in 0..Len(tcpDown)
          BY <1>t
        <5> QED
          BY <1>t, <5>1, RestRun
      <4>2. Len(tcpDown) - 0 = Len(tcpDown) /\ \A i \in 1..Len(tcpDown) : 0 + i = i
        BY <1>t
      <4>3. Rest(tcpDown, 0) = tcpDown
        BY <1>t, <4>1, <4>2, SeqEqual
      <4> QED
        BY <3>1, <4>1, <4>3
    <3> QED
      BY <3>1, <1>0
  <2> QED
    BY <1>0, <2>1 DEF LosesTails, Cuts
<1>1. CASE ReadsBroker
  <2> DEFINE n == Least(Chunk, Len(tcpDown))
             taken == Accept(n)
  <2>1. /\ n \in Nat /\ n \in 0..Len(tcpDown)
    BY <1>t DEF Least
  <2>2. Window - Len(streamDown) \in Nat
    BY <1>1, <1>t DEF ReadsBroker
  <2>3. taken \in 0..n /\ (taken = n \/ taken = Window - Len(streamDown))
    BY <2>1, <2>2 DEF Accept, Least
  <2>4. /\ streamDown' = streamDown \o First(First(tcpDown, n), taken)
        /\ tcpDown' = Rest(tcpDown, n) /\ UNCHANGED <<answered, gotDown, pc>>
    BY <1>1 DEF ReadsBroker, ReadBuffer
  <2> HIDE DEF n, taken
  <2> DEFINE f == First(tcpDown, n)
             g == First(f, taken)
  <2>5. f \in Seq(Values) /\ Len(f) = n
    BY <2>1, <1>t, FirstRun
  <2> HIDE DEF f
  <2>6. g \in Seq(Values) /\ Len(g) = taken
    BY <2>3, <2>5, FirstRun
  <2> HIDE DEF g
  <2>7. Len(streamDown \o g) = Len(streamDown) + taken
    BY <2>6, <1>t, ConcatProperties
  <2>8. taken = n \/ Len(streamDown') = Window
    BY <2>1, <2>2, <2>3, <2>4, <2>7, <1>t DEF f, g
  <2>9. Reads
    BY <2>1, <2>3, <2>4, <2>8 DEF Reads
  <2> QED
    BY <2>4, <2>9 DEF Relaying
<1>2. CASE StreamFull
  <2> DEFINE n == Least(Chunk, Len(tcpDown))
  <2>1. n \in 0..Len(tcpDown)
    BY <1>t DEF Least
  <2>2. /\ tcpDown' = Rest(tcpDown, n) /\ LosesTails
        /\ UNCHANGED <<answered, gotDown>> /\ ~Relaying'
    BY <1>2 DEF StreamFull, Relaying
  <2> HIDE DEF n
  <2> QED
    BY <1>0, <2>1, <2>2
<1>3. CASE WriteFails \/ ReadsEof \/ ConnectionEnds
  <2>1. /\ LosesTails /\ UNCHANGED <<answered, gotDown>> /\ tcpDown' = tcpDown
        /\ ~Relaying'
    BY <1>3 DEF WriteFails, ReadsEof, ConnectionEnds, Ends, Relaying
  <2> QED
    BY <1>0, <2>1
<1>4. CASE ClientReads
  BY <1>4 DEF ClientReads, HandsOver, Relaying
<1>5. CASE BrokerWrites
  BY <1>5 DEF BrokerWrites, TakesIn, Relaying
<1>6. CASE ClientWrites \/ BrokerReads \/ BrokerCloses \/ UNCHANGED vars
  BY <1>6 DEF ClientWrites, BrokerReads, BrokerCloses, vars, Relaying
<1>7. CASE PacketArrives \/ ReadsStream \/ ReadsNoMore \/ WritesTcp
  BY <1>7 DEF PacketArrives, ReadsStream, ReadsNoMore, WritesTcp, Relaying
<1> QED
  BY <1>1, <1>2, <1>3, <1>4, <1>5, <1>6, <1>7 DEF Next, Task

LEMMA InitDown == Init => DownInv /\ WholeInv
<1> SUFFICES ASSUME Init PROVE DownInv /\ WholeInv
  OBVIOUS
<1>1. TypeOK
  BY InitType
<1>2. gotDown = <<>> /\ streamDown = <<>> /\ tcpDown = <<>> /\ answered = 0
  BY DEF Init
<1>3. Len(Accepted) = 0 /\ Len(tcpDown) = 0 /\ Taken = 0
  <2>1. Len(<<>>) = 0
    BY EmptyRun
  <2>2. Len(Accepted) = Len(gotDown) + Len(streamDown)
    BY <1>1, DownTypes
  <2>3. Len(gotDown) = 0 /\ Len(streamDown) = 0 /\ Len(tcpDown) = 0
    BY <1>2, <2>1
  <2>4. Len(Accepted) = 0 + 0
    BY <2>2, <2>3
  <2>5. Taken = 0 - 0
    BY <1>2, <2>3 DEF Taken
  <2> QED
    BY <2>3, <2>4, <2>5
<1> QED
  BY <1>1, <1>2, <1>3, EmptyRun DEF DownInv, WholeInv, DownOrder, Run

\* Where the bytes that wait for try_read() begin, after each kind of step.
LEMMA StepTaken ==
    ASSUME TypeOK, Len(tcpDown) <= answered, Run(tcpDown, Taken)
    PROVE  /\ Taken \in Nat
           /\ HandsOver \/ UNCHANGED down =>
                Len(tcpDown') <= answered' /\ Taken' = Taken /\ Run(tcpDown', Taken')
           /\ TakesIn => Len(tcpDown') <= answered' /\ Taken' = Taken /\ Run(tcpDown', Taken')
           /\ \A n \in 0..Len(tcpDown) :
                tcpDown' = Rest(tcpDown, n) /\ answered' = answered =>
                  Len(tcpDown') <= answered' /\ Taken' = Taken + n /\ Run(tcpDown', Taken')
<1>1. /\ tcpDown \in Seq(Values) /\ Len(tcpDown) \in Nat /\ answered \in Nat
  BY DownTypes
<1>2. Taken \in Nat /\ Taken + Len(tcpDown) = answered
  BY <1>1 DEF Taken
<1>3. ASSUME HandsOver \/ UNCHANGED down
      PROVE  Len(tcpDown') <= answered' /\ Taken' = Taken /\ Run(tcpDown', Taken')
  BY <1>3 DEF HandsOver, down, Taken, Run
<1>4. ASSUME TakesIn
      PROVE  Len(tcpDown') <= answered' /\ Taken' = Taken /\ Run(tcpDown', Taken')
  <2>1. answered' = Taken + Len(tcpDown) + 1 /\ tcpDown' = Append(tcpDown, answered')
    BY <1>2, <1>4 DEF TakesIn
  <2>2. answered' \in Nat /\ tcpDown \in Seq(Nat)
    <3>1. tcpDown \in Seq(Nat)
      <4>1. Values \subseteq Nat
        BY DEF Values
      <4> QED
        BY <4>1, <1>1, SeqMonotonic
    <3>2. answered' \in Nat
      BY <2>1, <1>1, <1>2
    <3> QED
      BY <3>1, <3>2
  <2>3. Len(tcpDown') = Len(tcpDown) + 1 /\ Run(tcpDown', Taken)
    BY <2>1, <2>2, <1>2, AppendRun
  <2>4. Taken' = Taken
    BY <2>1, <2>3, <1>1, <1>2 DEF Taken
  <2> QED
    BY <2>1, <2>3, <2>4, <1>1, <1>2
<1>5. ASSUME NEW n \in 0..Len(tcpDown), tcpDown' = Rest(tcpDown, n), answered' = answered
      PROVE  Len(tcpDown') <= answered' /\ Taken' = Taken + n /\ Run(tcpDown', Taken')
  <2>1. Len(tcpDown') = Len(tcpDown) - n /\ Run(tcpDown', Taken + n)
    BY <1>1, <1>2, <1>5, RestRun
  <2>2. Taken' = Taken + n /\ Len(tcpDown') <= answered'
    BY <2>1, <1>1, <1>5 DEF Taken
  <2> QED
    BY <2>1, <2>2
<1> QED
  BY <1>2, <1>3, <1>4, <1>5

\* What stream_send() takes of a buffer.
LEMMA ReadsRun ==
    ASSUME TypeOK, Taken \in Nat, Run(tcpDown, Taken),
           NEW n \in 0..Len(tcpDown), NEW taken \in 0..n
    PROVE  LET x == First(First(tcpDown, n), taken) IN
             x \in Seq(Values) /\ Len(x) = taken /\ taken \in Nat /\ Run(x, Taken)
<1> DEFINE f == First(tcpDown, n)
<1>1. f \in Seq(Values) /\ Len(f) = n /\ Run(f, Taken) /\ n \in Nat
  BY DownTypes, FirstRun
<1> HIDE DEF f
<1>2. /\ First(f, taken) \in Seq(Values) /\ Len(First(f, taken)) = taken
      /\ Run(First(f, taken), Taken)
  BY <1>1, FirstRun
<1> QED
  BY <1>1, <1>2 DEF f

LEMMA StepDownInv == DownInv /\ [Next]_vars => DownInv'
<1> SUFFICES ASSUME DownInv, [Next]_vars PROVE DownInv'
  OBVIOUS
<1>0. TypeOK /\ TypeOK' /\ Len(tcpDown) <= answered /\ Run(tcpDown, Taken)
  BY StepType DEF DownInv
<1>1. Taken \in Nat
  BY <1>0, StepTaken
<1>2. /\ gotDown \in Seq(Values) /\ streamDown \in Seq(Values)
      /\ Accepted \in Seq(Values) /\ Len(Accepted) \in Nat
      /\ \A i \in 1..Len(Accepted) : Accepted[i] \in Int /\ Accepted[i] <= Taken
      /\ \A i, j \in 1..Len(Accepted) : i < j => Accepted[i] < Accepted[j]
  BY <1>0, DownTypes DEF DownInv, DownOrder
\* What was accepted stays so, up to a tail.
<1>3. ASSUME Len(Accepted') \in Nat, Len(Accepted') <= Len(Accepted),
             \A i \in 1..Len(Accepted') : Accepted'[i] = Accepted[i],
             Taken' \in Nat, Taken <= Taken',
             Len(tcpDown') <= answered', Run(tcpDown', Taken')
      PROVE  DownInv'
  <2>1. \A i \in 1..Len(Accepted') : i \in 1..Len(Accepted)
    BY <1>2, <1>3
  <2>2. DownOrder'
    BY <2>1, <1>2, <1>3 DEF DownOrder
  <2>3. \A i \in 1..Len(Accepted') : Accepted'[i] <= Taken'
    BY <2>1, <1>1, <1>2, <1>3
  <2> QED
    BY <2>2, <2>3, <1>0, <1>3 DEF DownInv
<1>4. CASE HandsOver
  <2>1. Accepted' = Accepted
    BY <1>2, <1>4, MoveHead DEF HandsOver, Accepted
  <2>2. Len(tcpDown') <= answered' /\ Taken' = Taken /\ Run(tcpDown', Taken')
    BY <1>0, <1>4, StepTaken
  <2>3. Len(Accepted) <= Len(Accepted) /\ Taken <= Taken
    BY <1>1, <1>2
  <2> QED
    BY <2>1, <2>2, <2>3, <1>1, <1>2, <1>3
<1>5. CASE TakesIn
  <2>1. Accepted' = Accepted
    BY <1>5 DEF TakesIn, Accepted
  <2>2. Len(tcpDown') <= answered' /\ Taken' = Taken /\ Run(tcpDown', Taken')
    BY <1>0, <1>5, StepTaken
  <2>3. Len(Accepted) <= Len(Accepted) /\ Taken <= Taken
    BY <1>1, <1>2
  <2> QED
    BY <2>1, <2>2, <2>3, <1>1, <1>2, <1>3
<1>6. CASE Cuts
  <2>1. PICK n \in 0..Len(streamDown) : streamDown' = First(streamDown, n)
    BY <1>6 DEF Cuts
  <2>2. PICK m \in 0..Len(tcpDown) : tcpDown' = Rest(tcpDown, m)
    BY <1>6 DEF Cuts
  <2>3. gotDown' = gotDown /\ answered' = answered
    BY <1>6 DEF Cuts
  <2>4. /\ Len(Accepted') \in Nat /\ Len(Accepted') <= Len(Accepted)
        /\ \A i \in 1..Len(Accepted') : Accepted'[i] = Accepted[i]
    BY <2>1, <2>3, <1>0, CutAccepted
  <2>5. Len(tcpDown') <= answered' /\ Taken' = Taken + m /\ Run(tcpDown', Taken')
    BY <2>2, <2>3, <1>0, StepTaken
  <2>6. Taken' \in Nat /\ Taken <= Taken'
    BY <2>5, <1>0, <1>1, DownTypes
  <2> QED
    BY <2>4, <2>5, <2>6, <1>3
<1>7. CASE Reads
  <2>n. PICK n \in 0..Len(tcpDown) : \E taken \in 0..n :
          /\ streamDown' = streamDown \o First(First(tcpDown, n), taken)
          /\ tcpDown' = Rest(tcpDown, n) /\ UNCHANGED <<answered, gotDown>>
    BY <1>7 DEF Reads
  <2>1. PICK taken \in 0..n :
          /\ streamDown' = streamDown \o First(First(tcpDown, n), taken)
          /\ tcpDown' = Rest(tcpDown, n) /\ UNCHANGED <<answered, gotDown>>
    BY <2>n
  <2> DEFINE x == First(First(tcpDown, n), taken)
  <2>2. x \in Seq(Values) /\ Len(x) = taken /\ taken \in Nat /\ Run(x, Taken)
    BY <1>0, <1>1, ReadsRun
  <2>3. Len(tcpDown') <= answered' /\ Taken' = Taken + n /\ Run(tcpDown', Taken')
    BY <2>1, <1>0, StepTaken
  <2>4. streamDown' = streamDown \o x /\ gotDown' = gotDown
    BY <2>1
  <2>5. n \in Nat /\ taken <= n
    BY <1>0, DownTypes
  <2> HIDE DEF x
  <2>6. Accepted' = Accepted \o x
    BY <2>2, <2>4, <1>0, MoreAccepted
  <2> DEFINE l == Len(Accepted)
             c == Accepted \o x
  <2>7. /\ Len(c) = l + taken
        /\ \A i \in 1..(l + taken) : c[i] = IF i <= l THEN Accepted[i] ELSE x[i - l]
    BY <2>2, <1>2, ConcatProperties
  <2> HIDE DEF c
  <2>8. \A i \in 1..(l + taken) :
          /\ i <= l => i \in 1..l /\ c[i] = Accepted[i]
          /\ ~(i <= l) => c[i] = Taken + (i - l)
    <3> TAKE i \in 1..(l + taken)
    <3>1. CASE i <= l
      BY <3>1, <2>7, <2>2, <1>2
    <3>2. CASE ~(i <= l)
      <4>1. i - l \in 1..taken
        BY <3>2, <2>2, <1>2
      <4> QED
        BY <3>2, <4>1, <2>2, <2>7 DEF Run
    <3> QED
      BY <3>1, <3>2
  <2>9. \A i \in 1..(l + taken) : c[i] \in Int /\ c[i] <= Taken + n
    <3> TAKE i \in 1..(l + taken)
    <3>1. CASE i <= l
      <4>1. c[i] \in Int /\ c[i] <= Taken
        BY <3>1, <2>8, <1>2
      <4> QED
        BY <4>1, <1>1, <2>5
    <3>2. CASE ~(i <= l)
      <4>1. c[i] = Taken + (i - l) /\ i - l \in Nat /\ i - l <= n
        BY <3>2, <2>2, <2>5, <2>8, <1>2
      <4> QED
        BY <4>1, <1>1, <2>5
    <3> QED
      BY <3>1, <3>2
  <2>10. \A i, j \in 1..(l + taken) : i < j => c[i] < c[j]
    <3> SUFFICES ASSUME NEW i \in 1..(l + taken), NEW j \in 1..(l + taken), i < j
                 PROVE  c[i] < c[j]
      OBVIOUS
    <3>0. i \in Nat /\ j \in Nat /\ l \in Nat
      BY <1>2, <2>2
    <3>1. CASE j <= l
      <4>1. i <= l
        BY <3>0, <3>1
      <4> QED
        BY <3>1, <4>1, <2>8, <1>2
    <3>2. CASE ~(j <= l) /\ i <= l
      <4>1. c[i] \in Int /\ c[i] <= Taken
        BY <3>2, <2>8, <1>2
      <4>2. c[j] = Taken + (j - l) /\ j - l > 0
        BY <3>0, <3>2, <2>8
      <4> QED
        BY <3>0, <4>1, <4>2, <1>1
    <3>3. CASE ~(i <= l)
      <4>1. ~(j <= l)
        BY <3>0, <3>3
      <4>2. c[i] = Taken + (i - l) /\ c[j] = Taken + (j - l)
        BY <3>3, <4>1, <2>8
      <4> QED
        BY <3>0, <4>2, <1>1
    <3> QED
      BY <3>1, <3>2, <3>3
  <2>11. DownOrder'
    BY <2>6, <2>7, <2>10 DEF DownOrder, c
  <2>12. \A i \in 1..Len(Accepted') : Accepted'[i] <= Taken'
    BY <2>3, <2>6, <2>7, <2>9 DEF c
  <2> QED
    BY <2>3, <2>11, <2>12, <1>0 DEF DownInv
<1>8. CASE UNCHANGED down
  <2>1. Accepted' = Accepted
    BY <1>8 DEF down, Accepted
  <2>2. Len(tcpDown') <= answered' /\ Taken' = Taken /\ Run(tcpDown', Taken')
    BY <1>0, <1>8, StepTaken
  <2>3. Len(Accepted) <= Len(Accepted) /\ Taken <= Taken
    BY <1>1, <1>2
  <2> QED
    BY <2>1, <2>2, <2>3, <1>1, <1>2, <1>3
<1> QED
  BY <1>0, <1>4, <1>5, <1>6, <1>7, <1>8, StepDown

\* However little of a buffer stream_send() takes, what the client gets is in the
\* order the broker wrote it, and nothing twice.
THEOREM RelaysDownInOrder == Spec => []DownOrder
<1>1. DownInv => DownOrder
  BY DEF DownInv
<1> QED
  BY <1>1, InitDown, StepDownInv, PTL DEF Spec

LEMMA StepWholeInv == WholeInv /\ [Next]_vars /\ KeepsUp' => WholeInv'
<1> SUFFICES ASSUME WholeInv, [Next]_vars, KeepsUp' PROVE WholeInv'
  OBVIOUS
<1>0. /\ TypeOK /\ TypeOK' /\ Len(tcpDown) <= answered /\ Run(tcpDown, Taken)
      /\ Relaying => Run(Accepted, 0) /\ Len(Accepted) = Taken
  BY StepType DEF WholeInv
<1>1. Taken \in Nat /\ (Relaying' => Relaying)
  BY <1>0, StepTaken, StepDown
<1>2. /\ gotDown \in Seq(Values) /\ streamDown \in Seq(Values) /\ Accepted \in Seq(Values)
  BY <1>0, DownTypes
<1>3. CASE HandsOver \/ TakesIn \/ UNCHANGED down
  <2>1. Accepted' = Accepted
    <3>1. CASE HandsOver
      BY <1>2, <3>1, MoveHead DEF HandsOver, Accepted
    <3>2. CASE TakesIn \/ UNCHANGED down
      BY <3>2 DEF TakesIn, down, Accepted
    <3> QED
      BY <1>3, <3>1, <3>2
  <2>2. Len(tcpDown') <= answered' /\ Taken' = Taken /\ Run(tcpDown', Taken')
    BY <1>0, <1>3, StepTaken
  <2> QED
    BY <2>1, <2>2, <1>0, <1>1 DEF WholeInv
<1>4. CASE Cuts
  <2>1. PICK m \in 0..Len(tcpDown) : tcpDown' = Rest(tcpDown, m)
    BY <1>4 DEF Cuts
  <2>2. answered' = answered /\ ~Relaying'
    BY <1>4 DEF Cuts
  <2>3. Len(tcpDown') <= answered' /\ Run(tcpDown', Taken')
    BY <2>1, <2>2, <1>0, StepTaken
  <2> QED
    BY <2>2, <2>3, <1>0 DEF WholeInv
<1>5. CASE Reads
  <2>n. PICK n \in 0..Len(tcpDown) : \E taken \in 0..n :
          /\ taken = n \/ Len(streamDown') = Window
          /\ streamDown' = streamDown \o First(First(tcpDown, n), taken)
          /\ tcpDown' = Rest(tcpDown, n) /\ UNCHANGED <<answered, gotDown>>
    BY <1>5 DEF Reads
  <2>1. PICK taken \in 0..n :
          /\ taken = n \/ Len(streamDown') = Window
          /\ streamDown' = streamDown \o First(First(tcpDown, n), taken)
          /\ tcpDown' = Rest(tcpDown, n) /\ UNCHANGED <<answered, gotDown>>
    BY <2>n
  <2> DEFINE x == First(First(tcpDown, n), taken)
  <2>2. taken = n
    <3>1. ~(Window < Window)
      BY RelayAssumption
    <3> QED
      BY <2>1, <3>1 DEF KeepsUp
  <2>3. x \in Seq(Values) /\ Len(x) = n /\ Run(x, Taken)
    BY <1>0, <1>1, <2>2, ReadsRun
  <2>4. Len(tcpDown') <= answered' /\ Taken' = Taken + n /\ Run(tcpDown', Taken')
    BY <2>1, <1>0, StepTaken
  <2>5. streamDown' = streamDown \o x /\ gotDown' = gotDown
    BY <2>1
  <2> HIDE DEF x
  <2>6. Accepted' = Accepted \o x
    BY <2>3, <2>5, <1>0, MoreAccepted
  <2>7. ASSUME Relaying' PROVE Run(Accepted', 0) /\ Len(Accepted') = Taken'
    <3>1. Run(Accepted, 0) /\ Len(Accepted) = Taken
      BY <2>7, <1>0, <1>1
    <3>2. Run(x, 0 + Len(Accepted))
      BY <2>3, <3>1, <1>1
    <3>3. Run(Accepted \o x, 0) /\ Len(Accepted \o x) = Len(Accepted) + Len(x)
      BY <2>3, <3>1, <3>2, <1>2, ConcatRun
    <3> QED
      BY <2>3, <2>4, <2>6, <3>1, <3>3
  <2> QED
    BY <2>4, <2>7, <1>0 DEF WholeInv
<1> QED
  BY <1>0, <1>3, <1>4, <1>5, StepDown

LEMMA WholeIsIntact == WholeInv => DownIntact
<1> SUFFICES ASSUME WholeInv, Relaying PROVE Accepted \o tcpDown = Bytes(answered)
  BY DEF DownIntact
<1>1. /\ Len(tcpDown) <= answered /\ Run(tcpDown, Taken) /\ TypeOK
      /\ Run(Accepted, 0) /\ Len(Accepted) = Taken
  BY DEF WholeInv
<1>2. Accepted \in Seq(Nat) /\ tcpDown \in Seq(Nat) /\ answered \in Nat /\ Taken \in Nat
  <2>1. Accepted \in Seq(Values) /\ tcpDown \in Seq(Values) /\ Values \subseteq Nat
    BY <1>1, DownTypes DEF Values
  <2>2. Accepted \in Seq(Nat) /\ tcpDown \in Seq(Nat)
    BY <2>1, SeqMonotonic
  <2> QED
    BY <1>1, <2>2, DownTypes, StepTaken
<1> DEFINE c == Accepted \o tcpDown
<1>3. c \in Seq(Nat) /\ Len(c) = Taken + Len(tcpDown) /\ Len(tcpDown) \in Nat /\ Run(c, 0)
  <2>1. 0 + Len(Accepted) = Taken
    BY <1>1, <1>2
  <2> QED
    BY <1>1, <1>2, <2>1, ConcatRun
<1> HIDE DEF c
<1>4. Len(c) = answered
  BY <1>2, <1>3 DEF Taken
<1>5. Len(c) <= answered
  BY <1>2, <1>4
<1> QED
  BY <1>2, <1>3, <1>4, <1>5, RunIsPrefix DEF c

\* A client that never lets quiche hold a full window gets all the broker wrote.
THEOREM NothingLostDown == Spec => KeepingUpLosesNothing
BY InitDown, StepWholeInv, WholeIsIntact, PTL DEF Spec, KeepingUpLosesNothing

=============================================================================

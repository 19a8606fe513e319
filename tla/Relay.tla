--------------------------------- MODULE Relay ---------------------------------
(***************************************************************************)
(* What a task of connection_mode_quic.rs relays once its connection is    *)
(* established, the client has its certificate and the broker is connected *)
(* (ProxyQuic says when): the bytes of stream 0 to the TCP connection, and *)
(* the bytes of the TCP connection to stream 0.                            *)
(*                                                                         *)
(* Bytes are numbered by their writer, 1, 2, 3...  quiche and TCP deliver  *)
(* what they took in order; either direction buffers a bounded number.     *)
(***************************************************************************)
EXTENDS Integers, Sequences, FiniteSets, SequencesExt

CONSTANTS
    MaxUp,      \* bound: bytes the client writes
    MaxDown,    \* bound: bytes the broker writes
    Chunk,      \* MAX_DATAGRAM_SIZE, the size of the buffers (1200)
    TcpBuffer,  \* what TCP buffers in one direction
    Window,     \* what quiche takes and the client has not acknowledged yet
    Faults      \* what may go wrong outside

ASSUME RelayAssumption ==
    /\ MaxUp \in Nat /\ MaxDown \in Nat
    /\ Chunk \in Nat \ {0} /\ TcpBuffer \in Nat \ {0} /\ Window \in Nat \ {0}
    /\ Faults \subseteq {"connection", "tcp", "eof"}

VARIABLES
    written,    \* bytes the client has written to stream 0
    rx,         \* of these, what is in datagrams the task has not taken yet
    streamUp,   \* what waits in quiche for stream_recv()
    pc,         \* where handle_client_connection() is
    pending,    \* what write_all() has yet to write
    tcpUp,      \* on its way to the broker
    gotUp,      \* what the broker has read
    answered,   \* bytes the broker has written to the TCP connection
    tcpDown,    \* of these, what waits for try_read()
    streamDown, \* what stream_send() took, on its way to the client
    gotDown,    \* what the client has read
    broker      \* the broker's end of the TCP connection

up == <<written, rx, streamUp, pending, tcpUp, gotUp>>
down == <<answered, tcpDown, streamDown, gotDown>>
vars == <<up, down, pc, broker>>

UpBytes == Seq(1..MaxUp)
DownBytes == Seq(1..MaxDown)

TypeOK ==
    /\ written \in 0..MaxUp /\ answered \in 0..MaxDown
    /\ rx \in UpBytes /\ streamUp \in UpBytes /\ tcpUp \in UpBytes /\ gotUp \in UpBytes
    /\ pending \in UpBytes /\ Len(pending) <= Chunk
    /\ tcpDown \in DownBytes /\ streamDown \in DownBytes /\ gotDown \in DownBytes
    /\ Len(tcpUp) <= TcpBuffer /\ Len(tcpDown) <= TcpBuffer
    /\ Len(streamDown) <= Window
    /\ pc \in {"select", "reading", "writing", "closing", "returned"}
    /\ broker \in {"open", "closed"}

Init ==
    /\ written = 0 /\ answered = 0
    /\ rx = <<>> /\ streamUp = <<>> /\ pending = <<>> /\ tcpUp = <<>> /\ gotUp = <<>>
    /\ tcpDown = <<>> /\ streamDown = <<>> /\ gotDown = <<>>
    /\ pc = "select"
    /\ broker = "open"

Least(m, n) == IF m <= n THEN m ELSE n
First(s, n) == SubSeq(s, 1, n)
Rest(s, n) == SubSeq(s, n + 1, Len(s))

-----------------------------------------------------------------------------
(* The client and the broker.                                              *)

ClientWrites ==
    /\ pc \notin {"closing", "returned"} /\ written < MaxUp
    /\ written' = written + 1
    /\ rx' = Append(rx, written')
    /\ UNCHANGED <<streamUp, pending, tcpUp, gotUp, down, pc, broker>>

ClientReads ==
    /\ streamDown # <<>>
    /\ gotDown' = Append(gotDown, Head(streamDown))
    /\ streamDown' = Tail(streamDown)
    /\ UNCHANGED <<up, answered, tcpDown, pc, broker>>

BrokerReads ==
    /\ broker = "open" /\ tcpUp # <<>>
    /\ gotUp' = Append(gotUp, Head(tcpUp))
    /\ tcpUp' = Tail(tcpUp)
    /\ UNCHANGED <<written, rx, streamUp, pending, down, pc, broker>>

\* The broker speaks only when spoken to.
BrokerWrites ==
    /\ broker = "open" /\ gotUp # <<>>
    /\ pc # "returned" /\ answered < MaxDown /\ Len(tcpDown) < TcpBuffer
    /\ answered' = answered + 1
    /\ tcpDown' = Append(tcpDown, answered')
    /\ UNCHANGED <<up, streamDown, gotDown, pc, broker>>

BrokerCloses ==
    /\ "eof" \in Faults /\ broker = "open"
    /\ broker' = "closed"
    /\ tcpUp' = <<>>
    /\ UNCHANGED <<written, rx, streamUp, pending, gotUp, down, pc>>

-----------------------------------------------------------------------------
(* The task.                                                               *)

\* The handler leaves its loop or is about to: of what is on its way, the client
\* and the broker still get a part, from the front.
LosesTails ==
    /\ \E n \in 0..Len(streamDown) : streamDown' = First(streamDown, n)
    /\ \E n \in 0..Len(tcpUp) : tcpUp' = First(tcpUp, n)

Ends ==
    /\ pc' = "returned"
    /\ LosesTails
    /\ UNCHANGED <<written, rx, streamUp, pending, gotUp, answered, tcpDown, gotDown, broker>>

\* A datagram arrived.  It makes one byte readable, or more, if it fills a gap.
PacketArrives ==
    /\ pc = "select" /\ rx # <<>>
    /\ \E n \in 1..Len(rx) :
         /\ streamUp' = streamUp \o First(rx, n)
         /\ rx' = Rest(rx, n)
    /\ pc' = "reading"
    /\ UNCHANGED <<written, pending, tcpUp, gotUp, down, broker>>

\* `while let Ok(...) = stream_recv()': a buffer full, until there is no more.
ReadsStream ==
    /\ pc = "reading" /\ streamUp # <<>>
    /\ LET n == Least(Chunk, Len(streamUp)) IN
         /\ pending' = First(streamUp, n)
         /\ streamUp' = Rest(streamUp, n)
    /\ pc' = "writing"
    /\ UNCHANGED <<written, rx, tcpUp, gotUp, down, broker>>

ReadsNoMore ==
    /\ pc = "reading" /\ streamUp = <<>>
    /\ pc' = "select"
    /\ UNCHANGED <<up, down, broker>>

\* write_all(): what fits, until nothing is left.  Meanwhile the task does
\* nothing else: no timer, no datagram, no data from the broker, no cancellation.
WriteOnce(left) == "reading"                                \* mutant
ReadOnce(left) ==                                           \* mutant
    IF left = <<>> THEN "select" ELSE "writing"
WriteOn(left) == "writing"                                  \* mutant
AfterWrite(left) == IF left = <<>> THEN "reading" ELSE "writing"

WritesTcp ==
    /\ pc = "writing" /\ broker = "open" /\ Len(tcpUp) < TcpBuffer
    /\ LET n == Least(Len(pending), TcpBuffer - Len(tcpUp)) IN
         /\ tcpUp' = tcpUp \o First(pending, n)
         /\ pending' = IF AfterWrite(Rest(pending, n)) = "writing"
                         THEN Rest(pending, n) ELSE <<>>
         /\ pc' = AfterWrite(Rest(pending, n))
    /\ UNCHANGED <<written, rx, streamUp, gotUp, down, broker>>

\* The broker has closed, or the TCP connection broke.
WriteFails ==
    /\ pc = "writing" /\ (broker = "closed" \/ "tcp" \in Faults)
    /\ Ends

\* try_read() and stream_send(), whose result says how many bytes it took: the
\* code does not look at it.  When it can take none, it is an error (Done).
AcceptBlindly(n) == n                                       \* mutant
AcceptLess(n) ==                                            \* mutant
    Least(n - 1, Window - Len(streamDown))
Accept(n) == Least(n, Window - Len(streamDown))

ReadNewest(n) == SubSeq(tcpDown, Len(tcpDown) - n + 1, Len(tcpDown))  \* mutant
ReadBuffer(n) == First(tcpDown, n)

ReadsBroker ==
    /\ pc = "select" /\ tcpDown # <<>>
    /\ Len(streamDown) < Window
    /\ LET n == Least(Chunk, Len(tcpDown)) IN
         /\ streamDown' = streamDown \o First(ReadBuffer(n), Accept(n))
         /\ tcpDown' = Rest(tcpDown, n)
    /\ UNCHANGED <<up, answered, gotDown, pc, broker>>

StreamFull ==
    /\ pc = "select" /\ tcpDown # <<>>
    /\ Len(streamDown) = Window
    /\ LET n == Least(Chunk, Len(tcpDown)) IN tcpDown' = Rest(tcpDown, n)
    /\ pc' = "returned"
    /\ LosesTails
    /\ UNCHANGED <<written, rx, streamUp, pending, gotUp, answered, gotDown, broker>>

\* End of file, after all the broker wrote, or an error, which may come before:
\* conn.close().  The next turn finds the socket readable again, and close() fails.
ReadsEof ==
    /\ pc = "select"
    /\ \/ broker = "closed" /\ tcpDown = <<>>
       \/ "tcp" \in Faults
    /\ pc' = "closing"
    /\ LosesTails
    /\ UNCHANGED <<written, rx, streamUp, pending, gotUp, answered, tcpDown, gotDown, broker>>

\* The connection times out, the client closes it, it breaks, or close() failed.
ConnectionEnds ==
    /\ pc = "closing" \/ (pc = "select" /\ "connection" \in Faults)
    /\ Ends

-----------------------------------------------------------------------------
Task ==
    \/ PacketArrives \/ ReadsStream \/ ReadsNoMore \/ WritesTcp \/ WriteFails
    \/ ReadsBroker \/ StreamFull \/ ReadsEof \/ ConnectionEnds

Next ==
    \/ ClientWrites \/ ClientReads \/ BrokerReads \/ BrokerWrites \/ BrokerCloses
    \/ Task

Spec == Init /\ [][Next]_vars

\* select! picks at random among what is ready, so data of either side is not
\* passed over for ever.  The client acknowledges what it gets, and the broker
\* reads: without that a write to it need not end.
Fairness ==
    /\ SF_vars(PacketArrives)
    /\ SF_vars(ReadsBroker \/ StreamFull)
    /\ WF_vars(ReadsStream \/ ReadsNoMore)
    /\ WF_vars(WritesTcp)
    /\ WF_vars(WriteFails /\ broker = "closed")
    /\ SF_vars(ReadsEof /\ broker = "closed")
    /\ WF_vars(ConnectionEnds /\ pc = "closing")
    /\ WF_vars(ClientReads)
    /\ WF_vars(BrokerReads)

FairSpec == Spec /\ Fairness

-----------------------------------------------------------------------------
Bytes(n) == [i \in 1..n |-> i]
Relaying == pc \in {"select", "reading", "writing"}

\* Up, nothing is lost, repeated or reordered: while the task relays and the
\* broker has not closed, what the broker got, what is on its way and what waits
\* make up all the client wrote; and whatever fails, what the broker gets is how
\* it began, so that it never sees a request with a hole.
UpIntact ==
    /\ IsPrefix(gotUp \o tcpUp, Bytes(written))
    /\ Relaying /\ broker = "open" =>
         gotUp \o tcpUp \o pending \o streamUp \o rx = Bytes(written)

\* Down, nothing is repeated or reordered.
Accepted == gotDown \o streamDown
DownOrder ==
    \A i, j \in 1..Len(Accepted) : i < j => Accepted[i] < Accepted[j]

\* Down, bytes can be lost: those that stream_send() did not take.  A client that
\* keeps up loses none: if quiche never holds a full window of what it has not
\* acknowledged, it gets all the broker wrote.
KeepsUp == Len(streamDown) < Window
DownIntact == Relaying => Accepted \o tcpDown = Bytes(answered)
KeepingUpLosesNothing == []KeepsUp => []DownIntact

\* write_all() ends, and with it the time in which the task hears no timer and
\* reads nothing: as long as the broker reads, whatever it does with its answers.
WriteEnds == (pc = "writing") ~> (pc # "writing")

\* What the client wrote reaches the broker, unless the connection ends.
UpArrives ==
    \A n \in 1..MaxUp :
        (written >= n) ~> (Len(gotUp) >= n \/ broker = "closed" \/ ~Relaying)

=============================================================================

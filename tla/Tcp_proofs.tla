----------------------------- MODULE Tcp_proofs -----------------------------
(***************************************************************************)
(* Proofs about Tcp, for every number of ports, sequence numbers, stream   *)
(* and buffer length, and for every number of downloads and faults.        *)
(***************************************************************************)
EXTENDS Tcp, SequenceTheorems, TLAPS

SequenceNumbers == 0..(SequenceSpace - 1)

Segments == [port : Ports, syn : BOOLEAN, fin : BOOLEAN, seq : SequenceNumbers,
             ack : SequenceNumbers, data : Seq(Chunks)]

(* The server and the wire.                                                *)
ServerOK ==
    /\ wire \in Seq(Segments)
    /\ server \in [Ports -> {"closed", "open", "serving", "done"}]
    /\ expected \in [Ports -> SequenceNumbers]
    /\ sent \in [Ports -> 0..(StreamLength + 1)]

HistoryOK ==
    /\ irs \in SequenceNumbers /\ ended \in BOOLEAN
    /\ connects \in Nat /\ faults \in Nat

(* What the phases of a download know of the control block: nothing is     *)
(* stored before the request, and the wait for the SYN-ACK ends with an    *)
(* open connection or none.                                                *)
Handshake ==
    /\ pc \in {"connect", "wait"} => retry < Retries
    /\ pc \in {"connect", "wait", "send"} => rx_buffer = <<>> /\ ~ended
    /\ pc = "wait" => state # "TCP_CLOSED"
    /\ state = "TCP_SYN_SENT" => pc \in {"connect", "wait"}
    /\ pc \in {"send", "receive", "finish"} => state = "TCP_ESTABLISHED" \/ ended

(* The download is what tcp_receive has taken out of the receive buffer.   *)
Copied ==
    /\ Len(down_buf) = rx_processed
    /\ \A i \in 1..rx_processed : down_buf[i] = rx_buffer[i]
    /\ pc \in {"idle", "finish"} /\ ended => rx_processed = Len(rx_buffer)

Control == ServerOK /\ HistoryOK /\ Handshake /\ Copied /\ HasDataAccurate /\ AckCountsStored

(* Without a fault the wire holds first the answers to SYNs and requests,  *)
(* a of them, then the stream from its segment r + 1 on; the first r have  *)
(* been stored as far as they fitted.                                      *)
Silent(i) == wire[i].data = <<>> /\ ~wire[i].fin

Streamed(i, k) ==
    /\ wire[i].data = IF k > StreamLength THEN <<>> ELSE <<<<local_port, k>>>>
    /\ wire[i].fin => i = Len(wire) /\ sent[local_port] = StreamLength + 1 /\ k >= StreamLength

Stored(r) ==
    IF r <= StreamLength /\ r < RX_BUFFER THEN r
    ELSE IF StreamLength < RX_BUFFER THEN StreamLength ELSE RX_BUFFER - 1

InOrder(a, r) ==
    /\ a <= Len(wire) /\ (r > 0 => a = 0)
    /\ \A i \in 1..a : Silent(i)
    /\ \A i \in (a + 1)..Len(wire) : Streamed(i, r + i - a)
    /\ \/ sent[local_port] = r + Len(wire) - a
       \/ sent[local_port] = StreamLength + 1 /\ r + Len(wire) - a = StreamLength
    /\ ended => wire = <<>> /\ sent[local_port] = StreamLength + 1
    /\ Len(rx_buffer) = Stored(r)

Faultless == faults = 0 /\ connects <= 1

FirstInOrder ==
    Faultless =>
        /\ \A q \in Ports \ {local_port} : server[q] = "closed" /\ sent[q] = 0
        /\ server[local_port] \in {"closed", "open"} => sent[local_port] = 0
        /\ connects = 0 => server[local_port] = "closed" /\ wire = <<>> /\ pc = "idle" /\ ~ended
        /\ pc \in {"connect", "wait", "send"} => server[local_port] \in {"closed", "open"}
        /\ \A k \in 1..Len(rx_buffer) : rx_buffer[k] = <<local_port, k>>
        /\ \E a, r \in Nat : InOrder(a, r)

IInv == Control /\ FirstInOrder

-----------------------------------------------------------------------------
(* Arithmetic of sequence numbers.                                         *)

(* Quotient and remainder.                                                 *)
LEMMA Remainder ==
    ASSUME NEW i \in Int, NEW m \in Nat, m > 0
    PROVE  /\ i % m \in 0..(m - 1) /\ i \div m \in Int
           /\ i = m * (i \div m) + (i % m)
           /\ 0 <= i /\ i < m => i % m = i
           /\ -m < i /\ i < 0 => i % m = i + m
  OBVIOUS

(* No multiple of m lies strictly between 0 and m.                         *)
LEMMA NoMultiple ==
    ASSUME NEW m \in Nat, NEW q \in Int, 0 < m * q, m * q < m
    PROVE  FALSE
  <1>1. CASE q <= 0
    <2>1. m * (0 - q) >= 0
      BY <1>1
    <2>2. m * (0 - q) = 0 - m * q
      OBVIOUS
    <2> QED
      BY <2>1, <2>2
  <1>2. CASE q >= 1
    <2>1. m * (q - 1) >= 0
      BY <1>2
    <2>2. m * (q - 1) = m * q - m
      OBVIOUS
    <2> QED
      BY <2>1, <2>2
  <1> QED
    BY <1>1, <1>2

(* A remainder within the range is the only one.                           *)
LEMMA RemainderUnique ==
    ASSUME NEW i \in Int, NEW m \in Nat, m > 0, NEW q \in Int, NEW r \in 0..(m - 1), i = m * q + r
    PROVE  i % m = r
  <1> DEFINE p == i \div m
             s == i % m
  <1>1. p \in Int /\ s \in 0..(m - 1) /\ i = m * p + s
    BY Remainder
  <1> HIDE DEF p, s
  <1>2. /\ m * (q - p) = m * q - m * p
        /\ m * (p - q) = m * p - m * q
        /\ m * q \in Int /\ m * p \in Int
    BY <1>1
  <1>3. ~(0 < m * (q - p) /\ m * (q - p) < m)
    BY <1>1, NoMultiple
  <1>4. ~(0 < m * (p - q) /\ m * (p - q) < m)
    BY <1>1, NoMultiple
  <1>5. s = r
    BY <1>1, <1>2, <1>3, <1>4
  <1> QED
    BY <1>5 DEF s

(* Whole turns do not count.                                               *)
LEMMA Turns ==
    ASSUME NEW i \in Int, NEW m \in Nat, m > 0, NEW q \in Int
    PROVE  (i + m * q) % m = i % m
  <1> DEFINE p == i \div m
             s == i % m
  <1>1. p \in Int /\ s \in 0..(m - 1) /\ i = m * p + s
    BY Remainder
  <1> HIDE DEF p, s
  <1>2. m * (p + q) = m * p + m * q /\ m * q \in Int /\ p + q \in Int
    BY <1>1
  <1>3. i + m * q = m * (p + q) + s
    BY <1>1, <1>2
  <1>4. (i + m * q) % m = s
    BY <1>1, <1>2, <1>3, RemainderUnique
  <1> QED
    BY <1>4 DEF s

(* Sequence numbers stay in their space.                                   *)
LEMMA PlusType ==
    ASSUME NEW a \in Int, NEW b \in Int
    PROVE  Plus(a, b) \in SequenceNumbers
  <1>1. a + b \in Int /\ SequenceSpace \in Nat /\ SequenceSpace > 0
    BY TcpAssumption
  <1>2. (a + b) % SequenceSpace \in 0..(SequenceSpace - 1)
    BY <1>1, Remainder
  <1> QED
    BY <1>2 DEF Plus, SequenceNumbers

(* Advancing twice is advancing by the sum.                                *)
LEMMA PlusPlus ==
    ASSUME NEW a \in Int, NEW b \in Int, NEW c \in Int
    PROVE  Plus(Plus(a, b), c) = Plus(a, b + c)
  <1> DEFINE m == SequenceSpace
             i == a + b
             q == 0 - (i \div m)
             s == i % m
  <1>1. m \in Nat /\ m > 0 /\ i \in Int
    BY TcpAssumption
  <1>2. i \div m \in Int /\ s \in Int /\ i = m * (i \div m) + s
    BY <1>1, Remainder
  <1>3. q \in Int /\ m * q = 0 - m * (i \div m) /\ m * (i \div m) \in Int
    BY <1>1, <1>2
  <1>4. i + c \in Int /\ s + c = (i + c) + m * q
    BY <1>1, <1>2, <1>3
  <1>5. a + (b + c) = i + c
    OBVIOUS
  <1> HIDE DEF m, i, q, s
  <1>6. (s + c) % m = (i + c) % m
    <2>1. \A x \in Int : x = i + c => (x + m * q) % m = x % m
      BY <1>1, <1>3, Turns
    <2>2. ((i + c) + m * q) % m = (i + c) % m
      BY <1>4, <2>1
    <2> QED
      BY <1>4, <2>2
  <1> QED
    BY <1>5, <1>6 DEF Plus, m, i, s

-----------------------------------------------------------------------------
(* Sequences.                                                              *)

(* What is left when one element is taken out.                             *)
LEMMA RemoveProperties ==
    ASSUME NEW S, NEW s \in Seq(S), NEW i \in 1..Len(s)
    PROVE  /\ RemoveAt(s, i) \in Seq(S)
           /\ Len(RemoveAt(s, i)) = Len(s) - 1
           /\ \A j \in 1..(Len(s) - 1) : RemoveAt(s, i)[j] = IF j < i THEN s[j] ELSE s[j + 1]
  <1> DEFINE u == SubSeq(s, 1, i - 1)
             v == SubSeq(s, i + 1, Len(s))
  <1>1. Len(s) \in Nat /\ i \in Int /\ 1 <= i /\ i <= Len(s)
    BY LenProperties
  <1>2. \A j \in 1..Len(s) : s[j] \in S
    BY ElementOfSeq
  <1>3. u \in Seq(S) /\ Len(u) = i - 1 /\ \A j \in 1..(i - 1) : u[j] = s[j]
    <2>1. 1 \in Int /\ i - 1 \in Int /\ \A j \in 1..(i - 1) : s[j] \in S
      BY <1>1, <1>2
    <2>2. /\ u \in Seq(S) /\ Len(u) = IF 1 <= i - 1 THEN i - 1 - 1 + 1 ELSE 0
          /\ \A j \in 1..(i - 1 - 1 + 1) : u[j] = s[1 + j - 1]
      BY <2>1, SubSeqProperties
    <2> HIDE DEF u
    <2>3. \A j \in 1..(i - 1) : 1 + j - 1 = j /\ j \in 1..(i - 1 - 1 + 1)
      BY <1>1
    <2> QED
      BY <1>1, <2>2, <2>3
  <1>4. v \in Seq(S) /\ Len(v) = Len(s) - i /\ \A j \in 1..(Len(s) - i) : v[j] = s[i + j]
    <2>1. i + 1 \in Int /\ Len(s) \in Int /\ \A j \in (i + 1)..Len(s) : s[j] \in S
      BY <1>1, <1>2
    <2>2. /\ v \in Seq(S) /\ Len(v) = IF i + 1 <= Len(s) THEN Len(s) - (i + 1) + 1 ELSE 0
          /\ \A j \in 1..(Len(s) - (i + 1) + 1) : v[j] = s[(i + 1) + j - 1]
      BY <2>1, SubSeqProperties
    <2> HIDE DEF v
    <2>3. \A j \in 1..(Len(s) - i) : (i + 1) + j - 1 = i + j /\ j \in 1..(Len(s) - (i + 1) + 1)
      BY <1>1
    <2> QED
      BY <1>1, <2>2, <2>3
  <1> HIDE DEF u, v
  <1>5. /\ u \o v \in Seq(S) /\ Len(u \o v) = Len(u) + Len(v)
        /\ \A j \in 1..(Len(u) + Len(v)) :
              (u \o v)[j] = IF j <= Len(u) THEN u[j] ELSE v[j - Len(u)]
    BY <1>3, <1>4, ConcatProperties
  <1>6. RemoveAt(s, i) = u \o v
    BY DEF RemoveAt, u, v
  <1>7. ASSUME NEW j \in 1..(Len(s) - 1)
        PROVE  (u \o v)[j] = IF j < i THEN s[j] ELSE s[j + 1]
    <2>1. CASE j < i
      BY <1>1, <1>3, <1>4, <1>5, <2>1
    <2>2. CASE ~(j < i)
      <3>1. j - Len(u) \in 1..(Len(s) - i) /\ i + (j - Len(u)) = j + 1
        BY <1>1, <1>3, <2>2
      <3>2. v[j - Len(u)] = s[j + 1]
        BY <1>4, <3>1
      <3>3. j \in 1..(Len(u) + Len(v)) /\ ~(j <= Len(u))
        BY <1>1, <1>3, <1>4, <2>2
      <3> QED
        BY <1>5, <2>2, <3>2, <3>3
    <2> QED
      BY <2>1, <2>2
  <1>8. Len(u) + Len(v) = Len(s) - 1
    BY <1>1, <1>3, <1>4
  <1>9. RemoveAt(s, i) \in Seq(S) /\ Len(RemoveAt(s, i)) = Len(s) - 1
    BY <1>5, <1>6, <1>8
  <1>10. \A j \in 1..(Len(s) - 1) : RemoveAt(s, i)[j] = IF j < i THEN s[j] ELSE s[j + 1]
    BY <1>6, <1>7, Zenon
  <1> QED
    BY <1>9, <1>10, Zenon

-----------------------------------------------------------------------------
(* The server and the wire.                                                *)

(* A segment is made of what it is given.                                  *)
LEMMA SegmentType ==
    ASSUME NEW p \in Ports, NEW syn \in BOOLEAN, NEW fin \in BOOLEAN,
           NEW seq \in SequenceNumbers, NEW ack \in SequenceNumbers, NEW data \in Seq(Chunks)
    PROVE  /\ Segment(p, syn, fin, seq, ack, data) \in Segments
           /\ Segment(p, syn, fin, seq, ack, data).data = data
           /\ Segment(p, syn, fin, seq, ack, data).fin = fin
  BY DEF Segment, Segments

(* The sequence numbers of the server.                                     *)
LEMMA Numbers ==
    /\ ServerIsn \in Int /\ ServerIsn \in SequenceNumbers /\ 0 \in SequenceNumbers
    /\ \A x \in SequenceNumbers : x \in Int
    /\ StreamLength \in Nat /\ RX_BUFFER \in Nat /\ RX_BUFFER > 0
    /\ Retries \in Nat /\ Retries > 0
    /\ <<>> \in Seq(Chunks) /\ Len(<<>>) = 0
  BY TcpAssumption DEF SequenceNumbers

(* The chunks of a stream.                                                 *)
LEMMA StreamChunk ==
    ASSUME NEW p \in Ports, NEW k \in 1..StreamLength
    PROVE  Stream(p)[k] = <<p, k>> /\ <<<<p, k>>>> \in Seq(Chunks) /\ Len(<<<<p, k>>>>) = 1
  <1>1. <<p, k>> \in Chunks
    BY DEF Chunks
  <1>2. <<<<p, k>>>> \in Seq(Chunks) /\ Len(<<<<p, k>>>>) = 1
    BY <1>1
  <1> QED
    BY <1>2 DEF Stream

(* The segments of the stream.                                             *)
LEMMA StreamSegmentType ==
    ASSUME ServerOK, NEW p \in Ports, NEW k \in 1..(StreamLength + 1), NEW fin \in BOOLEAN
    PROVE  /\ StreamSegment(p, k, fin) \in Segments
           /\ StreamSegment(p, k, fin).data = IF k > StreamLength THEN <<>> ELSE <<<<p, k>>>>
           /\ StreamSegment(p, k, fin).fin = fin
  <1> DEFINE data == IF k > StreamLength THEN <<>> ELSE <<Stream(p)[k]>>
  <1>1. k \in Int /\ k >= 1 /\ (~(k > StreamLength) => k \in 1..StreamLength)
    BY Numbers
  <1>2. data = IF k > StreamLength THEN <<>> ELSE <<<<p, k>>>>
    BY <1>1, StreamChunk
  <1>8. data \in Seq(Chunks)
    BY <1>1, Numbers, StreamChunk
  <1>3. Plus(ServerIsn, k) \in SequenceNumbers
    BY <1>1, Numbers, PlusType
  <1>4. expected[p] \in SequenceNumbers
    BY DEF ServerOK
  <1>5. StreamSegment(p, k, fin) = Segment(p, FALSE, fin, Plus(ServerIsn, k), expected[p], data)
    BY DEF StreamSegment
  <1> HIDE DEF data
  <1>7. /\ Segment(p, FALSE, fin, Plus(ServerIsn, k), expected[p], data) \in Segments
        /\ Segment(p, FALSE, fin, Plus(ServerIsn, k), expected[p], data).data = data
        /\ Segment(p, FALSE, fin, Plus(ServerIsn, k), expected[p], data).fin = fin
    <2>1. \A n, e \in SequenceNumbers, d \in Seq(Chunks) :
             /\ Segment(p, FALSE, fin, n, e, d) \in Segments
             /\ Segment(p, FALSE, fin, n, e, d).data = d
             /\ Segment(p, FALSE, fin, n, e, d).fin = fin
      BY DEF Segment, Segments
    <2> QED
      BY <1>3, <1>4, <1>8, <2>1, Zenon
  <1> QED
    BY <1>2, <1>5, <1>7, Zenon

(* The answers to a SYN and to a request.                                  *)
LEMMA AnswerType ==
    ASSUME NEW p \in Ports, NEW ack \in SequenceNumbers
    PROVE  /\ SynAck(p, ack) \in Segments /\ Ack(p, ack) \in Segments
           /\ SynAck(p, ack).data = <<>> /\ ~SynAck(p, ack).fin
           /\ Ack(p, ack).data = <<>> /\ ~Ack(p, ack).fin
  <1>1. Plus(ServerIsn, 1) \in SequenceNumbers
    BY Numbers, PlusType
  <1>2. FALSE \in BOOLEAN /\ TRUE \in BOOLEAN
    OBVIOUS
  <1>3. /\ Segment(p, TRUE, FALSE, ServerIsn, ack, <<>>) \in Segments
        /\ Segment(p, TRUE, FALSE, ServerIsn, ack, <<>>).data = <<>>
        /\ Segment(p, TRUE, FALSE, ServerIsn, ack, <<>>).fin = FALSE
    BY <1>2, Numbers, SegmentType, Zenon
  <1>4. /\ Segment(p, FALSE, FALSE, Plus(ServerIsn, 1), ack, <<>>) \in Segments
        /\ Segment(p, FALSE, FALSE, Plus(ServerIsn, 1), ack, <<>>).data = <<>>
        /\ Segment(p, FALSE, FALSE, Plus(ServerIsn, 1), ack, <<>>).fin = FALSE
    BY <1>1, <1>2, Numbers, SegmentType, Zenon
  <1> QED
    BY <1>3, <1>4, Zenon DEF SynAck, Ack

(* Sending a segment.                                                      *)
LEMMA WireAppend ==
    ASSUME ServerOK, NEW e \in Segments
    PROVE  /\ Append(wire, e) \in Seq(Segments) /\ Len(Append(wire, e)) = Len(wire) + 1
           /\ \A i \in 1..Len(wire) : Append(wire, e)[i] = wire[i]
           /\ Append(wire, e)[Len(wire) + 1] = e
  BY AppendProperties DEF ServerOK

(* The server's part of a step keeps its types.                            *)
LEMMA ServerSynType ==
    ASSUME ServerOK, NEW p \in Ports, NEW isn \in SequenceNumbers, ServerSyn(p, isn)
    PROVE  ServerOK'
  <1>1. Plus(isn, 1) \in SequenceNumbers
    BY Numbers, PlusType
  <1>2. SynAck(p, Plus(isn, 1)) \in Segments
    BY <1>1, AnswerType
  <1>3. Append(wire, SynAck(p, Plus(isn, 1))) \in Seq(Segments)
    BY <1>2, WireAppend
  <1> QED
    BY <1>1, <1>3 DEF ServerOK, ServerSyn

(* The same of a request.                                                  *)
LEMMA ServerRequestType ==
    ASSUME ServerOK, NEW p \in Ports, NEW seq \in SequenceNumbers, ServerRequest(p, seq)
    PROVE  ServerOK'
  <1>1. Plus(seq, 1) \in SequenceNumbers
    BY Numbers, PlusType
  <1>2. Ack(p, Plus(seq, 1)) \in Segments
    BY <1>1, AnswerType
  <1>3. Append(wire, Ack(p, Plus(seq, 1))) \in Seq(Segments)
    BY <1>2, WireAppend
  <1> QED
    BY <1>1, <1>3 DEF ServerOK, ServerRequest

-----------------------------------------------------------------------------
(* Control: the steps that leave the control block to the client.          *)

(* A step that is a fault, or none, counts as one.                         *)
LEMMA FaultType ==
    ASSUME HistoryOK, Fault \/ NoFault
    PROVE  faults' \in Nat
  BY DEF HistoryOK, Fault, NoFault

(* The server's own steps and the network's only touch the wire.           *)
LEMMA ExternalServer ==
    ASSUME ServerOK, External
    PROVE  ServerOK'
  <1>1. ASSUME NEW p \in Ports, ServerSends(p)
        PROVE  ServerOK'
    <2>1. PICK fin \in Fins(sent[p] + 1) :
             /\ sent' = [sent EXCEPT ![p] = IF fin THEN StreamLength + 1 ELSE @ + 1]
             /\ wire' = Append(wire, StreamSegment(p, sent[p] + 1, fin))
      BY <1>1 DEF ServerSends
    <2>2. fin \in BOOLEAN
      BY <2>1 DEF Fins
    <2>3. sent[p] \in Nat /\ sent[p] <= StreamLength /\ sent[p] + 1 \in 1..(StreamLength + 1)
      BY <1>1, Numbers DEF ServerSends, ServerOK
    <2>4. StreamSegment(p, sent[p] + 1, fin) \in Segments
      BY <2>2, <2>3, StreamSegmentType
    <2>5. wire' \in Seq(Segments)
      BY <2>1, <2>4, WireAppend
    <2>6. sent' \in [Ports -> 0..(StreamLength + 1)]
      BY <2>1, <2>3, Numbers DEF ServerOK
    <2> QED
      BY <1>1, <2>5, <2>6 DEF ServerSends, ServerOK
  <1>2. ASSUME NEW p \in Ports, NEW k \in 1..(StreamLength + 1), ServerResends(p, k)
        PROVE  ServerOK'
    <2>1. PICK fin \in Fins(k) : wire' = Append(wire, StreamSegment(p, k, fin))
      BY <1>2 DEF ServerResends
    <2>2. fin \in BOOLEAN
      BY <2>1 DEF Fins
    <2>3. StreamSegment(p, k, fin) \in Segments
      BY <2>2, StreamSegmentType
    <2>4. wire' \in Seq(Segments)
      BY <2>1, <2>3, WireAppend
    <2> QED
      BY <1>2, <2>4 DEF ServerResends, ServerOK, serverState
  <1>3. ASSUME NEW i \in 1..Len(wire), WireLoses(i)
        PROVE  ServerOK'
    <2>1. RemoveAt(wire, i) \in Seq(Segments)
      BY RemoveProperties DEF ServerOK
    <2> QED
      BY <1>3, <2>1 DEF WireLoses, ServerOK, serverState
  <1> QED
    BY <1>1, <1>2, <1>3 DEF External

(* They leave the client as it is.                                         *)
LEMMA ExternalControl ==
    ASSUME Control, External
    PROVE  Control'
  <1>1. /\ UNCHANGED <<connection, receive, pc, retry, down_buf, irs, ended, connects>>
        /\ Fault \/ NoFault
    BY DEF External, ServerSends, ServerResends, WireLoses
  <1>2. ServerOK' /\ faults' \in Nat
    BY <1>1, ExternalServer, FaultType DEF Control
  <1> QED
    BY <1>1, <1>2 DEF Control, HistoryOK, Handshake, Copied, HasDataAccurate, AckCountsStored,
       TypeOK, connection, receive

(* A new download starts from nothing.                                     *)
LEMMA ConnectControl ==
    ASSUME Control, NEW p \in Ports, NEW isn \in Isns, tcp_connect(p, isn)
    PROVE  Control'
  <1>1. ServerOK'
    BY DEF Control, ServerOK, tcp_connect, serverState
  <1>2. isn \in 0..(SequenceSpace - 1) /\ 0 \in 0..(SequenceSpace - 1)
    BY TcpAssumption
  <1>3. HistoryOK'
    <2>1. irs' = irs /\ ended' = FALSE /\ connects' = connects + 1 /\ faults' = faults
      BY DEF tcp_connect, NoFault
    <2>2. ended' \in BOOLEAN
      BY <2>1, Zenon
    <2> QED
      BY <2>1, <2>2 DEF Control, HistoryOK
  <1>4. Handshake' /\ Copied' /\ HasDataAccurate'
    BY Numbers DEF Handshake, Copied, HasDataAccurate, tcp_connect
  <1>5. AckCountsStored'
    <2>1. /\ state' = "TCP_CLOSED" /\ local_port' = p /\ snd_nxt' = isn /\ rcv_nxt' = 0
          /\ rx_buffer' = <<>> /\ rx_processed' = 0 /\ has_data' = FALSE
          /\ pc' \in {"connect", "idle"} /\ retry' = 0 /\ down_buf' = <<>>
      BY DEF tcp_connect
    <2>2. has_data' \in BOOLEAN
      BY <2>1, Zenon
    <2>3. rx_buffer' \in Seq(Chunks) /\ Len(rx_buffer') = 0
      BY <2>1, Numbers
    <2>4. rx_processed' \in 0..Len(rx_buffer') /\ retry' \in 0..Retries /\ Len(rx_buffer') < RX_BUFFER
      BY <2>1, <2>3, Numbers
    <2> QED
      BY <1>2, <1>3, <2>1, <2>2, <2>3, <2>4 DEF AckCountsStored, TypeOK, tcp_connect
  <1> QED
    BY <1>1, <1>3, <1>4, <1>5 DEF Control

(* The next SYN, or the end of the attempts.                               *)
LEMMA RetryControl ==
    ASSUME Control, send_syn_fails \/ connect_timeout
    PROVE  Control'
  <1>1. /\ pc \in {"connect", "wait"} /\ NextRetry /\ (Fault \/ NoFault)
        /\ (state = "TCP_ESTABLISHED" => pc = "connect")
        /\ UNCHANGED <<local_port, snd_nxt, rcv_nxt, receive, down_buf, wire, serverState, ended,
                       irs, connects>>
    BY DEF send_syn_fails, connect_timeout, Elsewhere
  <1>2. ServerOK'
    BY <1>1 DEF Control, ServerOK, serverState
  <1>3. HistoryOK'
    BY <1>1, FaultType DEF Control, HistoryOK
  <1>4. Handshake' /\ retry' \in 0..Retries
    BY <1>1, Numbers DEF Control, Handshake, NextRetry, AckCountsStored, TypeOK, receive
  <1>5. Copied' /\ HasDataAccurate'
    BY <1>1 DEF Control, Copied, HasDataAccurate, Handshake, NextRetry, receive
  <1>6. AckCountsStored'
    BY <1>1, <1>4 DEF Control, AckCountsStored, TypeOK, Handshake, NextRetry, receive
  <1> QED
    BY <1>2, <1>3, <1>4, <1>5, <1>6 DEF Control

(* The SYN goes out.                                                       *)
LEMMA SynControl ==
    ASSUME Control, send_syn
    PROVE  Control'
  <1>1. ServerOK'
    <2>1. CASE ServerSyn(local_port, snd_nxt)
      BY <2>1, ServerSynType DEF Control, AckCountsStored, TypeOK, SequenceNumbers
    <2>2. CASE Lost
      BY <2>2 DEF Lost, Control, ServerOK, serverState
    <2> QED
      BY <2>1, <2>2 DEF send_syn
  <1>2. HistoryOK'
    BY FaultType DEF Control, HistoryOK, send_syn, Lost, Elsewhere
  <1>3. Handshake' /\ Copied' /\ HasDataAccurate'
    BY DEF Control, Handshake, Copied, HasDataAccurate, send_syn, receive
  <1>4. AckCountsStored'
    BY DEF Control, AckCountsStored, TypeOK, Handshake, send_syn, receive
  <1> QED
    BY <1>1, <1>2, <1>3, <1>4 DEF Control

(* The steps of WGET between the connection and the end.                   *)
LEMMA WgetControl ==
    ASSUME Control, connected \/ tcp_receive_nothing \/ tcp_close
    PROVE  Control'
  <1>1. ServerOK'
    <2>1. CASE tcp_close /\ state = "TCP_ESTABLISHED" /\ ServerClose(local_port)
      BY <2>1 DEF ServerClose, Control, ServerOK, AckCountsStored, TypeOK
    <2>2. CASE UNCHANGED <<serverState, wire>>
      BY <2>2 DEF Control, ServerOK, serverState
    <2> QED
      BY <2>1, <2>2 DEF connected, tcp_receive_nothing, tcp_close, Lost
  <1>2. HistoryOK'
    BY FaultType DEF Control, HistoryOK, connected, tcp_receive_nothing, tcp_close, Lost, Elsewhere
  <1>3. Handshake' /\ Copied' /\ HasDataAccurate'
    BY DEF Control, Handshake, Copied, HasDataAccurate, connected, tcp_receive_nothing, tcp_close,
       connection, receive
  <1>4. AckCountsStored'
    BY DEF Control, AckCountsStored, TypeOK, connected, tcp_receive_nothing, tcp_close,
       connection, receive, Elsewhere
  <1> QED
    BY <1>1, <1>2, <1>3, <1>4 DEF Control

(* The request.                                                            *)
LEMMA SendControl ==
    ASSUME Control, tcp_send
    PROVE  Control'
  <1>1. ServerOK'
    <2>1. CASE ServerRequest(local_port, snd_nxt)
      BY <2>1, ServerRequestType DEF Control, AckCountsStored, TypeOK, SequenceNumbers
    <2>2. CASE Lost
      BY <2>2 DEF Lost, Control, ServerOK, serverState
    <2> QED
      BY <2>1, <2>2 DEF tcp_send
  <1>2. HistoryOK'
    BY FaultType DEF Control, HistoryOK, tcp_send, Lost, Elsewhere
  <1>3. Handshake' /\ Copied' /\ HasDataAccurate'
    BY DEF Control, Handshake, Copied, HasDataAccurate, tcp_send, receive
  <1>4. snd_nxt' \in SequenceNumbers
    BY PlusType, Numbers DEF Control, AckCountsStored, TypeOK, tcp_send, SequenceNumbers
  <1>5. AckCountsStored'
    BY <1>4 DEF Control, AckCountsStored, TypeOK, Handshake, tcp_send, receive, SequenceNumbers,
                Elsewhere
  <1> QED
    BY <1>1, <1>2, <1>3, <1>5 DEF Control

(* tcp_receive copies what it has not returned yet.                        *)
LEMMA ReceiveControl ==
    ASSUME Control, tcp_receive
    PROVE  Control'
  <1> DEFINE rest == SubSeq(rx_buffer, rx_processed + 1, Len(rx_buffer))
  <1>1. /\ rx_buffer \in Seq(Chunks) /\ down_buf \in Seq(Chunks) /\ Len(rx_buffer) \in Nat
        /\ rx_processed \in Nat /\ rx_processed < Len(rx_buffer) /\ Len(down_buf) = rx_processed
    BY LenProperties DEF Control, AckCountsStored, TypeOK, Copied, tcp_receive
  <1>2. /\ rest \in Seq(Chunks) /\ Len(rest) = Len(rx_buffer) - rx_processed
        /\ \A i \in 1..(Len(rx_buffer) - rx_processed) : rest[i] = rx_buffer[rx_processed + i]
    <2>1. \A i \in (rx_processed + 1)..Len(rx_buffer) : rx_buffer[i] \in Chunks
      BY <1>1, ElementOfSeq
    <2>2. rx_processed + 1 \in Int /\ Len(rx_buffer) \in Int
      BY <1>1
    <2>3. /\ rest \in Seq(Chunks)
          /\ Len(rest) = IF rx_processed + 1 <= Len(rx_buffer)
                         THEN Len(rx_buffer) - (rx_processed + 1) + 1 ELSE 0
          /\ \A i \in 1..(Len(rx_buffer) - (rx_processed + 1) + 1) :
                rest[i] = rx_buffer[(rx_processed + 1) + i - 1]
      BY <2>1, <2>2, SubSeqProperties
    <2> HIDE DEF rest
    <2>4. \A i \in 1..(Len(rx_buffer) - rx_processed) :
             /\ i \in 1..(Len(rx_buffer) - (rx_processed + 1) + 1)
             /\ (rx_processed + 1) + i - 1 = rx_processed + i
      BY <1>1
    <2>5. \A i \in 1..(Len(rx_buffer) - rx_processed) : rest[i] = rx_buffer[rx_processed + i]
      BY <2>3, <2>4
    <2>6. Len(rest) = Len(rx_buffer) - rx_processed
      BY <1>1, <2>3
    <2> QED
      BY <2>3, <2>5, <2>6
  <1>3. down_buf' = down_buf \o rest
    BY DEF tcp_receive
  <1> HIDE DEF rest
  <1>4. /\ down_buf \o rest \in Seq(Chunks) /\ Len(down_buf \o rest) = Len(down_buf) + Len(rest)
        /\ \A i \in 1..(Len(down_buf) + Len(rest)) :
              (down_buf \o rest)[i] = IF i <= Len(down_buf) THEN down_buf[i] ELSE rest[i - Len(down_buf)]
    BY <1>1, <1>2, ConcatProperties
  <1>5. Len(down_buf) + Len(rest) = Len(rx_buffer)
    BY <1>1, <1>2
  <1>6. ASSUME NEW i \in 1..Len(rx_buffer)
        PROVE  (down_buf \o rest)[i] = rx_buffer[i]
    <2>1. CASE i <= rx_processed
      <3>1. down_buf[i] = rx_buffer[i]
        BY <1>1, <2>1 DEF Control, Copied
      <3> QED
        BY <1>1, <1>4, <1>5, <2>1, <3>1
    <2>2. CASE ~(i <= rx_processed)
      <3>1. i - rx_processed \in 1..(Len(rx_buffer) - rx_processed) /\ rx_processed + (i - rx_processed) = i
        BY <1>1, <2>2
      <3>2. rest[i - rx_processed] = rx_buffer[i]
        BY <1>2, <3>1
      <3> QED
        BY <1>1, <1>4, <1>5, <2>2, <3>2
    <2> QED
      BY <2>1, <2>2
  <1>7. /\ UNCHANGED <<connection, rx_buffer, pc, retry, wire, serverState, ended, irs, connects, faults>>
        /\ pc = "receive" /\ rx_processed' = Len(rx_buffer) /\ has_data' = FALSE
    BY DEF tcp_receive, NoFault, Elsewhere
  <1>8. ServerOK'
    BY <1>7 DEF Control, ServerOK, serverState
  <1>9. HistoryOK' /\ Handshake'
    BY <1>7 DEF Control, HistoryOK, Handshake, connection
  <1>10. Len(down_buf') = rx_processed' /\ \A i \in 1..rx_processed' : down_buf'[i] = rx_buffer'[i]
    BY <1>3, <1>4, <1>5, <1>6, <1>7
  <1>11. Copied'
    BY <1>7, <1>10 DEF Copied
  <1>12. HasDataAccurate'
    BY <1>1, <1>7 DEF HasDataAccurate
  <1>13. has_data' \in BOOLEAN
    BY <1>7, Zenon
  <1>14. AckCountsStored'
    BY <1>1, <1>3, <1>4, <1>7, <1>13 DEF Control, AckCountsStored, TypeOK, connection
  <1> QED
    BY <1>8, <1>9, <1>11, <1>12, <1>14 DEF Control

-----------------------------------------------------------------------------
(* Control: a segment arrives.                                             *)

(* The wire after a poll, and what the segment carries.                    *)
LEMMA PollWire ==
    ASSUME Control, NEW i \in 1..Len(wire), NEW keep \in BOOLEAN, NEW padded \in BOOLEAN,
           netif_poll(i, keep, padded)
    PROVE  /\ ServerOK' /\ wire[i] \in Segments
           /\ (IF padded THEN <<Padding>> ELSE wire[i].data) \in Seq(Chunks)
           /\ Fault \/ NoFault
           /\ UNCHANGED <<pc, retry, down_buf, connects>>
  <1>1. wire \in Seq(Segments)
    BY DEF Control, ServerOK
  <1>2. RemoveAt(wire, i) \in Seq(Segments)
    BY <1>1, RemoveProperties
  <1>3. wire' \in Seq(Segments)
    BY <1>1, <1>2 DEF netif_poll
  <1>4. ServerOK'
    BY <1>3 DEF Control, ServerOK, netif_poll, serverState
  <1>5. wire[i] \in Segments
    BY <1>1, ElementOfSeq
  <1>6. wire[i].data \in Seq(Chunks)
    BY <1>5 DEF Segments
  <1>7. <<Padding>> \in Seq(Chunks)
    <2>1. Padding \in Chunks
      BY DEF Chunks
    <2> QED
      BY <2>1
  <1>8. (Fault \/ NoFault) /\ UNCHANGED <<pc, retry, down_buf, connects>>
    BY DEF netif_poll
  <1> QED
    BY <1>4, <1>5, <1>6, <1>7, <1>8

(* A SYN-ACK opens the connection.                                         *)
LEMMA OpenControl ==
    ASSUME Control, NEW seg \in Segments, Polling, ServerOK', Fault \/ NoFault,
           UNCHANGED <<pc, retry, down_buf, connects>>,
           state = "TCP_SYN_SENT", state' = "TCP_ESTABLISHED", rcv_nxt' = Plus(seg.seq, 1),
           snd_nxt' = seg.ack, irs' = seg.seq, UNCHANGED <<local_port, receive, ended>>
    PROVE  Control'
  <1>1. seg.seq \in SequenceNumbers /\ seg.ack \in SequenceNumbers
    BY DEF Segments
  <1>2. Plus(seg.seq, 1) \in SequenceNumbers
    <2>1. seg.seq \in Int /\ 1 \in Int
      BY <1>1 DEF SequenceNumbers
    <2> QED
      BY <2>1, PlusType
  <1>3. HistoryOK'
    BY <1>1, FaultType DEF Control, HistoryOK
  <1>4. pc = "wait" /\ rx_buffer = <<>> /\ Len(rx_buffer) = 0
    BY Numbers DEF Control, Handshake, Polling
  <1>5. Handshake' /\ Copied' /\ HasDataAccurate'
    BY <1>4 DEF Control, Handshake, Copied, HasDataAccurate, receive
  <1>6. TypeOK'
    BY <1>1, <1>2 DEF Control, AckCountsStored, TypeOK, receive, SequenceNumbers
  <1>7. rcv_nxt' = Plus(irs', 1 + Len(rx_buffer')) /\ ~ended'
    BY <1>4 DEF receive, Control, Handshake
  <1> QED
    BY <1>3, <1>5, <1>6, <1>7 DEF Control, AckCountsStored

(* Data is stored when it fits, and acknowledged when it is stored.        *)
LEMMA StoreControl ==
    ASSUME Control, NEW fin \in BOOLEAN, NEW data \in Seq(Chunks), Polling, ServerOK', Fault \/ NoFault,
           UNCHANGED <<pc, retry, down_buf, connects>>,
           state = "TCP_ESTABLISHED",
           IF data # <<>> /\ Fits(data)
           THEN rx_buffer' = rx_buffer \o data /\ has_data' = TRUE
           ELSE UNCHANGED <<rx_buffer, has_data>>,
           Acknowledge(data, fin),
           state' = IF fin THEN "TCP_CLOSED" ELSE state,
           ended' = (ended \/ fin),
           UNCHANGED <<local_port, snd_nxt, rx_processed, irs>>
    PROVE  Control'
  <1> DEFINE n == IF Fits(data) THEN Len(data) ELSE 0
  <1>1. /\ rx_buffer \in Seq(Chunks) /\ Len(rx_buffer) \in Nat /\ Len(data) \in Nat
        /\ Len(rx_buffer) < RX_BUFFER /\ rx_processed \in 0..Len(rx_buffer)
        /\ rcv_nxt = Plus(irs, 1 + Len(rx_buffer)) /\ irs \in Int /\ pc = "receive"
    BY LenProperties, Numbers
       DEF Control, AckCountsStored, TypeOK, HistoryOK, Polling
  <1>2. /\ rx_buffer \o data \in Seq(Chunks) /\ Len(rx_buffer \o data) = Len(rx_buffer) + Len(data)
        /\ \A i \in 1..(Len(rx_buffer) + Len(data)) :
              (rx_buffer \o data)[i] = IF i <= Len(rx_buffer) THEN rx_buffer[i] ELSE data[i - Len(rx_buffer)]
    BY <1>1, ConcatProperties
  <1>3. n \in Nat /\ (Len(data) = 0 <=> data = <<>>)
    BY <1>1, EmptySeq
  <1>4. /\ rx_buffer' \in Seq(Chunks) /\ Len(rx_buffer') = Len(rx_buffer) + n
        /\ Len(rx_buffer') < RX_BUFFER
        /\ \A i \in 1..Len(rx_buffer) : rx_buffer'[i] = rx_buffer[i]
    <2>1. CASE data # <<>> /\ Fits(data)
      <3>1. \A i \in 1..Len(rx_buffer) : (rx_buffer \o data)[i] = rx_buffer[i]
        BY <1>1, <1>2
      <3> QED
        BY <1>1, <1>2, <2>1, <3>1 DEF Fits
    <2>2. CASE ~(data # <<>> /\ Fits(data))
      BY <1>1, <1>3, <2>2
    <2> QED
      BY <2>1, <2>2
  <1>5. has_data' \in BOOLEAN /\ (has_data' <=> rx_processed < Len(rx_buffer'))
    <2>1. has_data \in BOOLEAN /\ (has_data <=> rx_processed < Len(rx_buffer))
      BY DEF Control, AckCountsStored, TypeOK, HasDataAccurate
    <2>2. CASE data # <<>> /\ Fits(data)
      <3>1. rx_processed < Len(rx_buffer')
        BY <1>1, <1>3, <1>4, <2>2
      <3>2. has_data' = TRUE
        BY <2>2
      <3> QED
        BY <3>1, <3>2, Zenon
    <2>3. CASE ~(data # <<>> /\ Fits(data))
      BY <2>1, <2>3
    <2> QED
      BY <2>2, <2>3
  <1>6. rcv_nxt' = Plus(rcv_nxt, n + (IF fin THEN 1 ELSE 0))
    BY DEF Acknowledge
  <1> HIDE DEF n
  <1>7. rcv_nxt' \in SequenceNumbers
    <2>1. rcv_nxt \in Int /\ n + (IF fin THEN 1 ELSE 0) \in Int
      BY <1>3, Numbers DEF Control, AckCountsStored, TypeOK
    <2> QED
      BY <1>6, <2>1, PlusType
  <1>8. /\ state' = "TCP_ESTABLISHED" => rcv_nxt' = Plus(irs', 1 + Len(rx_buffer'))
        /\ ended' => state' = "TCP_CLOSED" /\ rcv_nxt' = Plus(irs', 1 + Len(rx_buffer') + 1)
    <2> DEFINE f == IF fin THEN 1 ELSE 0
    <2>1. Plus(Plus(irs, 1 + Len(rx_buffer)), n + f) = Plus(irs, (1 + Len(rx_buffer)) + (n + f))
      <3>1. n + f \in Nat
        BY <1>3
      <3> HIDE DEF f
      <3> QED
        BY <1>1, <3>1, PlusPlus
    <2>2. rcv_nxt' = Plus(irs', 1 + Len(rx_buffer') + f)
      <3>1. (1 + Len(rx_buffer)) + (n + f) = 1 + Len(rx_buffer') + f
        <4>1. f \in Nat
          OBVIOUS
        <4> HIDE DEF f
        <4> QED
          BY <1>1, <1>3, <1>4, <4>1
      <3> QED
        BY <1>1, <1>6, <2>1, <3>1
    <2>3. 1 + Len(rx_buffer') + 0 = 1 + Len(rx_buffer')
      BY <1>1, <1>3, <1>4
    <2>4. ~ended
      BY DEF Control, AckCountsStored
    <2> QED
      BY <2>2, <2>3, <2>4
  <1>9. state' \in {"TCP_CLOSED", "TCP_ESTABLISHED"} /\ (state' = "TCP_ESTABLISHED" \/ ended')
    OBVIOUS
  <1>10. ended' \in BOOLEAN
    OBVIOUS
  <1>11. HistoryOK'
    BY <1>10, FaultType DEF Control, HistoryOK
  <1>12. Handshake'
    BY <1>1, <1>9 DEF Handshake
  <1>13. Copied'
    <2>1. \A i \in 1..rx_processed : i \in 1..Len(rx_buffer) /\ down_buf[i] = rx_buffer[i]
      BY <1>1 DEF Control, Copied
    <2>2. Len(down_buf) = rx_processed
      BY DEF Control, Copied
    <2>3. \A i \in 1..rx_processed : down_buf[i] = rx_buffer'[i]
      BY <1>4, <2>1
    <2> QED
      BY <1>1, <2>2, <2>3 DEF Copied
  <1>14. HasDataAccurate'
    BY <1>5 DEF HasDataAccurate
  <1>15. TypeOK'
    BY <1>1, <1>4, <1>5, <1>7, <1>9 DEF Control, AckCountsStored, TypeOK, SequenceNumbers
  <1> QED
    BY <1>8, <1>11, <1>12, <1>13, <1>14, <1>15 DEF Control, AckCountsStored

(* Whatever arrives.                                                       *)
LEMMA PollControl ==
    ASSUME Control, NEW i \in 1..Len(wire), NEW keep \in BOOLEAN, NEW padded \in BOOLEAN,
           netif_poll(i, keep, padded)
    PROVE  Control'
  <1> DEFINE seg == wire[i]
             data == IF padded THEN <<Padding>> ELSE wire[i].data
  <1>1. /\ ServerOK' /\ seg \in Segments /\ data \in Seq(Chunks) /\ (Fault \/ NoFault)
        /\ UNCHANGED <<pc, retry, down_buf, connects>>
    BY PollWire
  <1>2. Polling /\ tcp_process(seg, data)
    BY DEF netif_poll
  <1> HIDE DEF seg, data
  <1>3. CASE state = "TCP_SYN_SENT" /\ seg.syn
    <2>1. /\ state' = "TCP_ESTABLISHED" /\ rcv_nxt' = Plus(seg.seq, 1) /\ snd_nxt' = seg.ack
          /\ irs' = seg.seq /\ UNCHANGED <<local_port, receive, ended>>
      BY <1>2, <1>3 DEF tcp_process
    <2> QED
      BY <1>1, <1>2, <1>3, <2>1, OpenControl
  <1>4. CASE state = "TCP_ESTABLISHED"
    <2>1. /\ IF data # <<>> /\ Fits(data)
             THEN rx_buffer' = rx_buffer \o data /\ has_data' = TRUE
             ELSE UNCHANGED <<rx_buffer, has_data>>
          /\ Acknowledge(data, seg.fin)
          /\ state' = IF seg.fin THEN "TCP_CLOSED" ELSE state
          /\ ended' = (ended \/ seg.fin)
          /\ UNCHANGED <<local_port, snd_nxt, rx_processed, irs>>
      BY <1>2, <1>4 DEF tcp_process
    <2>2. seg.fin \in BOOLEAN
      BY <1>1 DEF Segments
    <2> QED
      BY <1>1, <1>2, <1>4, <2>1, <2>2, StoreControl
  <1>5. CASE state = "TCP_CLOSED" \/ (state = "TCP_SYN_SENT" /\ ~seg.syn)
    <2>1. UNCHANGED <<connection, receive, irs, ended>>
      BY <1>2, <1>5 DEF tcp_process
    <2>2. HistoryOK'
      BY <1>1, <2>1, FaultType DEF Control, HistoryOK
    <2>3. Handshake' /\ Copied' /\ HasDataAccurate'
      BY <1>1, <2>1 DEF Control, Handshake, Copied, HasDataAccurate, connection, receive
    <2>4. AckCountsStored'
      BY <1>1, <2>1 DEF Control, AckCountsStored, TypeOK, connection, receive
    <2> QED
      BY <1>1, <2>2, <2>3, <2>4 DEF Control
  <1> QED
    BY <1>2, <1>3, <1>4, <1>5 DEF tcp_process

(* Control is inductive.                                                   *)
LEMMA ControlStep ==
    ASSUME Control, [Next]_vars
    PROVE  Control'
  <1>1. CASE Poll
    BY <1>1, PollControl DEF Poll
  <1>2. CASE Wget
    BY <1>2, SynControl, RetryControl, WgetControl, SendControl, ReceiveControl DEF Wget
  <1>3. CASE \E p \in Ports, isn \in Isns : tcp_connect(p, isn)
    BY <1>3, ConnectControl
  <1>4. CASE UNCHANGED vars
    BY <1>4 DEF vars, Control, ServerOK, HistoryOK, Handshake, Copied, HasDataAccurate,
       AckCountsStored, TypeOK, connection, receive, serverState
  <1> QED
    BY <1>1, <1>2, <1>3, <1>4, ExternalControl DEF Next

(* It holds at boot.                                                       *)
LEMMA ControlInit ==
    ASSUME Init
    PROVE  Control
  <1>1. <<>> \in Seq(Segments) /\ 0 \in 0..(StreamLength + 1)
    BY Numbers
  <1>2. ServerOK
    BY <1>1, Numbers DEF Init, ServerOK
  <1>3. FALSE \in BOOLEAN
    OBVIOUS
  <1>4. HistoryOK
    BY <1>3, Numbers DEF Init, HistoryOK
  <1>5. Handshake /\ Copied /\ HasDataAccurate
    BY Numbers DEF Init, Handshake, Copied, HasDataAccurate
  <1>6. has_data \in BOOLEAN /\ state # "TCP_ESTABLISHED"
    BY <1>3, Zenon DEF Init
  <1>7. AckCountsStored
    BY <1>6, Numbers DEF Init, AckCountsStored, TypeOK, SequenceNumbers
  <1> QED
    BY <1>2, <1>4, <1>5, <1>7 DEF Control

-----------------------------------------------------------------------------
(* The first download on a network without faults.                         *)

(* A fault ends the claim.                                                 *)
LEMMA FaultEnds ==
    ASSUME HistoryOK, Fault
    PROVE  FirstInOrder'
  BY DEF HistoryOK, Fault, FirstInOrder, Faultless

(* Steps that leave the wire, the server and the receive buffer alone.     *)
LEMMA QuietOrder ==
    ASSUME FirstInOrder,
           UNCHANGED <<local_port, rx_buffer, wire, ended, connects, faults, sent>>,
           \A q \in Ports \ {local_port} : server'[q] = server[q],
           server'[local_port] \in {"closed", "open"} => server'[local_port] = server[local_port],
           pc = "idle" => pc' = "idle" /\ server' = server,
           pc' \in {"connect", "wait", "send"} => 
               pc \in {"connect", "wait", "send"} /\ server'[local_port] = server[local_port]
    PROVE  FirstInOrder'
  <1> SUFFICES ASSUME Faultless'
               PROVE  /\ \A q \in Ports \ {local_port'} : server'[q] = "closed" /\ sent'[q] = 0
                      /\ server'[local_port'] \in {"closed", "open"} => sent'[local_port'] = 0
                      /\ connects' = 0 => server'[local_port'] = "closed" /\ wire' = <<>>
                                          /\ pc' = "idle" /\ ~ended'
                      /\ pc' \in {"connect", "wait", "send"} => server'[local_port'] \in {"closed", "open"}
                      /\ \A k \in 1..Len(rx_buffer') : rx_buffer'[k] = <<local_port', k>>
                      /\ \E a, r \in Nat : InOrder(a, r)'
    BY DEF FirstInOrder
  <1>1. Faultless
    BY DEF Faultless
  <1>2. \E a, r \in Nat : InOrder(a, r)
    BY <1>1 DEF FirstInOrder
  <1>3. \A a, r \in Nat : InOrder(a, r)' <=> InOrder(a, r)
    BY DEF InOrder, Silent, Streamed
  <1>4. \E a, r \in Nat : InOrder(a, r)'
    BY <1>2, <1>3
  <1> QED
    BY <1>1, <1>4 DEF FirstInOrder

(* Steps of WGET that send nothing, and the close.                         *)
LEMMA WgetOrder ==
    ASSUME Control, FirstInOrder,
           \/ send_syn_fails \/ connect_timeout \/ connected \/ tcp_receive
           \/ tcp_receive_nothing \/ tcp_close
    PROVE  FirstInOrder'
  <1>0. CASE Fault
    BY <1>0, FaultEnds DEF Control
  <1> SUFFICES ASSUME NoFault
               PROVE  FirstInOrder'
    BY <1>0 DEF send_syn_fails, connect_timeout, connected, tcp_receive, tcp_receive_nothing, tcp_close, Lost
  <1>1. CASE tcp_close
    <2>1. UNCHANGED <<local_port, rx_buffer, wire, ended, connects, faults, sent>> /\ pc = "finish" /\ pc' = "idle"
      BY <1>1 DEF tcp_close, ServerClose, Lost, NoFault, Elsewhere, receive, serverState
    <2>2. server' = server \/ server' = [server EXCEPT ![local_port] = "done"]
      BY <1>1 DEF tcp_close, ServerClose, Lost, serverState
    <2>3. server \in [Ports -> {"closed", "open", "serving", "done"}] /\ local_port \in Ports
      BY DEF Control, ServerOK, AckCountsStored, TypeOK
    <2> QED
      BY <2>1, <2>2, <2>3, QuietOrder
  <1>2. CASE \/ send_syn_fails \/ connect_timeout \/ connected \/ tcp_receive
             \/ tcp_receive_nothing
    <2>1. /\ UNCHANGED <<local_port, rx_buffer, wire, ended, connects, faults, sent, server>> /\ pc # "idle"
          /\ pc' \in {"connect", "wait", "send"} => pc \in {"connect", "wait", "send"}
      BY <1>2 DEF send_syn_fails, connect_timeout, connected, tcp_receive, tcp_receive_nothing,
         NextRetry, NoFault, Elsewhere, connection, receive, serverState
    <2> QED
      BY <2>1, QuietOrder
  <1> QED
    BY <1>1, <1>2

(* Before the request nothing of the stream has been sent.                 *)
LEMMA BeforeRequest ==
    ASSUME Control, FirstInOrder, Faultless, pc \in {"connect", "wait", "send"}
    PROVE  /\ sent[local_port] = 0 /\ rx_buffer = <<>> /\ ~ended /\ connects # 0
           /\ InOrder(Len(wire), 0)
           /\ \A a, r \in Nat : InOrder(a, r) => a = Len(wire) /\ r = 0
  <1>1. sent[local_port] = 0 /\ rx_buffer = <<>> /\ ~ended /\ connects # 0
    BY DEF FirstInOrder, Control, Handshake
  <1>2. Len(wire) \in Nat /\ StreamLength \in Nat
    BY LenProperties, Numbers DEF Control, ServerOK
  <1>3. ASSUME NEW a \in Nat, NEW r \in Nat, InOrder(a, r)
        PROVE  a = Len(wire) /\ r = 0
    BY <1>1, <1>2, <1>3 DEF InOrder
  <1>4. \E a, r \in Nat : InOrder(a, r)
    BY DEF FirstInOrder
  <1>5. InOrder(Len(wire), 0)
    BY <1>3, <1>4
  <1> QED
    BY <1>1, <1>3, <1>5

(* A silent answer, sent before the stream.                                *)
LEMMA AnswerOrder ==
    ASSUME Control, FirstInOrder, Faultless, pc \in {"connect", "wait", "send"},
           NEW e \in Segments, e.data = <<>>, ~e.fin, wire' = Append(wire, e) \/ wire' = wire,
           UNCHANGED <<local_port, rx_buffer, ended, sent>>
    PROVE  \E a, r \in Nat : InOrder(a, r)'
  <1>1. /\ sent[local_port] = 0 /\ rx_buffer = <<>> /\ ~ended /\ InOrder(Len(wire), 0)
        /\ Len(wire) \in Nat
    BY BeforeRequest, LenProperties DEF Control, ServerOK
  <1>5. PICK n \in Nat : n = Len(wire) + 1
    BY <1>1
  <1>2. ASSUME wire' = Append(wire, e)
        PROVE  InOrder(n, 0)'
    <2>1. /\ Len(wire') = Len(wire) + 1 /\ wire'[Len(wire) + 1] = e
          /\ \A i \in 1..Len(wire) : wire'[i] = wire[i]
      BY <1>2, WireAppend DEF Control
    <2>2. \A i \in 1..n : wire'[i].data = <<>> /\ ~wire'[i].fin
      <3>1. \A i \in 1..Len(wire) : wire[i].data = <<>> /\ ~wire[i].fin
        BY <1>1 DEF InOrder, Silent
      <3>2. \A i \in 1..n : i \in 1..Len(wire) \/ i = Len(wire) + 1
        BY <1>1, <1>5
      <3> QED
        BY <2>1, <3>1, <3>2, Zenon
    <2>3. \A i \in (n + 1)..Len(wire') : FALSE
      BY <1>1, <1>5, <2>1
    <2>4. n <= Len(wire') /\ sent'[local_port'] = 0 + Len(wire') - n
      BY <1>1, <1>5, <2>1
    <2>5. Len(rx_buffer') = Stored(0)
      BY <1>1 DEF InOrder
    <2> QED
      BY <1>1, <2>2, <2>3, <2>4, <2>5 DEF InOrder, Silent
  <1>3. ASSUME wire' = wire
        PROVE  \E a \in Nat : InOrder(a, 0)'
    <2>1. PICK a \in Nat : a = Len(wire)
      BY <1>1
    <2>2. InOrder(a, 0)
      BY <1>1, <2>1
    <2>3. InOrder(a, 0)'
      BY <1>3, <2>2 DEF InOrder, Silent, Streamed
    <2> QED
      BY <2>3
  <1>4. 0 \in Nat
    OBVIOUS
  <1> QED
    BY <1>2, <1>3, <1>4

(* SYN and request.                                                        *)
LEMMA RequestOrder ==
    ASSUME Control, FirstInOrder, send_syn \/ tcp_send
    PROVE  FirstInOrder'
  <1>0. CASE Fault
    BY <1>0, FaultEnds DEF Control
  <1>1. ASSUME NoFault, Faultless'
        PROVE  FirstInOrder'
    <2>1. /\ Faultless /\ pc \in {"connect", "send"} /\ local_port \in Ports
          /\ UNCHANGED <<local_port, rx_buffer, ended, sent, connects>>
          /\ server \in [Ports -> {"closed", "open", "serving", "done"}]
          /\ snd_nxt \in Int
      BY <1>1, Numbers DEF Faultless, NoFault, send_syn, tcp_send, Elsewhere, receive, ServerSyn,
         ServerRequest, Lost, serverState, Control, ServerOK, AckCountsStored, TypeOK
    <2>2. /\ sent[local_port] = 0 /\ rx_buffer = <<>> /\ ~ended /\ connects # 0
      BY <2>1, BeforeRequest
    <2>3. Plus(snd_nxt, 1) \in SequenceNumbers
      BY <2>1, PlusType
    <2>4. \/ wire' = wire \/ wire' = Append(wire, SynAck(local_port, Plus(snd_nxt, 1)))
          \/ wire' = Append(wire, Ack(local_port, Plus(snd_nxt, 1)))
      BY DEF send_syn, tcp_send, ServerSyn, ServerRequest, Lost
    <2>5. \E a, r \in Nat : InOrder(a, r)'
      <3>1. /\ SynAck(local_port, Plus(snd_nxt, 1)) \in Segments
            /\ Ack(local_port, Plus(snd_nxt, 1)) \in Segments
            /\ SynAck(local_port, Plus(snd_nxt, 1)).data = <<>> /\ ~SynAck(local_port, Plus(snd_nxt, 1)).fin
            /\ Ack(local_port, Plus(snd_nxt, 1)).data = <<>> /\ ~Ack(local_port, Plus(snd_nxt, 1)).fin
        BY <2>1, <2>3, AnswerType
      <3>2. pc \in {"connect", "wait", "send"} /\ UNCHANGED <<local_port, rx_buffer, ended, sent>>
        BY <2>1
      <3>3. CASE wire' = Append(wire, SynAck(local_port, Plus(snd_nxt, 1))) \/ wire' = wire
        BY <2>1, <3>1, <3>2, <3>3, AnswerOrder
      <3>4. CASE wire' = Append(wire, Ack(local_port, Plus(snd_nxt, 1)))
        BY <2>1, <3>1, <3>2, <3>4, AnswerOrder
      <3> QED
        BY <2>4, <3>3, <3>4
    <2>6. \A q \in Ports \ {local_port} : server'[q] = server[q]
      BY <2>1 DEF send_syn, tcp_send, ServerSyn, ServerRequest, Lost, serverState
    <2>7. send_syn => pc' = "wait" /\ server'[local_port] \in {"closed", "open"}
      <3>1. send_syn => pc' = "wait" /\ pc = "connect" /\ (server' = server \/ server' = [server EXCEPT ![local_port] = "open"])
        BY DEF send_syn, ServerSyn, Lost, serverState
      <3>2. pc = "connect" => server[local_port] \in {"closed", "open"}
        BY <2>1 DEF FirstInOrder
      <3> QED
        BY <2>1, <3>1, <3>2
    <2>8. tcp_send => pc' \in {"receive", "finish"}
      BY DEF tcp_send
    <2> QED
      BY <2>1, <2>2, <2>5, <2>6, <2>7, <2>8 DEF FirstInOrder
  <1> QED
    BY <1>0, <1>1 DEF send_syn, tcp_send, Lost, FirstInOrder

(* A new download: the first one finds every port closed and the wire      *)
(* empty.                                                                  *)
LEMMA ConnectOrder ==
    ASSUME Control, FirstInOrder, NEW p \in Ports, NEW isn \in Isns, tcp_connect(p, isn)
    PROVE  FirstInOrder'
  <1> SUFFICES ASSUME Faultless'
               PROVE  FirstInOrder'
    BY DEF FirstInOrder
  <1>1. /\ connects' = connects + 1 /\ local_port' = p /\ rx_buffer' = <<>> /\ ended' = FALSE
        /\ UNCHANGED <<wire, server, sent, faults>>
    BY DEF tcp_connect, NoFault, serverState
  <1>2. connects = 0 /\ Faultless /\ connects' = 1
    BY <1>1 DEF Control, HistoryOK, Faultless
  <1>3. wire = <<>> /\ \A q \in Ports : server[q] = "closed" /\ sent[q] = 0
    BY <1>2 DEF FirstInOrder
  <1>4. Len(wire') = 0 /\ Len(rx_buffer') = 0 /\ sent'[local_port'] = 0
    BY <1>1, <1>3, Numbers
  <1>5. InOrder(0, 0)'
    <2>1. Stored(0) = 0
      BY Numbers DEF Stored
    <2>2. \A i \in 1..0 : FALSE
      OBVIOUS
    <2>3. \A i \in (0 + 1)..Len(wire') : FALSE
      BY <1>4
    <2>4. sent'[local_port'] = 0 + Len(wire') - 0 /\ 0 <= Len(wire') /\ ~(0 > 0)
      BY <1>4
    <2> QED
      BY <1>1, <1>4, <2>1, <2>2, <2>3, <2>4 DEF InOrder
  <1>6. \A k \in 1..Len(rx_buffer') : FALSE
    BY <1>4
  <1> QED
    BY <1>1, <1>2, <1>3, <1>5, <1>6 DEF FirstInOrder

(* The next segment of the stream goes to the end of the wire.             *)
LEMMA SendsOrder ==
    ASSUME Control, FirstInOrder, NEW p \in Ports, ServerSends(p)
    PROVE  FirstInOrder'
  <1> SUFFICES ASSUME Faultless'
               PROVE  FirstInOrder'
    BY DEF FirstInOrder
  <1>1. /\ UNCHANGED <<local_port, rx_buffer, pc, ended, connects, server, faults>>
        /\ server[p] = "serving" /\ sent[p] <= StreamLength
    BY DEF ServerSends, NoFault, connection, receive
  <1>2. Faultless /\ local_port \in Ports
    BY <1>1 DEF Faultless, Control, AckCountsStored, TypeOK
  <1>3. p = local_port
    BY <1>1, <1>2 DEF FirstInOrder
  <1>4. /\ sent \in [Ports -> 0..(StreamLength + 1)] /\ sent[p] \in Nat /\ StreamLength \in Nat
        /\ Len(wire) \in Nat
    BY Numbers, LenProperties DEF Control, ServerOK
  <1>5. PICK fin \in Fins(sent[p] + 1) :
           /\ sent' = [sent EXCEPT ![p] = IF fin THEN StreamLength + 1 ELSE @ + 1]
           /\ wire' = Append(wire, StreamSegment(p, sent[p] + 1, fin))
    BY DEF ServerSends
  <1>6. PICK k \in 1..(StreamLength + 1) : k = sent[p] + 1
    BY <1>1, <1>4
  <1>7. fin \in BOOLEAN /\ (fin => k >= StreamLength) /\ (~fin => k <= StreamLength)
    <2>0. fin \in Fins(k)
      BY <1>5, <1>6
    <2>1. CASE k < StreamLength
      <3>1. Fins(k) = {FALSE}
        BY <2>1 DEF Fins
      <3>2. fin \in BOOLEAN /\ ~fin
        BY <2>0, <3>1, Zenon
      <3> QED
        BY <1>4, <1>6, <2>1, <3>2
    <2>2. CASE k = StreamLength
      <3>1. Fins(k) = BOOLEAN
        BY <1>4, <2>2 DEF Fins
      <3>2. fin \in BOOLEAN
        BY <2>0, <3>1, Zenon
      <3> QED
        BY <1>4, <2>2, <3>2
    <2>3. CASE k > StreamLength
      <3>3. ~(k < StreamLength) /\ k # StreamLength
        BY <1>4, <1>6, <2>3
      <3>1. Fins(k) = {TRUE}
        BY <3>3, Zenon DEF Fins
      <3>2. fin \in BOOLEAN /\ fin
        BY <2>0, <3>1, Zenon
      <3> QED
        BY <1>4, <1>6, <2>3, <3>2
    <2> QED
      BY <1>4, <1>6, <2>1, <2>2, <2>3
  <1>8. PICK e : e = StreamSegment(p, k, fin)
    OBVIOUS
  <1>9. /\ e \in Segments /\ e.data = IF k > StreamLength THEN <<>> ELSE <<<<local_port, k>>>>
        /\ e.fin = fin
    BY <1>3, <1>7, <1>8, StreamSegmentType DEF Control
  <1>10. /\ Len(wire') = Len(wire) + 1 /\ wire'[Len(wire) + 1] = e
         /\ \A i \in 1..Len(wire) : wire'[i] = wire[i]
    BY <1>5, <1>6, <1>8, <1>9, WireAppend DEF Control
  <1>11. /\ sent'[local_port] = IF fin THEN StreamLength + 1 ELSE k
         /\ \A q \in Ports \ {local_port} : sent'[q] = sent[q]
    BY <1>3, <1>4, <1>5, <1>6
  <1>12. PICK a \in Nat, r \in Nat : InOrder(a, r)
    BY <1>2 DEF FirstInOrder
  <1>13. ~ended /\ a <= Len(wire) /\ sent[local_port] = r + Len(wire) - a
    BY <1>1, <1>3, <1>4, <1>12 DEF InOrder
  <1>14. k = r + (Len(wire) + 1) - a
    BY <1>3, <1>4, <1>6, <1>13
  <1>15. InOrder(a, r)'
    <2>1. a <= Len(wire') /\ (r > 0 => a = 0) /\ Len(rx_buffer') = Stored(r) /\ ~ended'
      BY <1>1, <1>4, <1>10, <1>12, <1>13 DEF InOrder
    <2>2. \A i \in 1..a : Silent(i)'
      <3>1. \A i \in 1..a : Silent(i) /\ i \in 1..Len(wire)
        BY <1>4, <1>12, <1>13 DEF InOrder
      <3> QED
        BY <1>10, <3>1 DEF Silent
    <2>3. ASSUME NEW i \in (a + 1)..Len(wire')
          PROVE  /\ wire'[i].data = IF r + i - a > StreamLength THEN <<>> ELSE <<<<local_port, r + i - a>>>>
                 /\ wire'[i].fin => i = Len(wire') /\ sent'[local_port] = StreamLength + 1
                                    /\ r + i - a >= StreamLength
      <3>1. CASE i = Len(wire) + 1
        <4>1. r + i - a = k /\ wire'[i] = e /\ i = Len(wire')
          BY <1>10, <1>14, <3>1
        <4> QED
          BY <1>7, <1>9, <1>11, <4>1
      <3>2. CASE i # Len(wire) + 1
        <4>1. i \in (a + 1)..Len(wire) /\ i \in 1..Len(wire)
          BY <1>4, <1>10, <3>2
        <4>2. /\ wire[i].data = IF r + i - a > StreamLength THEN <<>> ELSE <<<<local_port, r + i - a>>>>
              /\ wire[i].fin => sent[local_port] = StreamLength + 1
          BY <1>12, <4>1 DEF InOrder, Streamed
        <4>3. ~wire[i].fin
          BY <1>1, <1>3, <1>4, <4>2
        <4> QED
          BY <1>10, <4>1, <4>2, <4>3
      <3> QED
        BY <3>1, <3>2
    <2>4. \A i \in (a + 1)..Len(wire') : Streamed(i, r + i - a)'
      BY <1>1, <2>3 DEF Streamed
    <2>5. \/ sent'[local_port] = r + Len(wire') - a
          \/ sent'[local_port] = StreamLength + 1 /\ r + Len(wire') - a = StreamLength
      <3>1. r + Len(wire') - a = k
        BY <1>10, <1>14
      <3> QED
        BY <1>4, <1>6, <1>7, <1>11, <3>1
    <2> QED
      BY <1>1, <2>1, <2>2, <2>4, <2>5 DEF InOrder
  <1>16. \E b, s \in Nat : InOrder(b, s)'
    BY <1>15
  <1>17. server'[local_port'] = "serving" /\ Faultless
    BY <1>1, <1>2, <1>3
  <1> QED
    BY <1>1, <1>11, <1>16, <1>17 DEF FirstInOrder

(* What Stored counts.                                                     *)
LEMMA StoredNext ==
    ASSUME NEW r \in Nat
    PROVE  /\ Stored(r) \in Nat
           /\ r + 1 <= StreamLength /\ Stored(r) + 1 < RX_BUFFER => Stored(r) = r /\ Stored(r + 1) = r + 1
           /\ r + 1 <= StreamLength /\ ~(Stored(r) + 1 < RX_BUFFER) => Stored(r + 1) = Stored(r)
           /\ r + 1 > StreamLength => Stored(r + 1) = Stored(r)
  BY Numbers DEF Stored

(* The first segment of the wire is taken.                                 *)
LEMMA FirstTaken ==
    ASSUME ServerOK, 1 \in 1..Len(wire), wire' = RemoveAt(wire, 1)
    PROVE  /\ Len(wire) \in Nat /\ Len(wire) >= 1 /\ Len(wire') = Len(wire) - 1
           /\ \A j \in 1..(Len(wire) - 1) : wire'[j] = wire[j + 1]
  <1>1. wire \in Seq(Segments) /\ Len(wire) \in Nat /\ Len(wire) >= 1
    BY LenProperties DEF ServerOK
  <1>2. /\ Len(RemoveAt(wire, 1)) = Len(wire) - 1
        /\ \A j \in 1..(Len(wire) - 1) : RemoveAt(wire, 1)[j] = IF j < 1 THEN wire[j] ELSE wire[j + 1]
    BY <1>1, RemoveProperties
  <1>3. \A j \in 1..(Len(wire) - 1) : ~(j < 1)
    BY <1>1
  <1> QED
    BY <1>1, <1>2, <1>3

(* An answer that comes before the stream.                                 *)
LEMMA TakeSilent ==
    ASSUME Control, NEW a \in Nat, NEW r \in Nat, InOrder(a, r), a > 0,
           1 \in 1..Len(wire), wire' = RemoveAt(wire, 1),
           UNCHANGED <<local_port, rx_buffer, ended, sent>>
    PROVE  InOrder(a - 1, r)'
  <1>1. /\ Len(wire) \in Nat /\ Len(wire) >= 1 /\ Len(wire') = Len(wire) - 1
        /\ \A j \in 1..(Len(wire) - 1) : wire'[j] = wire[j + 1]
    BY FirstTaken DEF Control
  <1>2. a <= Len(wire) /\ r = 0 /\ Len(rx_buffer) = Stored(r)
    BY DEF InOrder
  <1>3. ~ended
    BY <1>1, Numbers DEF InOrder
  <1>4. \A i \in 1..(a - 1) : Silent(i)'
    <2>1. \A i \in 1..(a - 1) : i + 1 \in 1..a /\ i \in 1..(Len(wire) - 1)
      BY <1>1, <1>2
    <2>2. \A i \in 1..a : Silent(i)
      BY DEF InOrder
    <2> QED
      BY <1>1, <2>1, <2>2 DEF Silent
  <1>5. \A i \in (a - 1 + 1)..Len(wire') : Streamed(i, r + i - (a - 1))'
    <2> TAKE i \in (a - 1 + 1)..Len(wire')
    <2>1. i + 1 \in (a + 1)..Len(wire) /\ i \in 1..(Len(wire) - 1) /\ r + (i + 1) - a = r + i - (a - 1)
      BY <1>1, <1>2
    <2>2. Streamed(i + 1, r + (i + 1) - a)
      BY <2>1 DEF InOrder
    <2>3. wire'[i] = wire[i + 1] /\ (i + 1 = Len(wire) => i = Len(wire'))
      BY <1>1, <2>1
    <2> QED
      BY <2>1, <2>2, <2>3 DEF Streamed
  <1>6. r + Len(wire') - (a - 1) = r + Len(wire) - a
    BY <1>1, <1>2
  <1>7. \/ sent[local_port] = r + Len(wire) - a
        \/ sent[local_port] = StreamLength + 1 /\ r + Len(wire) - a = StreamLength
    BY DEF InOrder
  <1>8. a - 1 <= Len(wire')
    BY <1>1, <1>2
  <1> QED
    BY <1>2, <1>3, <1>4, <1>5, <1>6, <1>7, <1>8 DEF InOrder

(* The next segment of the stream is stored behind the ones before it.     *)
LEMMA TakeStreamed ==
    ASSUME Control, NEW r \in Nat, InOrder(0, r),
           1 \in 1..Len(wire), wire' = RemoveAt(wire, 1), UNCHANGED <<local_port, sent>>,
           local_port \in Ports,
           \A k \in 1..Len(rx_buffer) : rx_buffer[k] = <<local_port, k>>,
           IF wire[1].data # <<>> /\ Fits(wire[1].data)
           THEN rx_buffer' = rx_buffer \o wire[1].data
           ELSE rx_buffer' = rx_buffer,
           ended' = (ended \/ wire[1].fin)
    PROVE  /\ InOrder(0, r + 1)'
           /\ \A k \in 1..Len(rx_buffer') : rx_buffer'[k] = <<local_port, k>>
  <1>1. /\ Len(wire) \in Nat /\ Len(wire) >= 1 /\ Len(wire') = Len(wire) - 1
        /\ \A j \in 1..(Len(wire) - 1) : wire'[j] = wire[j + 1]
    BY FirstTaken DEF Control
  <1>2. Len(rx_buffer) = Stored(r) /\ Stored(r) \in Nat /\ StreamLength \in Nat /\ RX_BUFFER \in Nat
        /\ rx_buffer \in Seq(Chunks)
    BY StoredNext, Numbers DEF InOrder, Control, AckCountsStored, TypeOK
  <1>3. ~ended
    BY <1>1, Numbers DEF InOrder
  <1>4. /\ wire[1].data = IF r + 1 > StreamLength THEN <<>> ELSE <<<<local_port, r + 1>>>>
        /\ wire[1].fin => 1 = Len(wire) /\ sent[local_port] = StreamLength + 1
    <2>1. 1 \in (0 + 1)..Len(wire) /\ r + 1 - 0 = r + 1
      BY <1>1
    <2>2. Streamed(1, r + 1 - 0)
      BY <2>1 DEF InOrder
    <2> QED
      BY <2>1, <2>2 DEF Streamed
  <1>5. Len(rx_buffer') = Stored(r + 1) /\ \A k \in 1..Len(rx_buffer') : rx_buffer'[k] = <<local_port, k>>
    <2>1. CASE r + 1 > StreamLength
      <3>1. wire[1].data = <<>> /\ Stored(r + 1) = Stored(r)
        BY <1>4, <2>1, StoredNext
      <3> QED
        BY <1>2, <3>1
    <2>2. CASE ~(r + 1 > StreamLength)
      <3>1. r + 1 \in 1..StreamLength /\ r + 1 <= StreamLength
        BY <1>2, <2>2
      <3>2. /\ wire[1].data = <<<<local_port, r + 1>>>> /\ <<<<local_port, r + 1>>>> \in Seq(Chunks)
            /\ Len(wire[1].data) = 1 /\ wire[1].data # <<>> /\ wire[1].data[1] = <<local_port, r + 1>>
        BY <1>4, <2>2, <3>1, StreamChunk
      <3>3. CASE Fits(wire[1].data)
        <4>1. Stored(r) = r /\ Stored(r + 1) = r + 1
          BY <1>2, <3>1, <3>2, <3>3, StoredNext DEF Fits
        <4>2. rx_buffer' = rx_buffer \o wire[1].data /\ wire[1].data \in Seq(Chunks)
          BY <3>2, <3>3
        <4>3. /\ Len(rx_buffer') = Len(rx_buffer) + Len(wire[1].data)
              /\ \A k \in 1..(Len(rx_buffer) + Len(wire[1].data)) :
                    rx_buffer'[k] = IF k <= Len(rx_buffer) THEN rx_buffer[k]
                                    ELSE wire[1].data[k - Len(rx_buffer)]
          BY <1>2, <4>2, ConcatProperties
        <4>4. Len(rx_buffer) = r /\ Len(rx_buffer') = r + 1
          BY <1>2, <3>2, <4>1, <4>3
        <4>5. ASSUME NEW k \in 1..(r + 1)
              PROVE  rx_buffer'[k] = <<local_port, k>>
          <5>1. CASE k <= r
            <6>1. k \in 1..Len(rx_buffer)
              BY <4>4, <5>1
            <6>2. rx_buffer'[k] = rx_buffer[k]
              BY <3>2, <4>3, <4>4, <5>1
            <6> QED
              BY <6>1, <6>2
          <5>2. CASE k = r + 1
            <6>1. rx_buffer'[k] = wire[1].data[k - Len(rx_buffer)] /\ k - Len(rx_buffer) = 1
              BY <3>2, <4>3, <4>4, <5>2
            <6> QED
              BY <3>2, <5>2, <6>1
          <5> QED
            BY <5>1, <5>2
        <4> QED
          BY <4>1, <4>4, <4>5
      <3>4. CASE ~Fits(wire[1].data)
        <4>1. Stored(r + 1) = Stored(r)
          BY <1>2, <3>1, <3>2, <3>4, StoredNext DEF Fits
        <4> QED
          BY <1>2, <3>4, <4>1
      <3> QED
        BY <3>3, <3>4
    <2> QED
      BY <2>1, <2>2
  <1>6. ended' => wire' = <<>> /\ sent'[local_port'] = StreamLength + 1
    <2> HAVE ended'
    <2>1. Len(wire) = 1 /\ sent[local_port] = StreamLength + 1
      BY <1>3, <1>4
    <2>2. Len(wire') = 0 /\ wire' \in Seq(Segments)
      BY <1>1, <2>1, RemoveProperties DEF Control, ServerOK
    <2> QED
      BY <2>1, <2>2, EmptySeq
  <1>7. \A i \in (0 + 1)..Len(wire') : Streamed(i, (r + 1) + i - 0)'
    <2> TAKE i \in (0 + 1)..Len(wire')
    <2>1. i + 1 \in (0 + 1)..Len(wire) /\ i \in 1..(Len(wire) - 1) /\ r + (i + 1) - 0 = (r + 1) + i - 0
      BY <1>1
    <2>2. Streamed(i + 1, r + (i + 1) - 0)
      BY <2>1 DEF InOrder
    <2>3. wire'[i] = wire[i + 1] /\ (i + 1 = Len(wire) => i = Len(wire'))
      BY <1>1, <2>1
    <2> QED
      BY <2>1, <2>2, <2>3 DEF Streamed
  <1>8. (r + 1) + Len(wire') - 0 = r + Len(wire) - 0
    <2>1. \A x \in Nat : (r + 1) + (x - 1) - 0 = r + x - 0
      OBVIOUS
    <2> QED
      BY <1>1, <2>1
  <1>9. \/ sent[local_port] = r + Len(wire) - 0
        \/ sent[local_port] = StreamLength + 1 /\ r + Len(wire) - 0 = StreamLength
    BY DEF InOrder
  <1>10. 0 <= Len(wire') /\ \A i \in 1..0 : FALSE
    BY <1>1
  <1>11. InOrder(0, r + 1)'
    BY <1>5, <1>6, <1>7, <1>8, <1>9, <1>10 DEF InOrder
  <1> QED
    BY <1>5, <1>11

(* A segment is processed.                                                 *)
LEMMA PollOrder ==
    ASSUME Control, FirstInOrder, NEW i \in 1..Len(wire), NEW keep \in BOOLEAN,
           NEW padded \in BOOLEAN, netif_poll(i, keep, padded)
    PROVE  FirstInOrder'
  <1>0. CASE Fault
    BY <1>0, FaultEnds DEF Control
  <1> SUFFICES ASSUME Faultless', ~Fault
               PROVE  FirstInOrder'
    BY <1>0 DEF FirstInOrder
  <1>1. /\ i = 1 /\ ~keep /\ ~padded /\ NoFault /\ Polling /\ wire' = RemoveAt(wire, 1)
        /\ UNCHANGED <<pc, connects, server, sent>> /\ tcp_process(wire[1], wire[1].data)
    BY DEF netif_poll, serverState
  <1>2. Faultless /\ 1 \in 1..Len(wire) /\ wire # <<>> /\ local_port \in Ports /\ local_port' = local_port
    BY <1>1, Numbers DEF Faultless, NoFault, Control, AckCountsStored, TypeOK, tcp_process, connection
  <1>3. ASSUME /\ \E a, r \in Nat : InOrder(a, r)'
               /\ \A k \in 1..Len(rx_buffer') : rx_buffer'[k] = <<local_port, k>>
        PROVE  FirstInOrder'
    <2>1. connects # 0
      BY <1>2 DEF FirstInOrder
    <2> QED
      BY <1>1, <1>2, <1>3, <2>1 DEF FirstInOrder
  <1>4. \A k \in 1..Len(rx_buffer) : rx_buffer[k] = <<local_port, k>>
    BY <1>2 DEF FirstInOrder
  <1>5. PICK a \in Nat, r \in Nat : InOrder(a, r)
    BY <1>2 DEF FirstInOrder
  <1>6. Len(wire) \in Nat /\ Len(wire) >= 1
    BY <1>2, LenProperties DEF Control, ServerOK
  <1>7. CASE UNCHANGED <<rx_buffer, ended>> /\ a > 0
    <2>1. InOrder(a - 1, r)'
      BY <1>1, <1>2, <1>5, <1>7, TakeSilent
    <2>2. a - 1 \in Nat
      BY <1>7
    <2> QED
      BY <1>3, <1>4, <1>7, <2>1, <2>2
  <1>8. CASE state = "TCP_ESTABLISHED"
    <2>1. /\ IF wire[1].data # <<>> /\ Fits(wire[1].data)
             THEN rx_buffer' = rx_buffer \o wire[1].data
             ELSE rx_buffer' = rx_buffer
          /\ ended' = (ended \/ wire[1].fin)
      BY <1>1, <1>8 DEF tcp_process
    <2>2. CASE a > 0
      <3>1. 1 \in 1..a
        BY <2>2
      <3>2. Silent(1)
        BY <1>5, <3>1 DEF InOrder
      <3>3. ended \in BOOLEAN
        BY DEF Control, HistoryOK
      <3> QED
        BY <1>7, <2>1, <2>2, <3>2, <3>3 DEF Silent
    <2>3. CASE a = 0
      <3>1. /\ InOrder(0, r + 1)'
            /\ \A k \in 1..Len(rx_buffer') : rx_buffer'[k] = <<local_port, k>>
        BY <1>1, <1>2, <1>4, <1>5, <2>1, <2>3, TakeStreamed
      <3>2. 0 \in Nat /\ r + 1 \in Nat
        OBVIOUS
      <3> QED
        BY <1>3, <3>1, <3>2
    <2> QED
      BY <2>2, <2>3
  <1>9. CASE state # "TCP_ESTABLISHED"
    <2>1. UNCHANGED <<rx_buffer, ended>>
      BY <1>1, <1>9 DEF tcp_process, receive
    <2>2. pc = "wait"
      <3>1. pc = "receive" => ended
        BY <1>9 DEF Control, Handshake
      <3>2. ~ended
        BY <1>2, <1>5 DEF InOrder
      <3> QED
        BY <1>1, <3>1, <3>2 DEF Polling
    <2>3. a = Len(wire)
      BY <1>2, <1>5, <2>2, BeforeRequest
    <2> QED
      BY <1>6, <1>7, <2>1, <2>3
  <1> QED
    BY <1>8, <1>9

(* The order is kept by every step.                                        *)
LEMMA OrderStep ==
    ASSUME Control, FirstInOrder, [Next]_vars
    PROVE  FirstInOrder'
  <1>1. CASE External
    <2>1. ASSUME NEW p \in Ports, NEW k \in 1..(StreamLength + 1), ServerResends(p, k)
          PROVE  FirstInOrder'
      BY <2>1, FaultEnds DEF ServerResends, Control
    <2>2. ASSUME NEW i \in 1..Len(wire), WireLoses(i)
          PROVE  FirstInOrder'
      BY <2>2, FaultEnds DEF WireLoses, Control
    <2> QED
      BY <1>1, <2>1, <2>2, SendsOrder DEF External
  <1>2. CASE Poll
    BY <1>2, PollOrder DEF Poll
  <1>3. CASE Wget
    BY <1>3, WgetOrder, RequestOrder DEF Wget
  <1>4. CASE \E p \in Ports, isn \in Isns : tcp_connect(p, isn)
    BY <1>4, ConnectOrder
  <1>5. CASE UNCHANGED vars
    BY <1>5, QuietOrder DEF vars, connection, receive, serverState
  <1> QED
    BY <1>1, <1>2, <1>3, <1>4, <1>5 DEF Next

(* It holds at boot.                                                       *)
LEMMA OrderInit ==
    ASSUME Init
    PROVE  FirstInOrder
  <1>1. /\ wire = <<>> /\ rx_buffer = <<>> /\ local_port \in Ports /\ pc = "idle" /\ ended = FALSE
        /\ \A q \in Ports : server[q] = "closed" /\ sent[q] = 0
    BY DEF Init
  <1>2. Len(wire) = 0 /\ Len(rx_buffer) = 0 /\ sent[local_port] = 0
    BY <1>1, Numbers
  <1>3. InOrder(0, 0)
    <2>1. Stored(0) = 0
      BY Numbers DEF Stored
    <2>2. \A i \in 1..0 : FALSE
      OBVIOUS
    <2>3. \A i \in (0 + 1)..Len(wire) : FALSE
      BY <1>2
    <2>4. sent[local_port] = 0 + Len(wire) - 0 /\ 0 <= Len(wire) /\ ~(0 > 0)
      BY <1>2
    <2> QED
      BY <1>1, <1>2, <2>1, <2>2, <2>3, <2>4 DEF InOrder
  <1>4. \A k \in 1..Len(rx_buffer) : FALSE
    BY <1>2
  <1> QED
    BY <1>1, <1>3, <1>4 DEF FirstInOrder

-----------------------------------------------------------------------------
(* The properties.                                                         *)

(* The download of the first connection.                                   *)
LEMMA DownloadFollows ==
    ASSUME IInv
    PROVE  DownloadMatches
  <1> SUFFICES ASSUME faults = 0, connects = 1
               PROVE  /\ IsPrefix(down_buf, Stream(local_port))
                      /\ (ended /\ pc = "idle" /\ StreamLength < RX_BUFFER)
                            => down_buf = Stream(local_port)
    BY DEF DownloadMatches
  <1> DEFINE t == Stream(local_port)
             n == Len(down_buf)
  <1>1. Faultless
    BY DEF Faultless
  <1>2. PICK a \in Nat, r \in Nat : InOrder(a, r)
    BY <1>1 DEF IInv, FirstInOrder
  <1>3. /\ Len(rx_buffer) = Stored(r) /\ StreamLength \in Nat /\ RX_BUFFER \in Nat /\ RX_BUFFER > 0
    BY <1>2, Numbers DEF InOrder
  <1>4. /\ n = rx_processed /\ rx_processed \in 0..Len(rx_buffer) /\ down_buf \in Seq(Chunks)
        /\ Len(rx_buffer) \in Nat /\ n \in Nat /\ n <= Len(rx_buffer) /\ local_port \in Ports
    BY LenProperties DEF IInv, Control, Copied, AckCountsStored, TypeOK
  <1>5. Stored(r) <= StreamLength
    BY <1>3 DEF Stored
  <1>6. t \in Seq(Chunks) /\ Len(t) = StreamLength /\ \A k \in 1..StreamLength : t[k] = <<local_port, k>>
    <2>1. \A k \in 1..StreamLength : <<local_port, k>> \in Chunks
      BY <1>4 DEF Chunks
    <2> QED
      BY <1>3, <2>1 DEF Stream
  <1>7. \A k \in 1..n : down_buf[k] = t[k]
    <2> TAKE k \in 1..n
    <2>1. k \in 1..rx_processed /\ k \in 1..Len(rx_buffer) /\ k \in 1..StreamLength
      BY <1>3, <1>4, <1>5
    <2>2. down_buf[k] = rx_buffer[k]
      BY <2>1 DEF IInv, Control, Copied
    <2>3. rx_buffer[k] = <<local_port, k>>
      BY <1>1, <2>1 DEF IInv, FirstInOrder
    <2> QED
      BY <1>6, <2>1, <2>2, <2>3
  <1> HIDE DEF t, n
  <1>8. n <= Len(t)
    BY <1>3, <1>4, <1>5, <1>6
  <1>9. SubSeq(down_buf, 1, n) = SubSeq(t, 1, n)
    <2>1. \A k \in 1..n : down_buf[k] \in Chunks /\ t[k] \in Chunks
      <3>1. \A k \in 1..n : k \in 1..Len(t) /\ k \in 1..Len(down_buf)
        BY <1>4, <1>6, <1>8 DEF n
      <3> QED
        BY <1>4, <1>6, <3>1, ElementOfSeq
    <2>2. 1 \in Int /\ n \in Int /\ \A k \in 1..n : down_buf[k] \in Chunks
      BY <1>4, <2>1
    <2>3. 1 \in Int /\ n \in Int /\ \A k \in 1..n : t[k] \in Chunks
      BY <1>4, <2>1
    <2>4. /\ SubSeq(down_buf, 1, n) \in Seq(Chunks)
          /\ Len(SubSeq(down_buf, 1, n)) = IF 1 <= n THEN n - 1 + 1 ELSE 0
          /\ \A k \in 1..(n - 1 + 1) : SubSeq(down_buf, 1, n)[k] = down_buf[1 + k - 1]
      BY <2>2, SubSeqProperties
    <2>5. /\ SubSeq(t, 1, n) \in Seq(Chunks)
          /\ Len(SubSeq(t, 1, n)) = IF 1 <= n THEN n - 1 + 1 ELSE 0
          /\ \A k \in 1..(n - 1 + 1) : SubSeq(t, 1, n)[k] = t[1 + k - 1]
      BY <2>3, SubSeqProperties
    <2>6. \A k \in 1..n : k \in 1..(n - 1 + 1) /\ 1 + k - 1 = k
      BY <1>4
    <2>7. Len(SubSeq(down_buf, 1, n)) = n /\ Len(SubSeq(t, 1, n)) = n
      BY <1>4, <2>4, <2>5
    <2>8. \A k \in 1..n : SubSeq(down_buf, 1, n)[k] = SubSeq(t, 1, n)[k]
      BY <1>7, <2>4, <2>5, <2>6
    <2> QED
      BY <2>4, <2>5, <2>7, <2>8, SeqEqual
  <1>10. IsPrefix(down_buf, t)
    BY <1>8, <1>9 DEF IsPrefix, n
  <1>11. ASSUME ended, pc = "idle", StreamLength < RX_BUFFER
         PROVE  down_buf = t
    <2>1. wire = <<>> /\ sent[local_port] = StreamLength + 1 /\ a <= Len(wire)
          /\ \/ sent[local_port] = r + Len(wire) - a
             \/ sent[local_port] = StreamLength + 1 /\ r + Len(wire) - a = StreamLength
      BY <1>2, <1>11 DEF InOrder
    <2>2. r >= StreamLength
      BY <1>3, <2>1, Numbers
    <2>3. Stored(r) = StreamLength
      BY <1>3, <1>11, <2>2 DEF Stored
    <2>4. n = StreamLength
      BY <1>3, <1>4, <1>11, <2>3 DEF IInv, Control, Copied
    <2>5. Len(down_buf) = Len(t) /\ \A k \in 1..Len(down_buf) : down_buf[k] = t[k]
      BY <1>6, <1>7, <2>4 DEF n
    <2> QED
      BY <1>4, <1>6, <2>5, SeqEqual
  <1> QED
    BY <1>10, <1>11 DEF t

(* The inductive invariant holds in every state of the client, the server  *)
(* and the network.                                                        *)
THEOREM InvCorrect == Spec => []IInv
  <1>1. Init => IInv
    BY ControlInit, OrderInit DEF IInv
  <1>2. IInv /\ [Next]_vars => IInv'
    BY ControlStep, OrderStep DEF IInv
  <1> QED
    BY <1>1, <1>2, PTL DEF Spec

(* tcp_receive (src/tcp_ip_stack.c) stops polling exactly when there is    *)
(* something to copy, whatever the network does.                           *)
THEOREM DataCorrect == Spec => []HasDataAccurate
  <1>1. IInv => HasDataAccurate
    BY DEF IInv, Control
  <1> QED
    BY <1>1, InvCorrect, PTL

(* Every ACK of an open connection acknowledges what was stored and        *)
(* nothing else, through every wrap of the sequence numbers, every loss,   *)
(* repeat and padding; the ACK of a FIN counts one number more, even when  *)
(* that number is a byte never stored; and the receive buffer is never     *)
(* overrun.                                                                *)
THEOREM AckCorrect == Spec => []AckCountsStored
  <1>1. IInv => AckCountsStored
    BY DEF IInv, Control
  <1> QED
    BY <1>1, InvCorrect, PTL

(* On a network without faults the first WGET downloads a prefix of what   *)
(* the server sent, and all of it when the server's FIN ended it.          *)
THEOREM DownloadCorrect == Spec => []DownloadMatches
  <1>1. IInv => DownloadMatches
    BY DownloadFollows
  <1> QED
    BY <1>1, InvCorrect, PTL
=============================================================================

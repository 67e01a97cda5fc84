--------------------------------- MODULE Tcp ---------------------------------
(***************************************************************************)
(* The TCP client of src/tcp_ip_stack.c - one control block, polled - and  *)
(* its only user, the download loop of WGET in src/commands.c, against a   *)
(* server and a network that are external.                                 *)
(*                                                                         *)
(* Data is counted in chunks, one to a segment and to a sequence number.   *)
(* A time-out may come at any poll.  What the client sends arrives at once *)
(* or is lost; what the server sends stays on the wire as long as it likes *)
(* and can be lost, duplicated, reordered, resent, or padded by a network  *)
(* card to the shortest frame: the faults.                                 *)
(***************************************************************************)
EXTENDS Integers, SequencesExt

CONSTANTS
    Ports,          \* local ports: 10000 + ticks % 50000
    Isns,           \* initial sequence numbers: ticks
    ServerIsn,      \* the server's initial sequence number
    SequenceSpace,  \* 2^32
    StreamLength,   \* chunks the server sends on a connection
    RX_BUFFER,      \* 16384: size of rx_buffer
    Retries,        \* 5: SYNs before tcp_connect gives up
    MaxWire,        \* bound: segments on the wire when the server sends data
    MaxConnects,    \* bound: downloads
    MaxFaults       \* bound: faults

ASSUME TcpAssumption ==
    /\ SequenceSpace \in Nat \ {0} /\ Isns \subseteq 0..(SequenceSpace - 1)
    /\ ServerIsn \in 0..(SequenceSpace - 1)
    /\ StreamLength \in Nat /\ RX_BUFFER \in Nat \ {0} /\ Retries \in Nat \ {0}
    /\ MaxWire \in Nat /\ MaxConnects \in Nat /\ MaxFaults \in Nat

VARIABLES
    state, local_port, snd_nxt, rcv_nxt,  \* tcb
    rx_buffer,      \* tcb: chunks received, its length is rx_len
    rx_processed, has_data,
    pc,             \* cmd_wget: "idle", "connect", "wait", "send", "receive", "finish"
    retry,          \* tcp_connect: SYNs tried
    down_buf,       \* cmd_wget: chunks downloaded
    wire,           \* segments on their way to the client
    server,         \* port -> "closed", "open", "serving" or "done"
    expected,       \* port -> sequence number the server expects
    sent,           \* port -> segments the server has sent of its stream
    irs,            \* history: sequence number of the SYN-ACK accepted
    ended,          \* history: whether the server's FIN ended the connection
    connects, faults

connection == <<state, local_port, snd_nxt, rcv_nxt>>
receive == <<rx_buffer, rx_processed, has_data>>
serverState == <<server, expected, sent>>
vars == <<connection, receive, pc, retry, down_buf, wire, serverState, irs, ended,
          connects, faults>>

Plus(a, b) == (a + b) % SequenceSpace

(* The stream of a connection: its chunks are told apart by port.          *)
Stream(p) == [k \in 1..StreamLength |-> <<p, k>>]
Padding == <<"padding">>
Chunks == {<<p, k>> : p \in Ports, k \in 1..StreamLength} \cup {Padding}

Segment(p, syn, fin, seq, ack, data) ==
    [port |-> p, syn |-> syn, fin |-> fin, seq |-> seq, ack |-> ack, data |-> data]

Fault == faults < MaxFaults /\ faults' = faults + 1
NoFault == UNCHANGED faults

-----------------------------------------------------------------------------
(* The server and the network: external.                                   *)

SynAck(p, ack) == Segment(p, TRUE, FALSE, ServerIsn, ack, <<>>)
Ack(p, ack) == Segment(p, FALSE, FALSE, Plus(ServerIsn, 1), ack, <<>>)
StreamSegment(p, k, fin) ==
    Segment(p, FALSE, fin, Plus(ServerIsn, k), expected[p],
            IF k > StreamLength THEN <<>> ELSE <<Stream(p)[k]>>)

(* The FIN comes with the last chunk or in a segment of its own.           *)
Fins(k) == IF k < StreamLength THEN {FALSE} ELSE IF k = StreamLength THEN BOOLEAN ELSE {TRUE}

(* What the server does with a SYN: a repeated one is answered again.      *)
ServerSyn(p, isn) ==
    /\ IF server[p] = "closed" \/ (server[p] = "open" /\ expected[p] = Plus(isn, 1))
       THEN /\ server' = [server EXCEPT ![p] = "open"]
            /\ expected' = [expected EXCEPT ![p] = Plus(isn, 1)]
            /\ wire' = Append(wire, SynAck(p, Plus(isn, 1)))
       ELSE UNCHANGED <<server, expected, wire>>
    /\ UNCHANGED sent

(* What it does with the request: out of sequence it is dropped.           *)
ServerRequest(p, seq) ==
    /\ IF server[p] = "open" /\ expected[p] = seq
       THEN /\ server' = [server EXCEPT ![p] = "serving"]
            /\ expected' = [expected EXCEPT ![p] = Plus(seq, 1)]
            /\ wire' = Append(wire, Ack(p, Plus(seq, 1)))
       ELSE UNCHANGED <<server, expected, wire>>
    /\ UNCHANGED sent

ServerClose(p) ==
    /\ server' = [server EXCEPT ![p] = "done"]
    /\ UNCHANGED <<expected, sent, wire>>

Lost == Fault /\ UNCHANGED <<serverState, wire>>

ServerSends(p) ==
    /\ server[p] = "serving" /\ sent[p] <= StreamLength
    /\ Len(wire) < MaxWire
    /\ \E fin \in Fins(sent[p] + 1) :
          /\ sent' = [sent EXCEPT ![p] = IF fin THEN StreamLength + 1 ELSE @ + 1]
          /\ wire' = Append(wire, StreamSegment(p, sent[p] + 1, fin))
    /\ NoFault
    /\ UNCHANGED <<connection, receive, pc, retry, down_buf, server, expected, irs, ended, connects>>

ServerResends(p, k) ==
    /\ server[p] = "serving" /\ k <= sent[p]
    /\ Len(wire) < MaxWire
    /\ \E fin \in Fins(k) :
          /\ fin => sent[p] > StreamLength
          /\ wire' = Append(wire, StreamSegment(p, k, fin))
    /\ Fault
    /\ UNCHANGED <<connection, receive, pc, retry, down_buf, serverState, irs, ended, connects>>

WireLoses(i) ==
    /\ wire' = RemoveAt(wire, i)
    /\ Fault
    /\ UNCHANGED <<connection, receive, pc, retry, down_buf, serverState, irs, ended, connects>>

-----------------------------------------------------------------------------
(* tcp_process: what a segment does to the control block.  Neither its     *)
(* port nor its sequence number is looked at; the length of the data is    *)
(* that of the frame, padding included.                                    *)

Fits(data) == Len(rx_buffer) + Len(data) < RX_BUFFER

(* Mutation: a segment that does not fit is acknowledged.                  *)
Acknowledge_dropped(data, fin) ==
    rcv_nxt' = Plus(rcv_nxt, Len(data) + (IF fin THEN 1 ELSE 0))

Acknowledge(data, fin) ==
    rcv_nxt' = Plus(rcv_nxt, (IF Fits(data) THEN Len(data) ELSE 0) + (IF fin THEN 1 ELSE 0))

tcp_process(seg, data) ==
    \/ /\ state = "TCP_SYN_SENT" /\ seg.syn
       /\ state' = "TCP_ESTABLISHED"
       /\ rcv_nxt' = Plus(seg.seq, 1)
       /\ snd_nxt' = seg.ack
       /\ irs' = seg.seq
       /\ UNCHANGED <<local_port, receive, ended>>
    \/ /\ state = "TCP_ESTABLISHED"
       /\ IF data # <<>> /\ Fits(data)
          THEN rx_buffer' = rx_buffer \o data /\ has_data' = TRUE
          ELSE UNCHANGED <<rx_buffer, has_data>>
       /\ Acknowledge(data, seg.fin)
       /\ state' = IF seg.fin THEN "TCP_CLOSED" ELSE state
       /\ ended' = (ended \/ seg.fin)
       /\ UNCHANGED <<local_port, snd_nxt, rx_processed, irs>>
    \/ /\ state = "TCP_CLOSED" \/ (state = "TCP_SYN_SENT" /\ ~seg.syn)
       /\ UNCHANGED <<connection, receive, irs, ended>>

(* netif_poll with a frame waiting.  The polling loops stop as soon as     *)
(* what they wait for is there.                                            *)
Polling ==
    \/ pc = "wait" /\ state # "TCP_ESTABLISHED"
    \/ pc = "receive" /\ ~has_data

netif_poll(i, keep, padded) ==
    LET seg == wire[i]
    IN  /\ Polling
        /\ padded => seg.data = <<>>
        /\ IF i = 1 /\ ~keep /\ ~padded THEN NoFault ELSE Fault
        /\ tcp_process(seg, IF padded THEN <<Padding>> ELSE seg.data)
        /\ wire' = IF keep THEN wire ELSE RemoveAt(wire, i)
        /\ UNCHANGED <<pc, retry, down_buf, serverState, connects>>

-----------------------------------------------------------------------------
(* tcp_connect.                                                            *)

Elsewhere == UNCHANGED <<irs, connects>>

(* The control block is reset before the interface is looked at: without   *)
(* one, without a link or without an address the command ends here.        *)
tcp_connect(p, isn) ==
    /\ pc = "idle"
    /\ connects < MaxConnects
    /\ connects' = connects + 1
    /\ state' = "TCP_CLOSED"
    /\ local_port' = p /\ snd_nxt' = isn /\ rcv_nxt' = 0
    /\ rx_buffer' = <<>> /\ rx_processed' = 0 /\ has_data' = FALSE
    /\ pc' \in {"connect", "idle"} /\ retry' = 0
    /\ down_buf' = <<>>
    /\ ended' = FALSE
    /\ NoFault
    /\ UNCHANGED <<wire, serverState, irs>>

(* The retry loop: the next SYN, or failure.                               *)
NextRetry ==
    /\ retry' = retry + 1
    /\ pc' = IF retry + 1 = Retries THEN "idle" ELSE "connect"
    /\ state' = IF retry + 1 = Retries THEN "TCP_CLOSED" ELSE state

send_syn ==
    /\ pc = "connect"
    /\ \/ ServerSyn(local_port, snd_nxt) /\ NoFault
       \/ Lost
    /\ state' = "TCP_SYN_SENT"
    /\ pc' = "wait"
    /\ UNCHANGED <<local_port, snd_nxt, rcv_nxt, receive, retry, down_buf, ended>> /\ Elsewhere

(* The driver refuses the frame.                                           *)
send_syn_fails ==
    /\ pc = "connect"
    /\ Fault
    /\ NextRetry
    /\ UNCHANGED <<local_port, snd_nxt, rcv_nxt, receive, down_buf, wire, serverState, ended>>
    /\ Elsewhere

connect_timeout ==
    /\ pc = "wait" /\ state # "TCP_ESTABLISHED"
    /\ NextRetry
    /\ NoFault
    /\ UNCHANGED <<local_port, snd_nxt, rcv_nxt, receive, down_buf, wire, serverState, ended>>
    /\ Elsewhere

connected ==
    /\ pc = "wait" /\ state = "TCP_ESTABLISHED"
    /\ pc' = "send"
    /\ NoFault
    /\ UNCHANGED <<connection, receive, retry, down_buf, wire, serverState, ended>> /\ Elsewhere

-----------------------------------------------------------------------------
(* cmd_wget: the request, the download and the end.                        *)

tcp_send ==
    /\ pc = "send"
    /\ \/ ServerRequest(local_port, snd_nxt) /\ NoFault
       \/ Lost
    /\ snd_nxt' = Plus(snd_nxt, 1)
    /\ pc' \in {"receive", "finish"}    \* "finish": kmalloc returned NULL
    /\ UNCHANGED <<state, local_port, rcv_nxt, receive, retry, down_buf, ended>> /\ Elsewhere

(* Mutation: has_data is left set.                                         *)
tcp_receive_keeps_flag ==
    /\ pc = "receive" /\ rx_processed < Len(rx_buffer)
    /\ down_buf' = down_buf \o SubSeq(rx_buffer, rx_processed + 1, Len(rx_buffer))
    /\ rx_processed' = Len(rx_buffer)
    /\ NoFault
    /\ UNCHANGED <<connection, rx_buffer, has_data, pc, retry, wire, serverState, ended>>
    /\ Elsewhere

(* tcp_receive with something to read returns all of it.                   *)
tcp_receive ==
    /\ pc = "receive"
    /\ has_data \/ state # "TCP_ESTABLISHED"
    /\ rx_processed < Len(rx_buffer)
    /\ down_buf' = down_buf \o SubSeq(rx_buffer, rx_processed + 1, Len(rx_buffer))
    /\ rx_processed' = Len(rx_buffer)
    /\ has_data' = FALSE
    /\ NoFault
    /\ UNCHANGED <<connection, rx_buffer, pc, retry, wire, serverState, ended>> /\ Elsewhere

(* Mutation: a closed connection ends the loop at once.                    *)
tcp_receive_nothing_early ==
    /\ pc = "receive"
    /\ ~has_data \/ state # "TCP_ESTABLISHED"
    /\ pc' = "finish"
    /\ NoFault
    /\ UNCHANGED <<connection, receive, retry, down_buf, wire, serverState, ended>> /\ Elsewhere

(* Mutation: there is no time-out.                                         *)
tcp_receive_nothing_patient ==
    /\ pc = "receive"
    /\ state # "TCP_ESTABLISHED" /\ ~has_data /\ rx_processed = Len(rx_buffer)
    /\ pc' = "finish"
    /\ NoFault
    /\ UNCHANGED <<connection, receive, retry, down_buf, wire, serverState, ended>> /\ Elsewhere

(* It returns 0 - the connection is closed, or 20 seconds have passed -    *)
(* and the download is taken to be complete.                               *)
tcp_receive_nothing ==
    /\ pc = "receive"
    /\ ~has_data /\ rx_processed = Len(rx_buffer)
    /\ pc' = "finish"
    /\ NoFault
    /\ UNCHANGED <<connection, receive, retry, down_buf, wire, serverState, ended>> /\ Elsewhere

tcp_close ==
    /\ pc = "finish"
    /\ IF state = "TCP_ESTABLISHED"
       THEN (ServerClose(local_port) /\ NoFault) \/ Lost
       ELSE NoFault /\ UNCHANGED <<serverState, wire>>
    /\ state' = "TCP_CLOSED"
    /\ pc' = "idle"
    /\ UNCHANGED <<local_port, snd_nxt, rcv_nxt, receive, retry, down_buf, ended>> /\ Elsewhere

-----------------------------------------------------------------------------
Init ==
    /\ state = "TCP_CLOSED" /\ local_port \in Ports /\ snd_nxt = 0 /\ rcv_nxt = 0
    /\ rx_buffer = <<>> /\ rx_processed = 0 /\ has_data = FALSE
    /\ pc = "idle" /\ retry = 0 /\ down_buf = <<>>
    /\ wire = <<>>
    /\ server = [p \in Ports |-> "closed"]
    /\ expected = [p \in Ports |-> 0]
    /\ sent = [p \in Ports |-> 0]
    /\ irs = 0 /\ ended = FALSE
    /\ connects = 0 /\ faults = 0

External ==
    \/ \E p \in Ports : ServerSends(p) \/ \E k \in 1..(StreamLength + 1) : ServerResends(p, k)
    \/ \E i \in 1..Len(wire) : WireLoses(i)

Poll == \E i \in 1..Len(wire), keep, padded \in BOOLEAN : netif_poll(i, keep, padded)

Wget ==
    \/ send_syn \/ send_syn_fails \/ connect_timeout \/ connected
    \/ tcp_send \/ tcp_receive \/ tcp_receive_nothing \/ tcp_close

Next == External \/ Poll \/ Wget \/ \E p \in Ports, isn \in Isns : tcp_connect(p, isn)

Spec == Init /\ [][Next]_vars

(* The command keeps running and the timer keeps counting, so every wait   *)
(* ends.  Nothing is assumed of the server or the network.                 *)
FairSpec == Spec /\ WF_vars(Wget)

-----------------------------------------------------------------------------
(* Properties.                                                             *)

(* The receive buffer is never full to its last byte, rx_processed stays   *)
(* behind what was received, and sequence numbers stay 32-bit through      *)
(* every wrap.                                                             *)
TypeOK ==
    /\ state \in {"TCP_CLOSED", "TCP_SYN_SENT", "TCP_ESTABLISHED"}
    /\ local_port \in Ports
    /\ snd_nxt \in 0..(SequenceSpace - 1) /\ rcv_nxt \in 0..(SequenceSpace - 1)
    /\ rx_buffer \in Seq(Chunks) /\ Len(rx_buffer) < RX_BUFFER
    /\ rx_processed \in 0..Len(rx_buffer)
    /\ has_data \in BOOLEAN
    /\ pc \in {"idle", "connect", "wait", "send", "receive", "finish"}
    /\ retry \in 0..Retries
    /\ down_buf \in Seq(Chunks)

(* tcp_receive stops polling exactly when there is something to copy.      *)
HasDataAccurate == has_data <=> rx_processed < Len(rx_buffer)

(* While the connection is open an ACK counts the bytes stored and no      *)
(* others: a segment that does not fit is not acknowledged, whatever was   *)
(* resent, reordered or padded.  The last ACK, that of a FIN, counts one   *)
(* number more, whatever the FIN's own number was, and nothing is stored   *)
(* behind it.  For a FIN in sequence that is the FIN; for one ahead of     *)
(* data that was lost or did not fit it is a byte that was never stored.   *)
AckCountsStored ==
    /\ TypeOK
    /\ state = "TCP_ESTABLISHED" => rcv_nxt = Plus(irs, 1 + Len(rx_buffer))
    /\ ended => state = "TCP_CLOSED" /\ rcv_nxt = Plus(irs, 1 + Len(rx_buffer) + 1)

(* On a network without a fault the first download is a prefix of what the *)
(* server sent, and all of it when the server's FIN ended it.              *)
DownloadMatches ==
    (faults = 0 /\ connects = 1) =>
        /\ IsPrefix(down_buf, Stream(local_port))
        /\ (ended /\ pc = "idle" /\ StreamLength < RX_BUFFER) => down_buf = Stream(local_port)

(* WGET always comes back to the prompt, whatever the network and the      *)
(* server do or fail to do.                                                *)
WgetReturns == pc # "idle" ~> pc = "idle"
=============================================================================

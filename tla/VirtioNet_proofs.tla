-------------------------- MODULE VirtioNet_proofs --------------------------
(***************************************************************************)
(* Proofs about VirtioNet, for every number of buffers, every ring size    *)
(* and every width of the ring indices that the ring size divides.         *)
(***************************************************************************)
EXTENDS VirtioNet, FiniteSetTheorems, SequenceTheorems, TLAPS

-----------------------------------------------------------------------------
(* Arithmetic of wrapping indices.                                         *)

(* Quotient and remainder.                                                 *)
LEMMA Remainder ==
    ASSUME NEW i \in Int, NEW m \in Nat, m > 0
    PROVE  /\ i % m \in 0..(m - 1) /\ i \div m \in Int
           /\ i = m * (i \div m) + (i % m)
           /\ 0 <= i /\ i < m => i % m = i
           /\ -m < i /\ i < 0 => i % m = i + m
  OBVIOUS

(* No multiple of m lies strictly between 0 and m.                         *)
LEMMA NoMultiple ==
    ASSUME NEW m \in Nat, NEW q \in Int, 0 < m * q, m * q < m
    PROVE  FALSE
  <1>1. CASE q <= 0
    <2>1. m * (0 - q) >= 0
      BY <1>1
    <2>2. m * (0 - q) = 0 - m * q
      OBVIOUS
    <2> QED
      BY <2>1, <2>2
  <1>2. CASE q >= 1
    <2>1. m * (q - 1) >= 0
      BY <1>2
    <2>2. m * (q - 1) = m * q - m
      OBVIOUS
    <2> QED
      BY <2>1, <2>2
  <1> QED
    BY <1>1, <1>2

(* A remainder within the range is the only one.                           *)
LEMMA RemainderUnique ==
    ASSUME NEW i \in Int, NEW m \in Nat, m > 0, NEW q \in Int, NEW r \in 0..(m - 1), i = m * q + r
    PROVE  i % m = r
  <1> DEFINE p == i \div m
             s == i % m
  <1>1. p \in Int /\ s \in 0..(m - 1) /\ i = m * p + s
    BY Remainder
  <1> HIDE DEF p, s
  <1>2. /\ m * (q - p) = m * q - m * p
        /\ m * (p - q) = m * p - m * q
        /\ m * q \in Int /\ m * p \in Int
    BY <1>1
  <1>3. ~(0 < m * (q - p) /\ m * (q - p) < m)
    BY <1>1, NoMultiple
  <1>4. ~(0 < m * (p - q) /\ m * (p - q) < m)
    BY <1>1, NoMultiple
  <1>5. s = r
    BY <1>1, <1>2, <1>3, <1>4
  <1> QED
    BY <1>5 DEF s

(* Whole turns do not count.                                               *)
LEMMA Turns ==
    ASSUME NEW i \in Int, NEW m \in Nat, m > 0, NEW q \in Int
    PROVE  (i + m * q) % m = i % m
  <1> DEFINE p == i \div m
             s == i % m
  <1>1. p \in Int /\ s \in 0..(m - 1) /\ i = m * p + s
    BY Remainder
  <1> HIDE DEF p, s
  <1>2. m * (p + q) = m * p + m * q /\ m * q \in Int /\ p + q \in Int
    BY <1>1
  <1>3. i + m * q = m * (p + q) + s
    BY <1>1, <1>2
  <1>4. (i + m * q) % m = s
    BY <1>1, <1>2, <1>3, RemainderUnique
  <1> QED
    BY <1>4 DEF s

(* The ring size and the index space, as numbers.                          *)
LEMMA Sizes ==
    /\ QUEUE_SIZE \in Nat /\ QUEUE_SIZE > 0 /\ RingSize \in Nat /\ QUEUE_SIZE <= RingSize
    /\ IndexSpace \in Nat /\ QUEUE_SIZE < IndexSpace
    /\ \E q \in Int : IndexSpace = RingSize * q
  <1>1. /\ QUEUE_SIZE \in Nat /\ QUEUE_SIZE > 0 /\ RingSize \in Nat /\ QUEUE_SIZE <= RingSize
        /\ IndexSpace \in Nat /\ QUEUE_SIZE < IndexSpace /\ IndexSpace % RingSize = 0
    BY VirtioAssumption
  <1>2. RingSize > 0 /\ IndexSpace \in Int
    BY <1>1
  <1>3. IndexSpace \div RingSize \in Int
        /\ IndexSpace = RingSize * (IndexSpace \div RingSize) + (IndexSpace % RingSize)
    BY <1>1, <1>2, Remainder
  <1>4. RingSize * (IndexSpace \div RingSize) \in Int
    BY <1>1, <1>3
  <1>5. IndexSpace = RingSize * (IndexSpace \div RingSize)
    BY <1>1, <1>3, <1>4
  <1> QED
    BY <1>1, <1>3, <1>5

(* Advancing an index.                                                     *)
LEMMA IncValue ==
    ASSUME NEW i \in Indices
    PROVE  Inc(i) \in Indices /\ Inc(i) = IF i + 1 = IndexSpace THEN 0 ELSE i + 1
  <1>1. IndexSpace \in Nat /\ IndexSpace > 0 /\ i \in Int /\ 0 <= i /\ i < IndexSpace
    BY Sizes DEF Indices
  <1>2. CASE i + 1 = IndexSpace
    <2>1. IndexSpace % IndexSpace = 0
      <3>1. IndexSpace = IndexSpace * 1 + 0 /\ 0 \in 0..(IndexSpace - 1) /\ 1 \in Int /\ IndexSpace \in Int
        BY <1>1
      <3> QED
        BY <1>1, <3>1, RemainderUnique
    <2> QED
      BY <1>1, <1>2, <2>1 DEF Inc, Indices
  <1>3. CASE i + 1 # IndexSpace
    <2>1. i + 1 \in Int /\ 0 <= i + 1 /\ i + 1 < IndexSpace
      BY <1>1, <1>3
    <2>2. (i + 1) % IndexSpace = i + 1
      BY <1>1, <2>1, Remainder
    <2> QED
      BY <1>1, <1>3, <2>1, <2>2 DEF Inc, Indices
  <1> QED
    BY <1>2, <1>3

(* The number of steps from one index to another.                          *)
LEMMA DistanceValue ==
    ASSUME NEW i \in Indices, NEW j \in Indices
    PROVE  /\ Distance(i, j) \in 0..(IndexSpace - 1)
           /\ Distance(i, j) = IF i <= j THEN j - i ELSE j - i + IndexSpace
  <1>1. IndexSpace \in Nat /\ IndexSpace > 0 /\ i \in Int /\ j \in Int
        /\ 0 <= i /\ i < IndexSpace /\ 0 <= j /\ j < IndexSpace
    BY Sizes DEF Indices
  <1>2. j - i \in Int /\ -IndexSpace < j - i /\ j - i < IndexSpace
    BY <1>1
  <1>3. /\ 0 <= j - i => (j - i) % IndexSpace = j - i
        /\ j - i < 0 => (j - i) % IndexSpace = j - i + IndexSpace
    BY <1>1, <1>2, Remainder
  <1>4. i <= j <=> 0 <= j - i
    BY <1>1
  <1> QED
    BY <1>1, <1>2, <1>3, <1>4 DEF Distance

(* Advancing either end of a stretch.                                      *)
LEMMA DistanceSteps ==
    ASSUME NEW i \in Indices, NEW j \in Indices
    PROVE  /\ Distance(i, j) + 1 < IndexSpace => Distance(i, Inc(j)) = Distance(i, j) + 1
           /\ i # j => Distance(i, j) > 0 /\ Distance(Inc(i), j) = Distance(i, j) - 1
           /\ i = j => Distance(i, j) = 0
  <1>1. IndexSpace \in Nat /\ IndexSpace > 1 /\ i \in Int /\ j \in Int
        /\ 0 <= i /\ i < IndexSpace /\ 0 <= j /\ j < IndexSpace
    BY Sizes DEF Indices
  <1>2. Inc(i) \in Indices /\ Inc(j) \in Indices
        /\ Inc(i) = (IF i + 1 = IndexSpace THEN 0 ELSE i + 1)
        /\ Inc(j) = (IF j + 1 = IndexSpace THEN 0 ELSE j + 1)
    BY IncValue
  <1>3. /\ Distance(i, j) = IF i <= j THEN j - i ELSE j - i + IndexSpace
        /\ Distance(Inc(i), j) = IF Inc(i) <= j THEN j - Inc(i) ELSE j - Inc(i) + IndexSpace
        /\ Distance(i, Inc(j)) = IF i <= Inc(j) THEN Inc(j) - i ELSE Inc(j) - i + IndexSpace
    BY <1>2, DistanceValue
  <1> QED
    BY <1>1, <1>2, <1>3

-----------------------------------------------------------------------------
(* Ring slots.                                                             *)

(* The ring slot k steps behind index i.                                   *)
At(i, k) == (i + k) % RingSize

(* Slots are slots.                                                        *)
LEMMA AtType ==
    ASSUME NEW i \in Indices, NEW k \in Nat
    PROVE  At(i, k) \in RingSlots
  <1>1. i + k \in Int /\ RingSize \in Nat /\ RingSize > 0
    BY Sizes DEF Indices
  <1> QED
    BY <1>1, Remainder DEF At, RingSlots

(* A slot is the same after the index has wrapped.                         *)
LEMMA AtWraps ==
    ASSUME NEW x \in Int
    PROVE  (x + IndexSpace) % RingSize = x % RingSize
  <1>1. PICK q \in Int : IndexSpace = RingSize * q
    BY Sizes
  <1>2. RingSize \in Nat /\ RingSize > 0
    BY Sizes
  <1>3. (x + RingSize * q) % RingSize = x % RingSize
    BY <1>2, Turns
  <1> QED
    BY <1>1, <1>3

(* Advancing the index shifts the slots by one.                            *)
LEMMA AtInc ==
    ASSUME NEW i \in Indices, NEW k \in Nat
    PROVE  At(Inc(i), k) = At(i, k + 1)
  <1>1. i \in Int /\ k \in Int
    BY Sizes DEF Indices
  <1>2. CASE i + 1 = IndexSpace
    <2>1. Inc(i) + k = k /\ i + (k + 1) = k + IndexSpace
      BY <1>1, <1>2, IncValue, Sizes
    <2> QED
      BY <1>1, <2>1, AtWraps DEF At
  <1>3. CASE i + 1 # IndexSpace
    <2>1. Inc(i) + k = i + (k + 1)
      BY <1>1, <1>3, IncValue, Sizes
    <2> QED
      BY <2>1 DEF At
  <1> QED
    BY <1>2, <1>3

(* The slot at the end of a stretch is the slot of its end index.          *)
LEMMA AtEnd ==
    ASSUME NEW i \in Indices, NEW j \in Indices
    PROVE  At(i, Distance(i, j)) = j % RingSize
  <1>1. i \in Int /\ j \in Int /\ IndexSpace \in Nat
    BY Sizes DEF Indices
  <1>2. CASE i <= j
    <2>1. i + Distance(i, j) = j
      BY <1>1, <1>2, DistanceValue
    <2> QED
      BY <2>1 DEF At
  <1>3. CASE ~(i <= j)
    <2>1. i + Distance(i, j) = j + IndexSpace
      BY <1>1, <1>3, DistanceValue
    <2> QED
      BY <1>1, <2>1, AtWraps DEF At
  <1> QED
    BY <1>2, <1>3

(* Slots less than a ring apart are different.                             *)
LEMMA AtDistinct ==
    ASSUME NEW i \in Indices, NEW k \in Nat, NEW l \in Nat, k < l, l < k + RingSize
    PROVE  At(i, k) # At(i, l)
  <1> SUFFICES ASSUME At(i, k) = At(i, l) PROVE FALSE
    OBVIOUS
  <1>1. i + k \in Int /\ i + l \in Int /\ RingSize \in Nat /\ RingSize > 0 /\ i \in Int
    BY Sizes DEF Indices
  <1> DEFINE a == (i + k) \div RingSize
             b == (i + l) \div RingSize
             r == At(i, k)
  <1>2. a \in Int /\ b \in Int /\ r \in Int /\ i + k = RingSize * a + r
    BY <1>1, Remainder DEF At
  <1>3. i + l = RingSize * b + r
    BY <1>1, Remainder DEF At
  <1> HIDE DEF a, b, r
  <1>4. RingSize * (b - a) = RingSize * b - RingSize * a
        /\ RingSize * b \in Int /\ RingSize * a \in Int
    BY <1>1, <1>2
  <1>5. RingSize * (b - a) = l - k
    BY <1>1, <1>2, <1>3, <1>4
  <1>6. 0 < RingSize * (b - a) /\ RingSize * (b - a) < RingSize /\ b - a \in Int
    BY <1>1, <1>2, <1>5
  <1> QED
    BY <1>1, <1>6, NoMultiple

-----------------------------------------------------------------------------
(* The invariant of the receive queue.                                     *)

NO == Distance(dev_rx, rx_avail_idx)
NF == Distance(rx_last_used, rx_used_idx) + (IF dev_pc = "publish" THEN 1 ELSE 0)
NT == IF rx_pc = "idle" THEN 0 ELSE 1
NC == IF rx_pc = "copy" THEN 1 ELSE 0

OfferedAt(k) == rx_avail[At(dev_rx, k)]
FilledAt(k) == rx_used[At(rx_last_used, k)]

HistoryOK ==
    /\ starts \in Nat
    /\ arrived \in Seq(Frames \cup {Empty}) /\ delivered \in Seq(Frames \cup {NoFrame})
    /\ sent \in Seq(Frames) /\ onWire \in Seq(Frames \cup {NoFrame})

(* The buffers offered, filled and taken are QUEUE_SIZE in number, and     *)
(* every buffer is one of them.                                            *)
RingInv ==
    /\ NO + NF + NT = IF starts > 0 THEN QUEUE_SIZE ELSE 0
    /\ starts > 0 => \A b \in Buffers :
         \/ \E k \in 0..(NO - 1) : OfferedAt(k) = b
         \/ \E k \in 0..(NF - 1) : FilledAt(k) = b
         \/ rx_pc # "idle" /\ desc_idx = b
    /\ rx_pc = "publish" => rx_avail[rx_avail_idx % RingSize] = desc_idx

(* What has arrived is returned, in the buffer being copied, or in the     *)
(* filled buffers, in this order.                                          *)
QueueInv ==
    /\ Len(arrived) = Len(delivered) + NC + NF
    /\ \A k \in 1..Len(delivered) : delivered[k] = Returned(arrived[k])
    /\ rx_pc = "copy" => rx_buffers[desc_idx] = arrived[Len(delivered) + 1]
    /\ \A k \in 0..(NF - 1) : rx_buffers[FilledAt(k)] = arrived[Len(delivered) + NC + k + 1]

(* The transmit buffer used d sends before buffer f is.                    *)
Before(f, d) == IF f >= d THEN f - d ELSE f - d + QUEUE_SIZE

NP == Distance(dev_tx, tx_avail_idx) + (IF tx_pc = "publish" THEN 1 ELSE 0)
PendingAt(k) == tx_avail[At(dev_tx, k)]

(* While the queue was never overrun, the frames sent are on the wire or   *)
(* in the last NP transmit buffers.                                        *)
TxInv ==
    ~overrun =>
      /\ NP <= QUEUE_SIZE
      /\ Len(sent) = Len(onWire) + NP
      /\ \A k \in 1..Len(onWire) : onWire[k] = sent[k]
      /\ \A k \in 0..(NP - 1) :
           /\ PendingAt(k) = Before(tx_free_idx, NP - k)
           /\ tx_buffers[PendingAt(k)] = sent[Len(onWire) + k + 1]

IInv == TypeOK /\ HistoryOK /\ RingInv /\ QueueInv /\ TxInv

-----------------------------------------------------------------------------
(* The types.                                                              *)

(* The numbers of buffers in each state.                                   *)
LEMMA Counts ==
    ASSUME TypeOK
    PROVE  NO \in Nat /\ NF \in Nat /\ NT \in {0, 1} /\ NC \in {0, 1} /\ NP \in Nat
  <1>1. /\ Distance(dev_rx, rx_avail_idx) \in Nat
        /\ Distance(rx_last_used, rx_used_idx) \in Nat
        /\ Distance(dev_tx, tx_avail_idx) \in Nat
    BY DistanceValue, Sizes DEF TypeOK
  <1> QED
    BY <1>1 DEF NO, NF, NT, NC, NP

(* An index names a slot of its ring.                                      *)
LEMMA IndexSlot ==
    ASSUME NEW i \in Indices
    PROVE  i % RingSize \in RingSlots
  <1>1. i \in Int /\ RingSize \in Nat /\ RingSize > 0
    BY Sizes DEF Indices
  <1> QED
    BY <1>1, Remainder DEF RingSlots

(* The first states have their types.                                      *)
LEMMA TypeInit == Init => TypeOK /\ HistoryOK
  <1>1. 0 \in Indices /\ 0 \in Buffers
    BY Sizes DEF Indices, Buffers
  <1> QED
    BY <1>1, EmptySeq DEF Init, TypeOK, HistoryOK

(* Every step keeps them.                                                  *)
LEMMA TypeStep ==
    ASSUME TypeOK, HistoryOK, [Next]_vars
    PROVE  TypeOK' /\ HistoryOK'
  <1>0. /\ \A i \in Indices : Inc(i) \in Indices /\ i % RingSize \in RingSlots
        /\ 0 \in Indices /\ 0 \in Buffers /\ QUEUE_SIZE \in Indices
    BY IncValue, IndexSlot, Sizes DEF Indices, Buffers
  <1>1. ASSUME NEW f \in Frames \cup {Empty}, DeviceFills(f) PROVE TypeOK' /\ HistoryOK'
    <2>1. arrived' \in Seq(Frames \cup {Empty})
      BY <1>1, AppendProperties DEF DeviceFills, HistoryOK
    <2>2. rx_avail[dev_rx % RingSize] \in Buffers
      BY <1>0 DEF TypeOK
    <2> QED
      BY <1>0, <1>1, <2>1, <2>2 DEF DeviceFills, TypeOK, HistoryOK, tx
  <1>2. CASE DevicePublishes
    BY <1>0, <1>2 DEF DevicePublishes, TypeOK, HistoryOK, tx
  <1>3. CASE DeviceTransmits
    <2>1. tx_buffers[tx_avail[dev_tx % RingSize]] \in Frames \cup {NoFrame}
      BY <1>0 DEF TypeOK
    <2>2. onWire' \in Seq(Frames \cup {NoFrame})
      BY <1>3, <2>1, AppendProperties DEF DeviceTransmits, HistoryOK
    <2> QED
      BY <1>0, <1>3, <2>2 DEF DeviceTransmits, TypeOK, HistoryOK, rx
  <1>4. CASE recv_take
    BY <1>0, <1>4 DEF recv_take, TypeOK, HistoryOK, tx
  <1>5. CASE recv_copy
    <2>1. Returned(rx_buffers[desc_idx]) \in Frames \cup {NoFrame}
      BY DEF TypeOK, Returned
    <2>2. delivered' \in Seq(Frames \cup {NoFrame})
      BY <1>5, <2>1, AppendProperties DEF recv_copy, HistoryOK
    <2> QED
      BY <1>5, <2>2 DEF recv_copy, TypeOK, HistoryOK, tx
  <1>6. CASE recv_offer
    BY <1>0, <1>6 DEF recv_offer, TypeOK, HistoryOK, tx
  <1>7. CASE recv_publish
    BY <1>0, <1>7 DEF recv_publish, TypeOK, HistoryOK, tx
  <1>8. ASSUME NEW f \in Frames, send_fill(f) PROVE TypeOK' /\ HistoryOK'
    <2>1. sent' \in Seq(Frames)
      BY <1>8, AppendProperties DEF send_fill, HistoryOK
    <2>2. tx_free_idx' \in Buffers
      <3>1. tx_free_idx + 1 \in Int /\ QUEUE_SIZE \in Nat /\ QUEUE_SIZE > 0
        BY Sizes DEF TypeOK, Buffers
      <3> QED
        BY <1>8, <3>1, Remainder DEF send_fill, Buffers
    <2>3. overrun' \in BOOLEAN
      BY <1>8 DEF send_fill, TypeOK
    <2>4. tx_buffers' \in [Buffers -> Frames \cup {NoFrame}] /\ tx_avail' \in [RingSlots -> Buffers]
      BY <1>0, <1>8 DEF send_fill, TypeOK
    <2> QED
      BY <1>8, <2>1, <2>2, <2>3, <2>4 DEF send_fill, TypeOK, HistoryOK, rx
  <1>9. CASE send_publish
    BY <1>0, <1>9 DEF send_publish, TypeOK, HistoryOK, rx
  <1>10. CASE wifi_driver_init
    <2>1. /\ rx_avail' \in [RingSlots -> Buffers] /\ rx_used' \in [RingSlots -> Buffers]
          /\ tx_avail' \in [RingSlots -> Buffers]
      BY <1>0, <1>10 DEF wifi_driver_init
    <2>2. overrun' \in BOOLEAN
      BY <1>10 DEF wifi_driver_init
    <2>3. HistoryOK'
      BY <1>10, EmptySeq DEF wifi_driver_init, HistoryOK
    <2> QED
      BY <1>0, <1>10, <2>1, <2>2, <2>3 DEF wifi_driver_init, TypeOK
  <1>11. CASE UNCHANGED vars
    BY <1>11 DEF vars, rx, tx, TypeOK, HistoryOK
  <1> QED
    BY <1>1, <1>2, <1>3, <1>4, <1>5, <1>6, <1>7, <1>8, <1>9, <1>10, <1>11
    DEF Next, Device, wifi_recv, wifi_send

-----------------------------------------------------------------------------
(* What each step does to the rings, entry by entry.                       *)

(* The device takes the first buffer offered and puts it behind the filled *)
(* ones.                                                                   *)
LEMMA FillEffect ==
    ASSUME TypeOK, HistoryOK, RingInv, NEW f, DeviceFills(f)
    PROVE  /\ starts > 0 /\ NO > 0 /\ NO' = NO - 1 /\ NF' = NF + 1 /\ NT' = NT /\ NC' = NC
           /\ \A k \in Nat : OfferedAt(k)' = OfferedAt(k + 1)
           /\ \A k \in 0..NF : FilledAt(k)' = IF k = NF THEN OfferedAt(0) ELSE FilledAt(k)
           /\ rx_buffers' = [rx_buffers EXCEPT ![OfferedAt(0)] = f]
  <1>0. /\ dev_rx \in Indices /\ rx_avail_idx \in Indices /\ rx_last_used \in Indices
        /\ rx_used_idx \in Indices /\ NO \in Nat /\ NF \in Nat /\ NT \in Nat /\ starts \in Nat
    BY Counts DEF TypeOK, HistoryOK
  <1>1. NO > 0 /\ NO' = NO - 1
    BY <1>0, DistanceSteps DEF DeviceFills, NO
  <1>2. NF' = NF + 1 /\ NF = Distance(rx_last_used, rx_used_idx)
    <2>1. Distance(rx_last_used, rx_used_idx) \in Nat
      BY <1>0, DistanceValue, Sizes
    <2> QED
      BY <2>1 DEF DeviceFills, NF
  <1>3. starts > 0 /\ NF < RingSize
    BY <1>0, <1>1, Sizes DEF RingInv
  <1>4. \A k \in Nat : OfferedAt(k)' = OfferedAt(k + 1)
    BY <1>0, AtInc DEF DeviceFills, OfferedAt
  <1>5. dev_rx % RingSize = At(dev_rx, 0)
    BY <1>0, Sizes DEF At, Indices
  <1>6. rx_used_idx % RingSize = At(rx_last_used, NF)
    BY <1>0, <1>2, AtEnd
  <1>7. ASSUME NEW k \in 0..NF
        PROVE  FilledAt(k)' = IF k = NF THEN OfferedAt(0) ELSE FilledAt(k)
    <2>1. FilledAt(k)' = rx_used'[At(rx_last_used, k)] /\ k \in Nat
      BY <1>0 DEF DeviceFills, FilledAt
    <2>2. rx_used' = [rx_used EXCEPT ![At(rx_last_used, NF)] = OfferedAt(0)]
      BY <1>5, <1>6 DEF DeviceFills, OfferedAt
    <2>3. At(rx_last_used, k) \in RingSlots
      BY <1>0, <2>1, AtType
    <2>4. k # NF => At(rx_last_used, k) # At(rx_last_used, NF)
      <3> SUFFICES ASSUME k # NF PROVE At(rx_last_used, k) # At(rx_last_used, NF)
        OBVIOUS
      <3>1. k < NF /\ NF < k + RingSize
        BY <1>0, <1>3, Sizes
      <3> QED
        BY <1>0, <2>1, <3>1, AtDistinct
    <2> QED
      BY <2>1, <2>2, <2>3, <2>4 DEF FilledAt, TypeOK
  <1>8. rx_buffers' = [rx_buffers EXCEPT ![OfferedAt(0)] = f] /\ NT' = NT /\ NC' = NC
    BY <1>5 DEF DeviceFills, OfferedAt, NT, NC
  <1> QED
    BY <1>1, <1>2, <1>3, <1>4, <1>7, <1>8

(* Publishing a filled buffer moves none.                                  *)
LEMMA PublishEffect ==
    ASSUME TypeOK, HistoryOK, RingInv, DevicePublishes
    PROVE  /\ NO' = NO /\ NF' = NF /\ NT' = NT /\ NC' = NC
           /\ \A k : OfferedAt(k)' = OfferedAt(k) /\ FilledAt(k)' = FilledAt(k)
  <1>0. /\ rx_last_used \in Indices /\ rx_used_idx \in Indices
        /\ NO \in Nat /\ NF \in Nat /\ NT \in Nat
    BY Counts DEF TypeOK
  <1> DEFINE d == Distance(rx_last_used, rx_used_idx)
  <1>1. d \in Nat /\ NF = d + 1
    BY <1>0, DistanceValue, Sizes DEF DevicePublishes, NF
  <1>2. d + 1 < IndexSpace
    BY <1>0, <1>1, Sizes DEF RingInv
  <1>3. Distance(rx_last_used, Inc(rx_used_idx)) = d + 1
    BY <1>0, <1>2, DistanceSteps
  <1>4. NF' = NF
    BY <1>1, <1>3 DEF DevicePublishes, NF
  <1> QED
    BY <1>4 DEF DevicePublishes, NO, NT, NC, OfferedAt, FilledAt

(* wifi_recv takes the first buffer filled.                                *)
LEMMA TakeEffect ==
    ASSUME TypeOK, HistoryOK, RingInv, recv_take
    PROVE  /\ NO' = NO /\ NF > 0 /\ NF' = NF - 1 /\ NT = 0 /\ NT' = 1 /\ NC = 0 /\ NC' = 1
           /\ \A k : OfferedAt(k)' = OfferedAt(k)
           /\ \A k \in Nat : FilledAt(k)' = FilledAt(k + 1)
           /\ desc_idx' = FilledAt(0)
  <1>0. rx_last_used \in Indices /\ rx_used_idx \in Indices
    BY DEF TypeOK
  <1> DEFINE d == Distance(rx_last_used, rx_used_idx)
  <1>1. d \in Nat /\ d > 0 /\ Distance(Inc(rx_last_used), rx_used_idx) = d - 1
    BY <1>0, DistanceValue, DistanceSteps, Sizes DEF recv_take
  <1>2. NF > 0 /\ NF' = NF - 1
    BY <1>1 DEF recv_take, NF
  <1>3. \A k \in Nat : FilledAt(k)' = FilledAt(k + 1)
    BY <1>0, AtInc DEF recv_take, FilledAt
  <1>4. desc_idx' = FilledAt(0)
    <2>1. rx_last_used % RingSize = At(rx_last_used, 0)
      BY <1>0, Sizes DEF At, Indices
    <2> QED
      BY <2>1 DEF recv_take, FilledAt
  <1>5. NO' = NO /\ NT = 0 /\ NT' = 1 /\ NC = 0 /\ NC' = 1 /\ \A k : OfferedAt(k)' = OfferedAt(k)
    BY DEF recv_take, DriverIdle, NO, NT, NC, OfferedAt
  <1> QED
    BY <1>2, <1>3, <1>4, <1>5

(* wifi_recv writes the ring entry behind the buffers offered.             *)
LEMMA OfferEffect ==
    ASSUME TypeOK, HistoryOK, RingInv, recv_offer
    PROVE  /\ NO' = NO /\ NF' = NF /\ NT' = NT /\ NC' = NC
           /\ \A k \in 0..(NO - 1) : OfferedAt(k)' = OfferedAt(k)
           /\ \A k : FilledAt(k)' = FilledAt(k)
           /\ rx_avail'[rx_avail_idx' % RingSize] = desc_idx'
  <1>0. /\ dev_rx \in Indices /\ rx_avail_idx \in Indices
        /\ NO \in Nat /\ NF \in Nat /\ NT = 1 /\ starts \in Nat
    BY Counts DEF TypeOK, HistoryOK, recv_offer, NT
  <1>1. NO < RingSize
    BY <1>0, Sizes DEF RingInv
  <1>2. rx_avail_idx % RingSize = At(dev_rx, NO)
    BY <1>0, AtEnd DEF NO
  <1>3. rx_avail' = [rx_avail EXCEPT ![At(dev_rx, NO)] = desc_idx] /\ dev_rx' = dev_rx
        /\ rx_avail_idx' = rx_avail_idx /\ desc_idx' = desc_idx
    BY <1>2 DEF recv_offer
  <1>4. ASSUME NEW k \in 0..(NO - 1) PROVE OfferedAt(k)' = OfferedAt(k)
    <2>1. k \in Nat /\ k < NO /\ NO < k + RingSize
      BY <1>0, <1>1, Sizes
    <2>2. At(dev_rx, k) \in RingSlots /\ At(dev_rx, k) # At(dev_rx, NO)
      BY <1>0, <2>1, AtType, AtDistinct
    <2> QED
      BY <1>3, <2>2 DEF OfferedAt, TypeOK
  <1>5. rx_avail'[rx_avail_idx' % RingSize] = desc_idx'
    <2>1. At(dev_rx, NO) \in RingSlots
      BY <1>0, AtType
    <2> QED
      BY <1>2, <1>3, <2>1 DEF TypeOK
  <1>6. NO' = NO /\ NF' = NF /\ NT' = NT /\ NC' = NC /\ \A k : FilledAt(k)' = FilledAt(k)
    BY DEF recv_offer, NO, NF, NT, NC, FilledAt
  <1> QED
    BY <1>4, <1>5, <1>6

(* wifi_recv gives the buffer back.                                        *)
LEMMA ReturnEffect ==
    ASSUME TypeOK, HistoryOK, RingInv, recv_publish
    PROVE  /\ NO' = NO + 1 /\ NF' = NF /\ NT = 1 /\ NT' = 0 /\ NC = 0 /\ NC' = 0
           /\ \A k : OfferedAt(k)' = OfferedAt(k) /\ FilledAt(k)' = FilledAt(k)
           /\ OfferedAt(NO) = desc_idx
  <1>0. /\ dev_rx \in Indices /\ rx_avail_idx \in Indices
        /\ NO \in Nat /\ NF \in Nat /\ NT = 1 /\ starts \in Nat
    BY Counts DEF TypeOK, HistoryOK, recv_publish, NT
  <1>1. NO + 1 < IndexSpace
    BY <1>0, Sizes DEF RingInv
  <1>2. Distance(dev_rx, Inc(rx_avail_idx)) = NO + 1
    BY <1>0, <1>1, DistanceSteps DEF NO
  <1>3. NO' = NO + 1
    BY <1>2 DEF recv_publish, NO
  <1>4. OfferedAt(NO) = desc_idx
    <2>1. rx_avail_idx % RingSize = At(dev_rx, NO)
      BY <1>0, AtEnd DEF NO
    <2> QED
      BY <2>1 DEF OfferedAt, RingInv, recv_publish
  <1> QED
    BY <1>0, <1>3, <1>4 DEF recv_publish, NF, NT, NC, OfferedAt, FilledAt

(* A start offers every buffer.                                            *)
LEMMA StartEffect ==
    ASSUME TypeOK, HistoryOK, wifi_driver_init
    PROVE  /\ starts' > 0 /\ NO' = QUEUE_SIZE /\ NF' = 0 /\ NT' = 0 /\ NC' = 0 /\ NP' = 0
           /\ \A k \in 0..(QUEUE_SIZE - 1) : OfferedAt(k)' = k
  <1>1. 0 \in Indices /\ QUEUE_SIZE \in Indices /\ starts' > 0
    BY Sizes DEF Indices, wifi_driver_init, HistoryOK
  <1>2. Distance(0, QUEUE_SIZE) = QUEUE_SIZE /\ Distance(0, 0) = 0
    BY <1>1, DistanceValue, Sizes
  <1>3. NO' = QUEUE_SIZE /\ NF' = 0 /\ NT' = 0 /\ NC' = 0 /\ NP' = 0
    BY <1>2 DEF wifi_driver_init, DriverIdle, NO, NF, NT, NC, NP
  <1>4. ASSUME NEW k \in 0..(QUEUE_SIZE - 1) PROVE OfferedAt(k)' = k
    <2>1. k \in Int /\ 0 <= k /\ k < RingSize /\ RingSize \in Nat /\ RingSize > 0
      BY Sizes
    <2>2. At(0, k) = k
      <3>1. 0 + k = k
        BY <2>1
      <3> QED
        BY <2>1, <3>1, Remainder DEF At
    <2>3. k \in RingSlots /\ k \in Buffers
      BY <2>1, Sizes DEF RingSlots, Buffers
    <2> QED
      BY <2>2, <2>3 DEF wifi_driver_init, OfferedAt
  <1> QED
    BY <1>1, <1>3, <1>4

-----------------------------------------------------------------------------
(* One owner for each buffer.                                              *)

(* The buffers in the order of the property: offered, filled, taken.       *)
Own(k) ==
    IF k <= NO THEN OfferedAt(k - 1)
    ELSE IF k <= NO + NF THEN FilledAt(k - NO - 1) ELSE desc_idx

(* As many owners as buffers, and an owner for each: no buffer has two.    *)
LEMMA Exclusive ==
    ASSUME TypeOK, HistoryOK, RingInv, starts > 0
    PROVE  /\ \A k \in 1..QUEUE_SIZE : Own(k) \in Buffers
           /\ \A b \in Buffers : \E k \in 1..QUEUE_SIZE : Own(k) = b
           /\ \A j, k \in 1..QUEUE_SIZE : Own(j) = Own(k) => j = k
  <1>0. NO \in Nat /\ NF \in Nat /\ NT \in {0, 1} /\ NO + NF + NT = QUEUE_SIZE /\ QUEUE_SIZE \in Nat
    BY Counts, Sizes DEF RingInv
  <1>1. \A k \in Nat : OfferedAt(k) \in Buffers /\ FilledAt(k) \in Buffers
    BY AtType DEF TypeOK, OfferedAt, FilledAt
  <1>2. ASSUME NEW k \in 1..QUEUE_SIZE PROVE Own(k) \in Buffers
    <2>1. /\ k <= NO => k - 1 \in Nat
          /\ ~(k <= NO) => k - NO - 1 \in Nat
      BY <1>0
    <2> QED
      BY <1>1, <2>1 DEF Own, TypeOK
  <1>3. ASSUME NEW b \in Buffers PROVE \E k \in 1..QUEUE_SIZE : Own(k) = b
    <2>1. ASSUME NEW k \in 0..(NO - 1), OfferedAt(k) = b PROVE \E m \in 1..QUEUE_SIZE : Own(m) = b
      <3>1. k + 1 \in 1..QUEUE_SIZE /\ k + 1 <= NO /\ (k + 1) - 1 = k
        BY <1>0
      <3> QED
        BY <2>1, <3>1 DEF Own
    <2>2. ASSUME NEW k \in 0..(NF - 1), FilledAt(k) = b PROVE \E m \in 1..QUEUE_SIZE : Own(m) = b
      <3>1. /\ NO + k + 1 \in 1..QUEUE_SIZE /\ ~(NO + k + 1 <= NO) /\ NO + k + 1 <= NO + NF
            /\ (NO + k + 1) - NO - 1 = k
        BY <1>0
      <3> QED
        BY <2>2, <3>1 DEF Own
    <2>3. ASSUME rx_pc # "idle", desc_idx = b PROVE \E m \in 1..QUEUE_SIZE : Own(m) = b
      <3>1. NT = 1
        BY <2>3 DEF NT
      <3>2. QUEUE_SIZE \in 1..QUEUE_SIZE /\ ~(QUEUE_SIZE <= NO) /\ ~(QUEUE_SIZE <= NO + NF)
        BY <1>0, <3>1
      <3> QED
        BY <2>3, <3>2 DEF Own
    <2> QED
      BY <2>1, <2>2, <2>3 DEF RingInv
  <1> DEFINE own == [k \in 1..QUEUE_SIZE |-> Own(k)]
  <1>4. own \in Surjection(1..QUEUE_SIZE, Buffers)
    BY <1>2, <1>3 DEF Surjection
  <1>5. IsFiniteSet(1..QUEUE_SIZE) /\ Cardinality(1..QUEUE_SIZE) = QUEUE_SIZE
    <2>1. 1 \in Int /\ QUEUE_SIZE \in Int
      BY <1>0
    <2> QED
      BY <1>0, <2>1, FS_Interval
  <1>6. Cardinality(Buffers) = QUEUE_SIZE
    <2>1. 0 \in Int /\ QUEUE_SIZE - 1 \in Int
      BY <1>0
    <2>2. Cardinality(0..(QUEUE_SIZE - 1)) =
            IF 0 > QUEUE_SIZE - 1 THEN 0 ELSE (QUEUE_SIZE - 1) - 0 + 1
      BY <2>1, FS_Interval
    <2> QED
      BY <1>0, <2>2, Sizes DEF Buffers
  <1>7. own \in Injection(1..QUEUE_SIZE, Buffers)
    BY <1>4, <1>5, <1>6, FS_Surjection
  <1>8. \A j, k \in 1..QUEUE_SIZE : own[j] = own[k] => j = k
    BY <1>7 DEF Injection, IsInjective
  <1> QED
    BY <1>2, <1>3, <1>8

(* The buffer the device fills next is not filled and not being read.      *)
LEMMA FillsFree ==
    ASSUME TypeOK, HistoryOK, RingInv, starts > 0, NO > 0
    PROVE  /\ \A k \in 0..(NF - 1) : FilledAt(k) # OfferedAt(0)
           /\ rx_pc # "idle" => desc_idx # OfferedAt(0)
  <1>0. NO \in Nat /\ NF \in Nat /\ NT \in {0, 1} /\ NO + NF + NT = QUEUE_SIZE /\ QUEUE_SIZE \in Nat
    BY Counts, Sizes DEF RingInv
  <1>1. 1 \in 1..QUEUE_SIZE /\ Own(1) = OfferedAt(0)
    BY <1>0 DEF Own
  <1>2. ASSUME NEW k \in 0..(NF - 1) PROVE FilledAt(k) # OfferedAt(0)
    <2>1. /\ NO + k + 1 \in 1..QUEUE_SIZE /\ ~(NO + k + 1 <= NO) /\ NO + k + 1 <= NO + NF
          /\ (NO + k + 1) - NO - 1 = k /\ NO + k + 1 # 1
      BY <1>0
    <2>2. Own(NO + k + 1) = FilledAt(k)
      BY <2>1 DEF Own
    <2> QED
      BY <1>1, <2>1, <2>2, Exclusive
  <1>3. ASSUME rx_pc # "idle" PROVE desc_idx # OfferedAt(0)
    <2>1. NT = 1
      BY <1>3 DEF NT
    <2>2. /\ QUEUE_SIZE \in 1..QUEUE_SIZE /\ ~(QUEUE_SIZE <= NO) /\ ~(QUEUE_SIZE <= NO + NF)
          /\ QUEUE_SIZE # 1
      BY <1>0, <2>1
    <2>3. Own(QUEUE_SIZE) = desc_idx
      BY <2>2 DEF Own
    <2> QED
      BY <1>1, <2>2, <2>3, Exclusive
  <1> QED
    BY <1>2, <1>3

(* Steps of the transmit side leave the receive queue alone.               *)
LEMMA OtherSteps ==
    ASSUME UNCHANGED <<rx, starts>>, RingInv, QueueInv
    PROVE  RingInv' /\ QueueInv'
  BY DEF rx, RingInv, QueueInv, NO, NF, NT, NC, OfferedAt, FilledAt

(* Every step of the receive queue hands a buffer on to one new owner.     *)
LEMMA RingStep ==
    ASSUME TypeOK, HistoryOK, RingInv,
           \/ \E f \in Frames \cup {Empty} : DeviceFills(f)
           \/ DevicePublishes
           \/ wifi_recv
           \/ wifi_driver_init
    PROVE  RingInv'
  <1>0. NO \in Nat /\ NF \in Nat /\ NT \in {0, 1} /\ QUEUE_SIZE \in Nat /\ starts \in Nat
    BY Counts, Sizes DEF HistoryOK
  <1>1. ASSUME NEW f, DeviceFills(f) PROVE RingInv'
    <2>1. /\ starts > 0 /\ NO > 0 /\ NO' = NO - 1 /\ NF' = NF + 1 /\ NT' = NT
          /\ \A k \in Nat : OfferedAt(k)' = OfferedAt(k + 1)
          /\ \A k \in 0..NF : FilledAt(k)' = IF k = NF THEN OfferedAt(0) ELSE FilledAt(k)
      BY <1>1, FillEffect
    <2>2. starts' = starts /\ rx_pc' = rx_pc /\ desc_idx' = desc_idx /\ rx_avail' = rx_avail
          /\ rx_avail_idx' = rx_avail_idx
      BY <1>1 DEF DeviceFills
    <2>3. ASSUME NEW b \in Buffers
          PROVE  \/ \E k \in 0..(NO' - 1) : OfferedAt(k)' = b
                 \/ \E k \in 0..(NF' - 1) : FilledAt(k)' = b
                 \/ rx_pc' # "idle" /\ desc_idx' = b
      <3>1. ASSUME NEW k \in 0..(NO - 1), OfferedAt(k) = b
            PROVE  \/ \E m \in 0..(NO' - 1) : OfferedAt(m)' = b
                   \/ \E m \in 0..(NF' - 1) : FilledAt(m)' = b
        <4>1. CASE k = 0
          <5>1. NF \in 0..NF /\ NF \in 0..(NF' - 1)
            BY <1>0, <2>1
          <5>2. \E m \in 0..(NF' - 1) : m = NF /\ FilledAt(m)' = b
            BY <2>1, <3>1, <4>1, <5>1
          <5> QED
            BY <5>2
        <4>2. CASE k # 0
          <5>1. k - 1 \in 0..(NO' - 1) /\ k - 1 \in Nat /\ (k - 1) + 1 = k
            BY <1>0, <2>1, <4>2
          <5> QED
            BY <2>1, <3>1, <5>1
        <4> QED
          BY <4>1, <4>2
      <3>2. ASSUME NEW k \in 0..(NF - 1), FilledAt(k) = b
            PROVE  \E m \in 0..(NF' - 1) : FilledAt(m)' = b
        <4>1. k \in 0..(NF' - 1) /\ k \in 0..NF /\ k # NF
          BY <1>0, <2>1
        <4> QED
          BY <2>1, <3>2, <4>1
      <3> QED
        BY <2>1, <2>2, <3>1, <3>2 DEF RingInv
    <2>4. NO' + NF' + NT' = QUEUE_SIZE
      BY <1>0, <2>1 DEF RingInv
    <2> QED
      BY <2>1, <2>2, <2>3, <2>4 DEF RingInv
  <1>2. CASE DevicePublishes
    <2>1. starts' = starts /\ rx_pc' = rx_pc /\ desc_idx' = desc_idx /\ rx_avail' = rx_avail
          /\ rx_avail_idx' = rx_avail_idx
      BY <1>2 DEF DevicePublishes
    <2> QED
      BY <1>2, <2>1, PublishEffect DEF RingInv
  <1>3. CASE recv_take
    <2>1. starts' = starts /\ rx_pc' = "copy"
      BY <1>3 DEF recv_take
    <2>2. /\ NO' = NO /\ NF > 0 /\ NF' = NF - 1 /\ NT = 0 /\ NT' = 1
          /\ \A k : OfferedAt(k)' = OfferedAt(k)
          /\ \A k \in Nat : FilledAt(k)' = FilledAt(k + 1)
          /\ desc_idx' = FilledAt(0)
      BY <1>3, TakeEffect
    <2>3. ASSUME NEW k \in 0..(NF - 1)
          PROVE  (\E m \in 0..(NF' - 1) : FilledAt(m)' = FilledAt(k)) \/ desc_idx' = FilledAt(k)
      <3>1. k # 0 => k - 1 \in 0..(NF' - 1) /\ k - 1 \in Nat /\ (k - 1) + 1 = k
        BY <1>0, <2>2
      <3> QED
        BY <2>2, <3>1
    <2>4. rx_pc = "idle"
      BY <1>3 DEF recv_take, DriverIdle
    <2>5. NO' + NF' + NT' = NO + NF + NT
      BY <1>0, <2>2
    <2> QED
      BY <2>1, <2>2, <2>3, <2>4, <2>5 DEF RingInv
  <1>4. CASE recv_copy
    BY <1>4 DEF recv_copy, RingInv, NO, NF, NT, OfferedAt, FilledAt
  <1>5. CASE recv_offer
    <2>1. starts' = starts /\ rx_pc # "idle" /\ rx_pc' # "idle" /\ desc_idx' = desc_idx
      BY <1>5 DEF recv_offer
    <2> QED
      BY <1>5, <2>1, OfferEffect DEF RingInv
  <1>6. CASE recv_publish
    <2>1. starts' = starts /\ rx_pc' = "idle" /\ desc_idx' = desc_idx
      BY <1>6 DEF recv_publish
    <2>2. /\ NO' = NO + 1 /\ NF' = NF /\ NT = 1 /\ NT' = 0
          /\ \A k : OfferedAt(k)' = OfferedAt(k) /\ FilledAt(k)' = FilledAt(k)
          /\ OfferedAt(NO) = desc_idx
      BY <1>6, ReturnEffect
    <2>3. \A k \in 0..(NO - 1) : k \in 0..(NO' - 1)
      BY <1>0, <2>2
    <2>4. \E k \in 0..(NO' - 1) : OfferedAt(k)' = desc_idx
      <3>1. NO \in 0..(NO' - 1)
        BY <1>0, <2>2
      <3>2. \E k \in 0..(NO' - 1) : k = NO
        BY <3>1
      <3> QED
        BY <2>2, <3>2
    <2>5. NO' + NF' + NT' = NO + NF + NT
      BY <1>0, <2>2
    <2> QED
      BY <2>1, <2>2, <2>3, <2>4, <2>5 DEF RingInv
  <1>7. CASE wifi_driver_init
    <2>1. /\ starts' > 0 /\ NO' = QUEUE_SIZE /\ NF' = 0 /\ NT' = 0
          /\ \A k \in 0..(QUEUE_SIZE - 1) : OfferedAt(k)' = k
      BY <1>7, StartEffect
    <2>2. rx_pc' = "idle"
      BY <1>7 DEF wifi_driver_init, DriverIdle
    <2>3. \A b \in Buffers : \E k \in 0..(NO' - 1) : OfferedAt(k)' = b
      BY <2>1 DEF Buffers
    <2>4. NO' + NF' + NT' = QUEUE_SIZE
      BY <1>0, <2>1
    <2> QED
      BY <2>1, <2>2, <2>3, <2>4 DEF RingInv
  <1> QED
    BY <1>1, <1>2, <1>3, <1>4, <1>5, <1>6, <1>7 DEF wifi_recv

-----------------------------------------------------------------------------
(* Frames in order.                                                        *)

(* Every step of the receive queue keeps what arrived, in order.           *)
LEMMA QueueStep ==
    ASSUME TypeOK, HistoryOK, RingInv, QueueInv,
           \/ \E f \in Frames \cup {Empty} : DeviceFills(f)
           \/ DevicePublishes
           \/ wifi_recv
           \/ wifi_driver_init
    PROVE  QueueInv'
  <1>0. /\ NO \in Nat /\ NF \in Nat /\ NC \in {0, 1}
        /\ Len(arrived) \in Nat /\ Len(delivered) \in Nat
        /\ Len(arrived) = Len(delivered) + NC + NF
    BY Counts, LenProperties DEF HistoryOK, QueueInv
  <1>1. ASSUME NEW f \in Frames \cup {Empty}, DeviceFills(f) PROVE QueueInv'
    <2>1. /\ starts > 0 /\ NO > 0 /\ NF' = NF + 1 /\ NC' = NC
          /\ \A k \in 0..NF : FilledAt(k)' = IF k = NF THEN OfferedAt(0) ELSE FilledAt(k)
          /\ rx_buffers' = [rx_buffers EXCEPT ![OfferedAt(0)] = f]
      BY <1>1, FillEffect
    <2>2. delivered' = delivered /\ rx_pc' = rx_pc /\ desc_idx' = desc_idx
      BY <1>1 DEF DeviceFills
    <2>3. /\ Len(arrived') = Len(arrived) + 1
          /\ \A k \in 1..Len(arrived) : arrived'[k] = arrived[k]
          /\ arrived'[Len(arrived) + 1] = f
      BY <1>1, AppendProperties DEF DeviceFills, HistoryOK
    <2>4. OfferedAt(0) \in Buffers /\ (\A k \in 0..(NF - 1) : FilledAt(k) \in Buffers)
      <3>1. \A k \in Nat : At(dev_rx, k) \in RingSlots /\ At(rx_last_used, k) \in RingSlots
        BY AtType DEF TypeOK
      <3>2. \A k \in 0..(NF - 1) : k \in Nat
        BY <1>0
      <3> QED
        BY <3>1, <3>2 DEF TypeOK, OfferedAt, FilledAt
    <2>5. /\ \A k \in 0..(NF - 1) : FilledAt(k) # OfferedAt(0)
          /\ rx_pc # "idle" => desc_idx # OfferedAt(0)
      BY <2>1, FillsFree
    <2>6. Len(arrived') = Len(delivered') + NC' + NF'
      BY <1>0, <2>1, <2>2, <2>3
    <2>7. \A k \in 1..Len(delivered') : delivered'[k] = Returned(arrived'[k])
      <3>1. \A k \in 1..Len(delivered) : k \in 1..Len(arrived)
        BY <1>0
      <3> QED
        BY <2>2, <2>3, <3>1 DEF QueueInv
    <2>8. rx_pc' = "copy" => rx_buffers'[desc_idx'] = arrived'[Len(delivered') + 1]
      <3> SUFFICES ASSUME rx_pc = "copy" PROVE rx_buffers'[desc_idx] = arrived'[Len(delivered) + 1]
        BY <2>2
      <3>1. NC = 1
        BY DEF NC
      <3>2. Len(delivered) + 1 \in 1..Len(arrived)
        BY <1>0, <3>1
      <3>3. rx_buffers'[desc_idx] = rx_buffers[desc_idx]
        BY <2>1, <2>5 DEF TypeOK
      <3> QED
        BY <2>3, <3>2, <3>3 DEF QueueInv
    <2>9. ASSUME NEW k \in 0..(NF' - 1)
          PROVE  rx_buffers'[FilledAt(k)'] = arrived'[Len(delivered') + NC' + k + 1]
      <3>1. k \in 0..NF
        BY <1>0, <2>1
      <3>2. CASE k = NF
        <4>1. Len(delivered') + NC' + k + 1 = Len(arrived) + 1
          BY <1>0, <2>1, <2>2, <3>2
        <4> QED
          BY <2>1, <2>3, <2>4, <3>1, <3>2, <4>1 DEF TypeOK
      <3>3. CASE k # NF
        <4>1. k \in 0..(NF - 1) /\ Len(delivered) + NC + k + 1 \in 1..Len(arrived)
          BY <1>0, <3>1, <3>3
        <4>2. rx_buffers'[FilledAt(k)] = rx_buffers[FilledAt(k)]
          BY <2>1, <2>4, <2>5, <4>1 DEF TypeOK
        <4> QED
          BY <2>1, <2>2, <2>3, <3>1, <3>3, <4>1, <4>2 DEF QueueInv
      <3> QED
        BY <3>2, <3>3
    <2> QED
      BY <2>6, <2>7, <2>8, <2>9 DEF QueueInv
  <1>2. CASE DevicePublishes
    <2>1. /\ arrived' = arrived /\ delivered' = delivered /\ rx_pc' = rx_pc /\ desc_idx' = desc_idx
          /\ rx_buffers' = rx_buffers
      BY <1>2 DEF DevicePublishes
    <2> QED
      BY <1>2, <2>1, PublishEffect DEF QueueInv
  <1>3. CASE recv_take
    <2>1. /\ arrived' = arrived /\ delivered' = delivered /\ rx_pc' = "copy"
          /\ rx_buffers' = rx_buffers
      BY <1>3 DEF recv_take
    <2>2. /\ NF > 0 /\ NF' = NF - 1 /\ NC = 0 /\ NC' = 1
          /\ \A k \in Nat : FilledAt(k)' = FilledAt(k + 1)
          /\ desc_idx' = FilledAt(0)
      BY <1>3, TakeEffect
    <2>3. Len(arrived') = Len(delivered') + NC' + NF'
      <3>1. /\ Len(arrived') = Len(arrived) /\ Len(delivered') = Len(delivered)
            /\ Len(arrived) = Len(delivered) + 0 + NF /\ NC' = 1 /\ NF' = NF - 1
        BY <1>0, <2>1, <2>2
      <3> QED
        BY <1>0, <3>1
    <2>4. rx_buffers[FilledAt(0)] = arrived[Len(delivered) + 1]
      <3>1. 0 \in 0..(NF - 1) /\ Len(delivered) + NC + 0 + 1 = Len(delivered) + 1
        BY <1>0, <2>2
      <3> QED
        BY <3>1 DEF QueueInv
    <2>5. ASSUME NEW k \in 0..(NF' - 1)
          PROVE  rx_buffers[FilledAt(k)'] = arrived[Len(delivered) + NC' + k + 1]
      <3>1. k \in Nat /\ k + 1 \in 0..(NF - 1)
            /\ Len(delivered) + NC + (k + 1) + 1 = Len(delivered) + NC' + k + 1
        BY <1>0, <2>2
      <3> QED
        BY <2>2, <3>1 DEF QueueInv
    <2> QED
      BY <2>1, <2>2, <2>3, <2>4, <2>5 DEF QueueInv
  <1>4. CASE recv_copy
    <2>1. /\ arrived' = arrived /\ rx_pc = "copy" /\ rx_pc' = "offer" /\ rx_buffers' = rx_buffers
          /\ NF' = NF /\ \A k : FilledAt(k)' = FilledAt(k)
      BY <1>4 DEF recv_copy, NF, FilledAt
    <2>2. NC = 1 /\ NC' = 0
      BY <2>1 DEF NC
    <2>3. Returned(rx_buffers[desc_idx]) \in Frames \cup {NoFrame}
      BY DEF TypeOK, Returned
    <2>4. /\ Len(delivered') = Len(delivered) + 1
          /\ \A k \in 1..Len(delivered) : delivered'[k] = delivered[k]
          /\ delivered'[Len(delivered) + 1] = Returned(rx_buffers[desc_idx])
      BY <1>4, <2>3, AppendProperties DEF recv_copy, HistoryOK
    <2>5. Len(arrived') = Len(delivered') + NC' + NF'
      <3>1. Len(arrived') = Len(arrived) /\ Len(arrived) = Len(delivered) + 1 + NF
        BY <1>0, <2>1, <2>2
      <3> QED
        BY <1>0, <2>1, <2>2, <2>4, <3>1
    <2>6. ASSUME NEW k \in 1..Len(delivered') PROVE delivered'[k] = Returned(arrived[k])
      <3>1. k \in 1..Len(delivered) \/ k = Len(delivered) + 1
        BY <1>0, <2>4
      <3> QED
        BY <2>1, <2>4, <3>1 DEF QueueInv
    <2>7. ASSUME NEW k \in 0..(NF - 1)
          PROVE  rx_buffers[FilledAt(k)] = arrived[Len(delivered') + NC' + k + 1]
      <3>1. Len(delivered') + NC' + k + 1 = Len(delivered) + NC + k + 1
        BY <1>0, <2>2, <2>4
      <3> QED
        BY <3>1 DEF QueueInv
    <2> QED
      BY <2>1, <2>5, <2>6, <2>7 DEF QueueInv
  <1>5. CASE recv_offer
    <2>1. /\ arrived' = arrived /\ delivered' = delivered /\ rx_pc' # "copy"
          /\ rx_buffers' = rx_buffers
      BY <1>5 DEF recv_offer
    <2> QED
      BY <1>5, <2>1, OfferEffect DEF QueueInv
  <1>6. CASE recv_publish
    <2>1. /\ arrived' = arrived /\ delivered' = delivered /\ rx_pc' # "copy"
          /\ rx_buffers' = rx_buffers
      BY <1>6 DEF recv_publish
    <2> QED
      BY <1>6, <2>1, ReturnEffect DEF QueueInv
  <1>7. CASE wifi_driver_init
    <2>1. NF' = 0 /\ NC' = 0 /\ arrived' = <<>> /\ delivered' = <<>> /\ rx_pc' # "copy"
      BY <1>7, StartEffect DEF wifi_driver_init, DriverIdle
    <2> QED
      BY <2>1 DEF QueueInv
  <1> QED
    BY <1>1, <1>2, <1>3, <1>4, <1>5, <1>6, <1>7 DEF wifi_recv

-----------------------------------------------------------------------------
(* The transmit queue.                                                     *)

(* Buffers are used in turn: the last QUEUE_SIZE sends have used different *)
(* ones.                                                                   *)
LEMMA InTurn ==
    ASSUME NEW f \in Buffers
    PROVE  /\ (f + 1) % QUEUE_SIZE = IF f + 1 = QUEUE_SIZE THEN 0 ELSE f + 1
           /\ \A d \in 1..(QUEUE_SIZE - 1) : Before(f, d) \in Buffers /\ Before(f, d) # f
           /\ Before((f + 1) % QUEUE_SIZE, 1) = f
           /\ \A d \in 1..(QUEUE_SIZE - 1) : Before((f + 1) % QUEUE_SIZE, d + 1) = Before(f, d)
  <1>0. QUEUE_SIZE \in Nat /\ QUEUE_SIZE > 0 /\ f \in Int /\ 0 <= f /\ f < QUEUE_SIZE
    BY Sizes DEF Buffers
  <1> DEFINE n == (f + 1) % QUEUE_SIZE
  <1>1. n = IF f + 1 = QUEUE_SIZE THEN 0 ELSE f + 1
    <2>1. CASE f + 1 = QUEUE_SIZE
      <3>1. QUEUE_SIZE = QUEUE_SIZE * 1 + 0 /\ 0 \in 0..(QUEUE_SIZE - 1) /\ 1 \in Int /\ QUEUE_SIZE \in Int
        BY <1>0
      <3>2. QUEUE_SIZE % QUEUE_SIZE = 0
        BY <1>0, <3>1, RemainderUnique
      <3> QED
        BY <2>1, <3>2
    <2>2. CASE f + 1 # QUEUE_SIZE
      <3>1. f + 1 \in Int /\ 0 <= f + 1 /\ f + 1 < QUEUE_SIZE
        BY <1>0, <2>2
      <3> QED
        BY <1>0, <2>2, <3>1, Remainder
    <2> QED
      BY <2>1, <2>2
  <1> HIDE DEF n
  <1>2. \A d \in 1..(QUEUE_SIZE - 1) : Before(f, d) \in Buffers /\ Before(f, d) # f
    BY <1>0 DEF Before, Buffers
  <1>3. Before(n, 1) = f
    BY <1>0, <1>1 DEF Before
  <1>4. \A d \in 1..(QUEUE_SIZE - 1) : Before(n, d + 1) = Before(f, d)
    BY <1>0, <1>1 DEF Before
  <1> QED
    BY <1>1, <1>2, <1>3, <1>4 DEF n

(* Every step keeps what was sent, unless the queue was overrun.           *)
LEMMA TxStep ==
    ASSUME TypeOK, HistoryOK, TxInv, [Next]_vars
    PROVE  TxInv'
  <1>0. /\ NP \in Nat /\ Len(sent) \in Nat /\ Len(onWire) \in Nat
        /\ dev_tx \in Indices /\ tx_avail_idx \in Indices /\ QUEUE_SIZE \in Nat
        /\ Distance(dev_tx, tx_avail_idx) \in Nat
    <2>1. dev_tx \in Indices /\ tx_avail_idx \in Indices /\ QUEUE_SIZE \in Nat /\ NP \in Nat
      BY Counts, Sizes DEF TypeOK
    <2>2. Distance(dev_tx, tx_avail_idx) \in Nat
      BY <2>1, Sizes, DistanceValue
    <2> QED
      BY <2>1, <2>2, LenProperties DEF HistoryOK
  <1>1. ASSUME UNCHANGED tx PROVE TxInv'
    BY <1>1 DEF tx, TxInv, NP, PendingAt
  <1>2. CASE DeviceTransmits
    <2> SUFFICES ASSUME ~overrun' PROVE TxInv'
      BY DEF TxInv
    <2>1. /\ ~overrun /\ sent' = sent /\ tx_buffers' = tx_buffers /\ tx_avail' = tx_avail
          /\ tx_free_idx' = tx_free_idx /\ tx_pc' = tx_pc /\ tx_avail_idx' = tx_avail_idx
          /\ dev_tx' = Inc(dev_tx)
      BY <1>2 DEF DeviceTransmits
    <2>2. NP > 0 /\ NP' = NP - 1
      <3>1. Distance(dev_tx, tx_avail_idx) > 0
            /\ Distance(Inc(dev_tx), tx_avail_idx) = Distance(dev_tx, tx_avail_idx) - 1
        BY <1>0, <1>2, DistanceSteps DEF DeviceTransmits
      <3> QED
        BY <1>0, <2>1, <3>1 DEF NP
    <2>3. \A k \in Nat : PendingAt(k)' = PendingAt(k + 1)
      BY <1>0, <2>1, AtInc DEF PendingAt
    <2>4. dev_tx % RingSize = At(dev_tx, 0)
      BY <1>0, Sizes DEF At, Indices
    <2>5. tx_buffers[PendingAt(0)] \in Frames \cup {NoFrame}
      <3>1. At(dev_tx, 0) \in RingSlots
        BY <1>0, AtType
      <3> QED
        BY <3>1 DEF PendingAt, TypeOK
    <2>6. /\ Len(onWire') = Len(onWire) + 1
          /\ \A k \in 1..Len(onWire) : onWire'[k] = onWire[k]
          /\ onWire'[Len(onWire) + 1] = tx_buffers[PendingAt(0)]
      BY <1>2, <2>4, <2>5, AppendProperties DEF DeviceTransmits, HistoryOK, PendingAt
    <2>7. tx_buffers[PendingAt(0)] = sent[Len(onWire) + 1]
      <3>1. 0 \in 0..(NP - 1) /\ Len(onWire) + 0 + 1 = Len(onWire) + 1
        BY <1>0, <2>2
      <3> QED
        BY <2>1, <3>1 DEF TxInv
    <2>8. \A k \in 1..Len(onWire') : onWire'[k] = sent[k]
      <3> TAKE k \in 1..Len(onWire')
      <3>1. k \in 1..Len(onWire) \/ k = Len(onWire) + 1
        BY <1>0, <2>6
      <3> QED
        BY <2>1, <2>6, <2>7, <3>1 DEF TxInv
    <2>9. ASSUME NEW k \in 0..(NP' - 1)
          PROVE  /\ PendingAt(k)' = Before(tx_free_idx, NP' - k)
                 /\ tx_buffers[PendingAt(k)'] = sent[Len(onWire') + k + 1]
      <3>1. /\ k \in Nat /\ k + 1 \in 0..(NP - 1) /\ NP' - k = NP - (k + 1)
            /\ Len(onWire') + k + 1 = Len(onWire) + (k + 1) + 1
        BY <1>0, <2>2, <2>6
      <3> QED
        BY <2>1, <2>3, <3>1 DEF TxInv
    <2>10. NP' <= QUEUE_SIZE /\ Len(sent) = Len(onWire') + NP'
      BY <1>0, <2>1, <2>2, <2>6 DEF TxInv
    <2> QED
      BY <2>1, <2>8, <2>9, <2>10 DEF TxInv
  <1>3. ASSUME NEW f \in Frames, send_fill(f) PROVE TxInv'
    <2> SUFFICES ASSUME ~overrun' PROVE TxInv'
      BY DEF TxInv
    <2>1. /\ ~overrun /\ ~(Distance(dev_tx, tx_avail_idx) >= QUEUE_SIZE)
      BY <1>3, Zenon DEF send_fill
    <2>2. /\ onWire' = onWire /\ dev_tx' = dev_tx /\ tx_avail_idx' = tx_avail_idx
          /\ tx_free_idx' = (tx_free_idx + 1) % QUEUE_SIZE
          /\ tx_buffers' = [tx_buffers EXCEPT ![tx_free_idx] = f]
          /\ tx_pc = "idle" /\ tx_pc' = "publish"
          /\ tx_free_idx \in Buffers
      BY <1>3 DEF send_fill, DriverIdle, TypeOK
    <2>3. NP = Distance(dev_tx, tx_avail_idx) /\ NP' = NP + 1 /\ NP < QUEUE_SIZE
      BY <1>0, <2>1, <2>2 DEF NP
    <2>4. tx_avail_idx % RingSize = At(dev_tx, NP)
      BY <1>0, <2>3, AtEnd
    <2>5. tx_avail' = [tx_avail EXCEPT ![At(dev_tx, NP)] = tx_free_idx]
      BY <1>3, <2>4 DEF send_fill
    <2>6. \A k \in 0..NP : PendingAt(k)' = IF k = NP THEN tx_free_idx ELSE PendingAt(k)
      <3> TAKE k \in 0..NP
      <3>1. k \in Nat /\ (k # NP => k < NP /\ NP < k + RingSize)
        BY <1>0, <2>3, Sizes
      <3>2. At(dev_tx, k) \in RingSlots /\ (k # NP => At(dev_tx, k) # At(dev_tx, NP))
        BY <1>0, <3>1, AtType, AtDistinct
      <3> QED
        BY <2>2, <2>5, <3>2 DEF PendingAt, TypeOK
    <2>7. /\ Len(sent') = Len(sent) + 1
          /\ \A k \in 1..Len(sent) : sent'[k] = sent[k]
          /\ sent'[Len(sent) + 1] = f
      BY <1>3, AppendProperties DEF send_fill, HistoryOK
    <2>8. Len(sent) = Len(onWire) + NP /\ \A k \in 1..Len(onWire) : onWire[k] = sent[k]
      BY <2>1 DEF TxInv
    <2>9. \A k \in 1..Len(onWire) : onWire[k] = sent'[k]
      <3>1. \A k \in 1..Len(onWire) : k \in 1..Len(sent)
        BY <1>0, <2>8
      <3> QED
        BY <2>7, <2>8, <3>1
    <2>10. ASSUME NEW k \in 0..(NP' - 1)
           PROVE  /\ PendingAt(k)' = Before(tx_free_idx', NP' - k)
                  /\ tx_buffers'[PendingAt(k)'] = sent'[Len(onWire) + k + 1]
      <3>1. k \in 0..NP
        BY <1>0, <2>3
      <3>2. CASE k = NP
        <4>1. NP' - k = 1 /\ Len(onWire) + k + 1 = Len(sent) + 1
          BY <1>0, <2>3, <2>8, <3>2
        <4> QED
          BY <2>2, <2>6, <2>7, <3>1, <3>2, <4>1, InTurn DEF TypeOK
      <3>3. CASE k # NP
        <4>1. /\ k \in 0..(NP - 1) /\ NP - k \in 1..(QUEUE_SIZE - 1) /\ NP' - k = (NP - k) + 1
              /\ Len(onWire) + k + 1 \in 1..Len(sent)
          BY <1>0, <2>3, <2>8, <3>1, <3>3
        <4>2. /\ PendingAt(k) = Before(tx_free_idx, NP - k)
              /\ tx_buffers[PendingAt(k)] = sent[Len(onWire) + k + 1]
          BY <2>1, <4>1 DEF TxInv
        <4>3. /\ PendingAt(k) \in Buffers /\ PendingAt(k) # tx_free_idx
              /\ PendingAt(k) = Before(tx_free_idx', NP' - k)
          BY <2>2, <4>1, <4>2, InTurn
        <4>4. tx_buffers'[PendingAt(k)] = tx_buffers[PendingAt(k)]
          BY <2>2, <4>3 DEF TypeOK
        <4> QED
          BY <2>6, <2>7, <3>1, <3>3, <4>1, <4>2, <4>3, <4>4
      <3> QED
        BY <3>2, <3>3
    <2>11. NP' <= QUEUE_SIZE /\ Len(sent') = Len(onWire) + NP'
      BY <1>0, <2>3, <2>7, <2>8
    <2> QED
      BY <2>2, <2>9, <2>10, <2>11 DEF TxInv
  <1>4. CASE send_publish
    <2> SUFFICES ASSUME ~overrun' PROVE TxInv'
      BY DEF TxInv
    <2>1. /\ ~overrun /\ sent' = sent /\ onWire' = onWire /\ tx_buffers' = tx_buffers
          /\ tx_avail' = tx_avail /\ tx_free_idx' = tx_free_idx /\ dev_tx' = dev_tx
          /\ tx_avail_idx' = Inc(tx_avail_idx) /\ tx_pc = "publish" /\ tx_pc' = "idle"
      BY <1>4 DEF send_publish
    <2>2. NP = Distance(dev_tx, tx_avail_idx) + 1 /\ NP <= QUEUE_SIZE
      BY <2>1 DEF NP, TxInv
    <2>3. Distance(dev_tx, tx_avail_idx) + 1 < IndexSpace
      BY <1>0, <2>2, Sizes
    <2>4. NP' = NP
      BY <1>0, <2>1, <2>2, <2>3, DistanceSteps DEF NP
    <2>5. \A k : PendingAt(k)' = PendingAt(k)
      BY <2>1 DEF PendingAt
    <2> QED
      BY <2>1, <2>4, <2>5 DEF TxInv
  <1>5. CASE wifi_driver_init
    <2>1. NP' = 0 /\ sent' = <<>> /\ onWire' = <<>>
      BY <1>5, StartEffect DEF wifi_driver_init
    <2> QED
      BY <1>0, <2>1 DEF TxInv
  <1>6. CASE DevicePublishes \/ wifi_recv \/ \E f \in Frames \cup {Empty} : DeviceFills(f)
    BY <1>1, <1>6 DEF DevicePublishes, wifi_recv, recv_take, recv_copy, recv_offer, recv_publish,
                      DeviceFills
  <1>7. CASE UNCHANGED vars
    BY <1>1, <1>7 DEF vars
  <1> QED
    BY <1>2, <1>3, <1>4, <1>5, <1>6, <1>7 DEF Next, Device, wifi_send

-----------------------------------------------------------------------------
(* The inductive invariant.                                                *)
LEMMA InvInit == Init => IInv
  <1> SUFFICES ASSUME Init PROVE IInv
    OBVIOUS
  <1>1. TypeOK /\ HistoryOK
    BY TypeInit
  <1>2. 0 \in Indices /\ QUEUE_SIZE \in Nat
    BY Sizes DEF Indices
  <1>3. Distance(0, 0) = 0
    BY <1>2, DistanceSteps
  <1>4. NO = 0 /\ NF = 0 /\ NT = 0 /\ NC = 0 /\ NP = 0
    BY <1>3 DEF Init, NO, NF, NT, NC, NP
  <1> QED
    BY <1>1, <1>2, <1>4 DEF Init, IInv, RingInv, QueueInv, TxInv

(* Every step preserves it.                                                *)
LEMMA InvStep == IInv /\ [Next]_vars => IInv'
  <1> SUFFICES ASSUME IInv, [Next]_vars PROVE IInv'
    OBVIOUS
  <1>1. TypeOK /\ HistoryOK /\ RingInv /\ QueueInv /\ TypeOK' /\ HistoryOK' /\ TxInv'
    BY TypeStep, TxStep DEF IInv
  <1>2. CASE \/ \E f \in Frames \cup {Empty} : DeviceFills(f)
             \/ DevicePublishes
             \/ wifi_recv
             \/ wifi_driver_init
    BY <1>1, <1>2, RingStep, QueueStep DEF IInv
  <1>3. CASE DeviceTransmits \/ wifi_send \/ UNCHANGED vars
    <2>1. UNCHANGED <<rx, starts>>
      BY <1>3 DEF DeviceTransmits, wifi_send, send_fill, send_publish, vars
    <2> QED
      BY <1>1, <2>1, OtherSteps DEF IInv
  <1> QED
    BY <1>2, <1>3 DEF Next, Device

(* IInv holds in every state.                                              *)
LEMMA InvCorrect == Spec => []IInv
  BY InvInit, InvStep, PTL DEF Spec

(* The entries of a ring, one by one.                                      *)
LEMMA EntryValues ==
    ASSUME NEW ring, NEW i \in Indices, NEW n \in Nat,
           \A k \in Nat : ring[At(i, k)] \in Buffers
    PROVE  /\ Entries(ring, i, n) \in Seq(Buffers) /\ Len(Entries(ring, i, n)) = n
           /\ \A k \in 1..n : Entries(ring, i, n)[k] = ring[At(i, k - 1)]
  <1>1. ASSUME NEW k \in 1..n PROVE (i + k - 1) % RingSize = At(i, k - 1) /\ k - 1 \in Nat
    <2>1. i + k - 1 = i + (k - 1) /\ k - 1 \in Nat
      BY Sizes DEF Indices
    <2> QED
      BY <2>1 DEF At
  <1>2. Entries(ring, i, n) \in [1..n -> Buffers]
    BY <1>1 DEF Entries
  <1>3. \A k \in 1..n : Entries(ring, i, n)[k] = ring[At(i, k - 1)]
    BY <1>1 DEF Entries
  <1> HIDE DEF Entries
  <1>4. Entries(ring, i, n) \in Seq(Buffers) /\ Len(Entries(ring, i, n)) = n
    BY <1>2
  <1> QED
    BY <1>3, <1>4

(* The sequences of offered, filled and taken buffers.                     *)
LEMMA OwnedSequences ==
    ASSUME TypeOK
    PROVE  /\ Offered \in Seq(Buffers) /\ Len(Offered) = NO
           /\ \A k \in 1..NO : Offered[k] = OfferedAt(k - 1)
           /\ Filled \in Seq(Buffers) /\ Len(Filled) = NF
           /\ \A k \in 1..NF : Filled[k] = FilledAt(k - 1)
           /\ Taken \in Seq(Buffers) /\ Len(Taken) = NT
           /\ rx_pc # "idle" => Taken[1] = desc_idx
  <1>1. NO \in Nat /\ NF \in Nat
    BY Counts
  <1>2. \A k \in Nat : rx_avail[At(dev_rx, k)] \in Buffers /\ rx_used[At(rx_last_used, k)] \in Buffers
    BY AtType DEF TypeOK
  <1>3. Offered = Entries(rx_avail, dev_rx, NO) /\ Filled = Entries(rx_used, rx_last_used, NF)
    BY DEF Offered, Filled, NO, NF
  <1>4. /\ Offered \in Seq(Buffers) /\ Len(Offered) = NO
        /\ \A k \in 1..NO : Offered[k] = OfferedAt(k - 1)
    BY <1>1, <1>2, <1>3, EntryValues DEF TypeOK, OfferedAt
  <1>5. /\ Filled \in Seq(Buffers) /\ Len(Filled) = NF
        /\ \A k \in 1..NF : Filled[k] = FilledAt(k - 1)
    BY <1>1, <1>2, <1>3, EntryValues DEF TypeOK, FilledAt
  <1>6. /\ Taken \in Seq(Buffers) /\ Len(Taken) = NT
        /\ rx_pc # "idle" => Taken[1] = desc_idx
    BY DEF Taken, NT, TypeOK
  <1> QED
    BY <1>4, <1>5, <1>6

(* Every receive buffer has exactly one owner, whatever the number of      *)
(* buffers, the ring size and the width of the indices: the device never   *)
(* fills a buffer that wifi_recv reads, and none is lost.                  *)
THEOREM OwnedCorrect == Spec => []OwnedOnce
  <1>1. IInv => OwnedOnce
    <2> SUFFICES ASSUME IInv, starts > 0
                 PROVE  Len(Offered \o Filled \o Taken) = QUEUE_SIZE
                        /\ ToSet(Offered \o Filled \o Taken) = Buffers
      BY DEF IInv, OwnedOnce
    <2> DEFINE owned == Offered \o Filled \o Taken
    <2>0. /\ TypeOK /\ HistoryOK /\ RingInv /\ NO \in Nat /\ NF \in Nat /\ NT \in {0, 1}
          /\ NO + NF + NT = QUEUE_SIZE /\ QUEUE_SIZE \in Nat
      BY Counts, Sizes DEF IInv, RingInv
    <2>1. /\ Offered \in Seq(Buffers) /\ Len(Offered) = NO
          /\ \A k \in 1..NO : Offered[k] = OfferedAt(k - 1)
          /\ Filled \in Seq(Buffers) /\ Len(Filled) = NF
          /\ \A k \in 1..NF : Filled[k] = FilledAt(k - 1)
          /\ Taken \in Seq(Buffers) /\ Len(Taken) = NT
          /\ rx_pc # "idle" => Taken[1] = desc_idx
      BY <2>0, OwnedSequences
    <2>2. /\ Offered \o Filled \in Seq(Buffers) /\ Len(Offered \o Filled) = NO + NF
          /\ \A k \in 1..(NO + NF) :
               (Offered \o Filled)[k] = IF k <= NO THEN Offered[k] ELSE Filled[k - NO]
      BY <2>1, ConcatProperties
    <2>3. /\ owned \in Seq(Buffers) /\ Len(owned) = NO + NF + NT
          /\ \A k \in 1..(NO + NF + NT) :
               owned[k] = IF k <= NO + NF THEN (Offered \o Filled)[k] ELSE Taken[k - (NO + NF)]
      <3> DEFINE o == Offered \o Filled
      <3>1. owned = o \o Taken /\ o \in Seq(Buffers) /\ Len(o) = NO + NF
        BY <2>2
      <3> HIDE DEF o
      <3>2. /\ o \o Taken \in Seq(Buffers) /\ Len(o \o Taken) = Len(o) + Len(Taken)
            /\ \A k \in 1..(Len(o) + Len(Taken)) :
                 (o \o Taken)[k] = IF k <= Len(o) THEN o[k] ELSE Taken[k - Len(o)]
        <4>1. o \in Seq(Buffers) /\ Taken \in Seq(Buffers)
          BY <2>1, <3>1
        <4> QED
          BY <4>1, ConcatProperties
      <3>3. Len(o) + Len(Taken) = NO + NF + NT
        BY <2>0, <2>1, <3>1
      <3> HIDE DEF owned
      <3>4. /\ owned \in Seq(Buffers) /\ Len(owned) = NO + NF + NT
            /\ \A k \in 1..(NO + NF + NT) :
                 owned[k] = IF k <= NO + NF THEN o[k] ELSE Taken[k - (NO + NF)]
        BY <3>1, <3>2, <3>3
      <3> QED
        BY <3>4 DEF o
    <2> HIDE DEF owned
    <2>4. ASSUME NEW k \in 1..QUEUE_SIZE PROVE owned[k] = Own(k)
      <3>1. CASE k <= NO
        <4>1. k \in 1..NO /\ k \in 1..(NO + NF) /\ k \in 1..(NO + NF + NT) /\ k <= NO + NF
          BY <2>0, <3>1
        <4> QED
          BY <2>1, <2>2, <2>3, <3>1, <4>1 DEF Own
      <3>2. CASE ~(k <= NO) /\ k <= NO + NF
        <4>1. k - NO \in 1..NF /\ k \in 1..(NO + NF) /\ k \in 1..(NO + NF + NT)
          BY <2>0, <3>2
        <4> QED
          BY <2>1, <2>2, <2>3, <3>2, <4>1 DEF Own
      <3>3. CASE ~(k <= NO + NF)
        <4>1. k - (NO + NF) = 1 /\ k \in 1..(NO + NF + NT) /\ NT = 1 /\ ~(k <= NO)
          BY <2>0, <3>3
        <4>2. rx_pc # "idle"
          BY <4>1 DEF NT
        <4> QED
          BY <2>1, <2>3, <3>3, <4>1, <4>2 DEF Own
      <3> QED
        BY <3>1, <3>2, <3>3
    <2>5. Len(owned) = QUEUE_SIZE
      BY <2>0, <2>3
    <2>6. ToSet(owned) = {owned[k] : k \in 1..QUEUE_SIZE}
      BY <2>3, <2>5 DEF ToSet
    <2>7. ToSet(owned) = Buffers
      BY <2>0, <2>4, <2>6, Exclusive
    <2> QED
      BY <2>5, <2>7 DEF owned
  <1> QED
    BY <1>1, InvCorrect, PTL

(* wifi_recv returns the frames that arrived since the driver was started, *)
(* each once, in order and intact, however the device and the driver       *)
(* interleave and the indices wrap.                                        *)
THEOREM RxCorrect == Spec => []RxInOrder
  <1>1. IInv => RxInOrder
    <2> SUFFICES ASSUME IInv PROVE RxInOrder
      OBVIOUS
    <2>0. /\ TypeOK /\ HistoryOK /\ QueueInv /\ NF \in Nat /\ NC \in {0, 1}
          /\ Len(arrived) \in Nat /\ Len(delivered) \in Nat
          /\ Len(arrived) = Len(delivered) + NC + NF
      BY Counts, LenProperties DEF IInv, QueueInv, HistoryOK
    <2> DEFINE c == IF rx_pc = "copy" THEN <<desc_idx>> ELSE <<>>
    <2>1. c \in Seq(Buffers) /\ Len(c) = NC /\ (rx_pc = "copy" => c[1] = desc_idx)
      BY <2>0 DEF TypeOK, NC
    <2>2. /\ Filled \in Seq(Buffers) /\ Len(Filled) = NF
          /\ \A k \in 1..NF : Filled[k] = FilledAt(k - 1)
      BY <2>0, OwnedSequences
    <2>3. Waiting = c \o Filled
      BY DEF Waiting
    <2> HIDE DEF c
    <2>4. /\ Waiting \in Seq(Buffers) /\ Len(Waiting) = NC + NF
          /\ \A k \in 1..(NC + NF) : Waiting[k] = IF k <= NC THEN c[k] ELSE Filled[k - NC]
      BY <2>1, <2>2, <2>3, ConcatProperties
    <2>5. ASSUME NEW k \in 1..(NC + NF)
          PROVE  Waiting[k] \in Buffers /\ rx_buffers[Waiting[k]] = arrived[Len(delivered) + k]
      <3>0. Waiting[k] \in Buffers
        BY <2>0, <2>4, ElementOfSeq
      <3>1. CASE k <= NC
        <4>1. k = 1 /\ NC = 1
          BY <2>0, <3>1
        <4>2. rx_pc = "copy"
          BY <4>1 DEF NC
        <4> QED
          BY <2>0, <2>1, <2>4, <3>0, <3>1, <4>1, <4>2 DEF QueueInv
      <3>2. CASE ~(k <= NC)
        <4>1. k - NC \in 1..NF /\ (k - NC) - 1 \in 0..(NF - 1)
              /\ Len(delivered) + NC + ((k - NC) - 1) + 1 = Len(delivered) + k
          BY <2>0, <3>2
        <4>2. Waiting[k] = FilledAt((k - NC) - 1)
          BY <2>2, <2>4, <3>2, <4>1
        <4>3. rx_buffers[FilledAt((k - NC) - 1)] = arrived[Len(delivered) + NC + ((k - NC) - 1) + 1]
          BY <2>0, <4>1 DEF QueueInv
        <4> QED
          BY <3>0, <4>1, <4>2, <4>3
      <3> QED
        BY <3>1, <3>2
    <2> DEFINE R == Frames \cup {NoFrame}
               w == [k \in 1..(NC + NF) |-> Returned(rx_buffers[Waiting[k]])]
               a == [k \in 1..Len(arrived) |-> Returned(arrived[k])]
    <2>6. w \in Seq(R) /\ Len(w) = NC + NF
      <3>1. \A k \in 1..(NC + NF) : Returned(rx_buffers[Waiting[k]]) \in R
        BY <2>0, <2>5 DEF TypeOK, Returned
      <3>2. w \in [1..(NC + NF) -> R]
        BY <3>1
      <3> QED
        BY <2>0, <3>2
    <2>7. a \in Seq(R) /\ Len(a) = Len(arrived)
      <3>1. \A k \in 1..Len(arrived) : arrived[k] \in Frames \cup {Empty}
        BY <2>0, ElementOfSeq DEF HistoryOK
      <3>2. a \in [1..Len(arrived) -> R]
        BY <3>1 DEF Returned
      <3> QED
        BY <2>0, <3>2
    <2>8. \A k \in 1..(NC + NF) : w[k] = Returned(arrived[Len(delivered) + k])
      BY <2>5
    <2>9. \A k \in 1..Len(arrived) : a[k] = Returned(arrived[k])
      OBVIOUS
    <2>10. RxInOrder <=> delivered \o w = a
      BY <2>4 DEF RxInOrder, Inbox
    <2> HIDE DEF w, a
    <2>11. delivered \in Seq(R)
      BY <2>0 DEF HistoryOK
    <2>12. /\ delivered \o w \in Seq(R) /\ Len(delivered \o w) = Len(delivered) + (NC + NF)
           /\ \A k \in 1..(Len(delivered) + (NC + NF)) :
                (delivered \o w)[k] = IF k <= Len(delivered) THEN delivered[k] ELSE w[k - Len(delivered)]
      BY <2>6, <2>11, ConcatProperties
    <2>13. Len(delivered \o w) = Len(a)
      BY <2>0, <2>7, <2>12
    <2>14. ASSUME NEW k \in 1..Len(a) PROVE (delivered \o w)[k] = a[k]
      <3>0. k \in 1..Len(arrived) /\ k \in 1..(Len(delivered) + (NC + NF))
        BY <2>0, <2>7
      <3>1. CASE k <= Len(delivered)
        <4>1. k \in 1..Len(delivered)
          BY <2>0, <3>0, <3>1
        <4> QED
          BY <2>0, <2>9, <2>12, <3>0, <3>1, <4>1 DEF QueueInv
      <3>2. CASE ~(k <= Len(delivered))
        <4>1. k - Len(delivered) \in 1..(NC + NF) /\ Len(delivered) + (k - Len(delivered)) = k
          BY <2>0, <3>0, <3>2
        <4> QED
          BY <2>8, <2>9, <2>12, <3>0, <3>2, <4>1
      <3> QED
        BY <3>1, <3>2
    <2>15. delivered \o w = a
      BY <2>7, <2>12, <2>13, <2>14, SeqEqual
    <2> QED
      BY <2>10, <2>15
  <1> QED
    BY <1>1, InvCorrect, PTL

(* As long as no send met a full queue, the frames given to wifi_send are  *)
(* on the wire or still in their buffers, in order and intact.             *)
THEOREM TxCorrect == Spec => []TxIntact
  <1>1. IInv => TxIntact
    <2> SUFFICES ASSUME IInv, ~overrun PROVE TxIntact
      BY DEF TxIntact
    <2>0. /\ TypeOK /\ HistoryOK /\ TxInv /\ NP \in Nat
          /\ Len(sent) \in Nat /\ Len(onWire) \in Nat /\ Len(sent) = Len(onWire) + NP
      BY Counts, LenProperties DEF IInv, TxInv, HistoryOK
    <2> DEFINE p == Entries(tx_avail, dev_tx, NP)
               w == [k \in 1..Len(p) |-> tx_buffers[p[k]]]
               R == Frames \cup {NoFrame}
    <2>1. /\ p \in Seq(Buffers) /\ Len(p) = NP
          /\ \A k \in 1..NP : p[k] = PendingAt(k - 1)
      <3>1. \A k \in Nat : tx_avail[At(dev_tx, k)] \in Buffers
        BY <2>0, AtType DEF TypeOK
      <3> QED
        BY <2>0, <3>1, EntryValues DEF TypeOK, PendingAt
    <2>2. TxIntact <=> onWire \o w = sent
      BY DEF TxIntact, Outbox, Pending, NP
    <2> HIDE DEF p
    <2>3. \A k \in 1..NP : tx_buffers[p[k]] = sent[Len(onWire) + k]
      <3> TAKE k \in 1..NP
      <3>1. k - 1 \in 0..(NP - 1) /\ Len(onWire) + (k - 1) + 1 = Len(onWire) + k
        BY <2>0
      <3>2. tx_buffers[PendingAt(k - 1)] = sent[Len(onWire) + (k - 1) + 1]
        BY <2>0, <3>1 DEF TxInv
      <3> QED
        BY <2>1, <3>1, <3>2
    <2>4. w \in Seq(R) /\ Len(w) = NP /\ \A k \in 1..NP : w[k] = sent[Len(onWire) + k]
      <3>1. \A k \in 1..NP : tx_buffers[p[k]] \in R
        BY <2>0, <2>1, ElementOfSeq DEF TypeOK
      <3>2. w \in [1..NP -> R]
        BY <2>1, <3>1
      <3>3. \A k \in 1..NP : w[k] = sent[Len(onWire) + k]
        BY <2>1, <2>3
      <3> HIDE DEF w
      <3>4. w \in Seq(R) /\ Len(w) = NP
        BY <2>0, <3>2
      <3> QED
        BY <3>3, <3>4
    <2> HIDE DEF w
    <2>5. onWire \in Seq(R) /\ sent \in Seq(R)
      BY <2>0, SeqMonotonic DEF HistoryOK
    <2>6. /\ onWire \o w \in Seq(R) /\ Len(onWire \o w) = Len(onWire) + NP
          /\ \A k \in 1..(Len(onWire) + NP) :
               (onWire \o w)[k] = IF k <= Len(onWire) THEN onWire[k] ELSE w[k - Len(onWire)]
      BY <2>4, <2>5, ConcatProperties
    <2>7. ASSUME NEW k \in 1..Len(sent) PROVE (onWire \o w)[k] = sent[k]
      <3>1. CASE k <= Len(onWire)
        <4>1. k \in 1..Len(onWire) /\ k \in 1..(Len(onWire) + NP)
          BY <2>0, <3>1
        <4> QED
          BY <2>0, <2>6, <3>1, <4>1 DEF TxInv
      <3>2. CASE ~(k <= Len(onWire))
        <4>1. /\ k - Len(onWire) \in 1..NP /\ k \in 1..(Len(onWire) + NP)
              /\ Len(onWire) + (k - Len(onWire)) = k
          BY <2>0, <3>2
        <4> QED
          BY <2>4, <2>6, <3>2, <4>1
      <3> QED
        BY <3>1, <3>2
    <2>8. onWire \o w = sent
      BY <2>0, <2>5, <2>6, <2>7, SeqEqual
    <2> QED
      BY <2>2, <2>8
  <1> QED
    BY <1>1, InvCorrect, PTL

-----------------------------------------------------------------------------
(* The channel of frames.                                                  *)

Results == Frames \cup {NoFrame}

(* The beginning of two equal sequences can be left out.                   *)
LEMMA SameBehind ==
    ASSUME NEW R, NEW s \in Seq(R), NEW x \in Seq(R), NEW y \in Seq(R), s \o x = s \o y
    PROVE  x = y
  <1>1. Len(s) \in Nat /\ Len(x) \in Nat /\ Len(y) \in Nat
    OBVIOUS
  <1>2. /\ Len(s \o x) = Len(s) + Len(x) /\ Len(s \o y) = Len(s) + Len(y)
        /\ \A k \in 1..(Len(s) + Len(x)) :
             (s \o x)[k] = IF k <= Len(s) THEN s[k] ELSE x[k - Len(s)]
        /\ \A k \in 1..(Len(s) + Len(y)) :
             (s \o y)[k] = IF k <= Len(s) THEN s[k] ELSE y[k - Len(s)]
    BY ConcatProperties
  <1>3. Len(x) = Len(y)
    BY <1>1, <1>2
  <1>4. ASSUME NEW k \in 1..Len(x)
        PROVE  x[k] = y[k]
    <2> DEFINE j == Len(s) + k
    <2>1. j \in 1..(Len(s) + Len(x)) /\ ~(j <= Len(s)) /\ j - Len(s) = k
      BY <1>1
    <2> HIDE DEF j
    <2>2. (s \o x)[j] = x[k] /\ (s \o y)[j] = y[k]
      BY <1>2, <1>3, <2>1
    <2> QED
      BY <2>2
  <1> QED
    BY <1>3, <1>4, SeqEqual

(* An element moved from behind to the end of the first sequence was the   *)
(* first of the second.                                                    *)
LEMMA FirstMoves ==
    ASSUME NEW R, NEW s \in Seq(R), NEW x \in Seq(R), NEW y \in Seq(R), NEW r \in R,
           s \o x = Append(s, r) \o y
    PROVE  x # <<>> /\ Head(x) = r /\ Tail(x) = y
  <1>0. <<r>> \in Seq(R)
    OBVIOUS
  <1>1. <<r>> \in Seq(R) /\ Append(s, r) = s \o <<r>>
    BY <1>0, AppendIsConcat, Zenon
  <1>2. (s \o <<r>>) \o y = s \o (<<r>> \o y)
    BY <1>0, ConcatAssociative, SMTT(30)
  <1>3. <<r>> \o y \in Seq(R)
    BY <1>0, ConcatProperties
  <1> DEFINE z == <<r>> \o y
  <1>4. z # <<>> /\ Head(z) = r /\ Tail(z) = y
    <2>1. Len(z) = 1 + Len(y) /\ Len(y) \in Nat /\ z \in Seq(R)
      BY <1>1, <1>3
    <2>2. \A k \in 1..Len(z) : z[k] = IF k <= 1 THEN <<r>>[k] ELSE y[k - 1]
      BY <1>1, <2>1, ConcatProperties
    <2> HIDE DEF z
    <2>3. z # <<>> /\ 1 \in 1..Len(z)
      BY <2>1
    <2>4. Head(z) = r
      BY <2>1, <2>2, <2>3
    <2>5. Tail(z) \in Seq(R) /\ Len(Tail(z)) = Len(y) /\ \A k \in 1..Len(y) : Tail(z)[k] = z[k + 1]
      BY <2>1, <2>3, HeadTailProperties
    <2>6. ASSUME NEW k \in 1..Len(y)
          PROVE  Tail(z)[k] = y[k]
      <3>1. k + 1 \in 1..Len(z) /\ ~(k + 1 <= 1) /\ (k + 1) - 1 = k
        BY <2>1
      <3> QED
        BY <2>2, <2>5, <3>1
    <2>7. Tail(z) = y
      BY <2>5, <2>6, SeqEqual
    <2> QED
      BY <2>3, <2>4, <2>7
  <1> HIDE DEF z
  <1>5. s \o x = s \o z
    BY <1>1, <1>2 DEF z
  <1>6. x = z
    BY <1>3, <1>5, SameBehind DEF z
  <1> QED
    BY <1>4, <1>6

(* An element that joins the whole joins the second part.                  *)
LEMMA LastJoins ==
    ASSUME NEW R, NEW s \in Seq(R), NEW x \in Seq(R), NEW y \in Seq(R), NEW r \in R,
           s \o y = Append(s \o x, r)
    PROVE  y = Append(x, r)
  <1>1. <<r>> \in Seq(R) /\ s \o x \in Seq(R)
    BY ConcatProperties
  <1>2. Append(s \o x, r) = (s \o x) \o <<r>> /\ Append(x, r) = x \o <<r>>
    BY <1>1, AppendIsConcat, Zenon
  <1>3. (s \o x) \o <<r>> = s \o (x \o <<r>>)
    BY <1>1, ConcatAssociative, SMTT(30)
  <1>4. x \o <<r>> \in Seq(R)
    BY <1>1, ConcatProperties
  <1>5. s \o y = s \o (x \o <<r>>)
    BY <1>2, <1>3, Zenon
  <1>6. y = x \o <<r>>
    BY <1>4, <1>5, SameBehind, Zenon
  <1> QED
    BY <1>2, <1>6, Zenon

(* The last of a sequence that an element has joined is that element.      *)
LEMMA LastIs ==
    ASSUME NEW R, NEW s \in Seq(R), NEW r \in R
    PROVE  LastOf(Append(s, r)) = r
  <1>1. /\ Append(s, r) # <<>> /\ Len(Append(s, r)) = Len(s) + 1
        /\ Append(s, r)[Len(s) + 1] = r
    OBVIOUS
  <1> QED
    BY <1>1 DEF LastOf, Last

(* What the invariants above give for both boxes: their types and lengths. *)
BoxesOK ==
    /\ Inbox \in Seq(Results) /\ Len(Inbox) = NC + NF
    /\ Outbox \in Seq(Results) /\ Len(Outbox) = NP
    /\ ~overrun => NP <= QUEUE_SIZE
    /\ NO + NF + NT = IF starts > 0 THEN QUEUE_SIZE ELSE 0
    /\ TypeOK /\ HistoryOK

(* They follow from the types of the rings.                                *)
LEMMA BoxTypes == IInv => BoxesOK
  <1> SUFFICES ASSUME IInv
               PROVE  BoxesOK
    OBVIOUS
  <1>1. TypeOK /\ HistoryOK /\ NF \in Nat /\ NC \in {0, 1} /\ NP \in Nat
    BY Counts DEF IInv
  <1>2. Filled \in Seq(Buffers) /\ Len(Filled) = NF
    BY <1>1, OwnedSequences
  <1>3. Waiting \in Seq(Buffers) /\ Len(Waiting) = NC + NF
    <2> DEFINE c == IF rx_pc = "copy" THEN <<desc_idx>> ELSE <<>>
    <2>1. c \in Seq(Buffers) /\ Len(c) = NC
      BY <1>1 DEF TypeOK, NC
    <2>2. Waiting = c \o Filled
      BY DEF Waiting
    <2> HIDE DEF c
    <2> QED
      BY <1>2, <2>1, <2>2, ConcatProperties
  <1>4. Inbox \in Seq(Results) /\ Len(Inbox) = NC + NF
    <2>1. \A k \in 1..Len(Waiting) : Returned(rx_buffers[Waiting[k]]) \in Results
      <3> SUFFICES ASSUME NEW k \in 1..Len(Waiting)
                   PROVE  Returned(rx_buffers[Waiting[k]]) \in Results
        OBVIOUS
      <3>1. Waiting[k] \in Buffers
        BY <1>3, ElementOfSeq
      <3> QED
        BY <1>1, <3>1 DEF TypeOK, Returned, Results
    <2>2. Inbox \in [1..Len(Waiting) -> Results]
      BY <2>1 DEF Inbox
    <2> QED
      BY <1>1, <1>3, <2>2
  <1>5. Pending \in Seq(Buffers) /\ Len(Pending) = NP
    <2>1. \A k \in Nat : tx_avail[At(dev_tx, k)] \in Buffers
      BY <1>1, AtType DEF TypeOK
    <2>2. Pending = Entries(tx_avail, dev_tx, NP)
      BY DEF Pending, NP
    <2> QED
      BY <1>1, <2>1, <2>2, EntryValues DEF TypeOK
  <1>6. Outbox \in Seq(Results) /\ Len(Outbox) = NP
    <2>1. \A k \in 1..Len(Pending) : tx_buffers[Pending[k]] \in Results
      <3> SUFFICES ASSUME NEW k \in 1..Len(Pending)
                   PROVE  tx_buffers[Pending[k]] \in Results
        OBVIOUS
      <3>1. Pending[k] \in Buffers
        BY <1>5, ElementOfSeq
      <3> QED
        BY <1>1, <3>1 DEF TypeOK, Results
    <2>2. Outbox \in [1..Len(Pending) -> Results]
      BY <2>1 DEF Outbox
    <2> QED
      BY <1>1, <1>5, <2>2
  <1> QED
    BY <1>1, <1>4, <1>6 DEF BoxesOK, IInv, TxInv, RingInv

(* The types, one step later, and both histories before and after it.      *)
Matches == BoxesOK /\ RxInOrder /\ TxIntact

Came == [k \in 1..Len(arrived) |-> Returned(arrived[k])]

(* A frame that comes in joins what came.                                  *)
LEMMA CameGrows ==
    ASSUME arrived \in Seq(Frames \cup {Empty}), NEW f \in Frames \cup {Empty},
           arrived' = Append(arrived, f)
    PROVE  Came \in Seq(Results) /\ Came' = Append(Came, Returned(f))
  <1> DEFINE n == Len(arrived)
  <1>1. n \in Nat /\ Len(arrived') = n + 1
    OBVIOUS
  <1>2. /\ \A k \in 1..n : arrived'[k] = arrived[k]
        /\ arrived'[n + 1] = f
    OBVIOUS
  <1>3. \A k \in 1..n : Returned(arrived[k]) \in Results
    BY ElementOfSeq DEF Returned, Results
  <1> HIDE DEF n
  <1>4. Came = [k \in 1..n |-> Returned(arrived[k])]
    BY DEF Came, n
  <1>5. Came \in Seq(Results) /\ Len(Came) = n
    <2>1. Came \in [1..n -> Results]
      BY <1>3, <1>4
    <2> QED
      BY <1>1, <2>1
  <1>6. Came' = [k \in 1..(n + 1) |-> Returned(arrived'[k])]
    BY <1>1 DEF Came
  <1> DEFINE b == Append(Came, Returned(f))
             c == Came'
  <1>7. Returned(f) \in Results
    BY DEF Returned, Results
  <1>8. /\ b \in Seq(Results) /\ Len(b) = n + 1 /\ b[n + 1] = Returned(f)
        /\ \A k \in 1..n : b[k] = Came[k]
    <2> HIDE DEF Came
    <2> QED
      BY <1>5, <1>7, AppendProperties
  <1>9. \A k \in 1..(n + 1) : k \in 1..n \/ k = n + 1
    BY <1>1
  <1>10. \A k \in 1..(n + 1) : c[k] = b[k]
    <2> SUFFICES ASSUME NEW k \in 1..(n + 1)
                 PROVE  c[k] = b[k]
      OBVIOUS
    <2>1. c[k] = Returned(arrived'[k])
      BY <1>6
    <2>2. CASE k \in 1..n
      BY <1>2, <1>4, <1>8, <2>1, <2>2
    <2>3. CASE k = n + 1
      BY <1>2, <1>8, <2>1, <2>3
    <2> QED
      BY <1>9, <2>2, <2>3
  <1>11. c \in Seq(Results) /\ Len(c) = n + 1
    <2>1. \A k \in 1..(n + 1) : b[k] \in Results
      BY <1>8, ElementOfSeq
    <2>2. c \in [1..(n + 1) -> Results]
      BY <1>6, <1>10, <2>1
    <2> QED
      BY <1>1, <2>2
  <1>12. c = b
    BY <1>8, <1>10, <1>11, SeqEqual
  <1> QED
    BY <1>5, <1>12

(* Two different indices are some entries apart.                           *)
LEMMA ApartDistance ==
    ASSUME NEW i \in Indices, NEW j \in Indices, i # j
    PROVE  Distance(i, j) # 0
  <1> DEFINE d == Distance(i, j)
  <1>1. d = IF i <= j THEN j - i ELSE j - i + IndexSpace
    BY DistanceValue
  <1> HIDE DEF d
  <1>2. i \in Int /\ j \in Int /\ 0 <= j /\ i < IndexSpace /\ IndexSpace \in Int
    BY Sizes DEF Indices
  <1>3. d # 0
    BY <1>1, <1>2
  <1> QED
    BY <1>3 DEF d

(* A frame the device stores arrives in the inbox.                         *)
LEMMA FillArrives ==
    ASSUME Matches, Matches', NEW f \in Frames \cup {Empty}, DeviceFills(f)
    PROVE  Channel!Arrive(Returned(f))
  <1> USE DEF Matches
  <1>1. /\ arrived \in Seq(Frames \cup {Empty}) /\ delivered \in Seq(Results)
        /\ Inbox \in Seq(Results) /\ Inbox' \in Seq(Results)
    BY DEF BoxesOK, HistoryOK, Results
  <1>2. /\ arrived' = Append(arrived, f)
        /\ UNCHANGED <<delivered, tx_buffers, tx_avail, tx_avail_idx, tx_pc, dev_tx, onWire, overrun>>
    BY DEF DeviceFills, tx
  <1>3. Came' = Append(Came, Returned(f)) /\ Returned(f) \in Results
    BY <1>1, <1>2, CameGrows DEF Returned, Results
  <1>4. delivered \o Inbox = Came /\ delivered \o Inbox' = Came'
    BY <1>2 DEF RxInOrder, Came
  <1>5. Inbox' = Append(Inbox, Returned(f))
    <2>1. delivered \o Inbox' = Append(delivered \o Inbox, Returned(f))
      BY <1>3, <1>4
    <2> QED
      BY <1>1, <1>3, <2>1, LastJoins, Zenon
  <1>6. Len(Inbox) < QUEUE_SIZE
    <2>1. NO \in Nat /\ NO > 0 /\ NF \in Nat /\ NC <= NT /\ NT \in {0, 1} /\ NC \in {0, 1}
      <3>1. NO \in Nat /\ NF \in Nat /\ NT \in {0, 1} /\ NC \in {0, 1}
        BY Counts DEF BoxesOK
      <3>2. NO # 0
        <4>1. dev_rx \in Indices /\ rx_avail_idx \in Indices /\ dev_rx # rx_avail_idx
          BY DEF DeviceFills, BoxesOK, TypeOK
        <4>2. Distance(dev_rx, rx_avail_idx) # 0
          BY <4>1, ApartDistance
        <4> QED
          BY <4>2 DEF NO
      <3>3. NC <= NT
        BY <3>1 DEF NC, NT
      <3> QED
        BY <3>1, <3>2, <3>3
    <2>2. NO + NF + NT = IF starts > 0 THEN QUEUE_SIZE ELSE 0
      BY DEF BoxesOK
    <2>3. NO + NF + NT = QUEUE_SIZE
      BY <2>1, <2>2
    <2>4. Len(Inbox) = NC + NF
      BY DEF BoxesOK
    <2> QED
      BY <2>1, <2>3, <2>4
  <1>7. UNCHANGED Outbox
    BY <1>2 DEF Outbox, Pending, Entries, Distance
  <1>8. UNCHANGED <<LastOf(delivered), IF overrun THEN <<>> ELSE Outbox, LastOf(onWire), overrun>>
    BY <1>2, <1>7 DEF LastOf
  <1> QED
    BY <1>5, <1>6, <1>8 DEF Channel!Arrive

(* The copy of a buffer is the frame that waited longest.                  *)
LEMMA CopyReceives ==
    ASSUME Matches, Matches', recv_copy
    PROVE  Channel!Receive
  <1> USE DEF Matches
  <1> DEFINE r == Returned(rx_buffers[desc_idx])
  <1>1. /\ delivered \in Seq(Results) /\ Inbox \in Seq(Results) /\ Inbox' \in Seq(Results)
        /\ r \in Results
    BY DEF BoxesOK, HistoryOK, TypeOK, Returned, Results
  <1>2. /\ delivered' = Append(delivered, r)
        /\ UNCHANGED <<arrived, tx_buffers, tx_avail, tx_avail_idx, tx_pc, dev_tx, onWire, overrun>>
    BY DEF recv_copy, tx
  <1> HIDE DEF r
  <1>3. delivered \o Inbox = Came /\ delivered' \o Inbox' = Came' /\ Came' = Came
    BY <1>2 DEF RxInOrder, Came
  <1>4. delivered \o Inbox = Append(delivered, r) \o Inbox'
    BY <1>2, <1>3
  <1>5. Inbox # <<>> /\ Head(Inbox) = r /\ Tail(Inbox) = Inbox'
    BY <1>1, <1>4, FirstMoves
  <1>6. LastOf(delivered') = r
    BY <1>1, <1>2, LastIs
  <1>7. UNCHANGED Outbox
    BY <1>2 DEF Outbox, Pending, Entries, Distance
  <1>8. UNCHANGED <<IF overrun THEN <<>> ELSE Outbox, LastOf(onWire), overrun>>
    BY <1>2, <1>7 DEF LastOf
  <1>9. LastOf(delivered)' = r
    BY <1>6 DEF LastOf
  <1> QED
    BY <1>5, <1>8, <1>9 DEF Channel!Receive

(* Steps of the driver and the device that move no frame.                  *)
LEMMA QuietSteps ==
    ASSUME Matches, Matches',
           DevicePublishes \/ recv_take \/ recv_offer \/ recv_publish
    PROVE  UNCHANGED Channel!channel
  <1> USE DEF Matches
  <1>1. UNCHANGED <<arrived, delivered, tx_buffers, tx_avail, tx_avail_idx, tx_pc, dev_tx, onWire,
                    overrun>>
    BY DEF DevicePublishes, recv_take, recv_offer, recv_publish, tx
  <1>2. delivered \in Seq(Results) /\ Inbox \in Seq(Results) /\ Inbox' \in Seq(Results)
    BY DEF BoxesOK, HistoryOK, Results
  <1>3. delivered \o Inbox = Came /\ delivered \o Inbox' = Came' /\ Came' = Came
    BY <1>1 DEF RxInOrder, Came
  <1>4. Inbox' = Inbox
    <2>1. delivered \o Inbox' = delivered \o Inbox
      BY <1>3
    <2> QED
      BY <1>2, <2>1, SameBehind
  <1>5. UNCHANGED Outbox
    BY <1>1 DEF Outbox, Pending, Entries, Distance
  <1> QED
    BY <1>1, <1>4, <1>5 DEF Channel!channel, LastOf

(* The receive side is not touched by the transmit side.                   *)
LEMMA InboxKept ==
    ASSUME UNCHANGED rx
    PROVE  UNCHANGED <<Inbox, LastOf(delivered)>>
  <1>1. UNCHANGED <<rx_buffers, rx_used, rx_used_idx, rx_last_used, rx_pc, desc_idx, dev_pc,
                    delivered>>
    BY DEF rx
  <1>2. UNCHANGED Filled
    BY <1>1 DEF Filled, Entries, Distance
  <1>3. UNCHANGED Waiting
    BY <1>1, <1>2 DEF Waiting
  <1>4. UNCHANGED Inbox
    BY <1>1, <1>3 DEF Inbox
  <1> QED
    BY <1>1, <1>4 DEF LastOf

(* A frame given to wifi_send joins the outbox, or finds it full and       *)
(* breaks it; once it is broken nothing changes any more.                  *)
LEMMA FillSends ==
    ASSUME Matches, Matches', NEW f \in Frames, send_fill(f)
    PROVE  Channel!Send(f) \/ UNCHANGED Channel!channel
  <1> USE DEF Matches
  <1>1. /\ tx_pc = "idle" /\ sent' = Append(sent, f)
        /\ overrun' = (overrun \/ Distance(dev_tx, tx_avail_idx) >= QUEUE_SIZE)
        /\ UNCHANGED rx /\ UNCHANGED onWire
    BY DEF send_fill, DriverIdle
  <1>2. UNCHANGED <<Inbox, LastOf(delivered), LastOf(onWire)>>
    BY <1>1, InboxKept DEF LastOf
  <1>3. CASE overrun
    <2>1. overrun' = overrun
      BY <1>1, <1>3 DEF BoxesOK, TypeOK
    <2> QED
      BY <1>2, <1>3, <2>1 DEF Channel!channel
  <1>4. CASE ~overrun
    <2> DEFINE d == Distance(dev_tx, tx_avail_idx)
    <2>1. Len(Outbox) = NP /\ NP = d /\ NP \in Nat /\ NP <= QUEUE_SIZE
      <3>1. NP \in Nat
        BY Counts DEF BoxesOK
      <3>2. Len(Outbox) = NP /\ NP <= QUEUE_SIZE
        BY <1>4 DEF BoxesOK
      <3>3. d \in 0..(IndexSpace - 1)
        BY DistanceValue DEF BoxesOK, TypeOK
      <3>4. NP = d + 0
        BY <1>1 DEF NP
      <3> HIDE DEF d
      <3>5. d \in Int
        BY <3>3
      <3> QED
        BY <3>1, <3>2, <3>4, <3>5
    <2>2. overrun' = (d >= QUEUE_SIZE)
      BY <1>1, <1>4
    <2> HIDE DEF d
    <2>3. (d >= QUEUE_SIZE) <=> (Len(Outbox) = QUEUE_SIZE)
      BY <2>1, Sizes
    <2>4. overrun' = (Len(Outbox) = QUEUE_SIZE)
      BY <2>2, <2>3
    <2>5. ASSUME ~(Len(Outbox) = QUEUE_SIZE)
          PROVE  Outbox' = Append(Outbox, f)
      <3>1. onWire \in Seq(Results) /\ Outbox \in Seq(Results) /\ Outbox' \in Seq(Results) /\ f \in Results
        BY DEF BoxesOK, HistoryOK, Results
      <3>2. onWire \o Outbox = sent
        BY <1>4 DEF TxIntact
      <3>3. ~overrun'
        BY <2>4, <2>5
      <3>4. onWire' \o Outbox' = sent'
        BY <3>3 DEF TxIntact
      <3>5. onWire \o Outbox' = Append(onWire \o Outbox, f)
        BY <1>1, <3>2, <3>4
      <3> QED
        BY <3>1, <3>5, LastJoins, Zenon
    <2>6. (IF overrun' THEN <<>> ELSE Outbox')
             = IF Len(Outbox) = QUEUE_SIZE THEN <<>> ELSE Append(Outbox, f)
      BY <2>4, <2>5
    <2>7. (IF overrun THEN <<>> ELSE Outbox) = Outbox
      BY <1>4
    <2> QED
      BY <1>2, <1>4, <2>4, <2>6, <2>7 DEF Channel!Send
  <1> QED
    BY <1>3, <1>4

(* Telling the device of a frame does not change what waits.               *)
LEMMA PublishQuiet ==
    ASSUME Matches, Matches', send_publish
    PROVE  UNCHANGED Channel!channel
  <1> USE DEF Matches
  <1>1. UNCHANGED rx /\ UNCHANGED <<sent, onWire, overrun>>
    BY DEF send_publish
  <1>2. UNCHANGED <<Inbox, LastOf(delivered), LastOf(onWire)>>
    BY <1>1, InboxKept DEF LastOf
  <1>3. ~overrun => Outbox' = Outbox
    <2> SUFFICES ASSUME ~overrun PROVE Outbox' = Outbox
      OBVIOUS
    <2>1. onWire \in Seq(Results) /\ Outbox \in Seq(Results) /\ Outbox' \in Seq(Results)
      BY DEF BoxesOK, HistoryOK, Results
    <2>2. onWire \o Outbox = sent
      BY DEF TxIntact
    <2>3. onWire' \o Outbox' = sent'
      BY <1>1 DEF TxIntact
    <2>4. onWire \o Outbox' = onWire \o Outbox
      BY <1>1, <2>2, <2>3
    <2> QED
      BY <2>1, <2>4, SameBehind, Zenon
  <1>4. UNCHANGED (IF overrun THEN <<>> ELSE Outbox)
    BY <1>1, <1>3
  <1> QED
    BY <1>1, <1>2, <1>4 DEF Channel!channel

(* The device transmits the frame that was sent first, or, once the queue  *)
(* is overrun, whatever the buffer holds.                                  *)
LEMMA DeviceSends ==
    ASSUME Matches, Matches', DeviceTransmits
    PROVE  Channel!Transmit \/ Channel!TransmitBroken
  <1> USE DEF Matches
  <1> DEFINE x == tx_buffers[tx_avail[dev_tx % RingSize]]
  <1>1. onWire' = Append(onWire, x) /\ UNCHANGED rx /\ UNCHANGED <<sent, overrun>>
    BY DEF DeviceTransmits
  <1>2. x \in Results
    <2>1. dev_tx % RingSize \in RingSlots
      BY IndexSlot DEF BoxesOK, TypeOK
    <2> QED
      BY <2>1 DEF BoxesOK, TypeOK, Results
  <1>3. /\ onWire \in Seq(Results) /\ Outbox \in Seq(Results) /\ Outbox' \in Seq(Results)
    BY DEF BoxesOK, HistoryOK, Results
  <1> HIDE DEF x
  <1>4. UNCHANGED <<Inbox, LastOf(delivered)>>
    BY <1>1, InboxKept
  <1>5. LastOf(onWire') = x
    BY <1>1, <1>2, <1>3, LastIs
  <1>6. LastOf(onWire)' = x
    BY <1>5 DEF LastOf
  <1>7. CASE overrun
    BY <1>1, <1>2, <1>4, <1>6, <1>7 DEF Channel!TransmitBroken, Results
  <1>8. CASE ~overrun
    <2>1. onWire \o Outbox = sent
      BY <1>8 DEF TxIntact
    <2>2. onWire' \o Outbox' = sent'
      BY <1>1, <1>8 DEF TxIntact
    <2>3. onWire \o Outbox = Append(onWire, x) \o Outbox'
      BY <1>1, <2>1, <2>2
    <2>4. Outbox # <<>> /\ Head(Outbox) = x /\ Tail(Outbox) = Outbox'
      BY <1>2, <1>3, <2>3, FirstMoves, Zenon
    <2>5. (IF overrun THEN <<>> ELSE Outbox) = Outbox
          /\ (IF overrun' THEN <<>> ELSE Outbox') = Outbox'
      BY <1>1, <1>8
    <2> QED
      BY <1>1, <1>4, <1>6, <2>4, <2>5 DEF Channel!Transmit
  <1> QED
    BY <1>7, <1>8

(* With no frame come in or sent, both boxes are empty.                    *)
LEMMA EmptyBoxes ==
    /\ BoxesOK /\ RxInOrder /\ arrived = <<>> /\ delivered = <<>> => Inbox = <<>>
    /\ BoxesOK /\ TxIntact /\ ~overrun /\ sent = <<>> /\ onWire = <<>> => Outbox = <<>>
  <1>1. ASSUME BoxesOK, RxInOrder, arrived = <<>>, delivered = <<>>
        PROVE  Inbox = <<>>
    <2>1. delivered \o Inbox = Came /\ Came = <<>>
      <3>1. Len(arrived) = 0
        BY <1>1
      <3>2. Came = [k \in 1..0 |-> Returned(arrived[k])]
        BY <3>1 DEF Came
      <3> QED
        BY <1>1, <3>2 DEF RxInOrder, Came
    <2>2. Inbox \in Seq(Results) /\ <<>> \in Seq(Results)
      BY <1>1 DEF BoxesOK
    <2>3. <<>> \o Inbox = <<>> \o <<>>
      BY <1>1, <2>1
    <2> QED
      BY <2>2, <2>3, SameBehind, Zenon
  <1>2. ASSUME BoxesOK, TxIntact, ~overrun, sent = <<>>, onWire = <<>>
        PROVE  Outbox = <<>>
    <2>1. onWire \o Outbox = sent
      BY <1>2 DEF TxIntact
    <2>2. Outbox \in Seq(Results) /\ <<>> \in Seq(Results)
      BY <1>2 DEF BoxesOK
    <2>3. <<>> \o Outbox = <<>> \o <<>>
      BY <1>2, <2>1
    <2> QED
      BY <2>2, <2>3, SameBehind, Zenon
  <1> QED
    BY <1>1, <1>2

(* wifi_driver_init starts the channel again.                              *)
LEMMA InitStarts ==
    ASSUME Matches', wifi_driver_init
    PROVE  Channel!Start
  <1>1. /\ arrived' = <<>> /\ delivered' = <<>> /\ sent' = <<>> /\ onWire' = <<>>
        /\ overrun' = FALSE
    BY DEF wifi_driver_init
  <1>2. (BoxesOK /\ RxInOrder /\ TxIntact)'
    BY DEF Matches
  <1>3. Inbox' = <<>> /\ Outbox' = <<>>
    <2>1. (BoxesOK /\ RxInOrder /\ arrived = <<>> /\ delivered = <<>> => Inbox = <<>>)'
      BY EmptyBoxes, PTL
    <2>2. (BoxesOK /\ TxIntact /\ ~overrun /\ sent = <<>> /\ onWire = <<>> => Outbox = <<>>)'
      BY EmptyBoxes, PTL
    <2> QED
      BY <1>1, <1>2, <2>1, <2>2
  <1>4. LastOf(delivered)' = NoFrame /\ LastOf(onWire)' = NoFrame
    BY <1>1 DEF LastOf
  <1> QED
    BY <1>1, <1>3, <1>4 DEF Channel!Start

(* The channel is empty before the first start.                            *)
LEMMA ChannelInit == Init /\ Matches => Channel!Init
  <1> SUFFICES ASSUME Init, Matches
               PROVE  Channel!Init
    OBVIOUS
  <1>1. arrived = <<>> /\ delivered = <<>> /\ sent = <<>> /\ onWire = <<>> /\ overrun = FALSE
    BY DEF Init
  <1>2. Inbox = <<>> /\ Outbox = <<>>
    BY <1>1, EmptyBoxes DEF Matches
  <1> QED
    BY <1>1, <1>2 DEF Channel!Init, LastOf

(* Every step of the driver or the device is a step of the channel, or     *)
(* none of it.                                                             *)
LEMMA ChannelStep ==
    Matches /\ Matches' /\ [Next]_vars => [Channel!Next]_(Channel!channel)
  <1> SUFFICES ASSUME Matches, Matches', [Next]_vars
               PROVE  Channel!Next \/ UNCHANGED Channel!channel
    OBVIOUS
  <1>1. ASSUME NEW f \in Frames \cup {Empty}, DeviceFills(f)
        PROVE  Channel!Next
    <2>1. Returned(f) \in Frames \cup {NoFrame}
      BY DEF Returned
    <2> QED
      BY <1>1, <2>1, FillArrives DEF Channel!Next
  <1>2. CASE DevicePublishes \/ recv_take \/ recv_offer \/ recv_publish
    BY <1>2, QuietSteps
  <1>3. CASE DeviceTransmits
    BY <1>3, DeviceSends DEF Channel!Next
  <1>4. CASE recv_copy
    BY <1>4, CopyReceives DEF Channel!Next
  <1>5. ASSUME NEW f \in Frames, send_fill(f)
        PROVE  Channel!Next \/ UNCHANGED Channel!channel
    BY <1>5, FillSends DEF Channel!Next
  <1>6. CASE send_publish
    BY <1>6, PublishQuiet
  <1>7. CASE wifi_driver_init
    BY <1>7, InitStarts DEF Channel!Next
  <1>8. CASE UNCHANGED vars
    <2>1. UNCHANGED rx /\ UNCHANGED <<tx_buffers, tx_avail, tx_avail_idx, tx_pc, dev_tx, onWire, overrun>>
      BY <1>8 DEF vars, tx
    <2>2. UNCHANGED <<Inbox, LastOf(delivered)>>
      BY <2>1, InboxKept
    <2>3. UNCHANGED Outbox
      BY <2>1 DEF Outbox, Pending, Entries, Distance
    <2> QED
      BY <2>1, <2>2, <2>3 DEF Channel!channel, LastOf
  <1> QED
    BY <1>1, <1>2, <1>3, <1>4, <1>5, <1>6, <1>7, <1>8 DEF Next, Device, wifi_recv, wifi_send

(* The rings, their indices and the device beside them implement the       *)
(* channel of frames, for every number of buffers and every ring size.     *)
THEOREM ChannelImplemented == Spec => ImplementsChannel
  <1>1. Spec => []Matches
    <2>1. BoxesOK /\ RxInOrder /\ TxIntact => Matches
      BY DEF Matches
    <2> QED
      BY <2>1, InvCorrect, BoxTypes, RxCorrect, TxCorrect, PTL
  <1> QED
    BY <1>1, ChannelInit, ChannelStep, PTL DEF Spec, ImplementsChannel, Channel!Spec
=============================================================================

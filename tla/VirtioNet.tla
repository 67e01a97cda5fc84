------------------------------ MODULE VirtioNet ------------------------------
(***************************************************************************)
(* The VirtIO network driver of src/rust_driver_stubs.c: the receive and   *)
(* the transmit queue it shares with the device, wifi_recv, wifi_send and  *)
(* wifi_driver_init.                                                       *)
(*                                                                         *)
(* The device is external and runs in parallel with the driver, whose      *)
(* stores it sees in program order (mfence).  Descriptor i always points   *)
(* to buffer i, so descriptors are left out; a frame is a value, Empty is  *)
(* a buffer with nothing behind the VirtIO header.                         *)
(***************************************************************************)
EXTENDS Integers, SequencesExt

CONSTANTS
    QUEUE_SIZE,   \* 4: buffers of each queue
    RingSize,     \* 256: entries of a ring, as reported by the device
    IndexSpace,   \* 2^16: ring indices are 16 bits wide
    Frames,
    MaxFrames,    \* bound: frames received since the driver was started
    MaxSends,     \* bound: frames sent since the driver was started
    MaxStarts     \* bound: runs of wifi_driver_init

Empty == "empty"
NoFrame == "none"

ASSUME VirtioAssumption ==
    /\ QUEUE_SIZE \in Nat \ {0} /\ RingSize \in Nat /\ QUEUE_SIZE <= RingSize
    /\ IndexSpace \in Nat /\ IndexSpace > QUEUE_SIZE /\ IndexSpace % RingSize = 0
    /\ Frames \cap {Empty, NoFrame} = {}
    /\ MaxFrames \in Nat /\ MaxSends \in Nat /\ MaxStarts \in Nat

VARIABLES
    rx_buffers,    \* buffer -> frame
    rx_avail,      \* ring of buffers offered to the device
    rx_avail_idx,  \* where the driver offers the next one
    rx_used,       \* ring of buffers the device has filled
    rx_used_idx,   \* where the device puts the next one
    rx_last_used,  \* where the driver takes the next one
    rx_pc,         \* wifi_recv: "idle", "copy", "offer" or "publish"
    desc_idx,      \* the buffer wifi_recv works on
    tx_buffers, tx_avail, tx_avail_idx, tx_free_idx,
    tx_pc,         \* wifi_send: "idle" or "publish"
    dev_rx,        \* device: the next entry of rx_avail
    dev_pc,        \* device: "idle", or "publish" when a buffer is filled
    dev_tx,        \* device: the next entry of tx_avail
    starts,
    arrived,       \* history: frames the device has received
    delivered,     \* history: what wifi_recv has returned for each buffer it took
    sent,          \* history: frames given to wifi_send
    onWire,        \* history: frames the device has transmitted
    overrun        \* history: whether wifi_send met a full queue

rx == <<rx_buffers, rx_avail, rx_avail_idx, rx_used, rx_used_idx, rx_last_used,
        rx_pc, desc_idx, dev_rx, dev_pc, arrived, delivered>>
tx == <<tx_buffers, tx_avail, tx_avail_idx, tx_free_idx, tx_pc, dev_tx, sent, onWire, overrun>>
vars == <<rx, tx, starts>>

Buffers == 0..(QUEUE_SIZE - 1)
RingSlots == 0..(RingSize - 1)
Indices == 0..(IndexSpace - 1)

Inc(i) == (i + 1) % IndexSpace

Distance(from, to) == (to - from) % IndexSpace

DriverIdle == rx_pc = "idle" /\ tx_pc = "idle"

-----------------------------------------------------------------------------
(* The device: external.                                                   *)

(* A frame arrives and a buffer is waiting for it.                         *)
DeviceFills(f) ==
    /\ dev_pc = "idle" /\ dev_rx # rx_avail_idx
    /\ Len(arrived) < MaxFrames
    /\ LET b == rx_avail[dev_rx % RingSize]
       IN  /\ rx_buffers' = [rx_buffers EXCEPT ![b] = f]
           /\ rx_used' = [rx_used EXCEPT ![rx_used_idx % RingSize] = b]
    /\ dev_rx' = Inc(dev_rx)
    /\ dev_pc' = "publish"
    /\ arrived' = Append(arrived, f)
    /\ UNCHANGED <<rx_avail, rx_avail_idx, rx_used_idx, rx_last_used, rx_pc, desc_idx,
                   delivered, tx, starts>>

DevicePublishes ==
    /\ dev_pc = "publish"
    /\ rx_used_idx' = Inc(rx_used_idx)
    /\ dev_pc' = "idle"
    /\ UNCHANGED <<rx_buffers, rx_avail, rx_avail_idx, rx_used, rx_last_used, rx_pc,
                   desc_idx, dev_rx, arrived, delivered, tx, starts>>

DeviceTransmits ==
    /\ dev_tx # tx_avail_idx
    /\ onWire' = Append(onWire, tx_buffers[tx_avail[dev_tx % RingSize]])
    /\ dev_tx' = Inc(dev_tx)
    /\ UNCHANGED <<rx, tx_buffers, tx_avail, tx_avail_idx, tx_free_idx, tx_pc, sent,
                   overrun, starts>>

-----------------------------------------------------------------------------
(* wifi_recv.                                                              *)

(* Mutation: the test for an empty ring is missing.                        *)
recv_take_blindly ==
    /\ DriverIdle
    /\ desc_idx' = rx_used[rx_last_used % RingSize]
    /\ rx_last_used' = Inc(rx_last_used)
    /\ rx_pc' = "copy"
    /\ UNCHANGED <<rx_buffers, rx_avail, rx_avail_idx, rx_used, rx_used_idx, dev_rx,
                   dev_pc, arrived, delivered, tx, starts>>

recv_take ==
    /\ DriverIdle /\ rx_used_idx # rx_last_used
    /\ desc_idx' = rx_used[rx_last_used % RingSize]
    /\ rx_last_used' = Inc(rx_last_used)
    /\ rx_pc' = "copy"
    /\ UNCHANGED <<rx_buffers, rx_avail, rx_avail_idx, rx_used, rx_used_idx, dev_rx,
                   dev_pc, arrived, delivered, tx, starts>>

(* Mutation: the buffer is offered again before it is copied.              *)
recv_copy_late ==
    /\ rx_pc = "copy"
    /\ rx_avail' = [rx_avail EXCEPT ![rx_avail_idx % RingSize] = desc_idx]
    /\ rx_avail_idx' = Inc(rx_avail_idx)
    /\ rx_pc' = "offer"
    /\ UNCHANGED <<rx_buffers, rx_used, rx_used_idx, rx_last_used, desc_idx, dev_rx,
                   dev_pc, arrived, delivered, tx, starts>>

(* Mutation: an empty buffer is returned like a frame.                     *)
Returned_always(f) == f

(* wifi_recv returns 0 and no frame for an empty buffer.                   *)
Returned(f) == IF f = Empty THEN NoFrame ELSE f

recv_copy ==
    /\ rx_pc = "copy"
    /\ delivered' = Append(delivered, Returned(rx_buffers[desc_idx]))
    /\ rx_pc' = "offer"
    /\ UNCHANGED <<rx_buffers, rx_avail, rx_avail_idx, rx_used, rx_used_idx, rx_last_used,
                   desc_idx, dev_rx, dev_pc, arrived, tx, starts>>

recv_offer ==
    /\ rx_pc = "offer"
    /\ rx_avail' = [rx_avail EXCEPT ![rx_avail_idx % RingSize] = desc_idx]
    /\ rx_pc' = "publish"
    /\ UNCHANGED <<rx_buffers, rx_avail_idx, rx_used, rx_used_idx, rx_last_used, desc_idx,
                   dev_rx, dev_pc, arrived, delivered, tx, starts>>

recv_publish ==
    /\ rx_pc = "publish"
    /\ rx_avail_idx' = Inc(rx_avail_idx)
    /\ rx_pc' = "idle"
    /\ UNCHANGED <<rx_buffers, rx_avail, rx_used, rx_used_idx, rx_last_used, desc_idx,
                   dev_rx, dev_pc, arrived, delivered, tx, starts>>

-----------------------------------------------------------------------------
(* wifi_send: the next buffer is used whether or not the device has sent   *)
(* what it holds; tx_used is never looked at.                              *)

(* Mutation: the next buffer is not advanced to.                           *)
send_fill_same(f) ==
    /\ DriverIdle /\ starts > 0 /\ Len(sent) < MaxSends
    /\ tx_buffers' = [tx_buffers EXCEPT ![tx_free_idx] = f]
    /\ tx_avail' = [tx_avail EXCEPT ![tx_avail_idx % RingSize] = tx_free_idx]
    /\ overrun' = (overrun \/ Distance(dev_tx, tx_avail_idx) >= QUEUE_SIZE)
    /\ sent' = Append(sent, f)
    /\ tx_pc' = "publish"
    /\ UNCHANGED <<rx, tx_avail_idx, tx_free_idx, dev_tx, onWire, starts>>

send_fill(f) ==
    /\ DriverIdle /\ starts > 0 /\ Len(sent) < MaxSends
    /\ tx_free_idx' = (tx_free_idx + 1) % QUEUE_SIZE
    /\ tx_buffers' = [tx_buffers EXCEPT ![tx_free_idx] = f]
    /\ tx_avail' = [tx_avail EXCEPT ![tx_avail_idx % RingSize] = tx_free_idx]
    /\ overrun' = (overrun \/ Distance(dev_tx, tx_avail_idx) >= QUEUE_SIZE)
    /\ sent' = Append(sent, f)
    /\ tx_pc' = "publish"
    /\ UNCHANGED <<rx, tx_avail_idx, dev_tx, onWire, starts>>

send_publish ==
    /\ tx_pc = "publish"
    /\ tx_avail_idx' = Inc(tx_avail_idx)
    /\ tx_pc' = "idle"
    /\ UNCHANGED <<rx, tx_buffers, tx_avail, tx_free_idx, dev_tx, sent, onWire, overrun, starts>>

-----------------------------------------------------------------------------
(* wifi_driver_init: the device is reset first and loses what it had, the  *)
(* rings are zeroed and all receive buffers offered.  NETSTART may be run  *)
(* again at any time.                                                      *)
wifi_driver_init ==
    /\ DriverIdle
    /\ starts < MaxStarts
    /\ starts' = starts + 1
    /\ rx_avail' = [i \in RingSlots |-> IF i \in Buffers THEN i ELSE 0]
    /\ rx_avail_idx' = QUEUE_SIZE
    /\ rx_used' = [i \in RingSlots |-> 0]
    /\ rx_used_idx' = 0 /\ rx_last_used' = 0
    /\ tx_avail' = [i \in RingSlots |-> 0]
    /\ tx_avail_idx' = 0 /\ tx_free_idx' = 0
    /\ dev_rx' = 0 /\ dev_pc' = "idle" /\ dev_tx' = 0
    /\ arrived' = <<>> /\ delivered' = <<>>
    /\ sent' = <<>> /\ onWire' = <<>> /\ overrun' = FALSE
    /\ UNCHANGED <<rx_buffers, rx_pc, desc_idx, tx_buffers, tx_pc>>

Init ==
    /\ rx_buffers = [b \in Buffers |-> NoFrame]
    /\ rx_avail = [i \in RingSlots |-> 0] /\ rx_avail_idx = 0
    /\ rx_used = [i \in RingSlots |-> 0] /\ rx_used_idx = 0 /\ rx_last_used = 0
    /\ rx_pc = "idle" /\ desc_idx = 0
    /\ tx_buffers = [b \in Buffers |-> NoFrame]
    /\ tx_avail = [i \in RingSlots |-> 0] /\ tx_avail_idx = 0 /\ tx_free_idx = 0
    /\ tx_pc = "idle"
    /\ dev_rx = 0 /\ dev_pc = "idle" /\ dev_tx = 0
    /\ starts = 0
    /\ arrived = <<>> /\ delivered = <<>> /\ sent = <<>> /\ onWire = <<>>
    /\ overrun = FALSE

Device == (\E f \in Frames \cup {Empty} : DeviceFills(f)) \/ DevicePublishes \/ DeviceTransmits
wifi_recv == recv_take \/ recv_copy \/ recv_offer \/ recv_publish
wifi_send == (\E f \in Frames : send_fill(f)) \/ send_publish

Next == Device \/ wifi_recv \/ wifi_send \/ wifi_driver_init

Spec == Init /\ [][Next]_vars

-----------------------------------------------------------------------------
(* Properties.                                                             *)

(* Ring indices stay inside their width and ring entries name existing     *)
(* buffers, whatever the driver and the device have done so far.           *)
TypeOK ==
    /\ rx_buffers \in [Buffers -> Frames \cup {Empty, NoFrame}]
    /\ rx_avail \in [RingSlots -> Buffers] /\ rx_used \in [RingSlots -> Buffers]
    /\ rx_avail_idx \in Indices /\ rx_used_idx \in Indices /\ rx_last_used \in Indices
    /\ rx_pc \in {"idle", "copy", "offer", "publish"} /\ desc_idx \in Buffers
    /\ tx_buffers \in [Buffers -> Frames \cup {NoFrame}]
    /\ tx_avail \in [RingSlots -> Buffers]
    /\ tx_avail_idx \in Indices /\ tx_free_idx \in Buffers
    /\ tx_pc \in {"idle", "publish"}
    /\ dev_rx \in Indices /\ dev_tx \in Indices /\ dev_pc \in {"idle", "publish"}
    /\ overrun \in BOOLEAN

(* The n entries of a ring from index i on.                                *)
Entries(ring, i, n) == [k \in 1..n |-> ring[(i + k - 1) % RingSize]]

Offered == Entries(rx_avail, dev_rx, Distance(dev_rx, rx_avail_idx))
Filled ==
    Entries(rx_used, rx_last_used,
            Distance(rx_last_used, rx_used_idx) + (IF dev_pc = "publish" THEN 1 ELSE 0))
Taken == IF rx_pc = "idle" THEN <<>> ELSE <<desc_idx>>

(* Every receive buffer has exactly one owner: it is offered to the        *)
(* device, filled by it, or in wifi_recv.  None is lost, however the       *)
(* indices wrap, and the device never fills a buffer the driver still      *)
(* reads.                                                                  *)
OwnedOnce ==
    /\ TypeOK
    /\ starts > 0 =>
         LET owned == Offered \o Filled \o Taken
         IN  Len(owned) = QUEUE_SIZE /\ ToSet(owned) = Buffers

(* The buffers the device has filled and that are not copied yet.          *)
Waiting == (IF rx_pc = "copy" THEN <<desc_idx>> ELSE <<>>) \o Filled

Inbox == [k \in 1..Len(Waiting) |-> Returned(rx_buffers[Waiting[k]])]

(* wifi_recv returns the frames that arrived, each once and in order, with *)
(* the contents they arrived with; what it has not returned still waits.   *)
RxInOrder == delivered \o Inbox = [k \in 1..Len(arrived) |-> Returned(arrived[k])]

(* The buffers wifi_send has filled and the device has not transmitted.    *)
Pending ==
    Entries(tx_avail, dev_tx,
            Distance(dev_tx, tx_avail_idx) + (IF tx_pc = "publish" THEN 1 ELSE 0))

Outbox == [k \in 1..Len(Pending) |-> tx_buffers[Pending[k]]]

(* As long as the device is never more than QUEUE_SIZE frames behind, it   *)
(* transmits what wifi_send was given, in order; only a send into a full   *)
(* queue, which wifi_send does not notice, changes a frame in flight.      *)
TxIntact == ~overrun => onWire \o Outbox = sent

(* The rings, shared with a device that runs beside the driver, are a      *)
(* channel of frames: as many wait as there are buffers, and only a send   *)
(* into a full queue breaks it, until the next start.                      *)
LastOf(s) == IF s = <<>> THEN NoFrame ELSE Last(s)
Channel ==
    INSTANCE FrameChannel WITH
        Capacity <- QUEUE_SIZE,
        inbox <- Inbox, frame <- LastOf(delivered),
        outbox <- IF overrun THEN <<>> ELSE Outbox, wire <- LastOf(onWire),
        broken <- overrun
ImplementsChannel == Channel!Spec
=============================================================================

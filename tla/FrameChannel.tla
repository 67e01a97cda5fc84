---------------------------- MODULE FrameChannel ----------------------------
(***************************************************************************)
(* What the network driver promises the stack above it.  Frames are        *)
(* received in the order they came in, each once, and at most Capacity     *)
(* wait; frames are transmitted in the order they were sent.  A send into  *)
(* a full outbox breaks it: what goes out from then on may be any frame,   *)
(* until the driver is started again.                                      *)
(***************************************************************************)
EXTENDS Naturals, Sequences

CONSTANTS Frames,
          NoFrame,   \* received for a frame without contents
          Capacity   \* frames that can wait in either direction

VARIABLES inbox,     \* frames that came in and wait, oldest first
          frame,     \* the frame last received
          outbox,    \* frames sent and not yet transmitted, oldest first
          wire,      \* the frame last transmitted
          broken     \* whether a send met a full outbox

channel == <<inbox, frame, outbox, wire, broken>>

Init ==
    /\ inbox = <<>> /\ frame = NoFrame
    /\ outbox = <<>> /\ wire = NoFrame /\ broken = FALSE

Arrive(f) ==
    /\ Len(inbox) < Capacity
    /\ inbox' = Append(inbox, f)
    /\ UNCHANGED <<frame, outbox, wire, broken>>

Receive ==
    /\ inbox # <<>>
    /\ frame' = Head(inbox)
    /\ inbox' = Tail(inbox)
    /\ UNCHANGED <<outbox, wire, broken>>

Send(f) ==
    /\ ~broken
    /\ broken' = (Len(outbox) = Capacity)
    /\ outbox' = IF Len(outbox) = Capacity THEN <<>> ELSE Append(outbox, f)
    /\ UNCHANGED <<inbox, frame, wire>>

Transmit ==
    /\ outbox # <<>>
    /\ wire' = Head(outbox)
    /\ outbox' = Tail(outbox)
    /\ UNCHANGED <<inbox, frame, broken>>

TransmitBroken ==
    /\ broken
    /\ wire' \in Frames \cup {NoFrame}
    /\ UNCHANGED <<inbox, frame, outbox, broken>>

Start ==
    /\ inbox' = <<>> /\ frame' = NoFrame
    /\ outbox' = <<>> /\ wire' = NoFrame /\ broken' = FALSE

Next ==
    \/ \E f \in Frames \cup {NoFrame} : Arrive(f)
    \/ \E f \in Frames : Send(f)
    \/ Receive \/ Transmit \/ TransmitBroken \/ Start

Spec == Init /\ [][Next]_channel
=============================================================================

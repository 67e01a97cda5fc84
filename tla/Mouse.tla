------------------------------- MODULE Mouse -------------------------------
(***************************************************************************)
(* The PS/2 mouse: the ring of bytes that IRQ 12 fills (interrupt.asm) and *)
(* the driver that starts the mouse and assembles packets from the ring    *)
(* (drivers/mouse.c).                                                      *)
(*                                                                         *)
(* Nothing in a byte says which byte of a packet it is.  The driver counts *)
(* them, and drops a byte only where a packet starts and bit 3 is clear.   *)
(* The mouse is external: it answers commands, and once reporting is on    *)
(* sends packets of three bytes, one byte to an interrupt.                 *)
(***************************************************************************)
EXTENDS Integers, Sequences

CONSTANTS
    mouse_buffer_size,  \* 256
    Packets,            \* status, dx and dy, as bytes
    ScreenSize,         \* <<width, height>> the GPU driver reports
    WindowSizes,        \* sizes the graphical programs set as bounds
    MaxReports          \* bound: packets the mouse sends

ASSUME MouseAssumption ==
    /\ mouse_buffer_size \in Nat /\ mouse_buffer_size > 1
    /\ Packets \subseteq (0..255) \X (0..255) \X (0..255)
    /\ \A s \in WindowSizes \cup {ScreenSize} : s \in (Nat \ {0}) \X (Nat \ {0})
    /\ MaxReports \in Nat

VARIABLES
    mouse_buffer, mouse_head, mouse_tail,  \* the ring of interrupt.asm
    init,          \* mouse_init: "off", a command whose answers are read, or "on"
    awaiting,      \* answers still to be read
    mouse_packet,  \* the bytes of the packet so far; mouse_packet_idx is its length
    mouse_x, mouse_y, mouse_left, mouse_right,
    limit,         \* <<mouse_limit_w, mouse_limit_h>>
    line,          \* the mouse: bytes not yet on the port
    reports,       \* history: packets sent
    applied,       \* history: packets the driver has completed
    pointer,       \* history: where the first `applied' packets sent lead
    lost           \* history: the ring overflowed or an answer came too late

ring == <<mouse_buffer, mouse_head, mouse_tail>>
cursor == <<mouse_x, mouse_y, mouse_left, mouse_right>>
mouse_vars == <<ring, init, awaiting, mouse_packet, cursor, limit, line, reports, applied,
                pointer, lost>>

Slots == 0..(mouse_buffer_size - 1)
Bytes == 0..255
Advance(i) == (i + 1) % mouse_buffer_size

Bit(b, k) == (b \div 2^k) % 2 = 1
Signed(b) == IF b < 128 THEN b ELSE b - 256

-----------------------------------------------------------------------------
(* The mouse: external.                                                    *)

Answers(command) == IF command = "reset" THEN <<250, 170, 0>> ELSE <<250>>

DeviceReports(p) ==
    /\ init \in {"enable", "on"} /\ line = <<>> /\ Len(reports) < MaxReports
    /\ line' = p
    /\ reports' = Append(reports, p)
    /\ UNCHANGED <<ring, init, awaiting, mouse_packet, cursor, limit, applied, pointer, lost>>

-----------------------------------------------------------------------------
(* IRQ 12.  The ring has no test for being full: the byte that fills it    *)
(* empties it.                                                             *)
irq12 ==
    /\ line # <<>>
    /\ mouse_buffer' = [mouse_buffer EXCEPT ![mouse_head] = Head(line)]
    /\ mouse_head' = Advance(mouse_head)
    /\ line' = Tail(line)
    /\ lost' = (lost \/ mouse_head' = mouse_tail)
    /\ UNCHANGED <<mouse_tail, init, awaiting, mouse_packet, cursor, limit, reports, applied, pointer>>

(* c_mouse_read with a byte in the ring.                                   *)
Waiting == mouse_head # mouse_tail
c_mouse_read == mouse_buffer[mouse_tail]
Take == mouse_tail' = Advance(mouse_tail) /\ UNCHANGED <<mouse_buffer, mouse_head>>

-----------------------------------------------------------------------------
(* mouse_init: three commands, whose answers are read and not looked at.   *)

(* Mutation: the answer to the last command is not read.                   *)
Command_unread(command) ==
    /\ init' = command
    /\ line' = line \o Answers(command)
    /\ awaiting' = IF command = "reset" THEN 3 ELSE IF command = "enable" THEN 0 ELSE 1

Command(command) ==
    /\ init' = command
    /\ line' = line \o Answers(command)
    /\ awaiting' = Len(Answers(command))

mouse_init ==
    /\ init = "off"
    /\ mouse_tail' = mouse_head
    /\ Command("reset")
    /\ UNCHANGED <<mouse_buffer, mouse_head, mouse_packet, cursor, limit, reports, applied,
                   pointer, lost>>

(* mouse_read_byte: a byte, or 0 after the time-out.                       *)
mouse_read_byte ==
    /\ init \in {"reset", "defaults", "enable"} /\ awaiting > 0
    /\ awaiting' = awaiting - 1
    /\ \/ Waiting /\ Take /\ UNCHANGED lost
       \/ ~Waiting /\ lost' = TRUE /\ UNCHANGED ring
    /\ UNCHANGED <<init, mouse_packet, cursor, limit, line, reports, applied, pointer>>

next_command ==
    /\ awaiting = 0
    /\ \/ init = "reset" /\ Command("defaults")
       \/ init = "defaults" /\ Command("enable")
    /\ UNCHANGED <<ring, mouse_packet, cursor, limit, reports, applied, pointer, lost>>

(* The pointer is put in the middle of the screen.                         *)
init_done ==
    /\ init = "enable" /\ awaiting = 0
    /\ init' = "on"
    /\ limit' = ScreenSize
    /\ mouse_x' = ScreenSize[1] \div 2 /\ mouse_y' = ScreenSize[2] \div 2
    /\ pointer' = <<mouse_x', mouse_y', mouse_left, mouse_right>>
    /\ UNCHANGED <<ring, awaiting, mouse_packet, mouse_left, mouse_right, line, reports,
                   applied, lost>>

-----------------------------------------------------------------------------
(* mouse_poll and mouse_set_bounds.                                        *)

(* Mutation: the bound itself is let through.                              *)
Clamp_closed(v, size) == IF v < 0 THEN 0 ELSE IF v > size THEN size - 1 ELSE v

Clamp(v, size) == IF v < 0 THEN 0 ELSE IF v >= size THEN size - 1 ELSE v

(* Where a packet takes a pointer; a movement that overflowed is not made. *)
Moved(x, y, p) ==
    LET dx == IF Bit(p[1], 6) THEN 0 ELSE Signed(p[2])
        dy == IF Bit(p[1], 7) THEN 0 ELSE Signed(p[3])
    IN  <<Clamp(x + dx, limit[1]), Clamp(y - dy, limit[2]), Bit(p[1], 0), Bit(p[1], 1)>>

(* One byte of mouse_poll's loop.                                          *)
mouse_poll ==
    /\ init = "on" /\ Waiting
    /\ Take
    /\ LET b == c_mouse_read
           packet == Append(mouse_packet, b)
           moved == Moved(mouse_x, mouse_y, packet)
       IN  IF mouse_packet = <<>> /\ ~Bit(b, 3)
           THEN UNCHANGED <<mouse_packet, cursor, applied, pointer>>
           ELSE IF Len(packet) < 3
           THEN mouse_packet' = packet /\ UNCHANGED <<cursor, applied, pointer>>
           ELSE /\ mouse_packet' = <<>>
                /\ mouse_x' = moved[1] /\ mouse_y' = moved[2]
                /\ mouse_left' = moved[3] /\ mouse_right' = moved[4]
                /\ applied' = applied + 1
                /\ pointer' = IF applied < Len(reports)
                              THEN Moved(pointer[1], pointer[2], reports[applied + 1])
                              ELSE pointer
    /\ UNCHANGED <<init, awaiting, limit, line, reports, lost>>

mouse_set_bounds(size) ==
    /\ init = "on"
    /\ limit' = size
    /\ mouse_x' = Clamp(mouse_x, size[1]) /\ mouse_y' = Clamp(mouse_y, size[2])
    /\ pointer' = [pointer EXCEPT ![1] = Clamp(@, size[1]), ![2] = Clamp(@, size[2])]
    /\ UNCHANGED <<ring, init, awaiting, mouse_packet, mouse_left, mouse_right, line, reports,
                   applied, lost>>

-----------------------------------------------------------------------------
MouseInit ==
    /\ mouse_buffer = [i \in Slots |-> 0] /\ mouse_head = 0 /\ mouse_tail = 0
    /\ init = "off" /\ awaiting = 0
    /\ mouse_packet = <<>>
    /\ limit = <<320, 200>>
    /\ mouse_x = 160 /\ mouse_y = 100 /\ mouse_left = FALSE /\ mouse_right = FALSE
    /\ line = <<>>
    /\ reports = <<>> /\ applied = 0 /\ pointer = <<160, 100, FALSE, FALSE>> /\ lost = FALSE

MouseNext ==
    \/ \E p \in Packets : DeviceReports(p)
    \/ irq12
    \/ mouse_init \/ mouse_read_byte \/ next_command \/ init_done
    \/ mouse_poll
    \/ \E s \in WindowSizes : mouse_set_bounds(s)

MouseSpec == MouseInit /\ [][MouseNext]_mouse_vars

-----------------------------------------------------------------------------
(* Properties.                                                             *)

(* The pointer is on the screen, whatever bytes were lost: the programs    *)
(* draw at it without a test of their own.                                 *)
MouseTypeOK ==
    /\ mouse_buffer \in [Slots -> Bytes] /\ mouse_head \in Slots /\ mouse_tail \in Slots
    /\ init \in {"off", "reset", "defaults", "enable", "on"} /\ awaiting \in 0..3
    /\ mouse_packet \in Seq(Bytes) /\ Len(mouse_packet) < 3
    /\ mouse_x \in 0..(limit[1] - 1) /\ mouse_y \in 0..(limit[2] - 1)
    /\ mouse_left \in BOOLEAN /\ mouse_right \in BOOLEAN
    /\ lost \in BOOLEAN

(* The bytes in the ring, oldest first.                                    *)
InRing ==
    [k \in 1..((mouse_head - mouse_tail) % mouse_buffer_size) |->
        mouse_buffer[(mouse_tail + k - 1) % mouse_buffer_size]]

(* Unless the ring overflowed or an answer came too late, the driver is in *)
(* step with the mouse: pointer and buttons are where the packets sent     *)
(* lead, each taken once and in order, and the packets not taken yet are   *)
(* exactly the bytes in the driver, the ring and the mouse.                *)
InStep ==
    (init = "on" /\ ~lost) =>
        /\ cursor = pointer
        /\ mouse_packet \o InRing \o line =
               [k \in 1..(3 * (Len(reports) - applied)) |->
                   reports[applied + 1 + ((k - 1) \div 3)][1 + ((k - 1) % 3)]]
=============================================================================

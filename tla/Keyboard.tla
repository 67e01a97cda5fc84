------------------------------ MODULE Keyboard ------------------------------
(***************************************************************************)
(* The keyboard path of src/interrupt.asm: the IRQ 1 handler that decodes  *)
(* scan codes and stores keys in a ring buffer, and getkey_block, the only *)
(* reader, which sleeps in HLT while the ring is empty.                    *)
(*                                                                         *)
(* The handler runs behind an interrupt gate and is one step; it can come  *)
(* between any two steps of the reader while interrupts are enabled.       *)
(***************************************************************************)
EXTENDS Integers, Sequences

CONSTANTS
    BufferSize,           \* 256: slots of key_buffer
    ScanCodes,            \* bytes the keyboard controller delivers
    scan_to_ascii,        \* the two translation tables, 0 for no character
    scan_to_ascii_shift,
    MaxIrqs               \* bound: keyboard interrupts in a behaviour

ASSUME RingSize == BufferSize \in Nat /\ BufferSize > 1
ASSUME ScanBytes == ScanCodes \subseteq 0..255
ASSUME PlainTable == scan_to_ascii \in [0..127 -> 0..127]
ASSUME ShiftTable == scan_to_ascii_shift \in [0..127 -> 0..127]
ASSUME IrqBound == MaxIrqs \in Nat

VARIABLES
    kb_e0, kb_shift, kb_ctrl, kb_caps,  \* decoder state: 0 or 1
    key_buffer, key_buffer_head, key_buffer_tail,
    iflag,   \* whether interrupts are enabled
    pc,      \* the reader: "out" of getkey_block, at the "wait" label, about
             \* to "halt", in "hlt", or "ready" to take a key
    key,     \* AX as getkey_block last returned it
    typed,   \* history: the key last given to the ring
    irqs     \* keyboard interrupts so far

modifiers == <<kb_shift, kb_ctrl, kb_caps>>
ring == <<key_buffer, key_buffer_head, key_buffer_tail, typed>>
vars == <<kb_e0, modifiers, ring, iflag, pc, key, irqs>>

Slots == 0..(BufferSize - 1)

-----------------------------------------------------------------------------
(* Scan codes.                                                             *)
E0 == 224
LShift == 42
RShift == 54
Ctrl == 29
CapsLock == 58
KeyC == 46
Arrows == {72, 75, 77, 80}
Break == 128          \* bit 7: the key is released

Modifiers == {LShift, RShift, Ctrl, CapsLock}

(* The words the handler can store: a character, or an arrow's scan code  *)
(* in the high byte.                                                       *)
Words == 0..127 \cup {256 * c : c \in Arrows}

IsLower(c) == c \in 97..122
IsUpper(c) == c \in 65..90

-----------------------------------------------------------------------------
(* inc ebx; and ebx, 255                                                   *)
Advance(i) == (i + 1) % BufferSize

(* Mutation: the write index is advanced before the key is stored.         *)
Store_ahead(w) ==
    /\ key_buffer_head' = Advance(key_buffer_head)
    /\ key_buffer' = [key_buffer EXCEPT ![Advance(key_buffer_head)] = w]
    /\ UNCHANGED key_buffer_tail
    /\ typed' = w

(* .store_full_word: nothing checks whether the ring is full.              *)
Store(w) ==
    /\ key_buffer' = [key_buffer EXCEPT ![key_buffer_head] = w]
    /\ key_buffer_head' = Advance(key_buffer_head)
    /\ UNCHANGED key_buffer_tail
    /\ typed' = w

(* An interrupt ends HLT; the reader goes back to the wait label.          *)
Wake == pc' = IF pc = "hlt" THEN "wait" ELSE pc

(* Every keyboard interrupt: IRQ 1 with a byte read from port 0x60.        *)
Irq1 ==
    /\ iflag
    /\ irqs < MaxIrqs
    /\ irqs' = irqs + 1
    /\ Wake
    /\ UNCHANGED <<iflag, key>>

e0_prefix ==
    /\ Irq1
    /\ kb_e0' = 1
    /\ UNCHANGED <<modifiers, ring>>

(* The byte after the prefix.  Arrows are stored by scan code; PgUp and    *)
(* PgDn scroll the console; releases and other keys are ignored.           *)
handle_e0(code) ==
    /\ kb_e0 = 1 /\ code # E0
    /\ Irq1
    /\ kb_e0' = 0
    /\ IF code \in Arrows THEN Store(256 * code) ELSE UNCHANGED ring
    /\ UNCHANGED modifiers

handle_release(code) ==
    /\ kb_e0 = 0 /\ code # E0 /\ code >= Break
    /\ Irq1
    /\ kb_shift' = IF code - Break \in {LShift, RShift} THEN 0 ELSE kb_shift
    /\ kb_ctrl' = IF code - Break = Ctrl THEN 0 ELSE kb_ctrl
    /\ UNCHANGED <<kb_e0, kb_caps, ring>>

modifier_on(code) ==
    /\ kb_e0 = 0 /\ code \in Modifiers
    /\ Irq1
    /\ kb_shift' = IF code \in {LShift, RShift} THEN 1 ELSE kb_shift
    /\ kb_ctrl' = IF code = Ctrl THEN 1 ELSE kb_ctrl
    /\ kb_caps' = IF code = CapsLock THEN 1 - kb_caps ELSE kb_caps
    /\ UNCHANGED <<kb_e0, ring>>

(* The letter case is swapped when exactly one of Shift and Caps Lock is   *)
(* on - after the table for Shift has already been used.                   *)
Cased(c) ==
    IF kb_shift = kb_caps THEN c
    ELSE IF IsLower(c) THEN c - 32
    ELSE IF IsUpper(c) THEN c + 32
    ELSE c

Ascii(code) == Cased(IF kb_shift = 1 THEN scan_to_ascii_shift[code] ELSE scan_to_ascii[code])

(* The Ctrl+C test reads BL, which holds whatever the interrupted code     *)
(* left in EBX, instead of the scan code in AL.                            *)
plain_key(code, bl) ==
    LET char == IF kb_ctrl = 1 /\ bl = KeyC THEN 3 ELSE Ascii(code)
    IN  /\ kb_e0 = 0 /\ code < Break /\ code \notin Modifiers
        /\ Irq1
        /\ IF char # 0 THEN Store(char) ELSE UNCHANGED ring
        /\ UNCHANGED <<kb_e0, modifiers>>

(* IRQ 0: the timer also ends HLT.                                         *)
irq0 ==
    /\ iflag
    /\ Wake
    /\ UNCHANGED <<kb_e0, modifiers, ring, iflag, key, irqs>>

-----------------------------------------------------------------------------
(* getkey_block.                                                           *)
Reader == UNCHANGED <<kb_e0, modifiers, key_buffer, key_buffer_head, typed, irqs>>

getkey_block ==
    /\ pc = "out"
    /\ pc' = "wait"
    /\ Reader /\ UNCHANGED <<key_buffer_tail, iflag, key>>

(* Mutation: the comparison runs with interrupts enabled.                  *)
compare_unlocked ==
    /\ pc = "wait"
    /\ pc' = IF key_buffer_tail = key_buffer_head THEN "halt" ELSE "ready"
    /\ Reader /\ UNCHANGED <<key_buffer_tail, key, iflag>>

(* cli, then the comparison.                                               *)
compare ==
    /\ pc = "wait"
    /\ iflag' = FALSE
    /\ pc' = IF key_buffer_tail = key_buffer_head THEN "halt" ELSE "ready"
    /\ Reader /\ UNCHANGED <<key_buffer_tail, key>>

(* sti; hlt: an interrupt is taken only after HLT has begun.               *)
halt ==
    /\ pc = "halt"
    /\ iflag' = TRUE
    /\ pc' = "hlt"
    /\ Reader /\ UNCHANGED <<key_buffer_tail, key>>

ready ==
    /\ pc = "ready"
    /\ key' = key_buffer[key_buffer_tail]
    /\ key_buffer_tail' = Advance(key_buffer_tail)
    /\ iflag' = TRUE
    /\ pc' = "out"
    /\ Reader

-----------------------------------------------------------------------------
Init ==
    /\ kb_e0 = 0 /\ kb_shift = 0 /\ kb_ctrl = 0 /\ kb_caps = 0
    /\ key_buffer = [i \in Slots |-> 0]
    /\ key_buffer_head = 0 /\ key_buffer_tail = 0
    /\ iflag = TRUE /\ pc = "out" /\ key = 0 /\ typed = 0 /\ irqs = 0

KeyIrq ==
    \/ E0 \in ScanCodes /\ e0_prefix
    \/ \E code \in ScanCodes : handle_e0(code) \/ handle_release(code) \/ modifier_on(code)
    \/ \E code \in ScanCodes, bl \in {0, KeyC} : plain_key(code, bl)

ReaderStep == compare \/ halt \/ ready

Next == KeyIrq \/ irq0 \/ getkey_block \/ ReaderStep

Spec == Init /\ [][Next]_vars

(* The processor keeps executing the reader once it has called             *)
(* getkey_block.  Nothing is assumed of the timer or of the keyboard.      *)
FairSpec == Spec /\ WF_vars(ReaderStep)

-----------------------------------------------------------------------------
(* Properties.                                                             *)
Bit == {0, 1}

(* The handler's masking keeps head and tail inside the ring, and every    *)
(* slot holds a word the handler can store, after any series of scan codes *)
(* and any number of overflows.                                            *)
TypeOK ==
    /\ kb_e0 \in Bit /\ kb_shift \in Bit /\ kb_ctrl \in Bit /\ kb_caps \in Bit
    /\ key_buffer \in [Slots -> Words]
    /\ key_buffer_head \in Slots /\ key_buffer_tail \in Slots
    /\ iflag \in BOOLEAN
    /\ pc \in {"out", "wait", "halt", "hlt", "ready"}
    /\ key \in Words /\ typed \in Words
    /\ irqs \in 0..MaxIrqs

(* getkey_block never sleeps while a key is waiting: no interrupt falls    *)
(* between its test of the ring and HLT.  And it takes a key only when     *)
(* there is one.                                                           *)
NoLostWakeup ==
    /\ TypeOK
    /\ pc \in {"halt", "hlt"} => key_buffer_head = key_buffer_tail
    /\ pc = "ready" => key_buffer_head # key_buffer_tail

(* The keys between tail and head, oldest first.                           *)
Waiting ==
    [i \in 1..((key_buffer_head - key_buffer_tail) % BufferSize) |->
        key_buffer[(key_buffer_tail + i - 1) % BufferSize]]

(* The ring implements the abstract queue: keys are handed out in the      *)
(* order they were stored, each once, except that a key stored in a full   *)
(* ring makes head meet tail and drops everything.                         *)
Queue == INSTANCE KeyQueue WITH Capacity <- BufferSize - 1, queue <- Waiting
ImplementsQueue == Queue!Spec

(* A reader inside getkey_block with a key in the ring returns, unless the *)
(* ring overflows first.  The timer is not needed for that.                *)
KeyDelivered ==
    (pc # "out" /\ key_buffer_head # key_buffer_tail)
        ~> (pc = "out" \/ key_buffer_head = key_buffer_tail)

(* What the comment in the handler says, "Shift XOR Caps logic for letter  *)
(* casing": a letter typed without Ctrl is stored as a capital when        *)
(* exactly one of Shift and Caps Lock is on.  It does not hold: the table  *)
(* for Shift holds capitals already, and they are swapped back.            *)
CaseIsShiftXorCaps ==
    [][\A code \in ScanCodes, bl \in {0, KeyC} :
          (plain_key(code, bl) /\ kb_ctrl = 0 /\ IsLower(scan_to_ascii[code])) =>
              (IsUpper(key_buffer'[key_buffer_head]) <=> kb_shift # kb_caps)]_vars
=============================================================================

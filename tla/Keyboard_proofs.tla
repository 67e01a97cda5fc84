--------------------------- MODULE Keyboard_proofs ---------------------------
(***************************************************************************)
(* Proofs about Keyboard, for every ring size and both translation tables: *)
(* the types, the absence of lost wake-ups and that the ring implements    *)
(* the abstract queue; and about Shell, which reads the keys, for every    *)
(* size of its line, of its history and of the screen.                     *)
(***************************************************************************)
EXTENDS Keyboard, Shell, SequenceTheorems, WellFoundedInduction, TLAPS

(* What % gives within one modulus of the range 0..(n - 1).                *)
LEMMA ModSmall ==
    ASSUME NEW n \in Nat, n > 0, NEW x \in Int, -n <= x, x < 2 * n
    PROVE  x % n = IF x < 0 THEN x + n ELSE IF x < n THEN x ELSE x - n
  OBVIOUS

(* Advancing an index adds one or wraps to 0, and stays inside the ring.   *)
LEMMA AdvanceWraps ==
    ASSUME NEW i \in Slots
    PROVE  /\ Advance(i) = IF i + 1 = BufferSize THEN 0 ELSE i + 1
           /\ Advance(i) \in Slots
           /\ Advance(i) # i
  <1>1. (i + 1) % BufferSize = IF i + 1 < BufferSize THEN i + 1 ELSE i + 1 - BufferSize
    BY ModSmall, RingSize DEF Slots
  <1> QED
    BY <1>1, RingSize DEF Advance, Slots

(* Every character the handler derives from a scan code is one it may      *)
(* store.                                                                  *)
LEMMA AsciiType ==
    ASSUME TypeOK, NEW code \in 0..127
    PROVE  Ascii(code) \in 0..127
  <1>1. ASSUME NEW c \in 0..127 PROVE Cased(c) \in 0..127
    BY DEF Cased, IsLower, IsUpper
  <1>2. scan_to_ascii[code] \in 0..127
    BY PlainTable, ZenonT(30)
  <1>3. scan_to_ascii_shift[code] \in 0..127
    BY ShiftTable, ZenonT(30)
  <1> QED
    BY <1>1, <1>2, <1>3 DEF Ascii

-----------------------------------------------------------------------------
(* Storing a key keeps the ring's types.                                   *)
LEMMA StoreType ==
    ASSUME TypeOK, NEW w \in Words, Store(w)
    PROVE  /\ key_buffer' \in [Slots -> Words]
           /\ key_buffer_head' \in Slots /\ key_buffer_tail' \in Slots
           /\ typed' \in Words
  BY AdvanceWraps DEF TypeOK, Store

(* The part of a step that every keyboard interrupt shares keeps the types. *)
LEMMA Irq1Type ==
    ASSUME TypeOK, Irq1
    PROVE  /\ irqs' \in 0..MaxIrqs
           /\ pc' \in {"out", "wait", "halt", "hlt", "ready"}
           /\ iflag' = iflag /\ key' = key
  <1>1. irqs' \in 0..MaxIrqs
    BY IrqBound DEF TypeOK, Irq1
  <1> QED
    BY <1>1 DEF TypeOK, Irq1, Wake

(* The initial state has the declared types.                               *)
LEMMA TypeInit == Init => TypeOK
  <1> SUFFICES ASSUME Init PROVE TypeOK
    OBVIOUS
  <1>1. 0 \in Slots /\ 0 \in Words /\ 0 \in 0..MaxIrqs
    BY RingSize, IrqBound DEF Slots, Words
  <1>2. key_buffer \in [Slots -> Words]
    BY <1>1 DEF Init
  <1> QED
    BY <1>1, <1>2 DEF Init, TypeOK, Bit

(* Every step preserves the types: no interrupt and no reader step takes   *)
(* an index out of the ring or stores a word that is no key.               *)
LEMMA TypeStep == TypeOK /\ [Next]_vars => TypeOK'
  <1> SUFFICES ASSUME TypeOK, [Next]_vars PROVE TypeOK'
    OBVIOUS
  <1>1. CASE e0_prefix
    BY <1>1, Irq1Type DEF e0_prefix, TypeOK, Bit, modifiers, ring
  <1>2. ASSUME NEW code \in ScanCodes, handle_e0(code) PROVE TypeOK'
    <2>1. code \in Arrows => 256 * code \in Words
      BY DEF Words
    <2>2. /\ key_buffer' \in [Slots -> Words]
          /\ key_buffer_head' \in Slots /\ key_buffer_tail' \in Slots
          /\ typed' \in Words
      BY <1>2, <2>1, StoreType DEF handle_e0, TypeOK, ring
    <2> QED
      BY <1>2, <2>2, Irq1Type DEF handle_e0, TypeOK, Bit, modifiers
  <1>3. ASSUME NEW code \in ScanCodes, handle_release(code) PROVE TypeOK'
    BY <1>3, Irq1Type DEF handle_release, TypeOK, Bit, ring
  <1>4. ASSUME NEW code \in ScanCodes, modifier_on(code) PROVE TypeOK'
    BY <1>4, Irq1Type DEF modifier_on, TypeOK, Bit, ring
  <1>5. ASSUME NEW code \in ScanCodes, NEW bl \in {0, KeyC}, plain_key(code, bl) PROVE TypeOK'
    <2> DEFINE char == IF kb_ctrl = 1 /\ bl = KeyC THEN 3 ELSE Ascii(code)
    <2>1. code \in 0..127
      BY <1>5, ScanBytes, SMTT(30) DEF plain_key, Break
    <2>2. char \in Words
      BY <2>1, AsciiType, SMTT(30) DEF Words
    <2>3. /\ key_buffer' \in [Slots -> Words]
          /\ key_buffer_head' \in Slots /\ key_buffer_tail' \in Slots
          /\ typed' \in Words
      <3>1. CASE Store(char)
        BY <3>1, <2>2, StoreType
      <3>2. CASE UNCHANGED ring
        BY <3>2 DEF TypeOK, ring
      <3> QED
        BY <1>5, <3>1, <3>2 DEF plain_key
    <2> QED
      BY <1>5, <2>3, Irq1Type, SMTT(30) DEF plain_key, TypeOK, Bit, modifiers
  <1>6. CASE irq0
    BY <1>6 DEF irq0, Wake, TypeOK, modifiers, ring
  <1>7. CASE getkey_block
    BY <1>7 DEF getkey_block, Reader, TypeOK, modifiers
  <1>8. CASE compare
    BY <1>8 DEF compare, Reader, TypeOK, modifiers
  <1>9. CASE halt
    BY <1>9 DEF halt, Reader, TypeOK, modifiers
  <1>10. CASE ready
    BY <1>10, AdvanceWraps DEF ready, Reader, TypeOK, modifiers
  <1>11. CASE UNCHANGED vars
    BY <1>11 DEF vars, modifiers, ring, TypeOK
  <1> QED
    BY <1>1, <1>2, <1>3, <1>4, <1>5, <1>6, <1>7, <1>8, <1>9, <1>10, <1>11
    DEF Next, KeyIrq, ReaderStep

(* The handler's indices stay inside the ring and everything it stores is  *)
(* a key, whatever bytes the keyboard sends.                               *)
THEOREM TypeCorrect == Spec => []TypeOK
  BY TypeInit, TypeStep, PTL DEF Spec

-----------------------------------------------------------------------------
(* The strengthening of NoLostWakeup.  Between the test of the ring and    *)
(* HLT, or the read of the slot, interrupts are disabled: only the reader  *)
(* can move, so what the test found is still true.                         *)
Masked == pc \in {"halt", "ready"} => ~iflag

WakeupInv == NoLostWakeup /\ Masked

(* At boot the reader is outside getkey_block with interrupts enabled.     *)
LEMMA WakeupInit == Init => WakeupInv
  BY TypeInit DEF WakeupInv, Init, NoLostWakeup, Masked

(* A keyboard interrupt finds the reader outside the critical section, and *)
(* a sleeping reader is woken by it.                                       *)
LEMMA Irq1Wakes ==
    ASSUME WakeupInv, Irq1, TypeOK'
    PROVE  NoLostWakeup' /\ Masked'
  BY DEF WakeupInv, Irq1, Wake, NoLostWakeup, Masked, TypeOK

(* Neither an interrupt nor a step of the reader breaks the invariant.     *)
LEMMA WakeupStep == WakeupInv /\ [Next]_vars => WakeupInv'
  <1> SUFFICES ASSUME WakeupInv, [Next]_vars, TypeOK' PROVE NoLostWakeup' /\ Masked'
    BY TypeStep DEF WakeupInv, NoLostWakeup
  <1>1. CASE KeyIrq
    <2>1. Irq1
      BY <1>1 DEF KeyIrq, e0_prefix, handle_e0, handle_release, modifier_on, plain_key
    <2> QED
      BY <2>1, Irq1Wakes
  <1>2. CASE irq0
    BY <1>2 DEF WakeupInv, irq0, Wake, ring, NoLostWakeup, Masked
  <1>3. CASE getkey_block
    BY <1>3 DEF WakeupInv, getkey_block, NoLostWakeup, Masked
  <1>4. CASE compare
    BY <1>4 DEF WakeupInv, compare, Reader, NoLostWakeup, Masked
  <1>5. CASE halt
    BY <1>5 DEF WakeupInv, halt, Reader, NoLostWakeup, Masked
  <1>6. CASE ready
    BY <1>6 DEF WakeupInv, ready, NoLostWakeup, Masked
  <1>7. CASE UNCHANGED vars
    BY <1>7 DEF vars, ring, WakeupInv, NoLostWakeup, Masked
  <1> QED
    BY <1>1, <1>2, <1>3, <1>4, <1>5, <1>6, <1>7 DEF Next, ReaderStep

(* getkey_block never sleeps while a key waits and never reads an empty    *)
(* ring, for every interleaving of interrupts with its instructions.       *)
THEOREM WakeupCorrect == Spec => []NoLostWakeup
  <1>1. WakeupInv => NoLostWakeup
    BY DEF WakeupInv
  <1> QED
    BY <1>1, WakeupInit, WakeupStep, PTL DEF Spec

-----------------------------------------------------------------------------
(* The refinement mapping.                                                 *)

(* How many keys wait.                                                     *)
Count == (key_buffer_head - key_buffer_tail) % BufferSize

(* The number of waiting keys, with and without a wrapped head.            *)
LEMMA CountValue ==
    ASSUME TypeOK
    PROVE  /\ Count = IF key_buffer_head >= key_buffer_tail
                      THEN key_buffer_head - key_buffer_tail
                      ELSE key_buffer_head - key_buffer_tail + BufferSize
           /\ Count \in 0..(BufferSize - 1)
  <1> DEFINE d == key_buffer_head - key_buffer_tail
  <1>1. d \in Int /\ -BufferSize <= d /\ d < BufferSize
    BY RingSize DEF TypeOK, Slots
  <1> HIDE DEF d
  <1>2. d % BufferSize = IF d < 0 THEN d + BufferSize ELSE d
    BY <1>1, ModSmall, RingSize
  <1>3. Count = IF d < 0 THEN d + BufferSize ELSE d
    BY <1>2 DEF Count, d
  <1>4. Count \in 0..(BufferSize - 1)
    BY <1>1, <1>3, RingSize
  <1> QED
    BY <1>3, <1>4, RingSize DEF d, TypeOK, Slots

(* The slot of the i-th waiting key.                                       *)
Pos(i) == (key_buffer_tail + i - 1) % BufferSize

(* The slot of the i-th waiting key.                                       *)
LEMMA PosValue ==
    ASSUME TypeOK, NEW i \in 1..BufferSize
    PROVE  /\ Pos(i) = IF key_buffer_tail + i - 1 < BufferSize
                       THEN key_buffer_tail + i - 1
                       ELSE key_buffer_tail + i - 1 - BufferSize
           /\ Pos(i) \in Slots
  <1> DEFINE d == key_buffer_tail + i - 1
  <1>1. d \in Int /\ 0 <= d /\ d < 2 * BufferSize
    BY RingSize DEF TypeOK, Slots
  <1> HIDE DEF d
  <1>2. d % BufferSize = IF d < BufferSize THEN d ELSE d - BufferSize
    BY <1>1, ModSmall, RingSize
  <1>3. Pos(i) = IF d < BufferSize THEN d ELSE d - BufferSize
    BY <1>2 DEF Pos, d
  <1>4. Pos(i) \in Slots
    BY <1>1, <1>3, RingSize DEF Slots
  <1> QED
    BY <1>3, <1>4, RingSize DEF d, TypeOK, Slots

(* The waiting keys are the Count slots from tail on; head is the slot     *)
(* behind them.                                                            *)
LEMMA WaitingKeys ==
    ASSUME TypeOK
    PROVE  /\ Waiting = [i \in 1..Count |-> key_buffer[Pos(i)]]
           /\ Waiting \in Seq(Words) /\ Len(Waiting) = Count
           /\ \A i \in 1..Count : Pos(i) # key_buffer_head
           /\ Pos(Count + 1) = key_buffer_head
  <1>1. Waiting = [i \in 1..Count |-> key_buffer[Pos(i)]]
    BY DEF Waiting, Count, Pos
  <1>2. Count \in Nat /\ Count + 1 \in 1..BufferSize
    BY CountValue, RingSize
  <1>3. \A i \in 1..Count : key_buffer[Pos(i)] \in Words
    BY <1>2, PosValue, RingSize DEF TypeOK
  <1>4. Waiting \in Seq(Words) /\ Len(Waiting) = Count
    BY <1>1, <1>2, <1>3
  <1>5. \A i \in 1..Count : Pos(i) # key_buffer_head
    BY <1>2, CountValue, PosValue, RingSize DEF TypeOK, Slots
  <1>6. Pos(Count + 1) = key_buffer_head
    BY <1>2, CountValue, PosValue, RingSize DEF TypeOK, Slots
  <1> QED
    BY <1>1, <1>4, <1>5, <1>6

(* Append, element by element.                                             *)
LEMMA AppendElements ==
    ASSUME NEW S, NEW s \in Seq(S), NEW w \in S
    PROVE  Append(s, w) = [i \in 1..(Len(s) + 1) |-> IF i <= Len(s) THEN s[i] ELSE w]
  <1> DEFINE f == [i \in 1..(Len(s) + 1) |-> IF i <= Len(s) THEN s[i] ELSE w]
  <1>1. f \in Seq(S) /\ Len(f) = Len(s) + 1
    OBVIOUS
  <1>2. Append(s, w) \in Seq(S) /\ Len(Append(s, w)) = Len(s) + 1
    OBVIOUS
  <1>3. \A i \in 1..(Len(s) + 1) : f[i] = Append(s, w)[i]
    OBVIOUS
  <1> HIDE DEF f
  <1>4. f = Append(s, w)
    BY <1>1, <1>2, <1>3
  <1> QED
    BY <1>4 DEF f

(* Tail, element by element.                                               *)
LEMMA TailElements ==
    ASSUME NEW S, NEW s \in Seq(S), s # <<>>
    PROVE  Tail(s) = [i \in 1..(Len(s) - 1) |-> s[i + 1]]
  <1> DEFINE f == [i \in 1..(Len(s) - 1) |-> s[i + 1]]
  <1>1. f \in Seq(S) /\ Len(f) = Len(s) - 1
    OBVIOUS
  <1>2. Tail(s) \in Seq(S) /\ Len(Tail(s)) = Len(s) - 1
    OBVIOUS
  <1>3. \A i \in 1..(Len(s) - 1) : f[i] = Tail(s)[i]
    OBVIOUS
  <1> HIDE DEF f
  <1>4. f = Tail(s)
    BY <1>1, <1>2, <1>3
  <1> QED
    BY <1>4 DEF f

(* A stored key joins the waiting ones at the end, or empties a full ring. *)
LEMMA StorePuts ==
    ASSUME TypeOK, TypeOK', NEW w \in Words, Store(w)
    PROVE  Waiting' = IF Len(Waiting) = BufferSize - 1 THEN <<>> ELSE Append(Waiting, w)
  <1>1. /\ key_buffer_head' = IF key_buffer_head + 1 = BufferSize THEN 0 ELSE key_buffer_head + 1
        /\ key_buffer_tail' = key_buffer_tail
    BY AdvanceWraps DEF Store, TypeOK
  <1>2. Waiting' = [i \in 1..Count' |-> key_buffer'[Pos(i)]]
    BY <1>1 DEF Waiting, Count, Pos
  <1>3. CASE Count = BufferSize - 1
    <2>1. Count' = 0
      BY <1>1, <1>3, CountValue, RingSize DEF Count, TypeOK, Slots
    <2> QED
      BY <1>2, <1>3, <2>1, WaitingKeys
  <1>4. CASE Count # BufferSize - 1
    <2>1. Count' = Count + 1
      BY <1>1, <1>4, CountValue, RingSize, SMTT(30) DEF Count, TypeOK, Slots
    <2>2. \A i \in 1..Count : key_buffer'[Pos(i)] = key_buffer[Pos(i)]
      <3> SUFFICES ASSUME NEW i \in 1..Count PROVE key_buffer'[Pos(i)] = key_buffer[Pos(i)]
        OBVIOUS
      <3>1. Pos(i) \in Slots
        BY PosValue, CountValue, RingSize
      <3>2. Pos(i) # key_buffer_head
        BY WaitingKeys
      <3> QED
        BY <3>1, <3>2 DEF Store, TypeOK
    <2>3. key_buffer'[Pos(Count + 1)] = w
      BY WaitingKeys DEF Store, TypeOK
    <2>4. Append(Waiting, w) = [i \in 1..(Count + 1) |-> IF i <= Count THEN Waiting[i] ELSE w]
      BY WaitingKeys, AppendElements
    <2>5. \A i \in 1..(Count + 1) :
             key_buffer'[Pos(i)] = IF i <= Count THEN key_buffer[Pos(i)] ELSE w
      BY <2>2, <2>3, CountValue, RingSize
    <2>6. Waiting' = Append(Waiting, w)
      <3>1. Waiting' = [i \in 1..(Count + 1) |-> key_buffer'[Pos(i)]]
        BY <1>2, <2>1
      <3>2. \A i \in 1..(Count + 1) : key_buffer'[Pos(i)] = IF i <= Count THEN Waiting[i] ELSE w
        <4> SUFFICES ASSUME NEW i \in 1..(Count + 1)
                     PROVE  key_buffer'[Pos(i)] = IF i <= Count THEN Waiting[i] ELSE w
          OBVIOUS
        <4>1. CASE i <= Count
          <5>1. i \in 1..Count
            BY <4>1, CountValue, RingSize
          <5> QED
            BY <2>2, <4>1, <5>1, WaitingKeys
        <4>2. CASE ~(i <= Count)
          BY <2>5, <4>2
        <4> QED
          BY <4>1, <4>2
      <3> QED
        BY <2>4, <3>1, <3>2, Zenon
    <2> QED
      BY <1>4, <2>6, WaitingKeys
  <1> QED
    BY <1>3, <1>4

(* Taking a key hands out the oldest waiting one.                          *)
LEMMA ReadyGets ==
    ASSUME TypeOK, NoLostWakeup, ready
    PROVE  Waiting # <<>> /\ key' = Head(Waiting) /\ Waiting' = Tail(Waiting)
  <1>1. /\ key_buffer_tail' = IF key_buffer_tail + 1 = BufferSize THEN 0 ELSE key_buffer_tail + 1
        /\ key_buffer_head' = key_buffer_head /\ key_buffer' = key_buffer
    BY AdvanceWraps DEF ready, Reader, TypeOK
  <1>2. Count > 0 /\ Count' = Count - 1
    BY <1>1, CountValue, RingSize DEF Count, TypeOK, Slots, NoLostWakeup, ready
  <1>3. Waiting' = [i \in 1..Count' |-> key_buffer'[Pos(i)']]
    BY DEF Waiting, Count, Pos
  <1>4. \A i \in 1..(Count - 1) : Pos(i)' = Pos(i + 1)
    <2> SUFFICES ASSUME NEW i \in 1..(Count - 1) PROVE Pos(i)' = Pos(i + 1)
      OBVIOUS
    <2> QED
      BY <1>1, CountValue, PosValue, RingSize, SMTT(30) DEF Pos, TypeOK, Slots
  <1>5. Tail(Waiting) = [i \in 1..(Count - 1) |-> Waiting[i + 1]]
    <2>1. Waiting # <<>>
      BY <1>2, WaitingKeys
    <2> QED
      BY <2>1, WaitingKeys, TailElements
  <1>6. Waiting' = Tail(Waiting)
    BY <1>1, <1>2, <1>3, <1>4, <1>5, WaitingKeys, CountValue, RingSize, SMTT(30)
  <1>7. Waiting # <<>> /\ Head(Waiting) = Waiting[1]
    BY <1>2, WaitingKeys, CountValue, RingSize
  <1>8. Waiting[1] = key_buffer[key_buffer_tail]
    BY <1>2, WaitingKeys, PosValue, CountValue, RingSize, SMTT(30) DEF TypeOK, Slots
  <1> QED
    BY <1>6, <1>7, <1>8 DEF ready

(* Every step is a step of the abstract queue or leaves it alone.          *)
LEMMA QueueStep ==
    WakeupInv /\ [Next]_vars => [Queue!Next]_<<typed, Waiting, key>>
  <1> SUFFICES ASSUME WakeupInv, [Next]_vars PROVE [Queue!Next]_<<typed, Waiting, key>>
    OBVIOUS
  <1>1. TypeOK /\ TypeOK' /\ NoLostWakeup
    BY TypeStep DEF WakeupInv, NoLostWakeup
  <1>2. ASSUME NEW w \in Words, Store(w), UNCHANGED key PROVE Queue!Next
    BY <1>1, <1>2, StorePuts DEF Queue!Next, Queue!Put, Store
  <1>3. ASSUME UNCHANGED ring, UNCHANGED key PROVE UNCHANGED <<typed, Waiting, key>>
    BY <1>3 DEF ring, Waiting
  <1>4. CASE KeyIrq
    <2>1. UNCHANGED key
      BY <1>4 DEF KeyIrq, e0_prefix, handle_e0, handle_release, modifier_on, plain_key, Irq1
    <2>2. UNCHANGED ring \/ \E w \in Words : Store(w)
      <3>1. ASSUME NEW code \in ScanCodes, handle_e0(code)
            PROVE UNCHANGED ring \/ \E w \in Words : Store(w)
        BY <3>1 DEF handle_e0, Words
      <3>2. ASSUME NEW code \in ScanCodes, NEW bl \in {0, KeyC}, plain_key(code, bl)
            PROVE UNCHANGED ring \/ \E w \in Words : Store(w)
        <4>1. code \in 0..127
          BY <3>2, ScanBytes, SMTT(30) DEF plain_key, Break
        <4>2. (IF kb_ctrl = 1 /\ bl = KeyC THEN 3 ELSE Ascii(code)) \in Words
          BY <1>1, <4>1, AsciiType, SMTT(30) DEF Words
        <4> QED
          BY <3>2, <4>2 DEF plain_key
      <3> QED
        BY <1>4, <3>1, <3>2 DEF KeyIrq, e0_prefix, handle_release, modifier_on
    <2> QED
      BY <1>2, <1>3, <2>1, <2>2
  <1>5. CASE ready
    BY <1>1, <1>5, ReadyGets DEF Queue!Next, Queue!Get, ready, Reader
  <1>6. CASE irq0 \/ getkey_block \/ compare \/ halt
    <2>1. UNCHANGED ring /\ UNCHANGED key
      BY <1>6 DEF irq0, getkey_block, compare, halt, Reader, ring
    <2> QED
      BY <1>3, <2>1
  <1>7. CASE UNCHANGED vars
    BY <1>3, <1>7 DEF vars
  <1> QED
    BY <1>4, <1>5, <1>6, <1>7 DEF Next, ReaderStep

(* An empty ring is an empty queue.                                        *)
LEMMA QueueInit == Init => Queue!Init
  <1> SUFFICES ASSUME Init PROVE Queue!Init
    OBVIOUS
  <1>1. TypeOK
    BY TypeInit
  <1>2. Count = 0
    BY <1>1, CountValue DEF Init
  <1>3. Waiting = <<>>
    BY <1>1, <1>2, WaitingKeys
  <1> QED
    BY <1>1, <1>3 DEF Queue!Init, TypeOK

(* The interrupt handler and getkey_block together implement the abstract  *)
(* queue: keys come out in the order they were typed, each once, and are   *)
(* lost only when one is typed into a full ring.                           *)
THEOREM RingImplementsQueue == Spec => ImplementsQueue
  BY WakeupInit, WakeupStep, QueueInit, QueueStep, PTL DEF Spec, ImplementsQueue, Queue!Spec
-----------------------------------------------------------------------------
(* The prompt, which reads the keys.                                       *)

(* What is on the screen behind the prompt, up to the cursor in column c,  *)
(* is what the first p bytes of the buffer l put there: the row of the     *)
(* cursor shows the last of them, and all of it is them when nothing was   *)
(* left standing above.                                                    *)
OnScreen(sh, c, l, p) ==
    /\ sh \in Seq(Chars) /\ c \in 0..(WIDTH - 1) /\ Len(sh) <= Above + c
    /\ p <= Len(sh) /\ (c <= p \/ Len(sh) <= p)
    /\ \A i \in Nat : (i < c /\ i < Len(sh)) => sh[Len(sh) - i] = l[p - i]
    /\ Len(sh) = p => \A i \in 1..p : sh[i] = l[i]

(* The line: the last byte of the buffer is never written.                 *)
LineInv ==
    /\ line \in [1..MAX_INPUT -> Chars \cup {NUL}]
    /\ pos \in 0..(MAX_INPUT - 1)
    /\ \A i \in 1..pos : line[i] \in Chars
    /\ line[MAX_INPUT] = NUL
    /\ OnScreen(shown, cursor_col, line, pos)

(* The history: every remembered command has been run.                     *)
HistoryInv ==
    /\ history \in Seq(Lines) /\ Len(history) <= HISTORY_SIZE
    /\ history_pos \in 0..Len(history)
    /\ ran \in Seq(Lines) /\ Len(ran) <= MaxCommands
    /\ Len(history) <= Len(ran)
    /\ HistoryIsRecent

PromptInv == LineInv /\ HistoryInv

(* The constants of the prompt, in the form the proofs use.                *)
LEMMA PromptLimits ==
    /\ MAX_INPUT \in Nat /\ MAX_INPUT > 1
    /\ HISTORY_SIZE \in Nat /\ HISTORY_SIZE > 0
    /\ WIDTH \in Nat /\ WIDTH > 1 /\ PromptColumns \subseteq 0..(WIDTH - 1)
    /\ Above \in Nat /\ MAX_INPUT <= Above
    /\ MaxCommands \in Nat
    /\ NUL \notin Chars
    /\ \A c \in Chars : Upper[c] \in Chars
  <1>1. Upper \in [Chars -> Chars]
    BY ShellAssumption
  <1>2. \A c \in Chars : Upper[c] \in Chars
    BY <1>1
  <1>3. Above \in Int /\ MAX_INPUT <= Above /\ MAX_INPUT \in Nat
    <2>1. ROWS - 1 \in Int /\ WIDTH \in Int /\ MAX_INPUT \in Nat
      BY ShellAssumption
    <2>2. (ROWS - 1) * WIDTH \in Int
      BY <2>1
    <2> QED
      BY <2>1, <2>2, ShellAssumption DEF Above
  <1>4. Above \in Nat
    BY <1>3
  <1> QED
    BY <1>2, <1>3, <1>4, ShellAssumption

(* A function on 1..n is a sequence of length n.                           *)
LEMMA FunctionIsSeq ==
    ASSUME NEW S, NEW n \in Nat, NEW f \in [1..n -> S]
    PROVE  f \in Seq(S) /\ Len(f) = n
  OBVIOUS

(* A line is a sequence of characters that leaves room for the terminator. *)
LEMMA LinesAre ==
    ASSUME NEW s
    PROVE  s \in Lines <=> s \in Seq(Chars) /\ Len(s) <= MAX_INPUT - 1
  <1>1. ASSUME s \in Lines
        PROVE  s \in Seq(Chars) /\ Len(s) <= MAX_INPUT - 1
    <2>1. PICK n \in 0..(MAX_INPUT - 1) : s \in [1..n -> Chars]
      BY <1>1 DEF Lines
    <2>2. s \in Seq(Chars) /\ Len(s) = n
      BY <2>1, FunctionIsSeq
    <2> QED
      BY <2>1, <2>2
  <1>2. ASSUME s \in Seq(Chars), Len(s) <= MAX_INPUT - 1
        PROVE  s \in Lines
    <2>1. Len(s) \in Nat /\ s \in [1..Len(s) -> Chars]
      BY <1>2, LenProperties
    <2>2. Len(s) \in 0..(MAX_INPUT - 1)
      BY <1>2, <2>1, PromptLimits
    <2> QED
      BY <2>1, <2>2 DEF Lines
  <1> QED
    BY <1>1, <1>2

(* A set of numbers that is not empty has a least one.                     *)
LEMMA LeastOf ==
    ASSUME NEW S \in SUBSET Nat, S # {}
    PROVE  \E i \in S : \A j \in S : i <= j
  <1>1. IsWellFoundedOn(OpToRel(<, Nat), Nat)
    BY NatLessThanWellFounded
  <1>2. PICK x \in S : \A y \in S : ~(<<y, x>> \in OpToRel(<, Nat))
    BY <1>1, WFMin
  <1>3. \A y \in S : ~(y < x)
    BY <1>2 DEF OpToRel
  <1> QED
    BY <1>3

(* The C string in a buffer with a NUL behind n characters: it has no NUL, *)
(* is no longer than n, and is those characters when none of them is NUL.  *)
LEMMA StringIs ==
    ASSUME NEW l \in [1..MAX_INPUT -> Chars \cup {NUL}],
           NEW n \in 0..(MAX_INPUT - 1), l[n + 1] = NUL
    PROVE  /\ CString(l) \in Lines
           /\ (\A i \in 1..n : l[i] # NUL) => CString(l) = SubSeq(l, 1, n)
  <1> DEFINE S == {i \in 1..MAX_INPUT : l[i] = NUL}
             First(i) == l[i] = NUL /\ \A j \in 1..(i - 1) : l[j] # NUL
             e == CHOOSE i \in 1..MAX_INPUT : First(i)
  <1>1. MAX_INPUT \in Nat /\ n + 1 \in 1..MAX_INPUT
    BY PromptLimits
  <1>2. S \in SUBSET Nat /\ n + 1 \in S
    BY <1>1
  <1>3. PICK i \in S : \A j \in S : i <= j
    BY <1>2, LeastOf
  <1>4. i \in 1..MAX_INPUT /\ l[i] = NUL
    OBVIOUS
  <1>5. \A j \in 1..(i - 1) : j \in 1..MAX_INPUT /\ ~(i <= j)
    BY <1>1, <1>4
  <1>6. First(i)
    BY <1>3, <1>4, <1>5
  <1>7. e \in 1..MAX_INPUT /\ First(e)
    BY <1>4, <1>6
  <1>8. StringLength(l) = e - 1
    BY <1>4 DEF StringLength
  <1>9. CString(l) = SubSeq(l, 1, e - 1)
    BY <1>8 DEF CString
  <1> HIDE DEF e, S
  <1>10. e <= n + 1
    <2> SUFFICES ASSUME ~(e <= n + 1)
                 PROVE  FALSE
      OBVIOUS
    <2>1. n + 1 \in 1..(e - 1)
      BY <1>7
    <2> QED
      BY <1>7, <2>1
  <1>11. \A j \in 1..(e - 1) : j \in 1..MAX_INPUT
    BY <1>1, <1>7
  <1>12. \A j \in 1..(e - 1) : l[j] \in Chars
    BY <1>7, <1>11
  <1>13. /\ SubSeq(l, 1, e - 1) \in Seq(Chars)
         /\ Len(SubSeq(l, 1, e - 1)) <= MAX_INPUT - 1
    <2>1. e - 1 \in Int /\ e - 1 <= MAX_INPUT - 1 /\ 0 <= MAX_INPUT - 1
      BY <1>1, <1>7
    <2> QED
      BY <1>12, <2>1, SubSeqProperties
  <1>14. ASSUME \A j \in 1..n : l[j] # NUL
         PROVE  e - 1 = n
    <2>1. ~(e \in 1..n)
      BY <1>7, <1>14
    <2> QED
      BY <1>7, <1>10, <2>1
  <1> QED
    BY <1>9, <1>13, <1>14, LinesAre

(* A trimmed line is a line.                                               *)
LEMMA TrimType ==
    ASSUME NEW s \in Lines
    PROVE  str_trim(s) \in Lines
  <1> DEFINE n == Len(s)
             Last(i) == s[i] # Space /\ \A j \in (i + 1)..Len(s) : s[j] = Space
             t == TrimmedLength(s)
  <1>1. s \in Seq(Chars) /\ n <= MAX_INPUT - 1 /\ MAX_INPUT \in Nat
    BY LinesAre, PromptLimits
  <1>2. n \in Nat /\ \A i \in 1..n : s[i] \in Chars
    BY <1>1, LenProperties
  <1>3. t \in 0..n
    <2>1. CASE ~(\E i \in 1..n : s[i] # Space)
      <3>1. t = 0
        BY <2>1 DEF TrimmedLength
      <3> QED
        BY <1>2, <3>1
    <2>2. CASE \E i \in 1..n : s[i] # Space
      <3> DEFINE S == {k \in 0..(n - 1) : s[n - k] # Space}
      <3>1. PICK i \in 1..n : s[i] # Space
        BY <2>2
      <3>2. n - i \in 0..(n - 1) /\ n - (n - i) = i
        BY <1>2
      <3>3. n - i \in S /\ S \in SUBSET Nat
        BY <1>2, <3>1, <3>2
      <3>4. PICK k \in S : \A j \in S : k <= j
        BY <3>3, LeastOf
      <3>5. n - k \in 1..n /\ s[n - k] # Space
        BY <1>2
      <3>6. ASSUME NEW j \in (n - k + 1)..n
            PROVE  s[j] = Space
        <4>1. n - j \in 0..(n - 1) /\ n - (n - j) = j /\ ~(k <= n - j)
          BY <1>2, <3>5
        <4> QED
          BY <3>4, <4>1
      <3>7. Last(n - k)
        BY <3>5, <3>6
      <3>8. t = CHOOSE x \in 1..n : Last(x)
        BY <2>2 DEF TrimmedLength
      <3>9. t \in 1..n
        BY <3>5, <3>7, <3>8
      <3> QED
        BY <1>2, <3>9
    <2> QED
      BY <2>1, <2>2
  <1> HIDE DEF t, n
  <1>4. t \in Int /\ \A j \in 1..t : s[j] \in Chars
    BY <1>2, <1>3
  <1>5. SubSeq(s, 1, t) \in Seq(Chars) /\ Len(SubSeq(s, 1, t)) = IF 1 <= t THEN t ELSE 0
    BY <1>4, SubSeqProperties
  <1>6. Len(SubSeq(s, 1, t)) <= MAX_INPUT - 1
    BY <1>1, <1>2, <1>3, <1>5
  <1> QED
    BY <1>5, <1>6, LinesAre DEF str_trim, t

(* A line in upper case is a line of the same length.                      *)
LEMMA UpperType ==
    ASSUME NEW s \in Lines
    PROVE  strupr(s) \in Lines /\ Len(strupr(s)) = Len(s)
  <1>1. s \in Seq(Chars) /\ Len(s) <= MAX_INPUT - 1
    BY LinesAre
  <1>2. Len(s) \in Nat /\ \A i \in 1..Len(s) : s[i] \in Chars
    BY <1>1, LenProperties
  <1>3. [i \in 1..Len(s) |-> Upper[s[i]]] \in [1..Len(s) -> Chars]
    BY <1>2, PromptLimits
  <1>4. /\ [i \in 1..Len(s) |-> Upper[s[i]]] \in Seq(Chars)
        /\ Len([i \in 1..Len(s) |-> Upper[s[i]]]) = Len(s)
    BY <1>2, <1>3, FunctionIsSeq
  <1> QED
    BY <1>1, <1>4, LinesAre DEF strupr

(* A column behind the end of a row is one further down and to the left.   *)
LEMMA Columns ==
    ASSUME NEW x \in Nat
    PROVE  /\ x % WIDTH \in 0..(WIDTH - 1)
           /\ x < WIDTH => x % WIDTH = x
           /\ x >= WIDTH => x % WIDTH <= x - WIDTH
  <1> DEFINE m == WIDTH
             q == x \div m
             r == x % m
  <1>1. m \in Nat /\ m > 0
    BY PromptLimits
  <1>2. q \in Int /\ r \in 0..(m - 1) /\ x = m * q + r
    BY <1>1
  <1> HIDE DEF m, q, r
  <1>3. m * q \in Int
    BY <1>1, <1>2
  <1>4. q >= 0
    <2> SUFFICES ASSUME q <= 0 - 1
                 PROVE  FALSE
      BY <1>2
    <2>1. m * (0 - 1 - q) >= 0 /\ m * (0 - 1 - q) = 0 - m - m * q
      BY <1>1, <1>2
    <2> QED
      BY <1>1, <1>2, <1>3, <2>1
  <1>5. x < m => r = x
    <2> SUFFICES ASSUME x < m
                 PROVE  r = x
      OBVIOUS
    <2>1. q <= 0
      <3> SUFFICES ASSUME q >= 1
                   PROVE  FALSE
        BY <1>2
      <3>1. m * (q - 1) >= 0 /\ m * (q - 1) = m * q - m
        BY <1>1, <1>2
      <3> QED
        BY <1>1, <1>2, <1>3, <3>1
    <2>2. q = 0 /\ m * 0 = 0
      BY <1>1, <1>2, <1>4, <2>1
    <2> QED
      BY <1>2, <2>2
  <1>6. x >= m => r <= x - m
    <2> SUFFICES ASSUME x >= m
                 PROVE  r <= x - m
      OBVIOUS
    <2>1. q >= 1
      <3> SUFFICES ASSUME q <= 0
                   PROVE  FALSE
        BY <1>2
      <3>1. q = 0 /\ m * 0 = 0
        BY <1>1, <1>2, <1>4
      <3> QED
        BY <1>1, <1>2, <3>1
    <2>2. m * (q - 1) >= 0 /\ m * (q - 1) = m * q - m
      BY <1>1, <1>2, <2>1
    <2> QED
      BY <1>1, <1>2, <1>3, <2>2
  <1> QED
    BY <1>2, <1>5, <1>6 DEF m, r

(* The end of a sequence cut off.                                          *)
LEMMA Cut ==
    ASSUME NEW s \in Seq(Chars), NEW m \in Nat, NEW n \in Nat, m <= n, n <= Len(s)
    PROVE  /\ SubSeq(s, m + 1, n) \in Seq(Chars)
           /\ Len(SubSeq(s, m + 1, n)) = n - m
           /\ \A i \in 1..(n - m) : SubSeq(s, m + 1, n)[i] = s[m + i]
  <1>1. Len(s) \in Nat /\ \A i \in 1..Len(s) : s[i] \in Chars
    BY LenProperties, ElementOfSeq
  <1>2. \A i \in (m + 1)..n : s[i] \in Chars
    BY <1>1
  <1>3. /\ SubSeq(s, m + 1, n) \in Seq(Chars)
        /\ Len(SubSeq(s, m + 1, n)) = IF m + 1 <= n THEN n - (m + 1) + 1 ELSE 0
        /\ \A i \in 1..(n - (m + 1) + 1) : SubSeq(s, m + 1, n)[i] = s[(m + 1) + i - 1]
    BY <1>2, SubSeqProperties
  <1>4. n - (m + 1) + 1 = n - m /\ \A i \in 1..(n - m) : (m + 1) + i - 1 = m + i
    OBVIOUS
  <1>5. (IF m + 1 <= n THEN n - (m + 1) + 1 ELSE 0) = n - m
    OBVIOUS
  <1> QED
    BY <1>3, <1>4, <1>5

(* Backspaces take from the row of the cursor what they take from the      *)
(* line, and stop in its first column.                                     *)
LEMMA RubOut ==
    ASSUME NEW sh, NEW c, NEW l, NEW p \in Nat, NEW n \in Nat, n <= p,
           OnScreen(sh, c, l, p), NEW k, k = IF n <= c THEN n ELSE c
    PROVE  OnScreen(SubSeq(sh, 1, Len(sh) - k), c - k, l, p - n)
  <1> DEFINE L == Len(sh)
             t == SubSeq(sh, 1, L - k)
  <1>1. /\ sh \in Seq(Chars) /\ L \in Nat /\ c \in Nat /\ c <= WIDTH - 1 /\ L <= Above + c
        /\ p <= L /\ (c <= p \/ L <= p)
        /\ WIDTH \in Nat /\ Above \in Nat
    BY LenProperties, PromptLimits DEF OnScreen
  <1>2. /\ \A i \in Nat : (i < c /\ i < L) => sh[L - i] = l[p - i]
        /\ L = p => \A i \in 1..p : sh[i] = l[i]
    BY DEF OnScreen
  <1> HIDE DEF L, t
  <1>3. k \in Nat /\ k <= c /\ k <= n /\ k <= L /\ L - k \in Nat
    BY <1>1
  <1>4. /\ t \in Seq(Chars) /\ Len(t) = L - k
        /\ \A i \in 1..(L - k) : t[i] = sh[i]
    <2>1. L - k <= Len(sh) /\ 0 <= L - k /\ L - k - 0 = L - k /\ 0 + 1 = 1
      BY <1>1, <1>3 DEF L
    <2>2. \A i \in 1..(L - k) : 0 + i = i
      OBVIOUS
    <2> QED
      BY <1>1, <1>3, <2>1, <2>2, Cut DEF t
  <1>5. CASE n <= c
    <2>1. k = n
      BY <1>5
    <2>2. /\ c - k \in 0..(WIDTH - 1) /\ L - k <= Above + (c - k)
          /\ p - n <= L - k /\ (c - k <= p - n \/ L - k <= p - n)
      BY <1>1, <1>3, <2>1
    <2>3. ASSUME NEW i \in Nat, i < c - k, i < L - k
          PROVE  t[(L - k) - i] = l[(p - n) - i]
      <3>1. /\ i + k \in Nat /\ i + k < c /\ i + k < L
            /\ (L - k) - i \in 1..(L - k) /\ (L - k) - i = L - (i + k)
            /\ (p - n) - i = p - (i + k)
        BY <1>1, <1>3, <2>1, <2>3
      <3> QED
        BY <1>2, <1>4, <3>1
    <2>4. ASSUME L - k = p - n, NEW i \in 1..(p - n)
          PROVE  t[i] = l[i]
      <3>1. L = p /\ i \in 1..p /\ i \in 1..(L - k)
        BY <1>1, <1>3, <2>1, <2>4
      <3> QED
        BY <1>2, <1>4, <3>1
    <2> QED
      BY <1>4, <2>2, <2>3, <2>4 DEF OnScreen, t, L
  <1>6. CASE ~(n <= c)
    <2>1. k = c /\ c < n
      BY <1>1, <1>6
    <2>2. /\ c - k = 0 /\ 0 \in 0..(WIDTH - 1) /\ L - k <= Above + 0
          /\ p - n <= L - k /\ 0 <= p - n /\ ~(L - k = p - n)
      BY <1>1, <1>3, <2>1, PromptLimits
    <2>3. \A i \in Nat : ~(i < 0)
      OBVIOUS
    <2> QED
      BY <1>4, <2>2, <2>3 DEF OnScreen, t, L
  <1> QED
    BY <1>5, <1>6

(* Characters printed behind the cursor join the line and the screen.      *)
LEMMA PrintOut ==
    ASSUME NEW sh, NEW c, NEW l, NEW p \in Nat, OnScreen(sh, c, l, p),
           NEW s \in Seq(Chars), p + Len(s) <= MAX_INPUT - 1,
           NEW l2, \A i \in 1..p : l2[i] = l[i], \A i \in 1..Len(s) : l2[p + i] = s[i],
           NEW col, col = (c + Len(s)) % WIDTH
    PROVE  OnScreen(Scrolled(sh \o s, col), col, l2, p + Len(s))
  <1> DEFINE L == Len(sh)
             q == Len(s)
             a == sh \o s
             t == Scrolled(a, col)
  <1>1. /\ sh \in Seq(Chars) /\ L \in Nat /\ c \in Nat /\ c <= WIDTH - 1 /\ L <= Above + c
        /\ p <= L /\ (c <= p \/ L <= p) /\ q \in Nat
        /\ WIDTH \in Nat /\ Above \in Nat /\ MAX_INPUT \in Nat /\ MAX_INPUT <= Above
    BY LenProperties, PromptLimits DEF OnScreen
  <1>2. /\ \A i \in Nat : (i < c /\ i < L) => sh[L - i] = l[p - i]
        /\ L = p => \A i \in 1..p : sh[i] = l[i]
    BY DEF OnScreen
  <1>3. p + q <= MAX_INPUT - 1 /\ \A i \in 1..q : l2[p + i] = s[i]
    OBVIOUS
  <1>4. /\ a \in Seq(Chars) /\ Len(a) = L + q
        /\ \A i \in 1..L : a[i] = sh[i]
        /\ \A i \in 1..q : a[L + i] = s[i]
    <2>1. /\ a \in Seq(Chars) /\ Len(a) = L + q
          /\ \A i \in 1..(L + q) : a[i] = IF i <= L THEN sh[i] ELSE s[i - L]
      BY <1>1, ConcatProperties
    <2> HIDE DEF a, L, q
    <2>2. \A i \in 1..L : i \in 1..(L + q) /\ i <= L
      BY <1>1
    <2>3. \A i \in 1..q : L + i \in 1..(L + q) /\ ~(L + i <= L) /\ (L + i) - L = i
      BY <1>1
    <2> QED
      BY <2>1, <2>2, <2>3
  <1>5. /\ col \in 0..(WIDTH - 1)
        /\ c + q < WIDTH => col = c + q
        /\ c + q >= WIDTH => col <= (c + q) - WIDTH
    <2>1. c + q \in Nat /\ col = (c + q) % WIDTH
      BY <1>1
    <2> DEFINE x == c + q
    <2>2. x \in Nat /\ col = x % WIDTH
      BY <2>1
    <2> HIDE DEF x
    <2>3. /\ col \in 0..(WIDTH - 1)
          /\ x < WIDTH => col = x
          /\ x >= WIDTH => col <= x - WIDTH
      BY <2>2, Columns
    <2> QED
      BY <2>3 DEF x
  <1>6. t = IF L + q <= Above + col THEN a
            ELSE SubSeq(a, ((L + q) - (Above + col)) + 1, L + q)
    <2>1. t = IF Len(a) <= Above + col THEN a
              ELSE SubSeq(a, (Len(a) - (Above + col)) + 1, Len(a))
      BY DEF Scrolled
    <2> HIDE DEF t, a, L, q
    <2> QED
      BY <1>4, <2>1
  <1> HIDE DEF L, q, a, t
  (* The last q characters. *)
  <1>7. ASSUME NEW i \in Nat, i < q
        PROVE  a[(L + q) - i] = l2[(p + q) - i]
    <2>1. q - i \in 1..q /\ (L + q) - i = L + (q - i) /\ (p + q) - i = p + (q - i)
      BY <1>1, <1>7
    <2> QED
      BY <1>3, <1>4, <2>1
  <1>8. ASSUME L + q = p + q, NEW i \in 1..(p + q)
        PROVE  a[i] = l2[i]
    <2>1. L = p
      BY <1>1, <1>8
    <2>2. CASE i <= p
      <3>1. i \in 1..p
        BY <2>2
      <3> QED
        BY <1>2, <1>4, <2>1, <3>1
    <2>3. CASE ~(i <= p)
      <3>1. i - p \in 1..q /\ L + (i - p) = i /\ p + (i - p) = i
        BY <1>1, <2>1, <2>3
      <3> QED
        BY <1>3, <1>4, <3>1
    <2> QED
      BY <2>2, <2>3
  <1>9. CASE c + q < WIDTH
    <2>1. col = c + q /\ L + q <= Above + col
      BY <1>1, <1>5, <1>9
    <2>2. t = a
      BY <1>6, <2>1
    <2>3. p + q <= L + q /\ (col <= p + q \/ L + q <= p + q)
      BY <1>1, <2>1
    <2>4. ASSUME NEW i \in Nat, i < col, i < L + q
          PROVE  a[(L + q) - i] = l2[(p + q) - i]
      <3>1. CASE i < q
        BY <1>7, <3>1
      <3>2. CASE ~(i < q)
        <4>1. /\ i - q \in Nat /\ i - q < c /\ i - q < L
              /\ L - (i - q) \in 1..L /\ p - (i - q) \in 1..p
              /\ (L + q) - i = L - (i - q) /\ (p + q) - i = p - (i - q)
          BY <1>1, <2>1, <2>4, <3>2
        <4>2. sh[L - (i - q)] = l[p - (i - q)]
          BY <1>2, <4>1
        <4>3. a[L - (i - q)] = sh[L - (i - q)] /\ l2[p - (i - q)] = l[p - (i - q)]
          BY <1>4, <4>1
        <4> QED
          BY <4>1, <4>2, <4>3
      <3> QED
        BY <3>1, <3>2
    <2> QED
      BY <1>4, <1>5, <1>8, <2>1, <2>2, <2>3, <2>4 DEF OnScreen, q, a, t
  <1>10. CASE ~(c + q < WIDTH)
    <2>1. col \in Nat /\ col < q /\ col <= p + q /\ p + q <= L + q
      BY <1>1, <1>5, <1>10
    <2>2. CASE L + q <= Above + col
      <3>1. t = a
        BY <1>6, <2>2
      <3>2. \A i \in Nat : i < col => i < q
        BY <1>1, <2>1
      <3>3. \A i \in Nat : (i < col /\ i < L + q) => a[(L + q) - i] = l2[(p + q) - i]
        BY <1>7, <3>2
      <3> QED
        BY <1>4, <1>5, <1>8, <2>1, <2>2, <3>1, <3>3 DEF OnScreen, q, a, t
    <2>3. CASE ~(L + q <= Above + col)
      <3> DEFINE m == (L + q) - (Above + col)
                 v == Above + col
      <3>1. /\ m \in Nat /\ v \in Nat /\ m <= L + q /\ (L + q) - m = v
            /\ L + q \in Nat /\ col < v /\ p + q < v
        <4>1. L + q \in Nat /\ v \in Nat
          BY <1>1, <2>1
        <4>2. L + q > v
          BY <2>3, <4>1
        <4>3. p + q < v
          <5>1. p + q \in Nat /\ p + q <= MAX_INPUT - 1
            BY <1>1, <1>3
          <5>2. MAX_INPUT <= v
            BY <1>1, <2>1
          <5> QED
            BY <1>1, <4>1, <5>1, <5>2
        <4>4. col < v
          BY <1>1, <2>1, <4>1, <4>3
        <4>5. m = (L + q) - v
          OBVIOUS
        <4> HIDE DEF v, m
        <4>6. m \in Nat /\ m <= L + q /\ (L + q) - m = v
          BY <4>1, <4>2, <4>5
        <4> QED
          BY <4>1, <4>3, <4>4, <4>6
      <3>2. t = SubSeq(a, m + 1, L + q)
        BY <1>6, <2>3
      <3>3. /\ t \in Seq(Chars) /\ Len(t) = v
            /\ \A i \in 1..v : t[i] = a[m + i]
        <4> DEFINE e == L + q
        <4>1. e \in Nat /\ m <= e /\ e <= Len(a) /\ e - m = v /\ a \in Seq(Chars)
          BY <1>4, <3>1
        <4>2. t = SubSeq(a, m + 1, e)
          BY <3>2
        <4> HIDE DEF m, v, e
        <4> QED
          BY <3>1, <4>1, <4>2, Cut
      <3> HIDE DEF m, v
      <3>4. ASSUME NEW i \in Nat, i < col
            PROVE  t[v - i] = l2[(p + q) - i]
        <4>1. i < q /\ v - i \in 1..v
          BY <1>1, <2>1, <3>1, <3>4
        <4>2. m + (v - i) = (L + q) - i
          BY <1>1, <3>1
        <4> QED
          BY <1>7, <3>3, <4>1, <4>2
      <3>5. v <= Above + col /\ p + q <= v /\ ~(v = p + q)
        BY <1>1, <2>1, <3>1 DEF v
      <3> QED
        BY <1>5, <2>1, <3>3, <3>4, <3>5 DEF OnScreen, q, a, t
    <2> QED
      BY <2>2, <2>3
  <1> QED
    BY <1>9, <1>10

(* What Echo does to the screen, the line does with n bytes fewer and the  *)
(* characters of s behind them.                                            *)
LEMMA EchoLine ==
    ASSUME pos \in Nat, OnScreen(shown, cursor_col, line, pos),
           NEW n \in Nat, n <= pos, NEW s \in Seq(Chars), pos - n + Len(s) <= MAX_INPUT - 1,
           NEW l, \A i \in 1..(pos - n) : l[i] = line[i],
           \A i \in 1..Len(s) : l[pos - n + i] = s[i],
           Echo(n, s)
    PROVE  OnScreen(shown', cursor_col', l, pos - n + Len(s))
  <1> DEFINE k == RubbedOut(n)
             kept == SubSeq(shown, 1, Len(shown) - k)
             c == cursor_col - k
             p == pos - n
  <1>1. p \in Nat
    OBVIOUS
  <1>2. k = IF n <= cursor_col THEN n ELSE cursor_col
    BY DEF RubbedOut
  <1>3. OnScreen(kept, c, line, p)
    BY <1>2, RubOut
  <1>4. cursor_col' = (c + Len(s)) % WIDTH /\ shown' = Scrolled(kept \o s, cursor_col')
    BY DEF Echo
  <1>5. /\ p + Len(s) <= MAX_INPUT - 1 /\ \A i \in 1..p : l[i] = line[i]
        /\ \A i \in 1..Len(s) : l[p + i] = s[i]
    OBVIOUS
  <1>6. OnScreen(shown', cursor_col', l, p + Len(s))
    <2> HIDE DEF k, kept, c, p
    <2> QED
      BY <1>1, <1>3, <1>4, <1>5, PrintOut
  <1> QED
    BY <1>6

(* The first pos bytes of the buffer are characters.                       *)
LEMMA Entered ==
    ASSUME LineInv
    PROVE  /\ pos \in Nat /\ pos < MAX_INPUT /\ MAX_INPUT \in Nat
           /\ \A i \in 1..pos : i \in 1..MAX_INPUT /\ line[i] \in Chars
  BY PromptLimits DEF LineInv

(* A printable key.                                                        *)
LEMMA TypeKeyLine ==
    ASSUME LineInv, NEW c \in Chars, type_key(c)
    PROVE  LineInv'
  <1>1. /\ pos < MAX_INPUT - 1 /\ line' = [line EXCEPT ![pos + 1] = c]
        /\ pos' = pos + 1 /\ Echo(0, <<c>>)
    BY DEF type_key
  <1>2. pos + 1 \in 0..(MAX_INPUT - 1) /\ pos + 1 \in 1..MAX_INPUT /\ pos + 1 # MAX_INPUT
    BY <1>1, Entered
  <1>3. line' \in [1..MAX_INPUT -> Chars \cup {NUL}] /\ line'[MAX_INPUT] = NUL
    BY <1>1, <1>2, Entered DEF LineInv
  <1>4. \A i \in 1..pos : i # pos + 1 /\ i \in 1..MAX_INPUT
    BY Entered
  <1>5. line'[pos + 1] = c /\ \A i \in 1..pos : line'[i] = line[i]
    BY <1>1, <1>2, <1>4 DEF LineInv
  <1>6. \A i \in 1..(pos + 1) : i \in 1..pos \/ i = pos + 1
    BY Entered
  <1>7. \A i \in 1..(pos + 1) : line'[i] \in Chars
    BY <1>5, <1>6, Entered
  <1>8. OnScreen(shown', cursor_col', line', pos + 1)
    <2>1. <<c>> \in Seq(Chars) /\ Len(<<c>>) = 1 /\ <<c>>[1] = c
      OBVIOUS
    <2>2. pos \in Nat /\ pos - 0 = pos /\ pos - 0 + Len(<<c>>) = pos + 1 /\ 0 \in Nat /\ 0 <= pos
      BY <2>1, Entered
    <2>3. pos - 0 + Len(<<c>>) <= MAX_INPUT - 1
      BY <1>2, <2>2
    <2>4. \A i \in 1..Len(<<c>>) : line'[pos - 0 + i] = <<c>>[i]
      BY <1>5, <2>1, <2>2
    <2>5. OnScreen(shown', cursor_col', line', pos - 0 + Len(<<c>>))
      <3>1. \A i \in 1..(pos - 0) : line'[i] = line[i]
        BY <1>5, <2>2
      <3>2. OnScreen(shown, cursor_col, line, pos)
        BY DEF LineInv
      <3> QED
        BY <1>1, <2>1, <2>2, <2>3, <2>4, <3>1, <3>2, EchoLine
    <2> QED
      BY <2>2, <2>5
  <1> QED
    BY <1>1, <1>2, <1>3, <1>7, <1>8 DEF LineInv

(* Backspace leaves the byte of the last character behind.                 *)
LEMMA BackspaceLine ==
    ASSUME LineInv, backspace
    PROVE  LineInv'
  <1>1. /\ pos > 0 /\ pos' = pos - 1 /\ line' = line /\ Echo(1, <<>>)
    BY DEF backspace
  <1>2. pos - 1 \in 0..(MAX_INPUT - 1) /\ \A i \in 1..(pos - 1) : i \in 1..pos
    BY <1>1, Entered
  <1>3. OnScreen(shown', cursor_col', line, pos - 1)
    <2>1. <<>> \in Seq(Chars) /\ Len(<<>>) = 0 /\ \A i \in 1..Len(<<>>) : FALSE
      OBVIOUS
    <2>2. pos \in Nat /\ 1 \in Nat /\ 1 <= pos /\ pos - 1 + Len(<<>>) = pos - 1
          /\ pos - 1 + Len(<<>>) <= MAX_INPUT - 1
      BY <1>1, <2>1, Entered
    <2>3. OnScreen(shown, cursor_col, line, pos)
      BY DEF LineInv
    <2>4. OnScreen(shown', cursor_col', line, pos - 1 + Len(<<>>))
      BY <1>1, <2>1, <2>2, <2>3, EchoLine
    <2> QED
      BY <2>2, <2>4
  <1> QED
    BY <1>1, <1>2, <1>3 DEF LineInv

(* A recalled row replaces the line, whatever was in the buffer.           *)
LEMMA RecallLine ==
    ASSUME PromptInv, NEW row \in Nat, row < Len(history), Recall(row)
    PROVE  LineInv' /\ HistoryInv'
  <1> DEFINE s == history[row + 1]
             n == Len(s)
  <1>1. history \in Seq(Lines) /\ Len(history) \in Nat
    BY LenProperties DEF PromptInv, HistoryInv
  <1>2. row + 1 \in 1..Len(history)
    BY <1>1
  <1>3. s \in Lines
    BY <1>1, <1>2, ElementOfSeq
  <1>4. s \in Seq(Chars) /\ n <= MAX_INPUT - 1 /\ MAX_INPUT \in Nat
    BY <1>3, LinesAre, PromptLimits
  <1>5. n \in 0..(MAX_INPUT - 1) /\ \A i \in 1..n : s[i] \in Chars
    BY <1>4, LenProperties
  <1>6. /\ history_pos' = row /\ pos' = n /\ Echo(pos, s) /\ UNCHANGED <<history, ran>>
        /\ line' = [i \in 1..MAX_INPUT |-> IF i <= n THEN s[i]
                                           ELSE IF i = n + 1 THEN NUL ELSE line[i]]
    BY DEF Recall
  <1>7. n = Len(s)
    OBVIOUS
  <1> HIDE DEF s, n
  <1>8. \A i \in 1..MAX_INPUT : i <= n => i \in 1..n
    BY <1>5
  <1>9. \A i \in 1..MAX_INPUT : line[i] \in Chars \cup {NUL}
    BY DEF PromptInv, LineInv
  <1>10. line' \in [1..MAX_INPUT -> Chars \cup {NUL}]
    BY <1>5, <1>6, <1>8, <1>9
  <1>11. MAX_INPUT \in 1..MAX_INPUT /\ ~(MAX_INPUT <= n)
    BY <1>5, PromptLimits
  <1>12. line'[MAX_INPUT] = NUL
    BY <1>6, <1>11 DEF PromptInv, LineInv
  <1>13. \A i \in 1..n : i \in 1..MAX_INPUT /\ i <= n
    BY <1>5, PromptLimits
  <1>14. \A i \in 1..n : line'[i] = s[i]
    BY <1>6, <1>13
  <1>15. OnScreen(shown', cursor_col', line', n)
    <2>1. pos \in Nat /\ pos <= pos /\ pos - pos + n = n /\ n <= MAX_INPUT - 1
          /\ \A i \in 1..(pos - pos) : FALSE
      BY <1>5, Entered DEF PromptInv
    <2>2. \A i \in 1..n : pos - pos + i = i
      BY <2>1
    <2>3. \A i \in 1..n : line'[pos - pos + i] = s[i]
      BY <1>14, <2>2
    <2>4. OnScreen(shown, cursor_col, line, pos)
      BY DEF PromptInv, LineInv
    <2>5. OnScreen(shown', cursor_col', line', pos - pos + n)
      BY <1>4, <1>6, <1>7, <2>1, <2>3, <2>4, EchoLine
    <2> QED
      BY <2>1, <2>5
  <1>16. LineInv'
    BY <1>5, <1>6, <1>10, <1>12, <1>14, <1>15 DEF LineInv
  <1>17. row \in 0..Len(history)
    BY <1>1
  <1>18. HistoryInv'
    BY <1>6, <1>17 DEF PromptInv, HistoryInv, HistoryIsRecent
  <1> QED
    BY <1>16, <1>18

(* A command joins the history, and the oldest row leaves a full one.      *)
LEMMA RememberHistory ==
    ASSUME HistoryInv, NEW s \in Lines, Len(ran) < MaxCommands,
           history' = Remember(s), history_pos' = Len(history'),
           ran' = Append(ran, strupr(s))
    PROVE  HistoryInv'
  <1> DEFINE u == strupr(s)
             h == Len(history)
             r == Len(ran)
  <1>1. /\ history \in Seq(Lines) /\ h \in Nat /\ h <= HISTORY_SIZE
        /\ ran \in Seq(Lines) /\ r \in Nat /\ h <= r
        /\ HISTORY_SIZE \in Nat /\ HISTORY_SIZE > 0 /\ MaxCommands \in Nat
    BY LenProperties, PromptLimits DEF HistoryInv
  <1>2. /\ r > h => h = HISTORY_SIZE
        /\ \A i \in 1..h : strupr(history[i]) = ran[(r - h) + i]
    BY DEF HistoryInv, HistoryIsRecent
  <1>3. u \in Lines
    BY UpperType
  <1>4. /\ ran' \in Seq(Lines) /\ Len(ran') = r + 1
        /\ \A i \in 1..r : ran'[i] = ran[i]
        /\ ran'[r + 1] = u
    BY <1>1, <1>3, AppendProperties
  <1>5. r + 1 <= MaxCommands
    BY <1>1
  <1>6. CASE h < HISTORY_SIZE
    <2>1. history' = Append(history, s)
      BY <1>6 DEF Remember
    <2>2. /\ history' \in Seq(Lines) /\ Len(history') = h + 1
          /\ \A i \in 1..h : history'[i] = history[i]
          /\ history'[h + 1] = s
      BY <1>1, <2>1, AppendProperties
    <2>3. r = h
      BY <1>1, <1>2, <1>6
    <2>4. \A i \in 1..h : strupr(history'[i]) = ran'[i]
      <3>1. \A i \in 1..h : (r - h) + i = i /\ i \in 1..r
        BY <1>1, <2>3
      <3> QED
        BY <1>2, <1>4, <2>2, <3>1
    <2>5. strupr(history'[h + 1]) = ran'[h + 1]
      BY <1>4, <2>2, <2>3
    <2>6. \A i \in 1..(h + 1) : (i \in 1..h \/ i = h + 1) /\ (Len(ran') - Len(history')) + i = i
      BY <1>1, <1>4, <2>2, <2>3
    <2>7. \A i \in 1..(h + 1) :
            strupr(history'[i]) = ran'[(Len(ran') - Len(history')) + i]
      BY <2>4, <2>5, <2>6
    <2>8. /\ ~(Len(ran') > Len(history')) /\ Len(history') <= Len(ran')
          /\ Len(history') <= HISTORY_SIZE /\ Len(history') \in 0..Len(history')
          /\ Len(ran') <= MaxCommands
      BY <1>1, <1>4, <1>5, <1>6, <2>2, <2>3
    <2> QED
      BY <1>4, <2>2, <2>7, <2>8 DEF HistoryInv, HistoryIsRecent
  <1>7. CASE ~(h < HISTORY_SIZE)
    <2>0. h = HISTORY_SIZE /\ history # <<>>
      BY <1>1, <1>7
    <2>1. history' = Append(Tail(history), s)
      BY <1>7 DEF Remember
    <2>2. /\ Tail(history) \in Seq(Lines) /\ Len(Tail(history)) = h - 1
          /\ \A i \in 1..(h - 1) : Tail(history)[i] = history[i + 1]
      BY <1>1, <2>0, HeadTailProperties
    <2>3. /\ history' \in Seq(Lines) /\ Len(history') = (h - 1) + 1
          /\ \A i \in 1..(h - 1) : history'[i] = Tail(history)[i]
          /\ history'[(h - 1) + 1] = s
      BY <2>1, <2>2, AppendProperties
    <2>4. Len(history') = h /\ history'[h] = s
      BY <1>1, <2>3
    <2>5. \A i \in 1..(h - 1) : /\ i + 1 \in 1..h /\ (r - h) + (i + 1) \in 1..r
                                /\ (r - h) + (i + 1) = (Len(ran') - Len(history')) + i
      BY <1>1, <1>4, <2>4
    <2>6. \A i \in 1..(h - 1) :
            strupr(history'[i]) = ran'[(Len(ran') - Len(history')) + i]
      BY <1>2, <1>4, <2>2, <2>3, <2>5
    <2>7. (Len(ran') - Len(history')) + h = r + 1
      BY <1>1, <1>4, <2>4
    <2>8. \A i \in 1..h : i \in 1..(h - 1) \/ i = h
      BY <1>1
    <2>9. \A i \in 1..h : strupr(history'[i]) = ran'[(Len(ran') - Len(history')) + i]
      BY <1>4, <2>4, <2>6, <2>7, <2>8
    <2>10. /\ Len(history') = HISTORY_SIZE /\ Len(history') <= Len(ran')
           /\ Len(history') <= HISTORY_SIZE /\ Len(history') \in 0..Len(history')
           /\ Len(ran') <= MaxCommands
      BY <1>1, <1>4, <1>5, <2>0, <2>4
    <2> QED
      BY <1>4, <2>3, <2>4, <2>9, <2>10 DEF HistoryInv, HistoryIsRecent
  <1> QED
    BY <1>6, <1>7

(* Behind a prompt nothing is entered.                                     *)
LEMMA FreshLine ==
    ASSUME NEW l, l = EmptyLine, NEW c \in PromptColumns
    PROVE  /\ l \in [1..MAX_INPUT -> Chars \cup {NUL}] /\ l[MAX_INPUT] = NUL
           /\ 0 \in 0..(MAX_INPUT - 1) /\ \A i \in 1..0 : l[i] \in Chars
           /\ OnScreen(<<>>, c, l, 0)
  <1>1. l \in [1..MAX_INPUT -> Chars \cup {NUL}] /\ l[MAX_INPUT] = NUL
    BY PromptLimits DEF EmptyLine
  <1>2. 0 \in 0..(MAX_INPUT - 1) /\ \A i \in 1..0 : FALSE
    BY PromptLimits
  <1>3. <<>> \in Seq(Chars) /\ Len(<<>>) = 0
    OBVIOUS
  <1>4. c \in 0..(WIDTH - 1) /\ 0 <= Above + c /\ \A i \in Nat : ~(i < 0)
    BY PromptLimits
  <1>5. OnScreen(<<>>, c, l, 0)
    BY <1>2, <1>3, <1>4 DEF OnScreen
  <1> QED
    BY <1>1, <1>2, <1>5

(* A dispatched line, and the prompt after it.                             *)
LEMMA SubmitLine ==
    ASSUME PromptInv,
           NEW l \in [1..MAX_INPUT -> Chars \cup {NUL}],
           NEW n \in 0..(MAX_INPUT - 1), l[n + 1] = NUL, Submit(l)
    PROVE  LineInv' /\ HistoryInv'
  <1> DEFINE s == str_trim(CString(l))
  <1>1. s \in Lines
    BY StringIs, TrimType
  <1>2. /\ Len(ran) < MaxCommands
        /\ s = <<>> => UNCHANGED <<history, history_pos, ran>>
        /\ s # <<>> => /\ history' = Remember(s) /\ history_pos' = Len(history')
                       /\ ran' = Append(ran, strupr(s))
        /\ line' = EmptyLine /\ pos' = 0 /\ shown' = <<>> /\ cursor_col' \in PromptColumns
    BY DEF Submit
  <1> HIDE DEF s
  <1>3. HistoryInv'
    <2>1. CASE s = <<>>
      BY <1>2, <2>1 DEF PromptInv, HistoryInv, HistoryIsRecent
    <2>2. CASE s # <<>>
      BY <1>1, <1>2, <2>2, RememberHistory DEF PromptInv
    <2> QED
      BY <2>1, <2>2
  <1>4. LineInv'
    BY <1>2, FreshLine DEF LineInv
  <1> QED
    BY <1>3, <1>4

(* The first prompt.                                                       *)
LEMMA PromptInit ==
    ASSUME ShellInit
    PROVE  PromptInv
  <1>1. /\ line = EmptyLine /\ pos = 0 /\ history = <<>> /\ history_pos = 0
        /\ shown = <<>> /\ cursor_col \in PromptColumns /\ ran = <<>>
    BY DEF ShellInit
  <1>2. LineInv
    BY <1>1, FreshLine DEF LineInv
  <1>3. HistoryInv
    BY <1>1, PromptLimits DEF HistoryInv, HistoryIsRecent
  <1> QED
    BY <1>2, <1>3 DEF PromptInv

(* The first pos bytes of the buffer, as a sequence.                       *)
LEMMA EnteredSeq ==
    ASSUME LineInv
    PROVE  /\ SubSeq(line, 1, pos) \in Seq(Chars) /\ Len(SubSeq(line, 1, pos)) = pos
           /\ \A i \in 1..pos : SubSeq(line, 1, pos)[i] = line[i]
  <1>1. pos \in Int /\ \A i \in 1..pos : line[i] \in Chars
    BY Entered
  <1>2. /\ SubSeq(line, 1, pos) \in Seq(Chars)
        /\ Len(SubSeq(line, 1, pos)) = IF 1 <= pos THEN pos - 1 + 1 ELSE 0
        /\ \A i \in 1..(pos - 1 + 1) : SubSeq(line, 1, pos)[i] = line[1 + i - 1]
    BY <1>1, SubSeqProperties
  <1>3. (IF 1 <= pos THEN pos - 1 + 1 ELSE 0) = pos /\ pos - 1 + 1 = pos
    BY Entered
  <1>4. \A i \in 1..pos : 1 + i - 1 = i
    OBVIOUS
  <1> QED
    BY <1>2, <1>3, <1>4

(* What the screen shows of the line.                                      *)
LEMMA ScreenShows ==
    ASSUME LineInv
    PROVE  LineMatchesScreen
  <1> DEFINE L == Len(shown)
  <1>1. /\ shown \in Seq(Chars) /\ L \in Nat /\ cursor_col \in Nat
        /\ pos <= L /\ (cursor_col <= pos \/ L <= pos) /\ pos \in Nat
    BY LenProperties, PromptLimits, Entered DEF LineInv, OnScreen
  <1>2. /\ \A i \in Nat : (i < cursor_col /\ i < L) => shown[L - i] = line[pos - i]
        /\ L = pos => \A i \in 1..pos : shown[i] = line[i]
    BY DEF LineInv, OnScreen
  <1>3. OnRow = IF cursor_col < L THEN cursor_col ELSE L
    BY DEF OnRow
  <1>4. L = pos => shown = SubSeq(line, 1, pos)
    BY <1>1, <1>2, EnteredSeq, SeqEqual
  <1> HIDE DEF L
  <1>5. OnRow <= pos /\ \A i \in 0..(OnRow - 1) : i \in Nat /\ i < cursor_col /\ i < L
    BY <1>1, <1>3
  <1> QED
    BY <1>1, <1>2, <1>4, <1>5 DEF LineMatchesScreen, L

(* The buffer Enter dispatches ends at pos.                                *)
LEMMA EnterTerminates ==
    ASSUME LineInv, NEW l, l = [line EXCEPT ![pos + 1] = NUL]
    PROVE  /\ l \in [1..MAX_INPUT -> Chars \cup {NUL}]
           /\ l[pos + 1] = NUL
           /\ CString(l) = SubSeq(line, 1, pos)
  <1>1. pos + 1 \in 1..MAX_INPUT /\ \A i \in 1..pos : i # pos + 1 /\ i \in 1..MAX_INPUT
    BY Entered
  <1>2. l \in [1..MAX_INPUT -> Chars \cup {NUL}] /\ l[pos + 1] = NUL
    BY <1>1 DEF LineInv
  <1>3. \A i \in 1..pos : l[i] = line[i] /\ l[i] \in Chars /\ l[i] # NUL
    BY <1>1, Entered, PromptLimits DEF LineInv
  <1>4. pos \in 0..(MAX_INPUT - 1)
    BY DEF LineInv
  <1>5. CString(l) = SubSeq(l, 1, pos)
    BY <1>2, <1>3, <1>4, StringIs
  <1>6. /\ SubSeq(l, 1, pos) \in Seq(Chars) /\ Len(SubSeq(l, 1, pos)) = pos
        /\ \A i \in 1..pos : SubSeq(l, 1, pos)[i] = l[i]
    <2>1. pos \in Int /\ \A i \in 1..pos : l[i] \in Chars
      BY <1>3, Entered
    <2>2. /\ SubSeq(l, 1, pos) \in Seq(Chars)
          /\ Len(SubSeq(l, 1, pos)) = IF 1 <= pos THEN pos - 1 + 1 ELSE 0
          /\ \A i \in 1..(pos - 1 + 1) : SubSeq(l, 1, pos)[i] = l[1 + i - 1]
      BY <2>1, SubSeqProperties
    <2>3. (IF 1 <= pos THEN pos - 1 + 1 ELSE 0) = pos /\ pos - 1 + 1 = pos
      BY Entered
    <2>4. \A i \in 1..pos : 1 + i - 1 = i
      OBVIOUS
    <2> QED
      BY <2>2, <2>3, <2>4
  <1>7. SubSeq(l, 1, pos) = SubSeq(line, 1, pos)
    BY <1>3, <1>6, EnteredSeq, SeqEqual
  <1> QED
    BY <1>2, <1>5, <1>7

(* Every key keeps the line and the history.                               *)
LEMMA PromptStep ==
    ASSUME PromptInv, [ShellNext]_shell_vars
    PROVE  PromptInv'
  <1>0. LineInv /\ HistoryInv
    BY DEF PromptInv
  <1>1. CASE \E c \in Chars : type_key(c)
    <2>1. LineInv'
      BY <1>0, <1>1, TypeKeyLine
    <2>2. UNCHANGED <<history, history_pos, ran>>
      BY <1>1 DEF type_key
    <2> QED
      BY <1>0, <2>1, <2>2 DEF PromptInv, HistoryInv, HistoryIsRecent
  <1>2. CASE backspace
    <2>1. UNCHANGED <<history, history_pos, ran>>
      BY <1>2 DEF backspace
    <2> QED
      BY <1>0, <1>2, <2>1, BackspaceLine DEF PromptInv, HistoryInv, HistoryIsRecent
  <1>3. CASE arrow_up
    <2> DEFINE row == IF history_pos > 0 THEN history_pos - 1 ELSE history_pos
    <2>1. history \in Seq(Lines) /\ history # <<>> /\ history_pos \in 0..Len(history)
      BY <1>0, <1>3 DEF HistoryInv, arrow_up
    <2>2. Len(history) \in Nat \ {0}
      BY <2>1, EmptySeq
    <2>3. row \in Nat /\ row < Len(history)
      BY <2>1, <2>2
    <2>4. Recall(row)
      BY <1>3 DEF arrow_up
    <2> HIDE DEF row
    <2> QED
      BY <2>3, <2>4, RecallLine DEF PromptInv
  <1>4. CASE arrow_down
    <2>1. history_pos \in 0..Len(history) /\ Len(history) \in Nat /\ history_pos < Len(history) - 1
      BY <1>0, <1>4, LenProperties DEF HistoryInv, arrow_down
    <2>2. history_pos + 1 \in Nat /\ history_pos + 1 < Len(history)
      BY <2>1
    <2> QED
      BY <1>4, <2>2, RecallLine DEF PromptInv, arrow_down
  <1>5. CASE enter
    <2> DEFINE l == [line EXCEPT ![pos + 1] = NUL]
    <2>1. Submit(l)
      BY <1>5 DEF enter
    <2>2. /\ l \in [1..MAX_INPUT -> Chars \cup {NUL}] /\ l[pos + 1] = NUL
          /\ pos \in 0..(MAX_INPUT - 1)
      BY <1>0, EnterTerminates DEF LineInv
    <2> HIDE DEF l
    <2> QED
      BY <2>1, <2>2, SubmitLine DEF PromptInv
  <1>6. CASE ctrl_c
    <2>1. /\ MAX_INPUT - 1 \in 0..(MAX_INPUT - 1) /\ (MAX_INPUT - 1) + 1 = MAX_INPUT
          /\ line \in [1..MAX_INPUT -> Chars \cup {NUL}]
          /\ line[MAX_INPUT] = NUL
      BY <1>0, PromptLimits DEF LineInv
    <2>2. line[(MAX_INPUT - 1) + 1] = NUL
      BY <2>1
    <2> QED
      BY <1>6, <2>1, <2>2, SubmitLine DEF PromptInv, ctrl_c
  <1>7. CASE UNCHANGED shell_vars
    BY <1>0, <1>7 DEF PromptInv, LineInv, HistoryInv, shell_vars, screen, OnScreen,
                      HistoryIsRecent
  <1> QED
    BY <1>1, <1>2, <1>3, <1>4, <1>5, <1>6, <1>7 DEF ShellNext

(* The invariant holds in every reachable state of the prompt.             *)
THEOREM PromptInvCorrect == ShellSpec => []PromptInv
  <1>1. ShellInit => PromptInv
    BY PromptInit
  <1>2. PromptInv /\ [ShellNext]_shell_vars => PromptInv'
    BY PromptStep
  <1> QED
    BY <1>1, <1>2, PTL DEF ShellSpec

(* Every reachable state of the prompt is well typed: the cursor never     *)
(* leaves the buffer of shell_main and keeps room for the terminator, and  *)
(* the arrows never recall a row the history does not have.                *)
THEOREM PromptTypeCorrect == ShellSpec => []ShellTypeOK
  <1>1. PromptInv => ShellTypeOK
    BY DEF PromptInv, LineInv, OnScreen, HistoryInv, ShellTypeOK
  <1> QED
    BY <1>1, PromptInvCorrect, PTL

(* The row of the cursor shows the end of what the buffer of shell_main    *)
(* holds, after any sequence of typing, rubbing out and recalling over any *)
(* number of rows; and all that is shown is the line, unless a backspace   *)
(* in the first column left a character standing.                          *)
THEOREM PromptLineCorrect == ShellSpec => []LineMatchesScreen
  <1>1. PromptInv => LineMatchesScreen
    BY ScreenShows DEF PromptInv
  <1> QED
    BY <1>1, PromptInvCorrect, PTL

(* The history is the last HISTORY_SIZE commands, oldest first, however    *)
(* often shell_main has shifted it.                                        *)
THEOREM PromptHistoryCorrect == ShellSpec => []HistoryIsRecent
  <1>1. PromptInv => HistoryIsRecent
    BY DEF PromptInv, HistoryInv
  <1> QED
    BY <1>1, PromptInvCorrect, PTL

(* Enter dispatches the line, which is what the screen shows unless a      *)
(* character was left standing, and nothing that was rubbed out or left    *)
(* over from a longer recalled line.                                       *)
THEOREM PromptEnterCorrect == ShellSpec => EnterRunsWhatIsShown
  <1> DEFINE e == IF Len(shown) = pos THEN shown ELSE SubSeq(line, 1, pos)
             s == str_trim(e)
             Runs == ran' = IF s = <<>> THEN ran ELSE Append(ran, strupr(s))
  <1>1. PromptInv /\ enter => Runs
    <2> SUFFICES ASSUME PromptInv, enter
                 PROVE  Runs
      OBVIOUS
    <2> DEFINE l == [line EXCEPT ![pos + 1] = NUL]
    <2>1. Submit(l)
      BY DEF enter
    <2>2. CString(l) = SubSeq(line, 1, pos)
      BY EnterTerminates DEF PromptInv
    <2>3. e = SubSeq(line, 1, pos)
      BY ScreenShows DEF PromptInv, LineMatchesScreen
    <2> HIDE DEF e, l
    <2> QED
      BY <2>1, <2>2, <2>3 DEF Submit
  <1>2. PromptInv /\ [ShellNext]_shell_vars => [enter => Runs]_shell_vars
    BY <1>1
  <1>3. ShellSpec => []PromptInv
    BY PromptInvCorrect
  <1> QED
    BY <1>2, <1>3, PTL DEF ShellSpec, EnterRunsWhatIsShown
=============================================================================

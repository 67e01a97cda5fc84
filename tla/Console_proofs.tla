--------------------------- MODULE Console_proofs ---------------------------
(***************************************************************************)
(* Proofs about Console, for every size of the screen, of the scrollback   *)
(* buffer and of a page, and for every length of the output.               *)
(***************************************************************************)
EXTENDS Console, SequenceTheorems, TLAPS

(* The lines of the buffer are the last ones that left the screen, but for *)
(* the oldest one while the next is copied over it.                        *)
RingIsHistory ==
    ~mixed => \A i \in 0..(scrollback_count - 1) :
                 (i > 0 \/ ~OldestLost) =>
                    BufferLine(i) = gone[Len(gone) - scrollback_count + i + 1]

(* The line that is being counted has been copied.                         *)
LineCopied == ~mixed /\ pc = "count" => scrollback_buffer[scrollback_write_pos] = live[0]

(* The output is on the screen, or set aside.                              *)
LiveKept ==
    ~mixed => live = IF scroll_offset = 0 THEN vga ELSE saved_screen

(* The line the view shows in row y when it is scrolled back by offset.    *)
Shown(offset, y) == IF y < offset THEN gone[Len(gone) - offset + y + 1] ELSE live[y - offset]

ViewShown ==
    ~mixed /\ ~OldestLost /\ scroll_offset > 0 =>
        \A y \in RowIds : vga[y] = Marked(y, Shown(scroll_offset, y))

Gone == gone \in Seq(Line) /\ scrollback_count <= Len(gone)

IInv == SavedWhileScrolled /\ Gone /\ RingIsHistory /\ LineCopied /\ LiveKept /\ ViewShown

-----------------------------------------------------------------------------
(* Operators.                                                              *)

(* The sizes.                                                              *)
LEMMA Sizes ==
    /\ Rows \in Nat /\ Rows > 1 /\ Cols \in Nat /\ Cols > 0 /\ Page \in Nat /\ Page > 0
    /\ SCROLLBACK_LINES \in Nat /\ SCROLLBACK_LINES > 0 /\ MaxOutput \in Nat
    /\ 0 \in RowIds /\ 0 \in ColIds /\ Cols - 1 \in ColIds /\ Rows - 1 \in RowIds /\ 0 \in Slots
  BY ConsoleAssumption DEF RowIds, ColIds, Slots

(* Positions of the ring wrap at its end.                                  *)
LEMMA Wrap ==
    ASSUME NEW x \in Nat, x < SCROLLBACK_LINES + SCROLLBACK_LINES
    PROVE  /\ x % SCROLLBACK_LINES = IF x < SCROLLBACK_LINES THEN x ELSE x - SCROLLBACK_LINES
           /\ x % SCROLLBACK_LINES \in Slots
  <1> DEFINE m == SCROLLBACK_LINES
             q == x \div m
             r == x % m
  <1>1. m \in Nat /\ m > 0 /\ x < m + m
    BY Sizes
  <1>2. q \in Int /\ r \in 0..(m - 1) /\ x = m * q + r
    BY <1>1
  <1>3. Slots = 0..(m - 1)
    BY DEF Slots
  <1> HIDE DEF m, q, r
  <1>4. q >= 0
    <2> SUFFICES ASSUME q <= 0 - 1
                 PROVE  FALSE
      BY <1>2
    <2>1. m * (0 - 1 - q) >= 0 /\ m * (0 - 1 - q) = 0 - m - m * q /\ m * q \in Int
      BY <1>1, <1>2
    <2> QED
      BY <1>1, <1>2, <2>1
  <1>5. q <= 1
    <2> SUFFICES ASSUME q >= 2
                 PROVE  FALSE
      BY <1>2
    <2>1. m * (q - 2) >= 0 /\ m * (q - 2) = m * q - m - m /\ m * q \in Int
      BY <1>1, <1>2
    <2> QED
      BY <1>1, <1>2, <2>1
  <1>6. CASE q = 0
    <2>1. x = r
      BY <1>1, <1>2, <1>6
    <2> QED
      BY <1>1, <1>2, <1>3, <2>1 DEF m, r
  <1>7. CASE q = 1
    <2>1. x = m + r
      BY <1>1, <1>2, <1>7
    <2> QED
      BY <1>1, <1>2, <1>3, <2>1 DEF m, r
  <1> QED
    BY <1>2, <1>4, <1>5, <1>6, <1>7

(* Lines and screens that are written to stay lines and screens.           *)
LEMMA LineTypes ==
    /\ BlankLine \in Line /\ BlankScreen \in Screen
    /\ \A s \in Screen, r \in RowIds : s[r] \in Line
    /\ \A s \in Screen, r \in RowIds, l \in Line : [s EXCEPT ![r] = l] \in Screen
    /\ \A s \in Screen, r \in RowIds, c \in ColIds, ch \in Chars \cup {Space} :
          [s EXCEPT ![r][c] = ch] \in Screen
    /\ \A l \in Line, y \in RowIds : Marked(y, l) \in Line
  <1>1. BlankLine \in Line /\ BlankScreen \in Screen
    BY DEF BlankLine, BlankScreen, Line, Screen
  <1>2. \A s \in Screen, r \in RowIds : s[r] \in Line
    BY DEF Screen
  <1>3. \A s \in Screen, r \in RowIds, l \in Line : [s EXCEPT ![r] = l] \in Screen
    BY DEF Screen
  <1>4. \A l \in Line, c \in ColIds, ch \in Chars \cup {Space, Up, Down} : [l EXCEPT ![c] = ch] \in Line
    BY DEF Line
  <1>5. ASSUME NEW s \in Screen, NEW r \in RowIds, NEW c \in ColIds, NEW ch \in Chars \cup {Space}
        PROVE  [s EXCEPT ![r][c] = ch] \in Screen
    <2>1. [s[r] EXCEPT ![c] = ch] \in Line
      BY <1>2, <1>4
    <2>2. [s EXCEPT ![r][c] = ch] = [s EXCEPT ![r] = [s[r] EXCEPT ![c] = ch]]
      OBVIOUS
    <2> QED
      BY <1>3, <2>1, <2>2
  <1>6. \A l \in Line, y \in RowIds : Marked(y, l) \in Line
    BY <1>4, Sizes DEF Marked
  <1> QED
    BY <1>1, <1>2, <1>3, <1>5, <1>6

(* The i-th line of the buffer is in one of its slots; only the oldest     *)
(* line of a full ring is in the slot that is written next.                *)
LEMMA BufferSlot ==
    ASSUME TypeOK, NEW i \in 0..(scrollback_count - 1)
    PROVE  LET x == scrollback_write_pos + SCROLLBACK_LINES - scrollback_count + i
           IN  /\ x \in Nat /\ x < SCROLLBACK_LINES + SCROLLBACK_LINES
               /\ x % SCROLLBACK_LINES \in Slots
               /\ x % SCROLLBACK_LINES = IF x < SCROLLBACK_LINES THEN x ELSE x - SCROLLBACK_LINES
               /\ BufferLine(i) = scrollback_buffer[x % SCROLLBACK_LINES]
               /\ x % SCROLLBACK_LINES = scrollback_write_pos
                     => i = 0 /\ scrollback_count = SCROLLBACK_LINES
  <1> DEFINE x == scrollback_write_pos + SCROLLBACK_LINES - scrollback_count + i
  <1>1. /\ scrollback_write_pos \in Nat /\ scrollback_write_pos < SCROLLBACK_LINES
        /\ scrollback_count \in Nat /\ scrollback_count <= SCROLLBACK_LINES
        /\ SCROLLBACK_LINES \in Nat /\ i \in Nat /\ i < scrollback_count
    BY Sizes DEF TypeOK, Slots
  <1>2. x \in Nat /\ x < SCROLLBACK_LINES + SCROLLBACK_LINES
    BY <1>1
  <1>3. /\ x % SCROLLBACK_LINES = IF x < SCROLLBACK_LINES THEN x ELSE x - SCROLLBACK_LINES
        /\ x % SCROLLBACK_LINES \in Slots
    BY <1>2, Wrap
  <1>4. x % SCROLLBACK_LINES = scrollback_write_pos => i = 0 /\ scrollback_count = SCROLLBACK_LINES
    <2>1. CASE x < SCROLLBACK_LINES
      BY <1>1, <1>3, <2>1
    <2>2. CASE ~(x < SCROLLBACK_LINES)
      BY <1>1, <1>3, <2>2
    <2> QED
      BY <2>1, <2>2
  <1>5. BufferLine(i) = scrollback_buffer[x % SCROLLBACK_LINES]
    BY DEF BufferLine
  <1> QED
    BY <1>2, <1>3, <1>4, <1>5

-----------------------------------------------------------------------------
(* Output.                                                                 *)

(* A step that writes the same to the screen and to what output alone      *)
(* would have made, outside scrollback_capture_line.                       *)
LEMMA OutputKeeps ==
    ASSUME IInv, TypeOK',
           UNCHANGED <<scrollback, view, gone>>,
           \/ UNCHANGED <<vga, live, mixed>>
           \/ mixed' = (mixed \/ scroll_offset > 0) /\ (vga = live => vga' = live'),
           pc # "count", pc' # "count"
    PROVE  IInv'
  <1>1. UNCHANGED <<scrollback_buffer, scrollback_write_pos, scrollback_count, scroll_offset, saved_screen,
                    screen_saved, gone>>
    BY DEF scrollback, view
  <1>2. mixed \in BOOLEAN /\ scroll_offset \in Nat
    BY DEF IInv, SavedWhileScrolled, TypeOK
  <1>3. ~mixed' => ~mixed
    BY <1>2
  <1>4. SavedWhileScrolled' /\ Gone'
    BY <1>1 DEF IInv, SavedWhileScrolled, Gone
  <1>5. RingIsHistory'
    <2>1. ~OldestLost
      BY DEF OldestLost
    <2> QED
      BY <1>1, <1>3, <2>1 DEF IInv, RingIsHistory, BufferLine
  <1>6. LineCopied'
    BY DEF LineCopied
  <1>7. LiveKept' /\ ViewShown'
    <2>1. CASE UNCHANGED <<vga, live, mixed>>
      BY <1>1, <2>1 DEF IInv, LiveKept, ViewShown, OldestLost, Shown
    <2>2. CASE mixed' = (mixed \/ scroll_offset > 0) /\ (vga = live => vga' = live')
      <3>2. ~mixed' => ~(scroll_offset > 0)
        BY <2>2, Zenon
      <3>1. ~mixed' => scroll_offset = 0
        BY <1>2, <3>2
      <3> QED
        BY <1>1, <1>3, <2>2, <3>1 DEF IInv, LiveKept, ViewShown
    <2> QED
      BY <2>1, <2>2
  <1> QED
    BY <1>4, <1>5, <1>6, <1>7 DEF IInv

(* The types the other variables keep in an output step.                   *)
LEMMA OutputTypes ==
    ASSUME TypeOK, vga' \in Screen, live' \in Screen, mixed' \in BOOLEAN,
           UNCHANGED <<scrollback, view>>,
           cursor_row' \in 0..Rows, cursor_col' \in ColIds, outputs' \in 0..MaxOutput, row' \in RowIds,
           pc' \in {"idle", "clear", "capture", "count", "move"},
           pc' \in {"idle", "clear"} => cursor_row' < Rows
    PROVE  TypeOK'
  BY DEF TypeOK, scrollback, view

(* Where CheckScroll leaves the cursor.                                    *)
LEMMA ScrollChecked ==
    ASSUME NEW r \in 0..Rows, CheckScroll(r)
    PROVE  /\ cursor_row' \in 0..Rows /\ row' \in RowIds /\ pc' \in {"idle", "capture"}
           /\ pc' \in {"idle", "clear"} => cursor_row' < Rows
  BY Sizes DEF CheckScroll

(* What Output says.                                                       *)
LEMMA OutputFacts ==
    ASSUME TypeOK, Output
    PROVE  /\ pc = "idle" /\ outputs' \in 0..MaxOutput /\ UNCHANGED <<scrollback, view, gone>>
           /\ cursor_row \in RowIds /\ cursor_row + 1 \in 0..Rows /\ cursor_row \in 0..Rows /\ cursor_row < Rows
           /\ cursor_col \in ColIds
  BY Sizes DEF TypeOK, Output, RowIds

(* putc.                                                                   *)
LEMMA PutcStep ==
    ASSUME IInv, NEW c \in Chars, putc(c)
    PROVE  IInv'
  <1>1. TypeOK /\ Output
    BY DEF IInv, SavedWhileScrolled, putc
  <1>2. /\ vga' = [vga EXCEPT ![cursor_row][cursor_col] = c]
        /\ live' = [live EXCEPT ![cursor_row][cursor_col] = c]
        /\ mixed' = (mixed \/ scroll_offset > 0)
    BY DEF putc, Draw
  <1>3. vga' \in Screen /\ live' \in Screen
    BY <1>1, <1>2, OutputFacts, LineTypes DEF TypeOK
  <1>4. mixed' \in BOOLEAN
    BY <1>2
  <1>5. cursor_col' \in ColIds /\ \E r \in 0..Rows : CheckScroll(r)
    BY <1>1, OutputFacts, Sizes DEF putc, ColIds
  <1>6. TypeOK'
    BY <1>1, <1>3, <1>4, <1>5, OutputFacts, OutputTypes, ScrollChecked
  <1>7. pc # "count" /\ pc' # "count"
    BY <1>1, <1>5, OutputFacts, ScrollChecked
  <1>8. UNCHANGED <<scrollback, view, gone>>
    BY <1>1, OutputFacts
  <1> QED
    BY <1>2, <1>6, <1>7, <1>8, OutputKeeps

(* A new line.                                                             *)
LEMMA NewlineStep ==
    ASSUME IInv, putc_newline
    PROVE  IInv'
  <1>1. TypeOK /\ Output
    BY DEF IInv, SavedWhileScrolled, putc_newline
  <1>2. cursor_col' \in ColIds /\ CheckScroll(cursor_row + 1) /\ UNCHANGED <<vga, live, mixed>>
    BY Sizes DEF putc_newline
  <1>3. /\ cursor_row' \in 0..Rows /\ row' \in RowIds /\ pc' \in {"idle", "capture"}
        /\ pc' \in {"idle", "clear"} => cursor_row' < Rows
    BY <1>1, <1>2, OutputFacts, ScrollChecked
  <1>4. vga' \in Screen /\ live' \in Screen /\ mixed' \in BOOLEAN
    BY <1>1, <1>2 DEF TypeOK
  <1>5. pc = "idle" /\ outputs' \in 0..MaxOutput /\ UNCHANGED <<scrollback, view, gone>>
    BY <1>1, OutputFacts
  <1>6. TypeOK'
    BY <1>1, <1>2, <1>3, <1>4, <1>5, OutputTypes
  <1> QED
    BY <1>2, <1>3, <1>5, <1>6, OutputKeeps

(* Return and cls move nothing on the screen.                              *)
LEMMA ReturnStep ==
    ASSUME IInv, putc_return \/ cls
    PROVE  IInv'
  <1>1. TypeOK /\ Output
    BY DEF IInv, SavedWhileScrolled, putc_return, cls
  <1>2. /\ UNCHANGED <<vga, live, mixed>> /\ cursor_row' = cursor_row /\ cursor_col' \in ColIds
        /\ pc' \in {"idle", "clear"} /\ row' \in RowIds
    BY <1>1, OutputFacts, Sizes DEF putc_return, cls, cursor, TypeOK
  <1>3. pc = "idle" /\ outputs' \in 0..MaxOutput /\ UNCHANGED <<scrollback, view, gone>>
        /\ cursor_row \in 0..Rows /\ cursor_row < Rows
    BY <1>1, OutputFacts
  <1>4. vga' \in Screen /\ live' \in Screen /\ mixed' \in BOOLEAN
    BY <1>1, <1>2 DEF TypeOK
  <1>5. TypeOK'
    BY <1>1, <1>2, <1>3, <1>4, OutputTypes
  <1> QED
    BY <1>2, <1>3, <1>5, OutputKeeps

(* Backspace.                                                              *)
LEMMA BackspaceStep ==
    ASSUME IInv, putc_backspace
    PROVE  IInv'
  <1>1. TypeOK /\ Output
    BY DEF IInv, SavedWhileScrolled, putc_backspace
  <1>2. /\ vga' = [vga EXCEPT ![cursor_row][cursor_col - 1] = Space]
        /\ live' = [live EXCEPT ![cursor_row][cursor_col - 1] = Space]
        /\ mixed' = (mixed \/ scroll_offset > 0)
        /\ UNCHANGED <<cursor_row, pc, row>> /\ cursor_col' = cursor_col - 1 /\ cursor_col > 0
    BY DEF putc_backspace, Draw
  <1>3. cursor_col - 1 \in ColIds
    BY <1>1, <1>2, OutputFacts, Sizes DEF ColIds
  <1>4. vga' \in Screen /\ live' \in Screen
    BY <1>1, <1>2, <1>3, OutputFacts, LineTypes DEF TypeOK
  <1>5. mixed' \in BOOLEAN
    BY <1>2
  <1>6. pc = "idle" /\ outputs' \in 0..MaxOutput /\ UNCHANGED <<scrollback, view, gone>>
        /\ cursor_row \in 0..Rows /\ cursor_row < Rows /\ row \in RowIds
    BY <1>1, OutputFacts DEF TypeOK
  <1>7. TypeOK'
    BY <1>1, <1>2, <1>3, <1>4, <1>5, <1>6, OutputTypes
  <1> QED
    BY <1>2, <1>6, <1>7, OutputKeeps

(* cls blanks row by row.                                                  *)
LEMMA ClearStep ==
    ASSUME IInv, clear_row
    PROVE  IInv'
  <1>1. TypeOK
    BY DEF IInv, SavedWhileScrolled
  <1>2. /\ pc = "clear" /\ UNCHANGED <<scrollback, view, outputs, gone>>
        /\ vga' = [vga EXCEPT ![row] = BlankLine] /\ live' = [live EXCEPT ![row] = BlankLine]
        /\ mixed' = (mixed \/ scroll_offset > 0)
    BY DEF clear_row, Draw
  <1>3. vga' \in Screen /\ live' \in Screen
    BY <1>1, <1>2, LineTypes DEF TypeOK
  <1>4. mixed' \in BOOLEAN
    BY <1>2
  <1>5. /\ row' \in RowIds /\ pc' \in {"idle", "clear"} /\ cursor_row' \in 0..Rows /\ cursor_row' < Rows
        /\ cursor_col' \in ColIds
    <2>1. CASE row = Rows - 1
      BY <2>1, Sizes DEF clear_row
    <2>2. CASE row # Rows - 1
      BY <1>1, <2>2, Sizes DEF clear_row, TypeOK, RowIds, cursor
    <2> QED
      BY <2>1, <2>2
  <1>6. outputs' \in 0..MaxOutput
    BY <1>1, <1>2 DEF TypeOK
  <1>7. TypeOK'
    BY <1>1, <1>2, <1>3, <1>4, <1>5, <1>6, OutputTypes
  <1> QED
    BY <1>2, <1>5, <1>7, OutputKeeps

(* scroll_up moves row by row.                                             *)
LEMMA MoveStep ==
    ASSUME IInv, move_row
    PROVE  IInv'
  <1>1. TypeOK
    BY DEF IInv, SavedWhileScrolled
  <1>2. /\ pc = "move" /\ UNCHANGED <<scrollback, view, outputs, gone>>
        /\ mixed' = (mixed \/ scroll_offset > 0)
    BY DEF move_row, Draw
  <1>3. vga' \in Screen /\ live' \in Screen /\ (vga = live => vga' = live')
    <2>1. CASE row < Rows - 1
      <3>1. vga' = [vga EXCEPT ![row] = vga[row + 1]] /\ live' = [live EXCEPT ![row] = live[row + 1]]
        BY <2>1 DEF move_row, Draw
      <3>2. row \in RowIds /\ row + 1 \in RowIds
        BY <1>1, <2>1, Sizes DEF TypeOK, RowIds
      <3>3. vga[row + 1] \in Line /\ live[row + 1] \in Line
        BY <1>1, <3>2, LineTypes DEF TypeOK
      <3> QED
        BY <1>1, <3>1, <3>2, <3>3, LineTypes DEF TypeOK
    <2>2. CASE ~(row < Rows - 1)
      <3>1. vga' = [vga EXCEPT ![row] = BlankLine] /\ live' = [live EXCEPT ![row] = BlankLine]
        BY <2>2 DEF move_row, Draw
      <3> QED
        BY <1>1, <3>1, LineTypes DEF TypeOK
    <2> QED
      BY <2>1, <2>2
  <1>4. mixed' \in BOOLEAN
    BY <1>2
  <1>5. /\ row' \in RowIds /\ pc' \in {"idle", "move"} /\ cursor_row' \in 0..Rows
        /\ pc' = "idle" => cursor_row' < Rows
        /\ cursor_col' \in ColIds
    <2>1. CASE row < Rows - 1
      BY <1>1, <1>2, <2>1, Sizes DEF move_row, TypeOK, RowIds, cursor
    <2>2. CASE ~(row < Rows - 1)
      BY <1>1, <2>2, Sizes DEF move_row, TypeOK
    <2> QED
      BY <2>1, <2>2
  <1>6. outputs' \in 0..MaxOutput
    BY <1>1, <1>2 DEF TypeOK
  <1>7. TypeOK'
    BY <1>1, <1>2, <1>3, <1>4, <1>5, <1>6, OutputTypes
  <1> QED
    BY <1>2, <1>3, <1>5, <1>7, OutputKeeps

-----------------------------------------------------------------------------
(* scrollback_capture_line.                                                *)

(* The first half of a capture: the slot that is overwritten holds no line *)
(* of the history but the oldest one of a full ring.                       *)
LEMMA CaptureStep ==
    ASSUME IInv, capture_line
    PROVE  IInv'
  <1>1. /\ pc = "capture" /\ pc' = "count"
        /\ scrollback_buffer' = [scrollback_buffer EXCEPT ![scrollback_write_pos] = vga[0]]
        /\ mixed' = (mixed \/ scroll_offset > 0)
        /\ UNCHANGED <<vga, cursor_row, cursor_col, scrollback_write_pos, scrollback_count, scroll_offset,
                       saved_screen, screen_saved, row, outputs, live, gone>>
    BY DEF capture_line, cursor, view
  <1>2. /\ TypeOK /\ scroll_offset \in Nat /\ scrollback_buffer \in [Slots -> Line]
        /\ scrollback_write_pos \in Slots /\ vga[0] \in Line
    BY LineTypes, Sizes DEF IInv, SavedWhileScrolled, TypeOK
  <1>3. ~mixed' => ~mixed /\ ~(scroll_offset > 0)
    BY <1>1, Zenon
  <1>4. ~mixed' => scroll_offset = 0 /\ vga = live
    BY <1>2, <1>3 DEF IInv, LiveKept
  <1>5. mixed' \in BOOLEAN
    BY <1>1
  <1>6. scrollback_buffer' \in [Slots -> Line]
    BY <1>1, <1>2
  <1>7. TypeOK'
    BY <1>1, <1>2, <1>5, <1>6 DEF TypeOK
  <1>8. SavedWhileScrolled' /\ Gone'
    BY <1>1, <1>7 DEF IInv, SavedWhileScrolled, Gone
  <1>9. LineCopied'
    BY <1>1, <1>2, <1>4 DEF LineCopied
  <1>10. LiveKept' /\ ViewShown'
    BY <1>1, <1>2, <1>3, <1>4 DEF LiveKept, ViewShown
  <1>11. RingIsHistory'
    <2> SUFFICES ASSUME ~mixed', NEW i \in 0..(scrollback_count' - 1), i > 0 \/ ~OldestLost'
                 PROVE  BufferLine(i)' = gone'[Len(gone') - scrollback_count' + i + 1]
      BY DEF RingIsHistory
    <2> DEFINE k == (scrollback_write_pos + SCROLLBACK_LINES - scrollback_count + i) % SCROLLBACK_LINES
    <2>1. i \in 0..(scrollback_count - 1) /\ (i > 0 \/ scrollback_count # SCROLLBACK_LINES)
      BY <1>1 DEF OldestLost
    <2>2. k \in Slots /\ k # scrollback_write_pos /\ BufferLine(i) = scrollback_buffer[k]
      BY <1>2, <2>1, BufferSlot
    <2>3. BufferLine(i)' = scrollback_buffer'[k]
      BY <1>1 DEF BufferLine
    <2> HIDE DEF k
    <2>4. scrollback_buffer'[k] = scrollback_buffer[k]
      BY <1>1, <1>2, <2>2
    <2>5. BufferLine(i) = gone[Len(gone) - scrollback_count + i + 1]
      BY <1>1, <1>3, <2>1 DEF IInv, RingIsHistory, OldestLost
    <2> QED
      BY <1>1, <2>2, <2>3, <2>4, <2>5
  <1> QED
    BY <1>8, <1>9, <1>10, <1>11 DEF IInv

(* The second half: the ring and the history grow by the same line.        *)
LEMMA CountStep ==
    ASSUME IInv, count_line
    PROVE  IInv'
  <1> DEFINE n == SCROLLBACK_LINES
             w == scrollback_write_pos
             c == scrollback_count
             g == Len(gone)
  <1>1. /\ pc = "count" /\ pc' = "move" /\ w' = (w + 1) % n /\ c' = IF c < n THEN c + 1 ELSE c
        /\ gone' = Append(gone, live[0]) /\ mixed' = (mixed \/ scroll_offset > 0)
        /\ UNCHANGED <<vga, cursor_row, cursor_col, scrollback_buffer, scroll_offset, saved_screen,
                       screen_saved, row, outputs, live>>
    BY DEF count_line, cursor, view
  <1>2. /\ TypeOK /\ scroll_offset \in Nat /\ scroll_offset <= c /\ live[0] \in Line /\ gone \in Seq(Line)
        /\ w \in Nat /\ w < n /\ c \in Nat /\ c <= n /\ n \in Nat /\ n > 0 /\ g \in Nat /\ c <= g
    BY LineTypes, LenProperties, Sizes DEF IInv, SavedWhileScrolled, TypeOK, Gone, Slots
  <1>3. ~mixed' => ~mixed /\ ~(scroll_offset > 0)
    BY <1>1, Zenon
  <1>4. ~mixed' => scroll_offset = 0
    BY <1>2, <1>3
  <1>5. mixed' \in BOOLEAN
    BY <1>1
  <1>6. w' \in Slots /\ w' = IF w + 1 < n THEN w + 1 ELSE 0
    <2>1. PICK y \in Nat : y = w + 1 /\ y < n + n
      BY <1>2
    <2>2. y % n \in Slots /\ y % n = IF y < n THEN y ELSE y - n
      BY <2>1, Wrap
    <2>3. ~(y < n) => y - n = 0
      BY <1>2, <2>1
    <2>4. w' = y % n
      BY <1>1, <2>1
    <2> QED
      BY <2>1, <2>2, <2>3, <2>4
  <1>7. c' \in 0..n /\ c <= c'
    BY <1>1, <1>2
  <1>8. /\ gone' \in Seq(Line) /\ Len(gone') = g + 1 /\ gone'[g + 1] = live[0]
        /\ \A i \in 1..g : gone'[i] = gone[i]
    BY <1>1, <1>2, AppendProperties
  <1>9. TypeOK'
    BY <1>1, <1>2, <1>5, <1>6, <1>7 DEF TypeOK
  <1>10. SavedWhileScrolled' /\ Gone'
    <2>1. scroll_offset' \in 0..scrollback_count' /\ scrollback_count' <= Len(gone')
      BY <1>1, <1>2, <1>7, <1>8
    <2> QED
      BY <1>1, <1>8, <1>9, <2>1 DEF IInv, SavedWhileScrolled, Gone
  <1>11. LineCopied' /\ LiveKept' /\ ViewShown'
    BY <1>1, <1>2, <1>3, <1>4 DEF IInv, LineCopied, LiveKept, ViewShown
  <1>12. RingIsHistory'
    <2> SUFFICES ASSUME ~mixed', NEW i \in 0..(c' - 1)
                 PROVE  BufferLine(i)' = gone'[Len(gone') - c' + i + 1]
      BY DEF RingIsHistory
    <2> DEFINE x == w' + n - c' + i
    <2>1. BufferLine(i)' = scrollback_buffer[x % n] /\ x \in Nat /\ x < n + n
          /\ x % n = IF x < n THEN x ELSE x - n
      <3>1. BufferLine(i)' = scrollback_buffer'[x % n]
        BY DEF BufferLine
      <3>2. w' \in Nat /\ w' < n /\ c' \in Nat /\ c' <= n /\ i \in Nat /\ i < c'
        <4>1. w' \in 0..(n - 1)
          BY <1>6 DEF Slots
        <4>2. c' \in Nat /\ c' <= n /\ w' \in Nat /\ w' < n
          BY <1>2, <1>7, <4>1
        <4>3. \A p \in Nat : i \in 0..(p - 1) => i \in Nat /\ i < p
          OBVIOUS
        <4> QED
          BY <4>2, <4>3, Zenon
      <3>3. x \in Nat /\ x < n + n
        <4>1. \A p, q, r, m \in Nat : p < m /\ q <= m /\ r < q =>
                 p + m - q + r \in Nat /\ p + m - q + r < m + m
          OBVIOUS
        <4>2. n \in Nat
          BY <1>2
        <4> QED
          BY <3>2, <4>1, <4>2
      <3> HIDE DEF x
      <3>4. x % n = IF x < n THEN x ELSE x - n
        BY <3>3, Wrap
      <3> QED
        BY <1>1, <3>1, <3>3, <3>4
    <2>2. CASE i = c' - 1
      <3>1. x % n = w
        BY <1>1, <1>2, <1>6, <1>7, <2>1, <2>2
      <3>2. scrollback_buffer[w] = live[0]
        BY <1>1, <1>3 DEF IInv, LineCopied
      <3>3. Len(gone') - c' + i + 1 = g + 1
        BY <1>2, <1>7, <1>8, <2>2
      <3> QED
        BY <1>8, <2>1, <3>1, <3>2, <3>3
    <2>3. CASE i # c' - 1
      <3>1. PICK j \in 0..(c - 1) : /\ j = IF c < n THEN i ELSE i + 1
                                    /\ j > 0 \/ c # n
        <4>1. CASE c < n
          BY <1>1, <1>2, <2>3, <4>1
        <4>2. CASE ~(c < n)
          <5>1. i + 1 \in 0..(c - 1) /\ i + 1 > 0
            BY <1>1, <1>2, <2>3, <4>2
          <5> QED
            BY <4>2, <5>1
        <4> QED
          BY <4>1, <4>2
      <3>2. /\ (w + n - c + j) % n = IF w + n - c + j < n THEN w + n - c + j ELSE w + n - c + j - n
            /\ BufferLine(j) = scrollback_buffer[(w + n - c + j) % n]
        BY <1>2, BufferSlot
      <3>3. x % n = (w + n - c + j) % n
        <4>1. CASE c < n /\ w + 1 < n
          BY <1>1, <1>2, <1>6, <2>1, <3>1, <3>2, <4>1
        <4>2. CASE c < n /\ ~(w + 1 < n)
          BY <1>1, <1>2, <1>6, <2>1, <3>1, <3>2, <4>2
        <4>3. CASE ~(c < n) /\ w + 1 < n
          BY <1>1, <1>2, <1>6, <2>1, <3>1, <3>2, <4>3
        <4>4. CASE ~(c < n) /\ ~(w + 1 < n)
          BY <1>1, <1>2, <1>6, <2>1, <3>1, <3>2, <4>4
        <4> QED
          BY <4>1, <4>2, <4>3, <4>4
      <3>4. BufferLine(j) = gone[g - c + j + 1]
        BY <1>3, <3>1 DEF IInv, RingIsHistory, OldestLost
      <3>5. Len(gone') - c' + i + 1 = g - c + j + 1 /\ g - c + j + 1 \in 1..g
        <4>1. CASE c < n
          <5>1. c' = c + 1 /\ j = i /\ Len(gone') = g + 1
            BY <1>1, <1>8, <3>1, <4>1
          <5>2. j \in Nat /\ j < c
            BY <1>2, <3>1
          <5> QED
            BY <1>2, <5>1, <5>2
        <4>2. CASE ~(c < n)
          <5>1. c' = c /\ j = i + 1 /\ Len(gone') = g + 1
            BY <1>1, <1>8, <3>1, <4>2
          <5>2. j \in Nat /\ j < c /\ i \in Int
            BY <1>2, <3>1
          <5> QED
            BY <1>2, <5>1, <5>2
        <4> QED
          BY <4>1, <4>2
      <3> QED
        BY <1>8, <2>1, <3>2, <3>3, <3>4, <3>5
    <2> QED
      BY <2>2, <2>3
  <1> QED
    BY <1>10, <1>11, <1>12 DEF IInv

-----------------------------------------------------------------------------
(* PgUp and PgDn.                                                          *)

(* What scrollback_redraw draws: lines of the buffer and of the screen     *)
(* that was set aside, and, when the ring is the history, the window of    *)
(* what was written.                                                       *)
LEMMA Redraw ==
    ASSUME IInv, NEW offset \in Nat, 0 < offset, offset <= scrollback_count, NEW aside \in Screen,
           scrollback_redraw(offset, aside)
    PROVE  /\ vga' \in Screen
           /\ ~mixed /\ ~OldestLost /\ aside = live =>
                 \A y \in RowIds : vga'[y] = Marked(y, Shown(offset, y))
  <1> DEFINE c == scrollback_count
             Drawn(y) == IF c - offset + y < c THEN BufferLine(c - offset + y)
                         ELSE aside[(c - offset + y) - c]
  <1>1. vga' = [y \in RowIds |-> Marked(y, Drawn(y))]
    BY Zenon DEF scrollback_redraw
  <1>2. c \in Nat /\ TypeOK /\ Len(gone) \in Nat /\ c <= Len(gone)
    BY LenProperties DEF IInv, SavedWhileScrolled, TypeOK, Gone
  <1>3. ASSUME NEW y \in RowIds
        PROVE  /\ y < offset => /\ Drawn(y) = BufferLine(c - offset + y)
                                /\ c - offset + y \in 0..(c - 1)
               /\ ~(y < offset) => Drawn(y) = aside[y - offset] /\ y - offset \in RowIds
    <2>1. y \in Nat /\ y < Rows /\ Rows \in Nat
      BY Sizes DEF RowIds
    <2>2. (c - offset + y < c <=> y < offset) /\ (c - offset + y) - c = y - offset
      BY <1>2, <2>1
    <2>3. y < offset => c - offset + y \in 0..(c - 1)
      BY <1>2, <2>1
    <2>4. ~(y < offset) => y - offset \in RowIds
      BY <1>2, <2>1 DEF RowIds
    <2> QED
      BY <2>2, <2>3, <2>4
  <1>4. \A y \in RowIds : Drawn(y) \in Line
    <2> TAKE y \in RowIds
    <2>1. CASE y < offset
      <3>1. PICK i \in 0..(c - 1) : Drawn(y) = BufferLine(i)
        BY <1>3, <2>1
      <3>2. BufferLine(i) \in Line
        BY <1>2, BufferSlot DEF TypeOK
      <3> QED
        BY <3>1, <3>2
    <2>2. CASE ~(y < offset)
      <3>1. Drawn(y) = aside[y - offset] /\ y - offset \in RowIds
        BY <1>3, <2>2
      <3>2. aside[y - offset] \in Line
        BY <3>1, LineTypes
      <3> QED
        BY <3>1, <3>2
    <2> QED
      BY <2>1, <2>2
  <1>5. vga' \in Screen
    <2> HIDE DEF Drawn
    <2>1. \A y \in RowIds : Marked(y, Drawn(y)) \in Line
      BY <1>4, LineTypes
    <2> QED
      BY <1>1, <2>1 DEF Screen
  <1>6. ASSUME ~mixed, ~OldestLost, aside = live, NEW y \in RowIds
        PROVE  vga'[y] = Marked(y, Shown(offset, y))
    <2>1. Drawn(y) = Shown(offset, y)
      <3>1. CASE y < offset
        <4>1. PICK i \in 0..(c - 1) : i = c - offset + y /\ Drawn(y) = BufferLine(i)
          BY <1>3, <3>1
        <4>2. BufferLine(i) = gone[Len(gone) - c + i + 1]
          BY <1>6 DEF IInv, RingIsHistory
        <4>3. Len(gone) - c + i + 1 = Len(gone) - offset + y + 1
          BY <1>2, <4>1 DEF RowIds
        <4> QED
          BY <3>1, <4>1, <4>2, <4>3 DEF Shown
      <3>2. CASE ~(y < offset)
        BY <1>3, <1>6, <3>2 DEF Shown
      <3> QED
        BY <3>1, <3>2
    <2> HIDE DEF Drawn
    <2> QED
      BY <1>1, <2>1
  <1> QED
    BY <1>5, <1>6

(* What a key leaves alone.                                                *)
LEMMA KeyKeeps ==
    ASSUME IInv, Irq, vga' \in Screen, saved_screen' \in Screen, screen_saved' \in BOOLEAN,
           scroll_offset' \in 0..scrollback_count, screen_saved' <=> scroll_offset' > 0,
           LiveKept', ViewShown'
    PROVE  IInv'
  <1>1. UNCHANGED <<cursor_row, cursor_col, scrollback_buffer, scrollback_write_pos, scrollback_count, pc,
                    row, outputs, live, gone, mixed>>
    BY DEF Irq, cursor, scrollback
  <1>2. SavedWhileScrolled' /\ Gone'
    BY <1>1 DEF IInv, SavedWhileScrolled, TypeOK, Gone
  <1>3. RingIsHistory'
    BY <1>1 DEF IInv, RingIsHistory, BufferLine, OldestLost
  <1>4. LineCopied'
    BY <1>1 DEF IInv, LineCopied
  <1> QED
    BY <1>2, <1>3, <1>4 DEF IInv

(* PgUp.                                                                   *)
LEMMA UpStep ==
    ASSUME IInv, scrollback_scroll_up
    PROVE  IInv'
  <1> DEFINE aside == IF scroll_offset = 0 THEN vga ELSE saved_screen
             offset == IF scroll_offset + Page > scrollback_count
                       THEN scrollback_count ELSE scroll_offset + Page
  <1>1. /\ scrollback_count > 0 /\ saved_screen' = aside /\ screen_saved' = TRUE
        /\ scroll_offset' = offset /\ scrollback_redraw(offset, aside) /\ Irq
    BY DEF scrollback_scroll_up
  <1>2. /\ scroll_offset \in Nat /\ scrollback_count \in Nat /\ aside \in Screen
        /\ (~mixed => aside = live)
    BY DEF IInv, SavedWhileScrolled, TypeOK, LiveKept
  <1>3. offset \in Nat /\ 0 < offset /\ offset <= scrollback_count
    BY <1>1, <1>2, Sizes
  <1> HIDE DEF aside, offset
  <1>4. /\ vga' \in Screen
        /\ ~mixed /\ ~OldestLost /\ aside = live =>
              \A y \in RowIds : vga'[y] = Marked(y, Shown(offset, y))
    BY <1>1, <1>2, <1>3, Redraw
  <1>5. UNCHANGED <<live, gone, mixed, pc, scrollback_count>>
    BY <1>1 DEF Irq, scrollback
  <1>6. screen_saved' \in BOOLEAN /\ screen_saved'
    BY <1>1, Zenon
  <1>7. scroll_offset' \in 0..scrollback_count /\ scroll_offset' > 0 /\ scroll_offset' # 0
    BY <1>1, <1>2, <1>3
  <1>8. LiveKept'
    BY <1>1, <1>2, <1>5, <1>7 DEF LiveKept
  <1>9. ViewShown'
    BY <1>1, <1>2, <1>4, <1>5 DEF ViewShown, OldestLost, Shown
  <1> QED
    BY <1>1, <1>2, <1>4, <1>6, <1>7, <1>8, <1>9, KeyKeeps

(* PgDn.                                                                   *)
LEMMA DownStep ==
    ASSUME IInv, scrollback_scroll_down
    PROVE  IInv'
  <1>1. /\ scroll_offset > 0 /\ saved_screen' = saved_screen /\ Irq
    BY DEF scrollback_scroll_down
  <1>2. /\ scroll_offset \in Nat /\ scrollback_count \in Nat /\ scroll_offset <= scrollback_count
        /\ saved_screen \in Screen /\ (~mixed => saved_screen = live) /\ screen_saved = TRUE
    BY <1>1 DEF IInv, SavedWhileScrolled, TypeOK, LiveKept
  <1>3. UNCHANGED <<live, gone, mixed, pc, scrollback_count>>
    BY <1>1 DEF Irq, scrollback
  <1>4. CASE scroll_offset - Page <= 0
    <2>1. scroll_offset' = 0 /\ vga' = saved_screen /\ screen_saved' = FALSE
      BY <1>4 DEF scrollback_scroll_down
    <2>2. screen_saved' \in BOOLEAN /\ ~screen_saved'
      BY <2>1, Zenon
    <2>3. scroll_offset' \in 0..scrollback_count /\ ~(scroll_offset' > 0)
      BY <1>2, <2>1
    <2>4. LiveKept' /\ ViewShown'
      BY <1>2, <1>3, <2>1, <2>3 DEF LiveKept, ViewShown
    <2> QED
      BY <1>1, <1>2, <2>1, <2>2, <2>3, <2>4, KeyKeeps
  <1>5. CASE ~(scroll_offset - Page <= 0)
    <2> DEFINE offset == scroll_offset - Page
    <2>1. scroll_offset' = offset /\ scrollback_redraw(scroll_offset', saved_screen) /\ screen_saved' = screen_saved
      BY <1>5 DEF scrollback_scroll_down
    <2>2. offset \in Nat /\ 0 < offset /\ offset <= scrollback_count
      BY <1>2, <1>5, Sizes
    <2> HIDE DEF offset
    <2>3. scrollback_redraw(offset, saved_screen)
      BY <2>1
    <2>4. /\ vga' \in Screen
          /\ ~mixed /\ ~OldestLost /\ saved_screen = live =>
                \A y \in RowIds : vga'[y] = Marked(y, Shown(offset, y))
      BY <1>2, <2>2, <2>3, Redraw
    <2>5. screen_saved' \in BOOLEAN /\ screen_saved'
      BY <1>2, <2>1, Zenon
    <2>6. scroll_offset' \in 0..scrollback_count /\ scroll_offset' > 0 /\ scroll_offset' # 0
      BY <1>2, <2>1, <2>2
    <2>7. LiveKept'
      BY <1>1, <1>2, <1>3, <2>6 DEF LiveKept
    <2>8. ViewShown'
      BY <1>2, <1>3, <2>1, <2>4 DEF ViewShown, OldestLost, Shown
    <2> QED
      BY <1>1, <1>2, <2>4, <2>5, <2>6, <2>7, <2>8, KeyKeeps
  <1> QED
    BY <1>4, <1>5

-----------------------------------------------------------------------------
(* The properties.                                                         *)

(* The inductive invariant holds in every state of the console.            *)
THEOREM InvCorrect == Spec => []IInv
  <1>1. ASSUME Init
        PROVE  IInv
    <2>1. /\ vga = BlankScreen /\ live = BlankScreen /\ saved_screen = BlankScreen
          /\ cursor_row = 0 /\ cursor_col = 0 /\ scrollback_buffer = [i \in Slots |-> BlankLine]
          /\ scrollback_write_pos = 0 /\ scrollback_count = 0 /\ scroll_offset = 0
          /\ pc = "idle" /\ row = 0 /\ outputs = 0 /\ gone = <<>>
      BY <1>1 DEF Init
    <2>2. mixed \in BOOLEAN /\ screen_saved \in BOOLEAN /\ ~screen_saved
      BY <1>1, Zenon DEF Init
    <2>3. TypeOK
      BY <2>1, <2>2, LineTypes, Sizes DEF TypeOK
    <2>4. SavedWhileScrolled
      BY <2>1, <2>2, <2>3 DEF SavedWhileScrolled
    <2>5. gone \in Seq(Line) /\ Len(gone) = 0
      BY <2>1
    <2>6. Gone /\ RingIsHistory
      BY <2>1, <2>5 DEF Gone, RingIsHistory
    <2>7. LineCopied /\ LiveKept /\ ViewShown
      BY <2>1 DEF LineCopied, LiveKept, ViewShown
    <2> QED
      BY <2>4, <2>6, <2>7 DEF IInv
  <1>2. ASSUME IInv, [Next]_vars
        PROVE  IInv'
    <2>1. CASE Write
      BY <1>2, <2>1, PutcStep, NewlineStep, ReturnStep, BackspaceStep, ClearStep, CaptureStep, CountStep,
         MoveStep DEF Write
    <2>2. CASE UNCHANGED vars
      BY <1>2, <2>2 DEF vars, cursor, scrollback, view, IInv, SavedWhileScrolled, TypeOK, Gone, RingIsHistory,
         BufferLine, OldestLost, LineCopied, LiveKept, ViewShown, Shown
    <2> QED
      BY <1>2, <2>1, <2>2, UpStep, DownStep DEF Next
  <1> QED
    BY <1>1, <1>2, PTL DEF Spec

(* The interrupt handler (src/scrollback.c) never draws lines that were    *)
(* never captured and never restores a screen that was not saved, whatever *)
(* output comes between its keys.                                          *)
THEOREM SavedCorrect == Spec => []SavedWhileScrolled
  <1>1. IInv => SavedWhileScrolled
    BY DEF IInv
  <1> QED
    BY <1>1, InvCorrect, PTL

(* Unless output went into a scrolled view, the screen shows the window of *)
(* everything written that scroll_offset says, for a ring that has wrapped *)
(* any number of times and a key at any moment of a scroll.                *)
THEOREM ViewCorrect == Spec => []ViewIsHistory
  <1>1. ASSUME IInv
        PROVE  ViewIsHistory
    <2> DEFINE screen == [y \in 1..Rows |-> live[y - 1]]
               g == Len(gone)
    <2>1. /\ gone \in Seq(Line) /\ g \in Nat /\ Rows \in Nat /\ scroll_offset \in Nat /\ scroll_offset <= g
          /\ live \in Screen
      BY <1>1, LenProperties, Sizes DEF IInv, SavedWhileScrolled, TypeOK, Gone
    <2>2. screen \in Seq(Line) /\ Len(screen) = Rows
      <3>1. \A y \in 1..Rows : live[y - 1] \in Line
        <4>1. \A y \in 1..Rows : y - 1 \in RowIds
          BY <2>1 DEF RowIds
        <4> QED
          BY <2>1, <4>1, LineTypes
      <3> QED
        BY <2>1, <3>1
    <2>3. Written = gone \o screen
      BY DEF Written
    <2>4. \A y \in 1..Rows : screen[y] = live[y - 1]
      OBVIOUS
    <2> HIDE DEF screen
    <2>5. /\ Len(gone \o screen) = g + Rows
          /\ \A i \in 1..(g + Rows) : (gone \o screen)[i] = IF i <= g THEN gone[i] ELSE screen[i - g]
      BY <2>1, <2>2, ConcatProperties
    <2>6. ASSUME NEW y \in RowIds
          PROVE  Written[Len(Written) - Rows - scroll_offset + y + 1] = Shown(scroll_offset, y)
      <3>1. y \in Nat /\ y < Rows
        BY <2>1 DEF RowIds
      <3>2. Len(Written) - Rows - scroll_offset + y + 1 = g - scroll_offset + y + 1
        BY <2>1, <2>3, <2>5
      <3>6. g - scroll_offset + y + 1 \in 1..(g + Rows)
        BY <2>1, <3>1
      <3>3. PICK i \in 1..(g + Rows) : i = g - scroll_offset + y + 1
        BY <3>6, Zenon
      <3>4. CASE y < scroll_offset
        <4>1. i <= g
          BY <2>1, <3>1, <3>3, <3>4
        <4>2. Written[i] = gone[i]
          BY <2>3, <2>5, <4>1
        <4> QED
          BY <3>2, <3>3, <3>4, <4>2 DEF Shown
      <3>5. CASE ~(y < scroll_offset)
        <4>1. ~(i <= g) /\ i - g \in 1..Rows /\ i - g - 1 = y - scroll_offset
          BY <2>1, <3>1, <3>3, <3>5
        <4>2. Written[i] = screen[i - g]
          BY <2>3, <2>5, <4>1
        <4>3. screen[i - g] = live[y - scroll_offset]
          BY <2>4, <4>1
        <4> QED
          BY <3>2, <3>3, <3>5, <4>2, <4>3 DEF Shown
      <3> QED
        BY <3>4, <3>5
    <2>7. ASSUME ~mixed, ~OldestLost, scroll_offset # 0, NEW y \in RowIds
          PROVE  vga[y] = Marked(y, Written[Len(Written) - Rows - scroll_offset + y + 1])
      <3>1. scroll_offset > 0
        BY <2>1, <2>7
      <3>2. vga[y] = Marked(y, Shown(scroll_offset, y))
        BY <1>1, <2>7, <3>1 DEF IInv, ViewShown
      <3> QED
        BY <2>6, <3>2
    <2>8. ASSUME ~mixed, scroll_offset = 0
          PROVE  vga = live
      BY <1>1, <2>8 DEF IInv, LiveKept
    <2> QED
      BY <2>7, <2>8 DEF ViewIsHistory
  <1> QED
    BY <1>1, InvCorrect, PTL
=============================================================================

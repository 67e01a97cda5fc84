------------------------------- MODULE Console -------------------------------
(***************************************************************************)
(* The text console: putc and cls of src/io.asm, which write the VGA       *)
(* memory, and the scrollback of src/scrollback.c, which PgUp and PgDn     *)
(* page through from inside the keyboard interrupt.                        *)
(*                                                                         *)
(* Output works on VGA memory row by row with interrupts enabled, so a key *)
(* can come between two rows; the interrupt handler itself is one step.    *)
(* Colours are left out.  Rows and columns count from 0, as in the code.   *)
(***************************************************************************)
EXTENDS Integers, Sequences

CONSTANTS
    Rows, Cols,        \* 25 and 80
    SCROLLBACK_LINES,  \* 500
    Page,              \* 5: lines a key scrolls
    Chars,             \* characters written
    MaxOutput          \* bound: characters and clears in a behaviour

Space == " "
Up == "^"              \* the marks in the last column of a scrolled view
Down == "v"

ASSUME ConsoleAssumption ==
    /\ Rows \in Nat /\ Rows > 1 /\ Cols \in Nat \ {0}
    /\ SCROLLBACK_LINES \in Nat \ {0} /\ Page \in Nat \ {0}
    /\ MaxOutput \in Nat

VARIABLES
    vga,                    \* what is on the screen
    cursor_row, cursor_col,
    scrollback_buffer, scrollback_write_pos, scrollback_count,
    scroll_offset,          \* lines the view is scrolled back
    saved_screen, screen_saved,
    pc,      \* "idle", or the next step of cls or scroll_up
    row,     \* the row that step works on
    outputs, \* characters and clears so far
    live,    \* history: the screen that output alone would have made
    gone,    \* history: the lines that have left it, oldest first
    mixed    \* history: whether output ever went into a scrolled view

scrollback == <<scrollback_buffer, scrollback_write_pos, scrollback_count>>
view == <<scroll_offset, saved_screen, screen_saved>>
cursor == <<cursor_row, cursor_col>>
vars == <<vga, cursor, scrollback, view, pc, row, outputs, live, gone, mixed>>

RowIds == 0..(Rows - 1)
ColIds == 0..(Cols - 1)
Slots == 0..(SCROLLBACK_LINES - 1)
Line == [ColIds -> Chars \cup {Space, Up, Down}]
Screen == [RowIds -> Line]

BlankLine == [c \in ColIds |-> Space]
BlankScreen == [r \in RowIds |-> BlankLine]

-----------------------------------------------------------------------------
(* Output.                                                                 *)

(* One write to VGA memory: wherever the view is scrolled to.              *)
Draw(Change(_)) ==
    /\ vga' = Change(vga)
    /\ live' = Change(live)
    /\ mixed' = (mixed \/ scroll_offset > 0)

Output ==
    /\ pc = "idle"
    /\ outputs < MaxOutput
    /\ outputs' = outputs + 1
    /\ UNCHANGED <<scrollback, view, gone>>

(* .check_scroll: a cursor below the last row makes scroll_up run next.    *)
CheckScroll(r) ==
    /\ cursor_row' = r
    /\ pc' = IF r >= Rows THEN "capture" ELSE "idle"
    /\ row' = 0

putc(c) ==
    /\ Output
    /\ Draw(LAMBDA s : [s EXCEPT ![cursor_row][cursor_col] = c])
    /\ IF cursor_col + 1 >= Cols
       THEN cursor_col' = 0 /\ CheckScroll(cursor_row + 1)
       ELSE cursor_col' = cursor_col + 1 /\ CheckScroll(cursor_row)

putc_newline ==
    /\ Output
    /\ cursor_col' = 0
    /\ CheckScroll(cursor_row + 1)
    /\ UNCHANGED <<vga, live, mixed>>

putc_return ==
    /\ Output
    /\ cursor_col' = 0
    /\ UNCHANGED <<vga, live, mixed, cursor_row, pc, row>>

putc_backspace ==
    /\ Output
    /\ cursor_col > 0
    /\ cursor_col' = cursor_col - 1
    /\ Draw(LAMBDA s : [s EXCEPT ![cursor_row][cursor_col - 1] = Space])
    /\ UNCHANGED <<cursor_row, pc, row>>

cls ==
    /\ Output
    /\ pc' = "clear" /\ row' = 0
    /\ UNCHANGED <<vga, live, mixed, cursor>>

clear_row ==
    /\ pc = "clear"
    /\ Draw(LAMBDA s : [s EXCEPT ![row] = BlankLine])
    /\ IF row = Rows - 1
       THEN pc' = "idle" /\ row' = 0 /\ cursor_row' = 0 /\ cursor_col' = 0
       ELSE row' = row + 1 /\ UNCHANGED <<pc, cursor>>
    /\ UNCHANGED <<scrollback, view, outputs, gone>>

-----------------------------------------------------------------------------
(* scroll_up.                                                              *)

(* scrollback_capture_line: the top row is copied, then counted.           *)
capture_line ==
    /\ pc = "capture"
    /\ scrollback_buffer' = [scrollback_buffer EXCEPT ![scrollback_write_pos] = vga[0]]
    /\ mixed' = (mixed \/ scroll_offset > 0)
    /\ pc' = "count"
    /\ UNCHANGED <<vga, cursor, scrollback_write_pos, scrollback_count, view, row,
                   outputs, live, gone>>

count_line ==
    /\ pc = "count"
    /\ scrollback_write_pos' = (scrollback_write_pos + 1) % SCROLLBACK_LINES
    /\ scrollback_count' = IF scrollback_count < SCROLLBACK_LINES
                           THEN scrollback_count + 1 ELSE scrollback_count
    /\ gone' = Append(gone, live[0])
    /\ mixed' = (mixed \/ scroll_offset > 0)
    /\ pc' = "move"
    /\ UNCHANGED <<vga, cursor, scrollback_buffer, view, row, outputs, live>>

(* The rows move up one by one and the last one is blanked.                *)
move_row ==
    /\ pc = "move"
    /\ IF row < Rows - 1
       THEN /\ Draw(LAMBDA s : [s EXCEPT ![row] = s[row + 1]])
            /\ row' = row + 1
            /\ UNCHANGED <<pc, cursor>>
       ELSE /\ Draw(LAMBDA s : [s EXCEPT ![row] = BlankLine])
            /\ row' = 0 /\ pc' = "idle"
            /\ cursor_row' = Rows - 1 /\ UNCHANGED cursor_col
    /\ UNCHANGED <<scrollback, view, outputs, gone>>

-----------------------------------------------------------------------------
(* PgUp and PgDn.                                                          *)

(* Mutation: the newest line of the buffer is taken for the oldest.        *)
BufferLine_newest(i) == scrollback_buffer[(scrollback_write_pos + i) % SCROLLBACK_LINES]

(* The i-th line of the buffer from the oldest on.                         *)
BufferLine(i) ==
    scrollback_buffer[(scrollback_write_pos + SCROLLBACK_LINES - scrollback_count + i)
                      % SCROLLBACK_LINES]

(* A line with the mark of its row.                                        *)
Marked(y, line) ==
    IF y = 0 THEN [line EXCEPT ![Cols - 1] = Up]
    ELSE IF y = Rows - 1 THEN [line EXCEPT ![Cols - 1] = Down]
    ELSE line

(* scrollback_redraw, with the screen that will be saved.                  *)
scrollback_redraw(offset, screen) ==
    vga' = [y \in RowIds |->
              LET line_idx == scrollback_count - offset + y
              IN  Marked(y, IF line_idx < scrollback_count THEN BufferLine(line_idx)
                            ELSE screen[line_idx - scrollback_count])]

Irq == UNCHANGED <<cursor, scrollback, pc, row, outputs, live, gone, mixed>>

scrollback_scroll_up ==
    LET screen == IF scroll_offset = 0 THEN vga ELSE saved_screen
        offset == IF scroll_offset + Page > scrollback_count
                  THEN scrollback_count ELSE scroll_offset + Page
    IN  /\ scrollback_count > 0
        /\ scroll_offset < scrollback_count
        /\ saved_screen' = screen /\ screen_saved' = TRUE
        /\ scroll_offset' = offset
        /\ scrollback_redraw(offset, screen)
        /\ Irq

(* Mutation: the view comes back before the last page.                     *)
scrollback_scroll_down_early ==
    /\ scroll_offset > 0
    /\ scroll_offset' = IF scroll_offset > Page THEN scroll_offset - Page ELSE 0
    /\ vga' = saved_screen /\ screen_saved' = FALSE
    /\ UNCHANGED saved_screen
    /\ Irq

scrollback_scroll_down ==
    /\ scroll_offset > 0
    /\ IF scroll_offset - Page <= 0
       THEN scroll_offset' = 0 /\ vga' = saved_screen /\ screen_saved' = FALSE
       ELSE /\ scroll_offset' = scroll_offset - Page
            /\ scrollback_redraw(scroll_offset', saved_screen)
            /\ UNCHANGED screen_saved
    /\ UNCHANGED saved_screen
    /\ Irq

-----------------------------------------------------------------------------
(* io_init.                                                                *)
Init ==
    /\ vga = BlankScreen
    /\ cursor_row = 0 /\ cursor_col = 0
    /\ scrollback_buffer = [i \in Slots |-> BlankLine]
    /\ scrollback_write_pos = 0 /\ scrollback_count = 0
    /\ scroll_offset = 0
    /\ saved_screen = BlankScreen /\ screen_saved = FALSE
    /\ pc = "idle" /\ row = 0 /\ outputs = 0
    /\ live = BlankScreen /\ gone = <<>> /\ mixed = FALSE

Write ==
    \/ \E c \in Chars : putc(c)
    \/ putc_newline \/ putc_return \/ putc_backspace \/ cls
    \/ clear_row \/ capture_line \/ count_line \/ move_row

Next == Write \/ scrollback_scroll_up \/ scrollback_scroll_down

Spec == Init /\ [][Next]_vars

-----------------------------------------------------------------------------
(* Properties.                                                             *)

(* Between two characters the cursor is on the screen.                     *)
TypeOK ==
    /\ vga \in Screen /\ live \in Screen /\ saved_screen \in Screen
    /\ cursor_row \in 0..Rows /\ cursor_col \in ColIds
    /\ pc \in {"idle", "clear"} => cursor_row < Rows
    /\ scrollback_buffer \in [Slots -> Line]
    /\ scrollback_write_pos \in Slots
    /\ scrollback_count \in 0..SCROLLBACK_LINES
    /\ screen_saved \in BOOLEAN
    /\ pc \in {"idle", "clear", "capture", "count", "move"}
    /\ row \in RowIds
    /\ outputs \in 0..MaxOutput
    /\ mixed \in BOOLEAN

(* The live screen is held aside exactly while the view is scrolled, and   *)
(* the view never goes back further than the buffer: the interrupt handler *)
(* never draws lines that were never captured, and never restores a screen *)
(* that was not saved, whatever output comes between its keys.             *)
SavedWhileScrolled ==
    /\ TypeOK
    /\ scroll_offset \in 0..scrollback_count
    /\ screen_saved <=> scroll_offset > 0

(* Everything ever written: the lines that left the screen and the screen. *)
Written == gone \o [y \in 1..Rows |-> live[y - 1]]

(* A full ring whose oldest line has been overwritten but not yet dropped. *)
OldestLost == pc = "count" /\ scrollback_count = SCROLLBACK_LINES

(* As long as output never went into a scrolled view, the screen shows a   *)
(* window of what was written, scroll_offset lines back from the end, even *)
(* after the ring has wrapped and when a key came in the middle of a       *)
(* scroll; unscrolled it shows the output and no marks.  Only a key that   *)
(* falls between the two halves of scrollback_capture_line can see the     *)
(* newest line in the place of the oldest.                                 *)
ViewIsHistory ==
    ~mixed /\ ~OldestLost =>
        LET first == Len(Written) - Rows - scroll_offset
        IN  IF scroll_offset = 0 THEN vga = live
            ELSE \A y \in RowIds : vga[y] = Marked(y, Written[first + y + 1])
=============================================================================

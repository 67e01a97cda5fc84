------------------------------ MODULE Notepad ------------------------------
(***************************************************************************)
(* The text of NOTEPAD (gui_apps.c): fixed rows of characters, each ended  *)
(* by its first NUL, and a cursor that the arrow keys, Enter and Backspace *)
(* move.  Nothing but the NULs says how long a row is, so no arrow key     *)
(* reaches a character stored behind one.                                  *)
(*                                                                         *)
(* What is on the screen is left out: notepad_draw draws 13 rows of 38     *)
(* characters at most, and gui_notepad paints an empty window over them    *)
(* after every key.                                                        *)
(***************************************************************************)
EXTENDS Integers

CONSTANTS
    Chars,              \* printable characters
    NUL,                \* the terminator
    NOTEPAD_MAX_LINES,  \* 35
    NOTEPAD_MAX_COLS    \* 90

ASSUME NotepadAssumption ==
    /\ NUL \notin Chars
    /\ NOTEPAD_MAX_LINES \in Nat \ {0}
    /\ NOTEPAD_MAX_COLS \in Nat \ {0}

VARIABLES notepad_buffer, notepad_cursor_row, notepad_cursor_col, notepad_total_lines

notepad == <<notepad_buffer, notepad_cursor_row, notepad_cursor_col, notepad_total_lines>>

Rows == 0..(NOTEPAD_MAX_LINES - 1)
Columns == 0..NOTEPAD_MAX_COLS
EmptyRow == [j \in Columns |-> NUL]

(* The index of the first NUL.                                             *)
gui_strlen(s) ==
    CHOOSE n \in Columns : s[n] = NUL /\ \A j \in 0..(n - 1) : s[j] # NUL

NotepadTypeOK ==
    /\ notepad_buffer \in [Rows -> [Columns -> Chars \cup {NUL}]]
    /\ notepad_cursor_row \in Rows
    /\ notepad_cursor_col \in Columns
    /\ notepad_total_lines \in 1..NOTEPAD_MAX_LINES

notepad_cleared ==
    /\ notepad_buffer = [i \in Rows |-> EmptyRow]
    /\ notepad_cursor_row = 0
    /\ notepad_cursor_col = 0
    /\ notepad_total_lines = 1

notepad_clear ==
    /\ notepad_buffer' = [i \in Rows |-> EmptyRow]
    /\ notepad_cursor_row' = 0
    /\ notepad_cursor_col' = 0
    /\ notepad_total_lines' = 1

-----------------------------------------------------------------------------
(* A character replaces the one under the cursor; a full row takes no more. *)
notepad_insert_char(c) ==
    /\ IF notepad_cursor_col < NOTEPAD_MAX_COLS
       THEN /\ notepad_buffer' = [notepad_buffer EXCEPT
                                    ![notepad_cursor_row][notepad_cursor_col] = c]
            /\ notepad_cursor_col' = notepad_cursor_col + 1
       ELSE UNCHANGED <<notepad_buffer, notepad_cursor_col>>
    /\ UNCHANGED <<notepad_cursor_row, notepad_total_lines>>

(* Enter goes to the start of the next row and splits nothing.             *)
notepad_new_line ==
    /\ IF notepad_cursor_row < NOTEPAD_MAX_LINES - 1
       THEN /\ notepad_cursor_row' = notepad_cursor_row + 1
            /\ notepad_cursor_col' = 0
            /\ notepad_total_lines' = IF notepad_cursor_row' >= notepad_total_lines
                                      THEN notepad_cursor_row' + 1
                                      ELSE notepad_total_lines
       ELSE UNCHANGED <<notepad_cursor_row, notepad_cursor_col, notepad_total_lines>>
    /\ UNCHANGED notepad_buffer

(* The row without the character at column k.                              *)
Closed(s, k) ==
    [j \in Columns |-> IF j < k \/ j = NOTEPAD_MAX_COLS THEN s[j]
                       ELSE IF j = NOTEPAD_MAX_COLS - 1 THEN NUL
                       ELSE s[j + 1]]

notepad_backspace ==
    /\ \/ /\ notepad_cursor_col > 0
          /\ notepad_cursor_col' = notepad_cursor_col - 1
          /\ notepad_buffer' = [notepad_buffer EXCEPT
                                  ![notepad_cursor_row] = Closed(@, notepad_cursor_col')]
          /\ UNCHANGED notepad_cursor_row
       \/ /\ notepad_cursor_col = 0 /\ notepad_cursor_row > 0
          /\ notepad_cursor_row' = notepad_cursor_row - 1
          /\ notepad_cursor_col' = gui_strlen(notepad_buffer[notepad_cursor_row'])
          /\ UNCHANGED notepad_buffer
       \/ /\ notepad_cursor_col = 0 /\ notepad_cursor_row = 0
          /\ UNCHANGED <<notepad_buffer, notepad_cursor_row, notepad_cursor_col>>
    /\ UNCHANGED notepad_total_lines

-----------------------------------------------------------------------------
(* The arrows.                                                             *)

(* Mutation: the column is kept when the row changes.                      *)
ToRow_unclamped(r) ==
    /\ notepad_cursor_row' = r
    /\ UNCHANGED <<notepad_buffer, notepad_cursor_col, notepad_total_lines>>

(* Up and Down: a column behind the end of the row becomes its end.        *)
ToRow(r) ==
    LET end == gui_strlen(notepad_buffer[r])
    IN  /\ notepad_cursor_row' = r
        /\ notepad_cursor_col' = IF notepad_cursor_col > end THEN end ELSE notepad_cursor_col
        /\ UNCHANGED <<notepad_buffer, notepad_total_lines>>

notepad_up == ToRow(IF notepad_cursor_row > 0 THEN notepad_cursor_row - 1 ELSE notepad_cursor_row)

notepad_down ==
    ToRow(IF notepad_cursor_row < notepad_total_lines - 1
          THEN notepad_cursor_row + 1 ELSE notepad_cursor_row)

notepad_left ==
    /\ notepad_cursor_col' = IF notepad_cursor_col > 0 THEN notepad_cursor_col - 1 ELSE 0
    /\ UNCHANGED <<notepad_buffer, notepad_cursor_row, notepad_total_lines>>

notepad_right ==
    /\ notepad_cursor_col' =
         IF notepad_cursor_col < gui_strlen(notepad_buffer[notepad_cursor_row])
         THEN notepad_cursor_col + 1 ELSE notepad_cursor_col
    /\ UNCHANGED <<notepad_buffer, notepad_cursor_row, notepad_total_lines>>

(* Every key but ESC, which ends the program, and F2, which the keyboard   *)
(* handler never delivers.                                                 *)
notepad_edit ==
    \/ \E c \in Chars : notepad_insert_char(c)
    \/ notepad_new_line
    \/ notepad_backspace
    \/ notepad_up \/ notepad_down \/ notepad_left \/ notepad_right

-----------------------------------------------------------------------------
(* The arrow keys reach whatever was typed, to be rubbed out or typed      *)
(* over: Down goes to every row that has a character, Right, which goes as *)
(* far as gui_strlen says, to every character of the row, and the cursor   *)
(* is in the text or behind its end, so that the next key leaves no gap.   *)
TextReachable ==
    /\ \A i \in Rows, j \in Columns :
         notepad_buffer[i][j] # NUL =>
           /\ i < notepad_total_lines
           /\ \A k \in 0..j : notepad_buffer[i][k] # NUL
    /\ notepad_cursor_row < notepad_total_lines
    /\ \A k \in 0..(notepad_cursor_col - 1) : notepad_buffer[notepad_cursor_row][k] # NUL
=============================================================================

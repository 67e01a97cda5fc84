----------------------------- MODULE Gui_proofs -----------------------------
(***************************************************************************)
(* Proofs about Gui, for every set of screens, size of the text of NOTEPAD *)
(* and length of the day.  Each program has an inductive invariant of its  *)
(* own: the only variable they share is app.  And about Mouse, which the   *)
(* programs poll, for a ring of any size.                                  *)
(***************************************************************************)
EXTENDS Gui, Mouse, SequenceTheorems, WellFoundedInduction, TLAPS

-----------------------------------------------------------------------------
(* The text screen over a reset.                                           *)

(* What has been copied while the screen is saved.                         *)
Saving ==
    /\ app \in SaveSteps => ~flag /\ before = <<screen, cursor_at>>
    /\ app \in {"save_cursor", "save_flag"} => backup = screen
    /\ app = "save_flag" => backup_cursor = cursor_at

(* While the flag is set, and while the screen is put back, low memory     *)
(* holds what GUITEST was started on.                                      *)
Restoring ==
    /\ flag \/ app \in {"restore_screen", "restore_cursor"} => <<backup, backup_cursor>> = before
    /\ app \in {"restore_screen", "restore_cursor"} => ~flag
    /\ app = "restore_cursor" => screen = backup

ScreenInv == ScreenRestored /\ Saving /\ Restoring

(* The first shell starts on nothing saved.                                *)
LEMMA ScreenInit == Init => ScreenInv
  BY DEF Init, ScreenInv, ScreenRestored, Saving, Restoring, SaveSteps, Programs

(* A reset ends in a boot that finds in low memory what was there.         *)
LEMMA ScreenReboot ==
    ASSUME ScreenInv, sys_reboot, UNCHANGED lowmem \/ flag' = FALSE
    PROVE  ScreenInv'
  <1>1. app' = "boot" /\ before' = before
    BY DEF sys_reboot
  <1>2. CASE flag' = FALSE
    BY <1>1, <1>2 DEF ScreenInv, ScreenRestored, Saving, Restoring, SaveSteps, Programs
  <1>3. CASE UNCHANGED lowmem
    BY <1>1, <1>3 DEF ScreenInv, ScreenRestored, Saving, Restoring, SaveSteps, Programs, lowmem
  <1> QED
    BY <1>2, <1>3

(* A program of its own starts and ends without the flag.                  *)
LEMMA ScreenProgram ==
    ASSUME ScreenInv, UNCHANGED <<lowmem, before>>,
           app \in {"shell"} \cup (Programs \ {"guitest"}),
           app' \in {"shell"} \cup (Programs \ {"guitest"})
    PROVE  ScreenInv'
  BY DEF ScreenInv, ScreenRestored, Saving, Restoring, SaveSteps, Programs, lowmem

(* Every step keeps what the screen needs.                                 *)
LEMMA ScreenStep == ScreenInv /\ [Next]_vars => ScreenInv'
  <1> SUFFICES ASSUME ScreenInv, [Next]_vars
               PROVE  ScreenInv'
    OBVIOUS
  <1> USE DEF ScreenInv, ScreenRestored, Saving, Restoring, SaveSteps, Programs
  <1>1. CASE UNCHANGED <<app, text, lowmem, before>>
    BY <1>1 DEF text, lowmem
  <1>2. CASE sys_reboot /\ (UNCHANGED lowmem \/ flag' = FALSE)
    BY <1>2, ScreenReboot
  <1>3. CASE shell_prints
    BY <1>3 DEF shell_prints, lowmem
  <1>4. CASE cmd_guitest
    BY <1>4 DEF cmd_guitest, lowmem, text
  <1>5. CASE save_text_screen
    <2>1. CASE app = "save_screen"
      BY <1>5, <2>1 DEF save_text_screen, text
    <2>2. CASE app = "save_cursor"
      BY <1>5, <2>2 DEF save_text_screen, text
    <2>3. CASE app = "save_flag"
      BY <1>5, <2>3 DEF save_text_screen
    <2> QED
      BY <1>5, <2>1, <2>2, <2>3 DEF save_text_screen
  <1>6. CASE gui_check_and_restore_screen
    BY <1>6 DEF gui_check_and_restore_screen
  <1>7. CASE prompt_loop
    BY <1>7 DEF prompt_loop, lowmem
  <1>8. CASE \E p \in Programs \ {"guitest"} : start(p)
    BY <1>8, ScreenProgram DEF start
  <1>9. CASE gpu_disable_scanout
    BY <1>9, ScreenProgram DEF gpu_disable_scanout
  <1> QED
    BY <1>1, <1>2, <1>3, <1>4, <1>5, <1>6, <1>7, <1>8, <1>9
    DEF Next, vars, Reset, PowerLoss, Escape, close_click, save_click, filebrowser_click,
        gui_notepad, gui_paint, gui_sysinfo, gui_filebrowser, gui_clock, cmd_calc_gui,
        guitest_key, notepad_key, mouse_release, paint_size, paint_pick, filebrowser_key,
        clock_runs, calc_input

(* A screen that is put back is the one GUITEST was started on, and no     *)
(* later reset puts it back again, however often the machine is reset or   *)
(* loses its power between two steps of save_text_screen or                *)
(* gui_check_and_restore_screen.                                           *)
THEOREM ScreenCorrect == Spec => []ScreenRestored
  <1>1. ScreenInv => ScreenRestored
    BY DEF ScreenInv
  <1> QED
    BY <1>1, ScreenInit, ScreenStep, PTL DEF Spec

-----------------------------------------------------------------------------
(* The text of NOTEPAD.                                                    *)

(* The last column is never written: every row has a NUL.                  *)
TextInv ==
    /\ NotepadTypeOK
    /\ TextReachable
    /\ \A i \in Rows : notepad_buffer[i][NOTEPAD_MAX_COLS] = NUL

(* A set of numbers that is not empty has a least one.                     *)
LEMMA LeastOf ==
    ASSUME NEW S \in SUBSET Nat, S # {}
    PROVE  \E i \in S : \A j \in S : i <= j
  <1>1. IsWellFoundedOn(OpToRel(<, Nat), Nat)
    BY NatLessThanWellFounded
  <1>2. PICK x \in S : \A y \in S : ~(<<y, x>> \in OpToRel(<, Nat))
    BY <1>1, WFMin
  <1>3. \A y \in S : ~(y < x)
    BY <1>2 DEF OpToRel
  <1> QED
    BY <1>3

(* The length of a row that has a NUL is the index of its first one.       *)
LEMMA Length ==
    ASSUME NEW s \in [Columns -> Chars \cup {NUL}], s[NOTEPAD_MAX_COLS] = NUL
    PROVE  /\ gui_strlen(s) \in Columns
           /\ s[gui_strlen(s)] = NUL
           /\ \A j \in 0..(gui_strlen(s) - 1) : s[j] # NUL
  <1> DEFINE S == {n \in Columns : s[n] = NUL}
  <1>1. S \in SUBSET Nat /\ NOTEPAD_MAX_COLS \in S
    BY NotepadAssumption DEF Columns
  <1>2. PICK n \in S : \A j \in S : n <= j
    BY <1>1, LeastOf
  <1>3. n \in Columns /\ s[n] = NUL
    OBVIOUS
  <1>4. \A j \in 0..(n - 1) : j \in Columns /\ ~(n <= j)
    BY <1>3, NotepadAssumption DEF Columns
  <1>5. \A j \in 0..(n - 1) : s[j] # NUL
    BY <1>2, <1>4
  <1> QED
    BY <1>3, <1>5 DEF gui_strlen

(* A cleared text.                                                         *)
LEMMA TextInit == Init => TextInv
  <1> SUFFICES ASSUME notepad_cleared
               PROVE  TextInv
    BY DEF Init
  <1>1. /\ 0 \in Rows /\ 0 \in Columns /\ NOTEPAD_MAX_COLS \in Columns
        /\ 1 \in 1..NOTEPAD_MAX_LINES
    BY NotepadAssumption DEF Rows, Columns
  <1>2. \A i \in Rows, j \in Columns : notepad_buffer[i][j] = NUL
    BY DEF notepad_cleared, EmptyRow
  <1>3. NotepadTypeOK
    BY <1>1 DEF NotepadTypeOK, notepad_cleared, EmptyRow
  <1>4. TextReachable
    BY <1>1, <1>2 DEF TextReachable, notepad_cleared
  <1> QED
    BY <1>1, <1>2, <1>3, <1>4 DEF TextInv

(* notepad_clear, when the program starts and after a reset.               *)
LEMMA TextClear == notepad_clear => TextInv'
  <1> SUFFICES ASSUME notepad_clear
               PROVE  TextInv'
    OBVIOUS
  <1>1. /\ 0 \in Rows /\ 0 \in Columns /\ NOTEPAD_MAX_COLS \in Columns
        /\ 1 \in 1..NOTEPAD_MAX_LINES
    BY NotepadAssumption DEF Rows, Columns
  <1>2. \A i \in Rows, j \in Columns : notepad_buffer'[i][j] = NUL
    BY DEF notepad_clear, EmptyRow
  <1>3. NotepadTypeOK'
    BY <1>1 DEF NotepadTypeOK, notepad_clear, EmptyRow
  <1>4. TextReachable'
    BY <1>1, <1>2 DEF TextReachable, notepad_clear
  <1> QED
    BY <1>1, <1>2, <1>3, <1>4 DEF TextInv

(* A character is joined to the text of its row.                           *)
LEMMA TextInsert ==
    ASSUME TextInv, NEW c \in Chars, notepad_insert_char(c)
    PROVE  TextInv'
  <1>1. CASE ~(notepad_cursor_col < NOTEPAD_MAX_COLS)
    BY <1>1 DEF TextInv, NotepadTypeOK, TextReachable, notepad_insert_char
  <1>2. CASE notepad_cursor_col < NOTEPAD_MAX_COLS
    <2> DEFINE r == notepad_cursor_row
               col == notepad_cursor_col
    <2>1. /\ notepad_buffer' = [notepad_buffer EXCEPT ![r][col] = c]
          /\ notepad_cursor_col' = col + 1
          /\ notepad_cursor_row' = r /\ notepad_total_lines' = notepad_total_lines
      BY <1>2 DEF notepad_insert_char
    <2>2. /\ r \in Rows /\ col \in Columns /\ col + 1 \in Columns /\ NOTEPAD_MAX_COLS \in Columns
          /\ col # NOTEPAD_MAX_COLS /\ c # NUL
      BY <1>2, NotepadAssumption DEF TextInv, NotepadTypeOK, Columns
    <2>3. \A i \in Rows, j \in Columns :
            notepad_buffer'[i][j] = IF i = r /\ j = col THEN c ELSE notepad_buffer[i][j]
      BY <2>1, <2>2 DEF TextInv, NotepadTypeOK
    <2>4. NotepadTypeOK'
      BY <2>1, <2>2 DEF TextInv, NotepadTypeOK
    <2>5. \A k \in 0..col : k \in Columns /\ notepad_buffer'[r][k] # NUL
      BY <2>2, <2>3, NotepadAssumption DEF TextInv, TextReachable, Columns
    <2>6. ASSUME NEW i \in Rows, NEW j \in Columns, notepad_buffer'[i][j] # NUL
          PROVE  i < notepad_total_lines /\ \A k \in 0..j : notepad_buffer'[i][k] # NUL
      <3>1. \A k \in 0..j : k \in Columns
        BY NotepadAssumption DEF Columns
      <3>2. CASE i = r /\ j = col
        BY <2>5, <3>2 DEF TextInv, TextReachable
      <3>3. CASE ~(i = r /\ j = col)
        BY <2>2, <2>3, <2>6, <3>1, <3>3 DEF TextInv, TextReachable
      <3> QED
        BY <3>2, <3>3
    <2>7. \A k \in 0..(notepad_cursor_col' - 1) : k \in 0..col
      BY <2>1, <2>2 DEF Columns
    <2>8. TextReachable'
      BY <2>1, <2>5, <2>6, <2>7 DEF TextInv, TextReachable
    <2> QED
      BY <2>2, <2>3, <2>4, <2>8 DEF TextInv
  <1> QED
    BY <1>1, <1>2

(* The row that Backspace closes up.                                       *)
LEMMA TextClosed ==
    ASSUME TextInv, notepad_backspace, notepad_cursor_col > 0
    PROVE  TextInv'
  <1> DEFINE r == notepad_cursor_row
             k == notepad_cursor_col - 1
             s == notepad_buffer[r]
             m == NOTEPAD_MAX_COLS
  <1>1. /\ notepad_buffer' = [notepad_buffer EXCEPT ![r] = Closed(s, k)]
        /\ notepad_cursor_col' = k
        /\ notepad_cursor_row' = r /\ notepad_total_lines' = notepad_total_lines
    BY DEF notepad_backspace
  <1>2. /\ m \in Nat /\ m > 0 /\ Columns = 0..m /\ r \in Rows /\ k \in Columns /\ k < m
        /\ s \in [Columns -> Chars \cup {NUL}] /\ s[m] = NUL
    BY NotepadAssumption DEF TextInv, NotepadTypeOK, Columns
  <1>3. \A j \in Columns : Closed(s, k)[j] = IF j < k \/ j = m THEN s[j]
                                             ELSE IF j = m - 1 THEN NUL ELSE s[j + 1]
    BY DEF Closed
  <1>4. \A j \in Columns : s[j] # NUL => r < notepad_total_lines /\ \A x \in 0..j : s[x] # NUL
    BY <1>2 DEF TextInv, TextReachable
  <1>5. Closed(s, k) \in [Columns -> Chars \cup {NUL}]
    BY <1>2 DEF Closed
  <1>6. \A i \in Rows : notepad_buffer'[i] = IF i = r THEN Closed(s, k) ELSE notepad_buffer[i]
    BY <1>1, <1>2 DEF TextInv, NotepadTypeOK
  <1>7. NotepadTypeOK'
    BY <1>1, <1>2, <1>5 DEF TextInv, NotepadTypeOK
  <1>8. Closed(s, k)[m] = NUL
    BY <1>2, <1>3
  <1> HIDE DEF r, k, s, m
  <1>9. ASSUME NEW j \in Columns, Closed(s, k)[j] # NUL
        PROVE  r < notepad_total_lines /\ \A x \in 0..j : Closed(s, k)[x] # NUL
    <2>1. j \in 0..m /\ j # m
      BY <1>2, <1>8, <1>9
    <2>2. CASE j < k
      <3>1. s[j] # NUL
        BY <1>3, <1>9, <2>2
      <3>2. \A x \in 0..j : x \in Columns /\ x < k
        BY <1>2, <2>1, <2>2
      <3> QED
        BY <1>3, <1>4, <3>1, <3>2
    <2>3. CASE ~(j < k)
      <3>1. j # m - 1 /\ s[j + 1] # NUL
        BY <1>3, <1>9, <2>1, <2>3
      <3>2. j + 1 \in Columns
        BY <1>2, <2>1
      <3>3. r < notepad_total_lines /\ \A x \in 0..(j + 1) : s[x] # NUL
        BY <1>4, <3>1, <3>2
      <3>4. \A x \in 0..j : /\ x \in Columns /\ x # m /\ x # m - 1
                            /\ x \in 0..(j + 1) /\ x + 1 \in 0..(j + 1)
        BY <1>2, <2>1, <3>1
      <3>5. \A x \in 0..j : Closed(s, k)[x] = IF x < k THEN s[x] ELSE s[x + 1]
        BY <1>3, <3>4
      <3> QED
        BY <3>3, <3>4, <3>5
    <2> QED
      BY <2>2, <2>3
  <1>10. \A x \in 0..(k - 1) : Closed(s, k)[x] # NUL
    <2>1. \A x \in 0..(k - 1) : x \in Columns /\ x < k
      BY <1>2
    <2>2. \A x \in 0..(k - 1) : s[x] # NUL
      <3>1. \A x \in 0..(k - 1) : x \in 0..(notepad_cursor_col - 1)
        BY <1>2 DEF k
      <3> QED
        BY <3>1 DEF TextInv, TextReachable, r, s
    <2> QED
      BY <1>3, <2>1, <2>2
  <1>11. TextReachable'
    BY <1>1, <1>2, <1>6, <1>9, <1>10 DEF TextInv, TextReachable, r
  <1> QED
    BY <1>2, <1>6, <1>7, <1>8, <1>11 DEF TextInv, m

(* The cursor in row r, at most at its end.                                *)
LEMMA TextAt ==
    ASSUME TextInv, NEW r \in Rows, r < notepad_total_lines,
           UNCHANGED <<notepad_buffer, notepad_total_lines>>,
           notepad_cursor_row' = r, notepad_cursor_col' \in Nat,
           notepad_cursor_col' <= gui_strlen(notepad_buffer[r])
    PROVE  TextInv'
  <1> DEFINE s == notepad_buffer[r]
  <1>1. s \in [Columns -> Chars \cup {NUL}] /\ s[NOTEPAD_MAX_COLS] = NUL
    BY DEF TextInv, NotepadTypeOK
  <1>2. gui_strlen(s) \in Columns /\ \A j \in 0..(gui_strlen(s) - 1) : s[j] # NUL
    BY <1>1, Length
  <1>3. notepad_cursor_col' \in Columns
        /\ \A j \in 0..(notepad_cursor_col' - 1) : j \in 0..(gui_strlen(s) - 1)
    <2> DEFINE n == gui_strlen(s)
               c == notepad_cursor_col'
    <2>1. n \in 0..NOTEPAD_MAX_COLS /\ NOTEPAD_MAX_COLS \in Nat /\ c \in Nat /\ c <= n
      BY <1>2, NotepadAssumption DEF Columns
    <2> HIDE DEF n, c
    <2>2. c \in 0..NOTEPAD_MAX_COLS /\ \A j \in 0..(c - 1) : j \in 0..(n - 1)
      BY <2>1
    <2> QED
      BY <2>2 DEF Columns, n, c
  <1> QED
    BY <1>2, <1>3 DEF TextInv, NotepadTypeOK, TextReachable

(* Every key keeps the text within reach.                                  *)
LEMMA TextEdit ==
    ASSUME TextInv, notepad_edit
    PROVE  TextInv'
  <1> DEFINE r == notepad_cursor_row
             col == notepad_cursor_col
             End(i) == gui_strlen(notepad_buffer[i])
  <1>0. \A i \in Rows : End(i) \in Columns
    BY Length DEF TextInv, NotepadTypeOK
  <1>1. /\ r \in Rows /\ r \in Nat /\ col \in Columns /\ col \in Nat /\ r < notepad_total_lines
        /\ notepad_total_lines \in 1..NOTEPAD_MAX_LINES /\ NOTEPAD_MAX_LINES \in Nat
        /\ Rows = 0..(NOTEPAD_MAX_LINES - 1)
        /\ \A i \in Rows : End(i) \in Nat
    BY <1>0, NotepadAssumption DEF TextInv, NotepadTypeOK, TextReachable, Rows, Columns
  <1>2. CASE \E c \in Chars : notepad_insert_char(c)
    BY <1>2, TextInsert
  <1>3. CASE notepad_new_line
    <2>1. 0 \in Columns /\ \A j \in 0..(0 - 1) : FALSE
      BY NotepadAssumption DEF Columns
    <2>2. /\ notepad_cursor_row' \in Rows /\ notepad_cursor_col' \in Columns
          /\ notepad_total_lines' \in 1..NOTEPAD_MAX_LINES
          /\ notepad_cursor_row' < notepad_total_lines'
          /\ notepad_total_lines <= notepad_total_lines'
          /\ notepad_buffer' = notepad_buffer
      BY <1>1, <1>3, <2>1 DEF notepad_new_line
    <2>3. CASE r < NOTEPAD_MAX_LINES - 1
      <3>1. notepad_cursor_col' = 0
        BY <1>3, <2>3 DEF notepad_new_line
      <3>2. \A i \in Rows : i < notepad_total_lines => i < notepad_total_lines'
        BY <1>1, <2>2
      <3> QED
        BY <2>1, <2>2, <3>1, <3>2 DEF TextInv, NotepadTypeOK, TextReachable
    <2>4. CASE ~(r < NOTEPAD_MAX_LINES - 1)
      BY <1>3, <2>4 DEF notepad_new_line, TextInv, NotepadTypeOK, TextReachable
    <2> QED
      BY <2>3, <2>4
  <1>4. CASE notepad_backspace
    <2>1. CASE col > 0
      BY <1>4, <2>1, TextClosed
    <2>2. CASE ~(col > 0) /\ r > 0
      <3>1. /\ notepad_cursor_row' = r - 1 /\ notepad_cursor_col' = End(r - 1)
            /\ UNCHANGED <<notepad_buffer, notepad_total_lines>>
        BY <1>1, <1>4, <2>2 DEF notepad_backspace
      <3>2. r - 1 \in Rows /\ r - 1 < notepad_total_lines
        BY <1>1, <2>2
      <3>3. notepad_cursor_col' \in Nat /\ notepad_cursor_col' <= End(r - 1)
        BY <1>1, <3>1, <3>2
      <3> QED
        BY <3>1, <3>2, <3>3, TextAt
    <2>3. CASE ~(col > 0) /\ ~(r > 0)
      BY <1>1, <1>4, <2>3 DEF notepad_backspace, TextInv, NotepadTypeOK, TextReachable
    <2> QED
      BY <2>1, <2>2, <2>3
  <1>5. ASSUME NEW i \in Rows, i < notepad_total_lines, ToRow(i)
        PROVE  TextInv'
    <2>1. /\ notepad_cursor_row' = i
          /\ notepad_cursor_col' = IF col > End(i) THEN End(i) ELSE col
          /\ UNCHANGED <<notepad_buffer, notepad_total_lines>>
      BY <1>5 DEF ToRow
    <2>2. notepad_cursor_col' \in Nat /\ notepad_cursor_col' <= End(i)
      BY <1>1, <2>1
    <2> QED
      BY <1>5, <2>1, <2>2, TextAt
  <1>6. CASE notepad_up
    <2>1. (IF r > 0 THEN r - 1 ELSE r) \in Rows /\ (IF r > 0 THEN r - 1 ELSE r) < notepad_total_lines
      BY <1>1
    <2> QED
      BY <1>5, <1>6, <2>1 DEF notepad_up
  <1>7. CASE notepad_down
    <2> DEFINE d == IF r < notepad_total_lines - 1 THEN r + 1 ELSE r
    <2>1. d \in Rows /\ d < notepad_total_lines
      BY <1>1
    <2> QED
      BY <1>5, <1>7, <2>1 DEF notepad_down
  <1>8. CASE notepad_left
    <2>1. notepad_cursor_col' \in Columns
          /\ \A j \in 0..(notepad_cursor_col' - 1) : j \in 0..(col - 1)
      BY <1>1, <1>8, NotepadAssumption DEF notepad_left, Columns
    <2> QED
      BY <1>8, <2>1 DEF notepad_left, TextInv, NotepadTypeOK, TextReachable
  <1>9. CASE notepad_right
    <2>1. CASE col < End(r)
      <3>1. notepad_cursor_col' \in Nat /\ notepad_cursor_col' <= End(r)
        BY <1>1, <1>9, <2>1 DEF notepad_right
      <3> QED
        BY <1>1, <1>9, <3>1, TextAt DEF notepad_right
    <2>2. CASE ~(col < End(r))
      BY <1>9, <2>2 DEF notepad_right, TextInv, NotepadTypeOK, TextReachable
    <2> QED
      BY <2>1, <2>2
  <1> QED
    BY <1>2, <1>3, <1>4, <1>6, <1>7, <1>8, <1>9 DEF notepad_edit

(* A step of the machine clears the text, is a key of NOTEPAD or leaves    *)
(* the text alone.                                                         *)
LEMMA NotepadSteps == [Next]_vars => notepad_clear \/ notepad_edit \/ UNCHANGED notepad
  BY DEF Next, vars, programs, Reset, PowerLoss, sys_reboot, shell_prints, cmd_guitest,
         save_text_screen, gui_check_and_restore_screen, prompt_loop, Escape, close_click,
         save_click, filebrowser_click, gui_notepad, gui_paint, gui_sysinfo, gui_filebrowser,
         gui_clock, cmd_calc_gui, gpu_disable_scanout, guitest_key, notepad_key, mouse_release,
         paint_size, paint_pick, filebrowser_key, clock_runs, calc_input

(* Whatever was typed in NOTEPAD stays within reach of the arrow keys, and *)
(* the cursor of gui_notepad is in the text or behind the end of its row,  *)
(* after any series of keys.                                               *)
THEOREM TextCorrect == Spec => []TextReachable
  <1>1. TextInv /\ UNCHANGED notepad => TextInv'
    BY DEF TextInv, NotepadTypeOK, TextReachable, notepad
  <1>2. TextInv /\ [Next]_vars => TextInv'
    BY <1>1, TextClear, TextEdit, NotepadSteps
  <1>3. TextInv => TextReachable
    BY DEF TextInv
  <1> QED
    BY <1>2, <1>3, TextInit, PTL DEF Spec
-----------------------------------------------------------------------------
(* The time CLOCK shows.                                                   *)

ReadSteps == {"h", "m", "s", "draw"}

(* The registers hold a time, and only CLOCK looks at them.                *)
ClockValues ==
    /\ \E t \in Times : rtc = Registers(t)
    /\ time \in Times /\ shown \in Times
    /\ clock_pc \in {"key"} \cup ReadSteps \cup WaitSteps
    /\ frames \in 0..2
    /\ app # "clock" => clock_pc = "key" /\ tick = "no" /\ frames = 0

(* From the second frame on, registers are read for a frame only after a   *)
(* tick, and no second one comes before it is drawn.                       *)
TickSeen ==
    /\ clock_pc \in WaitSteps => frames # 0 /\ tick \in {"no", "due"} /\ current_s = shown.s
    /\ clock_pc = "key" => tick \in (IF frames = 0 THEN {"no", "due"} ELSE {"due"})
    /\ clock_pc \in ReadSteps => tick \in (IF frames = 0 THEN {"no", "due", "seen"} ELSE {"seen"})

(* What was read since the last tick is what the registers hold.           *)
ReadNow ==
    /\ tick # "due" =>
         /\ clock_pc \in {"m", "s", "draw"} => time.h = Zone(Now).h
         /\ clock_pc \in {"s", "draw"} => time.m = Now.m
         /\ clock_pc = "draw" => time.s = Now.s
    /\ clock_pc \in WaitSteps /\ tick = "no" => shown = Zone(Now)
    /\ clock_pc = "wait" /\ tick = "no" => time.s = current_s

ClockInv == ClockValues /\ TickSeen /\ ReadNow /\ ShowsTheTime

(* A counter that turns over.                                              *)
LEMMA TurnsOver ==
    ASSUME NEW m \in 2..99, NEW x \in 0..(m - 1)
    PROVE  /\ (x + 1) % m = IF x + 1 = m THEN 0 ELSE x + 1
           /\ (x + 1) % m \in 0..(m - 1)
           /\ (x + 1) % m # x
  <1>1. CASE x + 1 = m
    <2>1. m % m = 0
      OBVIOUS
    <2> QED
      BY <1>1, <2>1
  <1>2. CASE x + 1 # m
    <2>1. (x + 1) % m = x + 1
      BY <1>2
    <2> QED
      BY <1>2, <2>1
  <1> QED
    BY <1>1, <1>2

(* A number of two digits comes back from BCD.                             *)
LEMMA Decoded ==
    ASSUME NEW n \in 0..98
    PROVE  bcd2bin(bcd(n)) = n
  BY DEF bcd, bcd2bin

(* The parts of a time.                                                    *)
LEMMA TimeParts ==
    ASSUME NEW t \in Times
    PROVE  /\ t.h \in 0..(HOURS - 1) /\ t.m \in 0..(MINUTES - 1) /\ t.s \in 0..(SECONDS - 1)
           /\ HOURS \in 2..99 /\ MINUTES \in 2..99 /\ SECONDS \in 2..99
           /\ t.h \in 0..98 /\ t.m \in 0..98 /\ t.s \in 0..98
           /\ t = [h |-> t.h, m |-> t.m, s |-> t.s]
           /\ DOMAIN t = {"h", "m", "s"}
  <1>1. HOURS \in 2..99 /\ MINUTES \in 2..99 /\ SECONDS \in 2..99
    BY ClockAssumption
  <1> QED
    BY <1>1 DEF Times

(* The registers hold the time that was put in them.                       *)
LEMMA NowIs ==
    ASSUME NEW t \in Times, NEW g, g = Registers(t)
    PROVE  /\ [r \in {"h", "m", "s"} |-> bcd2bin(g[r])] = t
           /\ bcd2bin(g.h) = t.h /\ bcd2bin(g.m) = t.m /\ bcd2bin(g.s) = t.s
  <1>1. /\ bcd2bin(bcd(t.h)) = t.h /\ bcd2bin(bcd(t.m)) = t.m /\ bcd2bin(bcd(t.s)) = t.s
        /\ t = [h |-> t.h, m |-> t.m, s |-> t.s]
    BY TimeParts, Decoded
  <1>2. bcd2bin(g.h) = t.h /\ bcd2bin(g.m) = t.m /\ bcd2bin(g.s) = t.s
    BY <1>1 DEF Registers
  <1>3. [r \in {"h", "m", "s"} |-> bcd2bin(g[r])] = [r \in {"h", "m", "s"} |-> t[r]]
    BY <1>2
  <1>4. t = [r \in {"h", "m", "s"} |-> t[r]]
    BY <1>1
  <1> QED
    BY <1>2, <1>3, <1>4

(* The next second is a time, with other seconds.                          *)
LEMMA NextIsTime ==
    ASSUME NEW t \in Times
    PROVE  NextTime(t) \in Times /\ NextTime(t).s # t.s
  <1>1. /\ (t.s + 1) % SECONDS \in 0..(SECONDS - 1) /\ (t.s + 1) % SECONDS # t.s
        /\ (t.m + 1) % MINUTES \in 0..(MINUTES - 1)
        /\ (t.h + 1) % HOURS \in 0..(HOURS - 1)
    BY TimeParts, TurnsOver
  <1> QED
    BY <1>1, TimeParts DEF NextTime, Times

(* The time in the zone of the program is a time with the same minutes and *)
(* seconds.                                                                *)
LEMMA ZoneIsTime ==
    ASSUME NEW t \in Times
    PROVE  Zone(t) \in Times /\ Zone(t) = [h |-> (t.h + 1) % HOURS, m |-> t.m, s |-> t.s]
  <1>1. (t.h + 1) % HOURS \in 0..(HOURS - 1)
    BY TimeParts, TurnsOver
  <1> QED
    BY <1>1, TimeParts DEF Zone, Times

(* A clock that has not been started.                                      *)
LEMMA ClockStopped ==
    ASSUME ClockValues, clock_pc = "key", tick = "no", frames = 0
    PROVE  ClockInv
  BY DEF ClockInv, TickSeen, ReadNow, ShowsTheTime, ReadSteps, WaitSteps

(* Before the first boot.                                                  *)
LEMMA ClockInit == Init => ClockInv
  <1> SUFFICES ASSUME Init
               PROVE  ClockInv
    OBVIOUS
  <1>1. Zero \in Times
    BY ClockAssumption DEF Zero, Times
  <1>2. ClockValues
    BY <1>1 DEF Init, ClockValues
  <1> QED
    BY <1>2, ClockStopped DEF Init

(* A reset, and the start of CLOCK at any time of the day.                 *)
LEMMA ClockStarts ==
    ASSUME ClockInv,
           \/ sys_reboot
           \/ gui_clock
    PROVE  ClockInv'
  <1>1. Zero \in Times
    BY ClockAssumption DEF Zero, Times
  <1>2. CASE sys_reboot
    <2>1. ClockValues'
      BY <1>1, <1>2 DEF sys_reboot, clock_reset, ClockValues
    <2> QED
      BY <1>2, <2>1 DEF sys_reboot, clock_reset, ClockInv, TickSeen, ReadNow, ShowsTheTime,
                        ReadSteps, WaitSteps
  <1>3. CASE gui_clock
    <2>1. /\ app = "shell" /\ \E t \in Times : rtc' = Registers(t)
          /\ UNCHANGED <<tick, clock_pc, time, current_s, shown, frames>>
      BY <1>3 DEF gui_clock, start, program
    <2>2. clock_pc = "key" /\ tick = "no" /\ frames = 0
      BY <2>1 DEF ClockInv, ClockValues
    <2>3. ClockValues'
      BY <2>1, <2>2 DEF ClockInv, ClockValues
    <2> QED
      BY <2>1, <2>2, <2>3 DEF ClockInv, TickSeen, ReadNow, ShowsTheTime, ReadSteps, WaitSteps
  <1> QED
    BY <1>2, <1>3

(* The real-time clock ticks.  In the wait after the second frame it does  *)
(* so once only: its seconds are then other than the ones shown.           *)
LEMMA ClockTicks ==
    ASSUME ClockInv, app = "clock", app' = app, rtc_tick
    PROVE  ClockInv'
  <1>1. PICK t \in Times : rtc = Registers(t)
    BY DEF ClockInv, ClockValues
  <1>2. Now = t /\ bcd2bin(rtc.s) = t.s
    BY <1>1, NowIs DEF Now
  <1>3. /\ tick' = "due" /\ rtc' = Registers(NextTime(t))
        /\ UNCHANGED <<clock_pc, time, current_s, shown, frames>>
        /\ tick = "no" \/ (clock_pc \in WaitSteps /\ current_s = t.s)
    BY <1>2 DEF rtc_tick, program
  <1>4. NextTime(t) \in Times /\ NextTime(t).s # t.s
    BY NextIsTime
  <1>5. Now' = NextTime(t)
    BY <1>3, <1>4, NowIs DEF Now
  <1>6. ClockValues'
    BY <1>3, <1>4 DEF ClockInv, ClockValues
  <1>7. TickSeen'
    BY <1>3 DEF ClockInv, ClockValues, TickSeen, ReadSteps, WaitSteps
  <1>8. ReadNow'
    BY <1>3 DEF ReadNow
  <1>9. ShowsTheTime'
    <2> SUFFICES ASSUME frames = 2
                 PROVE  shown = Zone(t)
      BY <1>3, <1>5 DEF ShowsTheTime
    <2>1. CASE shown = Zone(t)
      BY <2>1
    <2>2. CASE tick # "no" /\ \E u \in Times : shown = Zone(u) /\ t = NextTime(u)
      <3>1. PICK u \in Times : shown = Zone(u) /\ t = NextTime(u)
        BY <2>2
      <3>2. shown.s = u.s
        BY <3>1, ZoneIsTime
      <3>3. t.s # u.s
        BY <3>1, NextIsTime
      <3>4. current_s = shown.s
        BY <1>3, <2>2 DEF ClockInv, TickSeen
      <3> QED
        BY <1>3, <2>2, <3>2, <3>3, <3>4
    <2> QED
      BY <1>2, <2>1, <2>2 DEF ClockInv, ShowsTheTime
  <1> QED
    BY <1>6, <1>7, <1>8, <1>9 DEF ClockInv

(* A step of the program.                                                  *)
LEMMA ClockSteps ==
    ASSUME ClockInv, app = "clock", app' = app, clock_step
    PROVE  ClockInv'
  <1>1. PICK t \in Times : rtc = Registers(t)
    BY DEF ClockInv, ClockValues
  <1>2. /\ Now = t
        /\ bcd2bin(rtc.h) = t.h /\ bcd2bin(rtc.m) = t.m /\ bcd2bin(rtc.s) = t.s
    BY <1>1, NowIs DEF Now
  <1>3. rtc' = rtc /\ Now' = t
    BY <1>2 DEF clock_step, clock_frame, sys_get_time, clock_draw, wait_get_time, clock_wait, Now
  <1>4. /\ Zone(t).h = (t.h + 1) % HOURS /\ Zone(t).m = t.m /\ Zone(t).s = t.s
        /\ Zone(t) \in Times
    BY ZoneIsTime
  <1>5. ClockValues /\ TickSeen /\ ReadNow /\ ShowsTheTime
    BY DEF ClockInv
  <1>6. time \in Times /\ shown \in Times
    BY <1>5 DEF ClockValues
  <1>7. CASE clock_frame
    <2>1. ClockValues' /\ TickSeen' /\ ReadNow'
      BY <1>3, <1>5, <1>7 DEF clock_frame, ClockValues, TickSeen, ReadNow, ReadSteps, WaitSteps
    <2>2. ShowsTheTime'
      BY <1>2, <1>3, <1>5, <1>7 DEF clock_frame, ShowsTheTime
    <2> QED
      BY <2>1, <2>2 DEF ClockInv
  <1>8. CASE sys_get_time \/ wait_get_time
    <2>1. UNCHANGED <<rtc, tick, current_s, shown, frames>>
      BY <1>8 DEF sys_get_time, wait_get_time
    <2>2. ShowsTheTime'
      BY <1>2, <1>3, <1>5, <2>1 DEF ShowsTheTime
    <2>3. ASSUME NEW pc, NEW next, <<pc, next>> \in {<<"h", "m">>, <<"wait_h", "wait_m">>},
                 ReadHours(pc, next)
          PROVE  ClockValues' /\ TickSeen' /\ ReadNow'
      <3>1. time' = [time EXCEPT !.h = Zone(t).h] /\ clock_pc = pc /\ clock_pc' = next
        BY <1>2, <1>4, <2>3 DEF ReadHours
      <3>2. time' \in Times /\ time'.h = Zone(t).h
        BY <1>4, <1>6, <3>1 DEF Times
      <3> QED
        BY <1>2, <1>3, <1>5, <2>1, <2>3, <3>1, <3>2
        DEF ClockValues, TickSeen, ReadNow, ReadSteps, WaitSteps
    <2>4. ASSUME NEW pc, NEW next, <<pc, next>> \in {<<"m", "s">>, <<"wait_m", "wait_s">>},
                 ReadMinutes(pc, next)
          PROVE  ClockValues' /\ TickSeen' /\ ReadNow'
      <3>1. time' = [time EXCEPT !.m = t.m] /\ clock_pc = pc /\ clock_pc' = next
        BY <1>2, <1>4, <2>4 DEF ReadMinutes
      <3>2. time' \in Times /\ time'.h = time.h /\ time'.m = t.m
        BY <1>4, <1>6, <3>1 DEF Times
      <3> QED
        BY <1>2, <1>3, <1>5, <2>1, <2>4, <3>1, <3>2
        DEF ClockValues, TickSeen, ReadNow, ReadSteps, WaitSteps
    <2>5. ASSUME NEW pc, NEW next, <<pc, next>> \in {<<"s", "draw">>, <<"wait_s", "wait">>},
                 ReadSeconds(pc, next)
          PROVE  ClockValues' /\ TickSeen' /\ ReadNow'
      <3>1. time' = [time EXCEPT !.s = t.s] /\ clock_pc = pc /\ clock_pc' = next
        BY <1>2, <1>4, <2>5 DEF ReadSeconds
      <3>2. time' \in Times /\ time'.h = time.h /\ time'.m = time.m /\ time'.s = t.s
        BY <1>4, <1>6, <3>1 DEF Times
      <3> QED
        BY <1>2, <1>3, <1>4, <1>5, <2>1, <2>5, <3>1, <3>2
        DEF ClockValues, TickSeen, ReadNow, ReadSteps, WaitSteps
    <2> QED
      BY <1>8, <2>2, <2>3, <2>4, <2>5 DEF sys_get_time, wait_get_time, ClockInv
  <1>9. CASE clock_draw
    <2>1. /\ clock_pc = "draw" /\ shown' = time /\ current_s' = time.s
          /\ frames' = (IF frames < 2 THEN frames + 1 ELSE 2) /\ clock_pc' = "wait_h"
          /\ tick' = (IF tick = "seen" THEN "no" ELSE tick) /\ time' = time
      BY <1>9 DEF clock_draw
    <2>2. frames' \in 0..2 /\ frames' # 0 /\ (frames' = 2 => frames # 0)
      BY <1>5, <2>1 DEF ClockValues
    <2>3. tick # "due" => time = Zone(t)
      <3>1. tick # "due" => time.h = Zone(t).h /\ time.m = Zone(t).m /\ time.s = Zone(t).s
        BY <1>2, <1>4, <1>5, <2>1 DEF ReadNow
      <3> QED
        BY <1>4, <1>6, <3>1 DEF Times
    <2>4. tick \in {"no", "due", "seen"} /\ (frames # 0 => tick = "seen")
      BY <1>5, <2>1 DEF TickSeen, ReadSteps
    <2>5. ClockValues'
      BY <1>1, <1>3, <1>6, <2>1, <2>2 DEF ClockValues, WaitSteps
    <2>6. TickSeen'
      BY <2>1, <2>2, <2>4 DEF TickSeen, ReadSteps, WaitSteps
    <2>7. ReadNow'
      BY <1>3, <2>1, <2>3, <2>4 DEF ReadNow
    <2>8. ShowsTheTime'
      BY <1>3, <2>1, <2>2, <2>3, <2>4 DEF ShowsTheTime
    <2> QED
      BY <2>5, <2>6, <2>7, <2>8 DEF ClockInv
  <1>10. CASE clock_wait
    <2>1. ShowsTheTime'
      BY <1>2, <1>3, <1>5, <1>10 DEF clock_wait, ShowsTheTime
    <2>2. ClockValues' /\ TickSeen' /\ ReadNow'
      BY <1>2, <1>3, <1>5, <1>10 DEF clock_wait, ClockValues, TickSeen, ReadNow, ReadSteps, WaitSteps
    <2> QED
      BY <2>1, <2>2 DEF ClockInv
  <1> QED
    BY <1>7, <1>8, <1>9, <1>10 DEF clock_step

(* Steps that have nothing to do with the clock.                           *)
LEMMA ClockIdle ==
    ASSUME ClockInv, UNCHANGED clock, app' # "clock" => app # "clock"
    PROVE  ClockInv'
  <1>1. UNCHANGED <<rtc, tick, clock_pc, time, current_s, shown, frames>> /\ Now' = Now
    BY DEF clock, program, Now
  <1>2. ClockValues'
    BY <1>1 DEF ClockInv, ClockValues
  <1>3. TickSeen' /\ ReadNow' /\ ShowsTheTime'
    BY <1>1 DEF ClockInv, TickSeen, ReadNow, ShowsTheTime
  <1> QED
    BY <1>2, <1>3 DEF ClockInv

(* Every step is one of these.                                             *)
LEMMA ClockStep == ClockInv /\ [Next]_vars => ClockInv'
  <1> SUFFICES ASSUME ClockInv, [Next]_vars
               PROVE  ClockInv'
    OBVIOUS
  <1>1. CASE sys_reboot \/ gui_clock
    BY <1>1, ClockStarts
  <1>2. CASE clock_runs
    BY <1>2, ClockTicks, ClockSteps DEF clock_runs
  <1>3. CASE UNCHANGED clock /\ (app' = app \/ app # "clock")
    BY <1>3, ClockIdle
  <1> QED
    BY <1>1, <1>2, <1>3
    DEF Next, vars, programs, Reset, PowerLoss, shell_prints, cmd_guitest, save_text_screen,
        gui_check_and_restore_screen, prompt_loop, Escape, close_click, save_click,
        filebrowser_click, gui_notepad, gui_paint, gui_sysinfo, gui_filebrowser, cmd_calc_gui,
        gpu_disable_scanout, guitest_key, notepad_key, mouse_release, paint_size, paint_pick,
        filebrowser_key, calc_input, start

(* From the second frame on CLOCK shows the time it is, or was before the  *)
(* last tick, wherever among the reads of sys_get_time the ticks fall and  *)
(* however long the day is.                                                *)
THEOREM ClockCorrect == Spec => []ShowsTheTime
  <1>1. ClockInv => ShowsTheTime
    BY DEF ClockInv
  <1> QED
    BY <1>1, ClockInit, ClockStep, PTL DEF Spec
-----------------------------------------------------------------------------
(* Numbers: induction, folds and division.                                 *)

(* Induction, for a set of numbers.                                        *)
LEMMA Induction ==
    ASSUME NEW P, 0 \in P, \A n \in Nat : n \in P => n + 1 \in P
    PROVE  \A n \in Nat : n \in P
  <1> DEFINE S == Nat \ P
  <1> SUFFICES ASSUME S # {}
               PROVE  FALSE
    OBVIOUS
  <1>1. PICK i \in S : \A j \in S : i <= j
    <2>1. S \in SUBSET Nat
      OBVIOUS
    <2> HIDE DEF S
    <2> QED
      BY <2>1, LeastOf
  <1>2. i \in Nat /\ i # 0 /\ i - 1 \in Nat /\ (i - 1) + 1 = i
    OBVIOUS
  <1>3. i - 1 \in P
    BY <1>1, <1>2
  <1> QED
    BY <1>2, <1>3

(* The largest of the numbers up to k is k.                                *)
LEMMA MaxIs ==
    ASSUME NEW k \in Nat, NEW t \in SUBSET (1..k), k \in t
    PROVE  Max(t) = k
  <1>1. \A y \in t : y \in Nat /\ k >= y
    OBVIOUS
  <1>2. \A x \in t : (\A y \in t : x >= y) => x = k
    BY <1>1
  <1> QED
    BY <1>1, <1>2 DEF Max

(* A set of such numbers has a largest one.                                *)
LEMMA MaxIn ==
    ASSUME NEW k \in Nat, NEW t \in SUBSET (1..k), t # {}
    PROVE  Max(t) \in t
  <1> DEFINE S == {m \in 0..k : k - m \in t}
  <1>1. PICK y \in t : TRUE
    OBVIOUS
  <1>2. S \in SUBSET Nat /\ k - y \in S
    <2>1. y \in 1..k /\ k - y \in 0..k /\ k - (k - y) = y
      OBVIOUS
    <2> QED
      BY <2>1
  <1>3. PICK i \in S : \A j \in S : i <= j
    <2> HIDE DEF S
    <2> QED
      BY <1>2, LeastOf
  <1>4. k - i \in t /\ i \in Nat
    BY <1>3
  <1>5. ASSUME NEW z \in t
        PROVE  k - i >= z
    <2>1. z \in 1..k /\ k - z \in 0..k /\ k - (k - z) = z
      OBVIOUS
    <2>2. i <= k - z
      BY <1>3, <2>1
    <2> QED
      BY <1>4, <2>1, <2>2
  <1> QED
    BY <1>4, <1>5 DEF Max

(* A fold from the left over 1..n, with a function st[i] for each position *)
(* i, is defined by a function g on the subsets of 1..n.                   *)
Folded(g, n, base, st) ==
    \A t \in SUBSET (1..n) : g[t] = IF t = {} THEN base ELSE st[Max(t)][g[t \ {Max(t)}]]

(* There is one.                                                           *)
LEMMA FoldExists ==
    ASSUME NEW n \in Nat, NEW V, NEW base \in V, NEW st \in [1..n -> [V -> V]]
    PROVE  \E g \in [SUBSET (1..n) -> V] : Folded(g, n, base, st)
  <1> DEFINE Folds(g, k) == Folded(g, k, base, st)
             Exists(k) == k <= n => \E g \in [SUBSET (1..k) -> V] : Folds(g, k)
             P == {k \in Nat : Exists(k)}
  <1>1. Exists(0)
    <2> DEFINE g == [t \in SUBSET (1..0) |-> base]
    <2>1. g \in [SUBSET (1..0) -> V]
      OBVIOUS
    <2>2. \A t \in SUBSET (1..0) : t = {}
      OBVIOUS
    <2>3. Folds(g, 0)
      BY <2>2 DEF Folded
    <2> QED
      BY <2>1, <2>3
  <1>2. ASSUME NEW k \in Nat, Exists(k)
        PROVE  Exists(k + 1)
    <2> SUFFICES ASSUME k + 1 <= n
                 PROVE  \E h \in [SUBSET (1..(k + 1)) -> V] : Folds(h, k + 1)
      OBVIOUS
    <2>1. PICK g \in [SUBSET (1..k) -> V] : Folds(g, k)
      <3>1. k <= n
        OBVIOUS
      <3> QED
        BY <1>2, <3>1, Zenon
    <2> DEFINE h == [t \in SUBSET (1..(k + 1)) |->
                       IF k + 1 \in t THEN st[k + 1][g[t \ {k + 1}]] ELSE g[t]]
    <2>2. \A t \in SUBSET (1..(k + 1)) : t \ {k + 1} \in SUBSET (1..k)
      OBVIOUS
    <2>3. \A t \in SUBSET (1..(k + 1)) : k + 1 \notin t => t \in SUBSET (1..k)
      OBVIOUS
    <2>4. k + 1 \in 1..n
      OBVIOUS
    <2>5. h \in [SUBSET (1..(k + 1)) -> V]
      BY <2>2, <2>3, <2>4
    <2>6. ASSUME NEW t \in SUBSET (1..(k + 1))
          PROVE  h[t] = IF t = {} THEN base ELSE st[Max(t)][h[t \ {Max(t)}]]
      <3>1. CASE k + 1 \in t
        <4>1. Max(t) = k + 1
          BY <3>1, MaxIs
        <4>2. h[t \ {k + 1}] = g[t \ {k + 1}]
          BY <2>2
        <4> QED
          BY <3>1, <4>1, <4>2
      <3>2. CASE k + 1 \notin t
        <4>1. t \in SUBSET (1..k) /\ h[t] = g[t]
          BY <2>3, <3>2
        <4>2. h[t \ {Max(t)}] = g[t \ {Max(t)}]
          BY <3>2
        <4> QED
          BY <2>1, <4>1, <4>2 DEF Folded
      <3> QED
        BY <3>1, <3>2
    <2>7. Folds(h, k + 1)
      BY <2>6 DEF Folded
    <2> QED
      BY <2>5, <2>7
  <1>3. Exists(n)
    <2> HIDE DEF Exists
    <2>1. 0 \in P /\ \A k \in Nat : k \in P => k + 1 \in P
      BY <1>1, <1>2
    <2> HIDE DEF P
    <2>2. n \in P
      BY <2>1, Induction
    <2> QED
      BY <2>2 DEF P
  <1>4. n <= n
    OBVIOUS
  <1> QED
    BY <1>3, <1>4, Zenon

(* The constants of the calculator, in the form the proofs use.            *)
LEMMA WordConstants ==
    /\ Word \in Nat /\ Word > 1 /\ MinWord \in Int
    /\ Word = -2 * MinWord /\ MinWord < 0
    /\ Words = MinWord..(-MinWord - 1)
  BY CalculatorAssumption DEF MinWord, Words

(* Division with remainder, and that there is one way to do it.            *)
LEMMA Divides ==
    ASSUME NEW w \in Nat, w > 0, NEW x \in Int
    PROVE  /\ x \div w \in Int /\ x % w \in 0..(w - 1)
           /\ x = w * (x \div w) + (x % w)
  OBVIOUS

(* A number has one remainder.                                             *)
LEMMA RemainderUnique ==
    ASSUME NEW w \in Nat, w > 0, NEW q \in Int, NEW p \in Int,
           NEW r \in 0..(w - 1), NEW s \in 0..(w - 1), w * q + r = w * p + s
    PROVE  r = s
  <1>1. w * (q - p) = s - r
    OBVIOUS
  <1>2. CASE q - p >= 1
    <2>1. w * (q - p) >= w
      BY <1>2
    <2> QED
      BY <1>1, <2>1
  <1>3. CASE q - p <= -1
    <2>1. w * (q - p) <= -w
      BY <1>3
    <2> QED
      BY <1>1, <2>1
  <1>4. CASE q = p
    BY <1>4
  <1> QED
    BY <1>2, <1>3, <1>4

(* Multiples of the modulus do not count.                                  *)
LEMMA ModAdds ==
    ASSUME NEW w \in Nat, w > 0, NEW x \in Int, NEW k \in Int
    PROVE  (x + k * w) % w = x % w
  <1> DEFINE y == x + k * w
  <1>1. y \in Int
    OBVIOUS
  <1>2. /\ y \div w \in Int /\ y % w \in 0..(w - 1)
        /\ y = w * (y \div w) + (y % w)
    <2> HIDE DEF y
    <2> QED
      BY <1>1, Divides
  <1>3. /\ x \div w \in Int /\ x % w \in 0..(w - 1)
        /\ x = w * (x \div w) + (x % w)
    BY Divides
  <1> DEFINE q == x \div w
             r == x % w
             p == y \div w
             s == y % w
  <1>4. w * (q + k) + r = w * p + s /\ q + k \in Int
    <2>1. y = x + k * w
      OBVIOUS
    <2> HIDE DEF y, q, r, p, s
    <2>2. x = w * q + r /\ q \in Int /\ r \in Int
      BY <1>3 DEF q, r
    <2>3. y = w * p + s /\ p \in Int /\ s \in Int
      BY <1>2 DEF p, s
    <2>4. w * (q + k) = w * q + k * w
      BY <2>2
    <2> QED
      BY <2>1, <2>2, <2>3, <2>4
  <1>5. r \in 0..(w - 1) /\ s \in 0..(w - 1) /\ p \in Int
    BY <1>2, <1>3
  <1> HIDE DEF y, q, r, p, s
  <1>6. r = s
    BY <1>4, <1>5, RemainderUnique
  <1> QED
    BY <1>6 DEF r, s, y

(* Wrap gives the word that differs by a multiple of 2^32.                 *)
LEMMA WrapIs ==
    ASSUME NEW n \in Int
    PROVE  /\ Wrap(n) \in Words
           /\ \E k \in Int : Wrap(n) = n + k * Word
  <1> DEFINE x == n - MinWord
             r == x % Word
             q == x \div Word
  <1>1. x \in Int /\ Word \in Nat /\ Word > 0
    BY WordConstants
  <1>2. q \in Int /\ r \in 0..(Word - 1) /\ x = Word * q + r
    <2> HIDE DEF x
    <2> QED
      BY <1>1, Divides
  <1>3. Wrap(n) = r + MinWord
    BY DEF Wrap
  <1>4. Wrap(n) \in Words
    <2> HIDE DEF x, r
    <2> QED
      BY <1>2, <1>3, WordConstants
  <1>5. Wrap(n) = n + (-q) * Word /\ -q \in Int
    <2>1. x = n - MinWord
      OBVIOUS
    <2> HIDE DEF x, r, q
    <2>2. (-q) * Word = -(Word * q)
      BY <1>1, <1>2
    <2> QED
      BY <1>1, <1>2, <1>3, <2>1, <2>2, WordConstants
  <1> QED
    BY <1>4, <1>5

(* Words that differ by a multiple of 2^32 are the same.                   *)
LEMMA WrapAdds ==
    ASSUME NEW n \in Int, NEW k \in Int
    PROVE  Wrap(n + k * Word) = Wrap(n)
  <1> DEFINE x == n - MinWord
  <1>1. x \in Int /\ Word \in Nat /\ Word > 0
    BY WordConstants
  <1>2. (n + k * Word) - MinWord = x + k * Word
    BY WordConstants
  <1>3. (x + k * Word) % Word = x % Word
    <2> HIDE DEF x
    <2> QED
      BY <1>1, ModAdds
  <1> QED
    BY <1>2, <1>3 DEF Wrap

(* A word is its own.                                                      *)
LEMMA WrapWord ==
    ASSUME NEW n \in Words
    PROVE  Wrap(n) = n
  <1> DEFINE x == n - MinWord
  <1>1. x \in 0..(Word - 1) /\ Word \in Nat /\ Word > 0 /\ n \in Int
    BY WordConstants
  <1>2. x % Word = x
    <2> HIDE DEF x
    <2> QED
      BY <1>1
  <1> QED
    BY <1>1, <1>2, WordConstants DEF Wrap

(* One digit more: the wrap of the digits before it makes no difference.   *)
LEMMA WrapDigit ==
    ASSUME NEW a \in Int, NEW d \in Int
    PROVE  Wrap(Wrap(a) * 10 + d) = Wrap(a * 10 + d)
  <1>1. PICK k \in Int : Wrap(a) = a + k * Word
    BY WrapIs
  <1>2. Wrap(a) * 10 + d = (a * 10 + d) + (10 * k) * Word
    BY <1>1, WordConstants
  <1>3. a * 10 + d \in Int /\ 10 * k \in Int
    OBVIOUS
  <1> QED
    BY <1>2, <1>3, WrapAdds

(* One step of Parse: the value so far and the next character.             *)
ReadDigit(v, c) == IF c \in DigitChars THEN Wrap(v * 10 + DigitValue[c]) ELSE v


(* The digits and their values.                                            *)
LEMMA DigitFacts ==
    /\ \A d \in 0..9 : Digits[d + 1] \in DigitChars /\ DigitValue[Digits[d + 1]] = d
    /\ \A c \in DigitChars : DigitValue[c] \in 0..9
    /\ "." \notin DigitChars
  <1>1. /\ DOMAIN Digits = 1..10
        /\ \A i, j \in 1..10 : Digits[i] = Digits[j] => i = j
        /\ \A i \in 1..10 : Digits[i] # "."
    <2>1. DOMAIN Digits = 1..10
      BY DEF Digits
    <2>2. /\ Digits[1] = "0" /\ Digits[2] = "1" /\ Digits[3] = "2" /\ Digits[4] = "3"
          /\ Digits[5] = "4" /\ Digits[6] = "5" /\ Digits[7] = "6" /\ Digits[8] = "7"
          /\ Digits[9] = "8" /\ Digits[10] = "9"
      BY DEF Digits
    <2>3. \A i \in 1..10 : \/ i = 1 \/ i = 2 \/ i = 3 \/ i = 4 \/ i = 5
                           \/ i = 6 \/ i = 7 \/ i = 8 \/ i = 9 \/ i = 10
      OBVIOUS
    <2>4. \A i \in 1..10 : Digits[i] # "."
      BY <2>2, <2>3
    <2>5. \A i, j \in 1..10 : Digits[i] = Digits[j] => i = j
      BY <2>2, <2>3
    <2> QED
      BY <2>1, <2>4, <2>5
  <1>2. \A c : c \in DigitChars <=> \E i \in 1..10 : c = Digits[i]
    BY <1>1 DEF DigitChars, Range
  <1>3. ASSUME NEW i \in 1..10
        PROVE  Digits[i] \in DigitChars /\ DigitValue[Digits[i]] = i - 1
    <2>1. (CHOOSE j \in 1..10 : Digits[j] = Digits[i]) = i
      BY <1>1
    <2>2. Digits[i] \in DigitChars
      BY <1>2
    <2> QED
      BY <2>1, <2>2 DEF DigitValue
  <1>4. ASSUME NEW d \in 0..9
        PROVE  Digits[d + 1] \in DigitChars /\ DigitValue[Digits[d + 1]] = d
    <2>1. d + 1 \in 1..10 /\ (d + 1) - 1 = d
      OBVIOUS
    <2> QED
      BY <1>3, <2>1
  <1>5. ASSUME NEW c \in DigitChars
        PROVE  DigitValue[c] \in 0..9
    <2>1. PICK i \in 1..10 : c = Digits[i]
      BY <1>2
    <2> QED
      BY <1>3, <2>1
  <1>6. "." \notin DigitChars
    BY <1>1, <1>2
  <1> QED
    BY <1>4, <1>5, <1>6

(* One character gives a word again.                                       *)
LEMMA ReadDigitType ==
    ASSUME NEW v \in Words, NEW c
    PROVE  ReadDigit(v, c) \in Words
  <1>1. CASE c \in DigitChars
    <2>1. v * 10 + DigitValue[c] \in Int
      BY <1>1, DigitFacts, WordConstants
    <2> QED
      BY <1>1, <2>1, WrapIs DEF ReadDigit
  <1>2. CASE c \notin DigitChars
    BY <1>2 DEF ReadDigit
  <1> QED
    BY <1>1, <1>2

(* Parse as it goes along the display: v[k] is what it has after k         *)
(* characters.                                                             *)
Parses(s, v) ==
    /\ v \in [0..Len(s) -> Words]
    /\ v[0] = 0
    /\ \A k \in 1..Len(s) : v[k] = ReadDigit(v[k - 1], s[k])

(* Parse goes along the display like that.                                 *)
LEMMA ParseSteps ==
    ASSUME NEW T, NEW s \in Seq(T)
    PROVE  \E v : Parses(s, v) /\ Parse(s) = v[Len(s)]
  <1> DEFINE n == Len(s)
             D == SUBSET (1..n)
             Folds(g) == g = [t \in D |-> IF t = {} THEN 0
                                          ELSE ReadDigit(g[t \ {Max(t)}], s[Max(t)])]
             iter == CHOOSE g : Folds(g)
             st == [i \in 1..n |-> [v \in Words |-> ReadDigit(v, s[i])]]
  <1>1. n \in Nat /\ DOMAIN s = 1..n
    OBVIOUS
  <1>2. Parse(s) = iter[1..n]
    BY <1>1 DEF Parse, FoldLeft, MapThenFoldSet, ReadDigit
  <1>3. 0 \in Words
    BY WordConstants
  <1>4. st \in [1..n -> [Words -> Words]]
    BY ReadDigitType
  <1>5. PICK g \in [D -> Words] : Folded(g, n, 0, st)
    <2> HIDE DEF st, n
    <2> QED
      BY <1>1, <1>3, <1>4, FoldExists
  <1> DEFINE Step(t) == IF t = {} THEN 0 ELSE ReadDigit(g[t \ {Max(t)}], s[Max(t)])
  <1>6. \A t \in D : t # {} => Max(t) \in 1..n
    <2> SUFFICES ASSUME NEW t \in SUBSET (1..n), t # {}
                 PROVE  Max(t) \in t
      OBVIOUS
    <2> HIDE DEF n
    <2> QED
      BY <1>1, MaxIn
  <1>7. ASSUME NEW t \in D
        PROVE  g[t] = Step(t)
    <2>1. CASE t = {}
      BY <1>5, <2>1 DEF Folded
    <2>2. CASE t # {}
      <3>1. g[t] = st[Max(t)][g[t \ {Max(t)}]]
        <4> HIDE DEF st
        <4> QED
          BY <1>5, <2>2 DEF Folded
      <3>2. Max(t) \in 1..n /\ g[t \ {Max(t)}] \in Words
        BY <1>6, <2>2
      <3> QED
        BY <2>2, <3>1, <3>2
    <2> QED
      BY <2>1, <2>2
  <1>8. g = [t \in D |-> Step(t)]
    BY <1>7
  <1>9. Folds(g)
    BY <1>8
  <1>10. Folds(iter)
    <2> HIDE DEF Folds
    <2> QED
      BY <1>9
  <1> HIDE DEF iter, st
  <1>11. iter[1..0] = 0
    <2>1. 1..0 \in D /\ 1..0 = {}
      OBVIOUS
    <2> QED
      BY <1>10, <2>1
  <1>12. ASSUME NEW k \in 1..n
         PROVE  iter[1..k] = ReadDigit(iter[1..(k - 1)], s[k])
    <2>1. 1..k \in D /\ 1..k # {} /\ k \in Nat /\ k \in 1..k
      <3> HIDE DEF n
      <3>1. k \in Nat /\ k >= 1 /\ k <= n /\ n \in Nat
        BY <1>1
      <3>2. k \in 1..k /\ \A j \in 1..k : j \in 1..n
        BY <3>1
      <3> QED
        BY <3>1, <3>2
    <2>2. Max(1..k) = k
      BY <2>1, MaxIs
    <2>3. (1..k) \ {k} = 1..(k - 1)
      BY <1>1
    <2>4. iter[1..k] = ReadDigit(iter[(1..k) \ {Max(1..k)}], s[Max(1..k)])
      BY <1>10, <2>1
    <2> QED
      BY <2>2, <2>3, <2>4
  <1> DEFINE v == [k \in 0..n |-> iter[1..k]]
  <1>13. v[0] = 0
    BY <1>1, <1>11
  <1>14. \A k \in 1..n : v[k] = ReadDigit(v[k - 1], s[k])
    <2> SUFFICES ASSUME NEW k \in 1..n
                 PROVE  v[k] = ReadDigit(v[k - 1], s[k])
      OBVIOUS
    <2>1. k \in 0..n /\ k - 1 \in 0..n
      BY <1>1
    <2> QED
      BY <1>12, <2>1
  <1>15. \A k \in 0..n : v[k] \in Words
    <2> DEFINE P == {k \in Nat : k <= n => v[k] \in Words}
    <2> HIDE DEF v
    <2>1. 0 \in P
      BY <1>3, <1>13
    <2>2. ASSUME NEW k \in Nat, k \in P
          PROVE  k + 1 \in P
      <3> SUFFICES ASSUME k + 1 <= n
                   PROVE  v[k + 1] \in Words
        BY DEF P
      <3>1. k + 1 \in 1..n /\ (k + 1) - 1 = k /\ k <= n
        BY <1>1
      <3>2. v[k] \in Words
        BY <2>2, <3>1
      <3>3. v[k + 1] = ReadDigit(v[k], s[k + 1])
        BY <1>14, <3>1
      <3> QED
        BY <3>2, <3>3, ReadDigitType
    <2>3. \A k \in Nat : k \in P
      <3> HIDE DEF P
      <3> QED
        BY <2>1, <2>2, Induction
    <2> QED
      BY <1>1, <2>3
  <1>16. Parses(s, v)
    BY <1>13, <1>14, <1>15 DEF Parses
  <1>17. Parse(s) = v[n]
    BY <1>1, <1>2
  <1> QED
    BY <1>16, <1>17

(* What Parse gives is a word.                                             *)
LEMMA ParseWord ==
    ASSUME NEW T, NEW s \in Seq(T)
    PROVE  Parse(s) \in Words
  <1>1. PICK v : Parses(s, v) /\ Parse(s) = v[Len(s)]
    BY ParseSteps
  <1>2. Len(s) \in 0..Len(s)
    OBVIOUS
  <1> QED
    BY <1>1, <1>2 DEF Parses

(* One character more is one step more.                                    *)
LEMMA ParseAppend ==
    ASSUME NEW T, NEW s \in Seq(T), NEW c \in T
    PROVE  Parse(Append(s, c)) = ReadDigit(Parse(s), c)
  <1> DEFINE r == Append(s, c)
             n == Len(s)
  <1>1. /\ r \in Seq(T) /\ Len(r) = n + 1 /\ n \in Nat
        /\ \A k \in 1..n : r[k] = s[k]
        /\ r[n + 1] = c
    BY AppendProperties
  <1>2. PICK v : Parses(s, v) /\ Parse(s) = v[n]
    BY ParseSteps
  <1>3. PICK w : Parses(r, w) /\ Parse(r) = w[n + 1]
    <2> HIDE DEF r, n
    <2> QED
      BY <1>1, ParseSteps
  <1>4. /\ v[0] = 0 /\ \A k \in 1..n : v[k] = ReadDigit(v[k - 1], s[k])
    BY <1>2 DEF Parses
  <1>5. /\ w[0] = 0 /\ \A k \in 1..(n + 1) : w[k] = ReadDigit(w[k - 1], r[k])
    <2> HIDE DEF r, n
    <2> QED
      BY <1>1, <1>3 DEF Parses
  <1> HIDE DEF r, n
  <1>6. v[n] = w[n]
    <2> DEFINE P == {k \in Nat : k <= n => v[k] = w[k]}
    <2>1. 0 \in P
      BY <1>4, <1>5
    <2>2. ASSUME NEW k \in Nat, k \in P
          PROVE  k + 1 \in P
      <3> SUFFICES ASSUME k + 1 <= n
                   PROVE  v[k + 1] = w[k + 1]
        OBVIOUS
      <3>1. k + 1 \in 1..n /\ k + 1 \in 1..(n + 1) /\ (k + 1) - 1 = k /\ k <= n
        BY <1>1
      <3>2. v[k] = w[k]
        BY <2>2, <3>1
      <3> QED
        BY <1>1, <1>4, <1>5, <3>1, <3>2
    <2>3. \A k \in Nat : k \in P
      <3> HIDE DEF P
      <3> QED
        BY <2>1, <2>2, Induction
    <2> QED
      BY <1>1, <2>3
  <1>7. w[n + 1] = ReadDigit(w[n], c)
    <2>1. n + 1 \in 1..(n + 1) /\ (n + 1) - 1 = n
      BY <1>1
    <2> QED
      BY <1>1, <1>5, <2>1
  <1> QED
    BY <1>2, <1>3, <1>6, <1>7 DEF r

(* A single character.                                                     *)
LEMMA ParseOne ==
    ASSUME NEW c
    PROVE  Parse(<<c>>) = ReadDigit(0, c)
  <1>1. <<c>> \in Seq({c}) /\ Len(<<c>>) = 1 /\ <<c>>[1] = c
    OBVIOUS
  <1>2. PICK v : Parses(<<c>>, v) /\ Parse(<<c>>) = v[1]
    BY <1>1, ParseSteps
  <1>3. v[1] = ReadDigit(v[1 - 1], <<c>>[1]) /\ v[0] = 0
    BY <1>1, <1>2 DEF Parses
  <1> QED
    BY <1>1, <1>2, <1>3

(* int_to_str: the digits of n, from those of n / 10.                      *)
Writes(f, n) ==
    f[n] = IF n < 10 THEN <<Digits[n + 1]>>
           ELSE Append(f[n \div 10], Digits[(n % 10) + 1])

(* A tenth of a number and its last digit.                                 *)
LEMMA Tenth ==
    ASSUME NEW n \in Nat, n >= 10
    PROVE  /\ n \div 10 \in Nat /\ n \div 10 < n
           /\ n % 10 \in 0..9
           /\ n = (n \div 10) * 10 + (n % 10)
  OBVIOUS

(* There is such a function.                                               *)
LEMMA WritesExists ==
    \A m \in Nat : \E f \in [0..m -> Seq(DigitChars)] : \A n \in 0..m : Writes(f, n)
  <1> DEFINE Q(m) == \E f \in [0..m -> Seq(DigitChars)] : \A n \in 0..m : Writes(f, n)
             P == {m \in Nat : Q(m)}
  <1>1. Q(0)
    <2> DEFINE f == [n \in 0..0 |-> <<Digits[1]>>]
    <2>1. Digits[1] \in DigitChars
      <3>1. 0 \in 0..9 /\ 0 + 1 = 1
        OBVIOUS
      <3> QED
        BY <3>1, DigitFacts
    <2>2. f \in [0..0 -> Seq(DigitChars)]
      BY <2>1
    <2>3. \A n \in 0..0 : Writes(f, n)
      BY DEF Writes
    <2> QED
      BY <2>2, <2>3
  <1>2. ASSUME NEW m \in Nat, Q(m)
        PROVE  Q(m + 1)
    <2>1. PICK f \in [0..m -> Seq(DigitChars)] : \A n \in 0..m : Writes(f, n)
      BY <1>2
    <2> DEFINE x == IF m + 1 < 10 THEN <<Digits[(m + 1) + 1]>>
                    ELSE Append(f[(m + 1) \div 10], Digits[((m + 1) % 10) + 1])
               g == [n \in 0..(m + 1) |-> IF n = m + 1 THEN x ELSE f[n]]
    <2>2. x \in Seq(DigitChars)
      <3>1. CASE m + 1 < 10
        <4>1. m + 1 \in 0..9
          BY <3>1
        <4>2. Digits[(m + 1) + 1] \in DigitChars
          BY <4>1, DigitFacts
        <4> QED
          BY <3>1, <4>2
      <3>2. CASE ~(m + 1 < 10)
        <4>1. (m + 1) \div 10 \in 0..m /\ (m + 1) % 10 \in 0..9
          BY <3>2, Tenth
        <4>2. Digits[((m + 1) % 10) + 1] \in DigitChars
          BY <4>1, DigitFacts
        <4>3. f[(m + 1) \div 10] \in Seq(DigitChars)
          BY <4>1
        <4> QED
          BY <3>2, <4>2, <4>3, AppendProperties
      <3> QED
        BY <3>1, <3>2
    <2>3. g \in [0..(m + 1) -> Seq(DigitChars)]
      <3> HIDE DEF x
      <3>1. \A n \in 0..(m + 1) : n = m + 1 \/ n \in 0..m
        OBVIOUS
      <3> QED
        BY <2>2, <3>1
    <2>4. ASSUME NEW n \in 0..(m + 1)
          PROVE  Writes(g, n)
      <3>1. \A k \in 0..m : g[k] = f[k]
        OBVIOUS
      <3>2. n >= 10 => n \div 10 \in 0..m
        BY Tenth
      <3>3. n >= 10 => g[n \div 10] = f[n \div 10]
        BY <3>1, <3>2
      <3>4. CASE n = m + 1
        <4>1. g[n] = x
          BY <3>4
        <4>2. n < 10 \/ n >= 10
          OBVIOUS
        <4> HIDE DEF g
        <4> QED
          BY <3>3, <3>4, <4>1, <4>2 DEF Writes
      <3>5. CASE n # m + 1
        <4>1. n \in 0..m /\ g[n] = f[n]
          BY <3>5
        <4>2. n < 10 \/ n >= 10
          OBVIOUS
        <4> HIDE DEF g
        <4> QED
          BY <2>1, <3>3, <4>1, <4>2 DEF Writes
      <3> QED
        BY <3>4, <3>5
    <2> HIDE DEF g
    <2> QED
      BY <2>3, <2>4
  <1>3. \A m \in Nat : Q(m)
    <2> HIDE DEF Q
    <2>1. 0 \in P /\ \A m \in Nat : m \in P => m + 1 \in P
      BY <1>1, <1>2
    <2> HIDE DEF P
    <2>2. \A m \in Nat : m \in P
      BY <2>1, Induction
    <2> QED
      BY <2>2 DEF P
  <1> QED
    BY <1>3

(* Decimal is one.                                                         *)
LEMMA DecimalIs ==
    \A n \in 0..(Word - 1) : Writes(Decimal, n)
  <1> DEFINE W == 0..(Word - 1)
             Digs(f) == f = [n \in W |-> IF n < 10 THEN <<Digits[n + 1]>>
                                         ELSE Append(f[n \div 10], Digits[(n % 10) + 1])]
  <1>1. PICK f \in [W -> Seq(DigitChars)] : \A n \in W : Writes(f, n)
    <2>1. Word - 1 \in Nat
      BY WordConstants
    <2> QED
      BY <2>1, WritesExists
  <1>2. Digs(f)
    BY <1>1 DEF Writes
  <1>3. Decimal = CHOOSE g : Digs(g)
    BY DEF Decimal
  <1>4. Digs(Decimal)
    <2> HIDE DEF Digs
    <2> QED
      BY <1>2, <1>3
  <1> QED
    BY <1>4 DEF Writes

(* The digits of a number are read back as that number.                    *)
LEMMA DecimalReads ==
    \A n \in 0..(Word - 1) : Decimal[n] \in Seq(DigitChars) /\ Parse(Decimal[n]) = Wrap(n)
  <1> DEFINE Q(n) == n < Word => Decimal[n] \in Seq(DigitChars) /\ Parse(Decimal[n]) = Wrap(n)
             P == {m \in Nat : \A n \in 0..m : Q(n)}
  <1>1. ASSUME NEW n \in Nat, \A k \in 0..(n - 1) : Q(k)
        PROVE  Q(n)
    <2> SUFFICES ASSUME n < Word
                 PROVE  Decimal[n] \in Seq(DigitChars) /\ Parse(Decimal[n]) = Wrap(n)
      OBVIOUS
    <2>1. Writes(Decimal, n)
      BY DecimalIs, WordConstants
    <2>2. CASE n < 10
      <3>1. n \in 0..9
        BY <2>2
      <3>2. Digits[n + 1] \in DigitChars /\ DigitValue[Digits[n + 1]] = n
        BY <3>1, DigitFacts
      <3>3. Decimal[n] = <<Digits[n + 1]>>
        BY <2>1, <2>2 DEF Writes
      <3>4. Parse(Decimal[n]) = Wrap(0 * 10 + n)
        BY <3>2, <3>3, ParseOne DEF ReadDigit
      <3>5. 0 * 10 + n = n
        OBVIOUS
      <3> QED
        BY <3>2, <3>3, <3>4, <3>5
    <2>3. CASE n >= 10
      <3> DEFINE a == n \div 10
                 d == n % 10
                 c == Digits[d + 1]
      <3>1. a \in Nat /\ a < n /\ d \in 0..9 /\ n = a * 10 + d
        BY <2>3, Tenth
      <3>2. c \in DigitChars /\ DigitValue[c] = d
        BY <3>1, DigitFacts
      <3>3. Decimal[n] = Append(Decimal[a], c)
        BY <2>1, <2>3 DEF Writes
      <3> HIDE DEF a, d, c
      <3>4. a \in 0..(n - 1) /\ a < Word
        BY <3>1, WordConstants
      <3>5. Decimal[a] \in Seq(DigitChars) /\ Parse(Decimal[a]) = Wrap(a)
        BY <1>1, <3>4
      <3>6. Decimal[n] \in Seq(DigitChars)
        BY <3>2, <3>3, <3>5, AppendProperties
      <3>7. Parse(Decimal[n]) = ReadDigit(Wrap(a), c)
        BY <3>2, <3>3, <3>5, ParseAppend
      <3>8. ReadDigit(Wrap(a), c) = Wrap(Wrap(a) * 10 + d)
        BY <3>2 DEF ReadDigit
      <3>9. Wrap(Wrap(a) * 10 + d) = Wrap(a * 10 + d)
        <4>1. a \in Int /\ d \in Int
          BY <3>1
        <4> QED
          BY <4>1, WrapDigit
      <3> QED
        BY <3>1, <3>6, <3>7, <3>8, <3>9
    <2> QED
      BY <2>2, <2>3
  <1> HIDE DEF Q
  <1>2. 0 \in P
    BY <1>1
  <1>3. ASSUME NEW m \in Nat, m \in P
        PROVE  m + 1 \in P
    <2>1. \A k \in 0..((m + 1) - 1) : Q(k)
      BY <1>3
    <2>2. Q(m + 1)
      BY <1>1, <2>1
    <2>3. \A k \in 0..(m + 1) : k \in 0..m \/ k = m + 1
      OBVIOUS
    <2> QED
      BY <1>3, <2>2, <2>3
  <1>4. \A m \in Nat : m \in P
    <2> HIDE DEF P
    <2> QED
      BY <1>2, <1>3, Induction
  <1>5. \A n \in 0..(Word - 1) : n \in Nat /\ n \in 0..n /\ n < Word
    BY WordConstants
  <1>6. \A n \in 0..(Word - 1) : Q(n)
    BY <1>4, <1>5
  <1> QED
    BY <1>5, <1>6 DEF Q

(* A word is read back from the display it was written to.                 *)
LEMMA ReadBack ==
    ASSUME NEW n \in Words
    PROVE  int_to_str(n) \in Seq(DigitChars) /\ Parse(int_to_str(n)) = n
  <1> DEFINE m == n % Word
  <1>1. n \in Int /\ Word \in Nat /\ Word > 0
    BY WordConstants
  <1>2. n \div Word \in Int /\ m \in 0..(Word - 1) /\ n = Word * (n \div Word) + m
    BY <1>1, Divides
  <1>3. Decimal[m] \in Seq(DigitChars) /\ Parse(Decimal[m]) = Wrap(m)
    BY <1>2, DecimalReads
  <1>4. Wrap(m) = n
    <2> DEFINE k == n \div Word
    <2> HIDE DEF k, m
    <2>1. k \in Int /\ m \in Int /\ n = m + k * Word
      BY <1>1, <1>2 DEF k
    <2>2. Wrap(m + k * Word) = Wrap(m)
      BY <2>1, WrapAdds
    <2> QED
      BY <2>1, <2>2, WrapWord
  <1> QED
    BY <1>3, <1>4 DEF int_to_str

(* A quotient is no larger than what is divided, and as large only by 1.   *)
LEMMA QuotientBound ==
    ASSUME NEW x \in Nat, NEW y \in Nat, y > 0
    PROVE  /\ x \div y \in Nat /\ x \div y <= x
           /\ y > 1 /\ x > 0 => x \div y < x
  <1> DEFINE q == x \div y
             r == x % y
  <1>1. q \in Int /\ r \in 0..(y - 1) /\ x = y * q + r
    BY Divides
  <1> HIDE DEF q, r
  <1>2. q >= 0
    <2> SUFFICES ASSUME q <= -1
                 PROVE  FALSE
      BY <1>1
    <2>1. y * q <= -y
      BY <1>1
    <2> QED
      BY <1>1, <2>1
  <1>3. y * q >= q
    BY <1>1, <1>2
  <1>4. q <= x
    BY <1>1, <1>2, <1>3
  <1>5. ASSUME y > 1, x > 0
        PROVE  q < x
    <2>1. y * q >= 2 * q
      BY <1>1, <1>2, <1>5
    <2> QED
      BY <1>1, <1>2, <1>5, <2>1
  <1> QED
    BY <1>1, <1>2, <1>4, <1>5 DEF q

(* The only quotient of two words that is not a word.                      *)
LEMMA QuotientWord ==
    ASSUME NEW a \in Words, NEW b \in Words, b # 0, Quotient(a, b) \notin Words
    PROVE  a = MinWord /\ b = -1
  <1> DEFINE x == IF a < 0 THEN -a ELSE a
             y == IF b < 0 THEN -b ELSE b
             q == x \div y
             M == MinWord
  <1>1. /\ M \in Int /\ M < 0 /\ a \in Int /\ b \in Int
        /\ M <= a /\ a <= -M - 1 /\ M <= b /\ b <= -M - 1
        /\ \A n \in Int : M <= n /\ n <= -M - 1 => n \in Words
    BY WordConstants
  <1>2. x \in Nat /\ y \in Nat /\ y > 0 /\ x <= -M /\ (x = -M => a = M) /\ (y = 1 => b = 1 \/ b = -1)
    <2> HIDE DEF M
    <2> QED
      BY <1>1
  <1>3. Quotient(a, b) = IF (a < 0) = (b < 0) THEN q ELSE -q
    BY DEF Quotient
  <1>4. /\ q \in Nat /\ q <= x
        /\ y > 1 /\ x > 0 => q < x
    <2> HIDE DEF x, y
    <2> QED
      BY <1>2, QuotientBound
  <1> HIDE DEF x, y, q, M
  <1>5. q = -M /\ (a < 0) = (b < 0)
    <2>1. CASE (a < 0) = (b < 0)
      <3>1. q \notin Words
        BY <1>3, <2>1
      <3>2. ~(q <= -M - 1)
        BY <1>1, <1>4, <3>1
      <3> QED
        BY <1>1, <1>2, <1>4, <2>1, <3>2
    <2>2. CASE ~((a < 0) = (b < 0))
      <3>1. -q \notin Words
        BY <1>3, <2>2
      <3>2. -q \in Int /\ M <= -q /\ -q <= -M - 1
        BY <1>1, <1>2, <1>4
      <3> QED
        BY <1>1, <3>1, <3>2
    <2> QED
      BY <2>1, <2>2
  <1>6. x = -M /\ ~(y > 1)
    BY <1>1, <1>2, <1>4, <1>5
  <1>7. a = M /\ (b = 1 \/ b = -1)
    BY <1>2, <1>6
  <1> QED
    BY <1>1, <1>5, <1>7 DEF M

(* The divide error: only then is a result not a word.                     *)
LEMMA ResultWord ==
    ASSUME NEW op \in Operators \cup {None}, NEW a \in Words, NEW b \in Words,
           Result(op, a, b) \notin Words
    PROVE  op = "/" /\ a = MinWord /\ b = -1
  <1>1. a \in Int /\ b \in Int
    BY WordConstants
  <1>2. Wrap(a + b) \in Words /\ Wrap(a - b) \in Words /\ Wrap(a * b) \in Words
    BY <1>1, WrapIs
  <1>3. op = "/" /\ b # 0 /\ Quotient(a, b) \notin Words
    BY <1>2 DEF Result, Operators, None
  <1> QED
    BY <1>3, QuotientWord

-----------------------------------------------------------------------------
(* The calculator.                                                         *)

CalcInv == CalcTypeOK /\ ResultsReadBack

(* The display of a calculator that has just been started.                 *)
LEMMA ZeroShown ==
    /\ <<"0">> \in Seq(DigitChars \cup {"."})
    /\ Parse(<<"0">>) = 0
    /\ 0 \in Words
  <1>1. "0" = Digits[0 + 1] /\ 0 \in 0..9
    BY DEF Digits
  <1>2. "0" \in DigitChars /\ DigitValue["0"] = 0
    BY <1>1, DigitFacts
  <1>3. 0 \in Words /\ 0 * 10 + 0 = 0
    BY WordConstants
  <1>4. Parse(<<"0">>) = 0
    BY <1>2, <1>3, ParseOne, WrapWord DEF ReadDigit
  <1> QED
    BY <1>2, <1>3, <1>4

(* The machine starts with a calculator that shows 0.                      *)
LEMMA CalcInitial == CalcInit => CalcInv
  <1> SUFFICES ASSUME CalcInit
               PROVE  CalcInv
    OBVIOUS
  <1>1. <<0, 0>> \in Nat \X (0..3)
    OBVIOUS
  <1>2. CalcTypeOK
    BY <1>1, ZeroShown DEF CalcInit, CalcTypeOK, None
  <1>3. ResultsReadBack
    BY ZeroShown DEF CalcInit, ResultsReadBack
  <1> QED
    BY <1>2, <1>3 DEF CalcInv

(* So does the program, and it is left like that.                          *)
LEMMA CalcStarts == calc_start => CalcInv'
  <1> SUFFICES ASSUME calc_start
               PROVE  CalcInv'
    OBVIOUS
  <1>1. <<0, 0>> \in Nat \X (0..3)
    OBVIOUS
  <1>2. CalcTypeOK'
    BY <1>1, ZeroShown DEF calc_start, CalcTypeOK, None
  <1>3. ResultsReadBack'
    BY ZeroShown DEF calc_start, ResultsReadBack
  <1> QED
    BY <1>2, <1>3 DEF CalcInv

(* Other programs leave it alone.                                          *)
LEMMA CalcUnchanged == CalcInv /\ UNCHANGED calculator => CalcInv'
  BY DEF CalcInv, CalcTypeOK, ResultsReadBack, calculator, calc

(* What a button may change.                                               *)
CalcValues ==
    /\ display \in Seq(DigitChars \cup {"."})
    /\ stored_value \in Words /\ current_value \in Words
    /\ operation \in Operators \cup {None}
    /\ new_number \in BOOLEAN /\ trapped \in BOOLEAN

(* A button shows what it computed, or is the divide error.                *)
LEMMA ButtonKeeps ==
    ASSUME CalcValues, ResultsReadBack, ~trapped, NEW c, process_button(c)
    PROVE  CalcValues' /\ ResultsReadBack'
  <1> DEFINE T == DigitChars \cup {"."}
             b == Parse(display)
  <1>1. b \in Words
    BY ParseWord DEF CalcValues
  <1>2. CASE press_clear
    <2>1. CalcValues'
      BY <1>2, ZeroShown DEF press_clear, CalcValues
    <2>2. ResultsReadBack'
      BY <1>2, ZeroShown DEF press_clear, ResultsReadBack
    <2> QED
      BY <2>1, <2>2
  <1>3. ASSUME c \in DigitChars, press_digit(c)
        PROVE  CalcValues' /\ ResultsReadBack'
    <2>1. display' \in Seq(T)
      <3>1. <<c>> \in Seq(T) /\ Append(display, c) \in Seq(T) /\ display \in Seq(T)
        BY <1>3, AppendProperties DEF CalcValues
      <3> QED
        BY <1>3, <3>1 DEF press_digit
    <2>2. new_number' = FALSE /\ trapped' = trapped
      BY <1>3 DEF press_digit, CalcValues
    <2>3. UNCHANGED <<stored_value, current_value, operation>>
      BY <1>3 DEF press_digit
    <2>4. CalcValues'
      BY <2>1, <2>2, <2>3 DEF CalcValues
    <2>5. ResultsReadBack'
      BY <2>2 DEF ResultsReadBack
    <2> QED
      BY <2>4, <2>5
  <1>4. CASE press_dot
    <2>1. display' = display \/ display' = Append(display, ".")
      BY <1>4 DEF press_dot
    <2>2. display \in Seq(T) /\ "." \in T
      BY DEF CalcValues
    <2>3. display' \in Seq(T) /\ Parse(display') = b
      <3>1. Append(display, ".") \in Seq(T)
        BY <2>2, AppendProperties
      <3>2. Parse(Append(display, ".")) = ReadDigit(b, ".")
        <4> HIDE DEF T
        <4> QED
          BY <2>2, ParseAppend
      <3>3. ReadDigit(b, ".") = b
        BY DigitFacts DEF ReadDigit
      <3> QED
        BY <2>1, <2>2, <3>1, <3>2, <3>3
    <2> QED
      BY <1>4, <2>3 DEF press_dot, CalcValues, ResultsReadBack
  <1>5. CASE press_equals
    <2> DEFINE r == Result(operation, stored_value, b)
    <2>1. CASE r \in Words
      <3>1. int_to_str(r) \in Seq(DigitChars) /\ Parse(int_to_str(r)) = r
        <4> HIDE DEF r
        <4> QED
          BY <2>1, ReadBack
      <3>2. /\ current_value' = r /\ display' = int_to_str(r)
            /\ operation' = None /\ new_number' = TRUE
            /\ UNCHANGED <<stored_value, trapped>>
        BY <1>5, <2>1 DEF press_equals
      <3>3. int_to_str(r) \in Seq(T)
        BY <3>1, SeqMonotonic
      <3> HIDE DEF r
      <3> QED
        BY <2>1, <3>1, <3>2, <3>3 DEF CalcValues, ResultsReadBack
    <2>2. CASE r \notin Words
      <3>1. operation = "/" /\ stored_value = MinWord /\ b = -1
        BY <1>1, <2>2, ResultWord DEF CalcValues
      <3>2. trapped' = TRUE /\ UNCHANGED calc
        BY <1>5, <2>2 DEF press_equals
      <3> QED
        BY <3>1, <3>2 DEF CalcValues, ResultsReadBack, calc
    <2> QED
      BY <2>1, <2>2
  <1>6. ASSUME c \in Operators, press_operator(c)
        PROVE  CalcValues' /\ ResultsReadBack'
    BY <1>1, <1>6 DEF press_operator, CalcValues, ResultsReadBack
  <1> QED
    BY <1>2, <1>3, <1>4, <1>5, <1>6 DEF process_button

(* A pass of its loop.                                                     *)
LEMMA CalcKeeps ==
    ASSUME CalcInv,
           \/ \E p : \E down \in BOOLEAN : calc_mouse(p, down)
           \/ \E c : calc_char(c)
           \/ calc_enter
           \/ calc_arrow
    PROVE  CalcInv'
  <1>1. /\ CalcValues /\ ResultsReadBack
        /\ selected \in Nat \X (0..3) /\ mouse_was_down \in BOOLEAN
    BY DEF CalcInv, CalcTypeOK, CalcValues
  <1>2. ASSUME CalcValues', ResultsReadBack',
               selected' \in Nat \X (0..3), mouse_was_down' \in BOOLEAN
        PROVE  CalcInv'
    BY <1>2 DEF CalcInv, CalcTypeOK, CalcValues
  <1>3. ASSUME UNCHANGED <<calc, trapped>>
        PROVE  CalcValues' /\ ResultsReadBack'
    BY <1>1, <1>3 DEF CalcValues, ResultsReadBack, calc
  <1>4. ASSUME NEW p, NEW down \in BOOLEAN, calc_mouse(p, down)
        PROVE  CalcInv'
    <2>1. ~trapped /\ mouse_was_down' = down /\ selected' = selected
      BY <1>4 DEF calc_mouse
    <2>2. (\E c : process_button(c)) \/ UNCHANGED <<calc, trapped>>
      BY <1>4 DEF calc_mouse
    <2>3. CalcValues' /\ ResultsReadBack'
      BY <1>1, <1>3, <2>1, <2>2, ButtonKeeps
    <2> QED
      BY <1>1, <1>2, <2>1, <2>3
  <1>5. ASSUME NEW c, calc_char(c)
        PROVE  CalcInv'
    <2>1. ~trapped /\ process_button(c) /\ UNCHANGED <<selected, mouse_was_down>>
      BY <1>5 DEF calc_char
    <2>2. CalcValues' /\ ResultsReadBack'
      BY <1>1, <2>1, ButtonKeeps
    <2> QED
      BY <1>1, <1>2, <2>1, <2>2
  <1>6. CASE calc_enter
    <2>1. ~trapped /\ UNCHANGED <<selected, mouse_was_down>>
      BY <1>6 DEF calc_enter
    <2>2. (\E c : process_button(c)) \/ UNCHANGED <<calc, trapped>>
      BY <1>6 DEF calc_enter
    <2>3. CalcValues' /\ ResultsReadBack'
      BY <1>1, <1>3, <2>1, <2>2, ButtonKeeps
    <2> QED
      BY <1>1, <1>2, <2>1, <2>3
  <1>7. CASE calc_arrow
    <2>1. UNCHANGED <<calc, mouse_was_down, trapped>>
      BY <1>7 DEF calc_arrow
    <2>2. selected' \in Nat \X (0..3)
      <3>1. selected[1] \in Nat /\ selected[2] \in 0..3
        BY <1>1
      <3>2. selected = <<selected[1], selected[2]>>
        BY <1>1
      <3>3. /\ [selected EXCEPT ![1] = @ - 1] = <<selected[1] - 1, selected[2]>>
            /\ [selected EXCEPT ![1] = @ + 1] = <<selected[1] + 1, selected[2]>>
            /\ [selected EXCEPT ![2] = @ - 1] = <<selected[1], selected[2] - 1>>
            /\ [selected EXCEPT ![2] = @ + 1] = <<selected[1], selected[2] + 1>>
        BY <1>1
      <3> QED
        BY <1>7, <3>1, <3>3 DEF calc_arrow
    <2>3. CalcValues' /\ ResultsReadBack'
      BY <1>3, <2>1
    <2> QED
      BY <1>1, <1>2, <2>1, <2>2, <2>3
  <1> QED
    BY <1>4, <1>5, <1>6, <1>7

(* A step of the machine starts or leaves CALC-GUI, is a pass of its loop  *)
(* or leaves it alone.                                                     *)
LEMMA CalcSteps ==
    [Next]_vars => calc_start \/ calc_input \/ UNCHANGED calculator
  BY DEF Next, vars, programs, Reset, PowerLoss, sys_reboot, shell_prints, cmd_guitest,
         save_text_screen, gui_check_and_restore_screen, prompt_loop, Escape, close_click,
         save_click, filebrowser_click, gui_notepad, gui_paint, gui_sysinfo, gui_filebrowser,
         gui_clock, cmd_calc_gui, gpu_disable_scanout, guitest_key, notepad_key, mouse_release,
         paint_size, paint_pick, filebrowser_key, clock_runs

(* Every step keeps the display in line with the value.                    *)
LEMMA CalcStep == CalcInv /\ [Next]_vars => CalcInv'
  <1> SUFFICES ASSUME CalcInv, [Next]_vars
               PROVE  CalcInv'
    OBVIOUS
  <1>1. CASE calc_input
    <2>1. \/ \E p : \E down \in BOOLEAN : calc_mouse(p, down)
          \/ \E c : calc_char(c)
          \/ calc_enter
          \/ calc_arrow
      BY <1>1, Zenon DEF calc_input
    <2> QED
      BY <2>1, CalcKeeps
  <1> QED
    BY <1>1, CalcSteps, CalcStarts, CalcUnchanged

(* For words of any even size and any number of digits, what the display   *)
(* shows after = is the result that was computed, whatever its sign, and   *)
(* only the smallest word divided by -1 halts the machine.                 *)
THEOREM CalcCorrect == Spec => []ResultsReadBack
  <1>1. Init => CalcInv
    BY CalcInitial DEF Init
  <1>2. CalcInv => ResultsReadBack
    BY DEF CalcInv
  <1> QED
    BY <1>1, <1>2, CalcStep, PTL DEF Spec

-----------------------------------------------------------------------------
(* The types of everything, and the file list.                             *)

(* What TypeOK says of the mode of the screen, of the text and of the      *)
(* small programs.                                                         *)
Mode ==
    /\ app \in Programs \cup SaveSteps \cup BootSteps \cup {"shell"}
    /\ graphics = (app \in Programs)

TextKept ==
    /\ screen \in Screens \cup {Nothing} /\ cursor_at \in Cursors \cup {Nothing}
    /\ flag \in BOOLEAN
    /\ backup \in Screens \cup {Nothing} /\ backup_cursor \in Cursors \cup {Nothing}
    /\ before \in (Screens \cup {Nothing}) \X (Cursors \cup {Nothing})

SmallPrograms ==
    /\ gui_input_len \in 0..InputMax
    /\ waiting \in BOOLEAN
    /\ paint_brush_size \in 1..10 /\ paint_color \in 0..15

(* The file list, which has a number of entries.                           *)
FileList ==
    /\ fs_count \in Nat
    /\ filebrowser_scroll \in 0..filebrowser_selected
    /\ filebrowser_selected \in 0..(filebrowser_scroll + visible_items)
    /\ filebrowser_selected < fs_count \/ filebrowser_selected = 0

(* The second CLOCK compares with is one it has drawn.                     *)
SecondKept == current_s \in 0..(SECONDS - 1)

(* Only a program that runs is in graphics mode.                           *)
LEMMA ModeStep == Mode /\ [Next]_vars => Mode'
  <1> SUFFICES ASSUME Mode, [Next]_vars
               PROVE  Mode'
    OBVIOUS
  <1> DEFINE Off == SaveSteps \cup BootSteps \cup {"shell"}
  <1>1. CASE UNCHANGED <<app, graphics>>
    BY <1>1, Zenon DEF Mode
  <1>2. ASSUME app' \in Off, graphics' = FALSE
        PROVE  Mode'
    <2>1. app' \notin Programs
      BY <1>2 DEF Programs, SaveSteps, BootSteps
    <2>2. (app' \in Programs) = FALSE
      BY <2>1
    <2>3. graphics' = (app' \in Programs)
      BY <1>2, <2>2, Zenon
    <2>4. app' \in Programs \cup SaveSteps \cup BootSteps \cup {"shell"}
      BY <1>2
    <2> QED
      BY <2>3, <2>4, Zenon DEF Mode
  <1>3. ASSUME app' \in Programs, graphics' = TRUE
        PROVE  Mode'
    BY <1>3, Zenon DEF Mode
  <1>4. ASSUME app \in Off
        PROVE  graphics = FALSE
    <2>1. app \notin Programs
      BY <1>4 DEF Programs, SaveSteps, BootSteps
    <2>2. (app \in Programs) = FALSE
      BY <2>1
    <2> QED
      BY <2>2, Zenon DEF Mode
  <1>5. ASSUME sys_reboot
        PROVE  Mode'
    BY <1>2, <1>5 DEF sys_reboot, BootSteps
  <1>6. CASE shell_prints
    BY <1>1, <1>6 DEF shell_prints
  <1>7. CASE cmd_guitest \/ prompt_loop \/ gui_check_and_restore_screen
    <2>1. app \in Off /\ app' \in Off /\ graphics' = graphics
      BY <1>7 DEF cmd_guitest, prompt_loop, gui_check_and_restore_screen, text, SaveSteps, BootSteps
    <2> QED
      BY <1>2, <1>4, <2>1
  <1>8. CASE save_text_screen
    <2>1. CASE app = "save_flag"
      <3>1. app' = "guitest" /\ graphics' = TRUE
        BY <1>8, <2>1 DEF save_text_screen, gpu_setup_framebuffer, set_mode_13h
      <3> QED
        BY <1>3, <3>1 DEF Programs
    <2>2. CASE app # "save_flag"
      <3>1. app \in Off /\ app' \in Off /\ graphics' = graphics
        BY <1>8, <2>2 DEF save_text_screen, text, SaveSteps
      <3> QED
        BY <1>2, <1>4, <3>1
    <2> QED
      BY <2>1, <2>2
  <1>9. ASSUME NEW p \in Programs, start(p)
        PROVE  Mode'
    BY <1>3, <1>9 DEF start, gpu_setup_framebuffer, set_mode_13h
  <1>10. CASE gui_notepad \/ gui_paint \/ gui_sysinfo \/ gui_filebrowser \/ gui_clock
              \/ cmd_calc_gui
    BY <1>9, <1>10 DEF gui_notepad, gui_paint, gui_sysinfo, gui_filebrowser, gui_clock,
                       cmd_calc_gui, Programs
  <1>11. CASE gpu_disable_scanout
    BY <1>2, <1>11 DEF gpu_disable_scanout, set_text_mode
  <1> QED
    BY <1>1, <1>5, <1>6, <1>7, <1>8, <1>10, <1>11
    DEF Next, vars, text, Reset, PowerLoss, Escape, close_click, save_click, filebrowser_click,
        guitest_key, notepad_key, mouse_release, paint_size, paint_pick, filebrowser_key,
        clock_runs, calc_input

(* The text screen and its copies.                                         *)
LEMMA TextKeptStep == TextKept /\ [Next]_vars => TextKept'
  <1> SUFFICES ASSUME TextKept, [Next]_vars
               PROVE  TextKept'
    OBVIOUS
  <1> USE DEF TextKept
  <1>1. CASE UNCHANGED <<text, lowmem, before>>
    BY <1>1 DEF text, lowmem
  <1>2. ASSUME sys_reboot, UNCHANGED lowmem
        PROVE  TextKept'
    BY <1>2 DEF sys_reboot, lowmem
  <1>3. CASE PowerLoss
    BY <1>3 DEF PowerLoss, sys_reboot
  <1>4. CASE shell_prints
    BY <1>4 DEF shell_prints, lowmem
  <1>5. CASE cmd_guitest
    BY <1>5 DEF cmd_guitest, text, lowmem
  <1>6. CASE save_text_screen
    <2>1. screen' \in Screens \cup {Nothing} /\ cursor_at' \in Cursors \cup {Nothing}
      BY <1>6 DEF save_text_screen, gpu_setup_framebuffer, set_mode_13h, text
    <2>2. /\ flag' \in BOOLEAN
          /\ backup' \in Screens \cup {Nothing} /\ backup_cursor' \in Cursors \cup {Nothing}
          /\ before' = before
      BY <1>6 DEF save_text_screen
    <2> QED
      BY <2>1, <2>2
  <1>7. CASE gui_check_and_restore_screen
    <2>1. screen' \in Screens \cup {Nothing} /\ cursor_at' \in Cursors \cup {Nothing}
      BY <1>7 DEF gui_check_and_restore_screen
    <2>2. flag' \in BOOLEAN /\ UNCHANGED <<backup, backup_cursor, before>>
      BY <1>7 DEF gui_check_and_restore_screen
    <2> QED
      BY <2>1, <2>2
  <1>8. CASE prompt_loop
    BY <1>8 DEF prompt_loop, lowmem
  <1>9. ASSUME NEW p, start(p)
        PROVE  TextKept'
    BY <1>9 DEF start, gpu_setup_framebuffer, set_mode_13h, lowmem
  <1>10. CASE gpu_disable_scanout
    BY <1>10 DEF gpu_disable_scanout, set_text_mode, lowmem
  <1> QED
    BY <1>1, <1>2, <1>3, <1>4, <1>5, <1>6, <1>7, <1>8, <1>9, <1>10
    DEF Next, vars, Reset, Escape, close_click, save_click, filebrowser_click, gui_notepad,
        gui_paint, gui_sysinfo, gui_filebrowser, gui_clock, cmd_calc_gui, guitest_key,
        notepad_key, mouse_release, paint_size, paint_pick, filebrowser_key, clock_runs, calc_input

(* The input box, the brush and the button waited for.                     *)
LEMMA SmallStep == SmallPrograms /\ [Next]_vars => SmallPrograms'
  <1> SUFFICES ASSUME SmallPrograms, [Next]_vars
               PROVE  SmallPrograms'
    OBVIOUS
  <1> USE DEF SmallPrograms
  <1>1. CASE UNCHANGED <<gui_input_len, waiting, paint>>
    BY <1>1 DEF paint
  <1>2. ASSUME sys_reboot
        PROVE  SmallPrograms'
    <2>1. 0 \in 0..InputMax /\ 3 \in 1..10 /\ 15 \in 0..15
      BY GuiAssumption
    <2>2. /\ gui_input_len' = 0 /\ waiting' = FALSE
          /\ paint_brush_size' = 3 /\ paint_color' = 15
      BY <1>2 DEF sys_reboot
    <2> QED
      BY <2>1, <2>2
  <1>3. CASE guitest_key
    <2>1. gui_input_len' \in 0..InputMax
      BY <1>3, GuiAssumption DEF guitest_key
    <2> QED
      BY <1>3, <2>1 DEF guitest_key, paint
  <1>4. CASE mouse_release \/ \E p : save_click(p) \/ filebrowser_click(p)
    BY <1>4 DEF mouse_release, save_click, filebrowser_click, paint
  <1>5. CASE paint_size
    BY <1>5 DEF paint_size
  <1>6. CASE paint_pick
    BY <1>6 DEF paint_pick
  <1> QED
    BY <1>1, <1>2, <1>3, <1>4, <1>5, <1>6
    DEF Next, vars, programs, Reset, PowerLoss, shell_prints, cmd_guitest, save_text_screen,
        gui_check_and_restore_screen, prompt_loop, Escape, close_click, gui_notepad, gui_paint,
        gui_sysinfo, gui_filebrowser, gui_clock, cmd_calc_gui, gpu_disable_scanout, notepad_key,
        filebrowser_key, clock_runs, calc_input

(* The selected entry exists and is in the window or just below it.        *)
LEMMA FileListStep == FileList /\ [Next]_vars => FileList'
  <1> SUFFICES ASSUME FileList, [Next]_vars
               PROVE  FileList'
    OBVIOUS
  <1> USE DEF FileList, visible_items
  <1>1. CASE UNCHANGED filebrowser
    BY <1>1 DEF filebrowser
  <1>2. ASSUME sys_reboot
        PROVE  FileList'
    BY <1>2 DEF sys_reboot
  <1>3. CASE gui_filebrowser
    BY <1>3, GuiAssumption DEF gui_filebrowser
  <1>4. CASE filebrowser_key
    <2>1. CASE filebrowser_up
      BY <1>4, <2>1 DEF filebrowser_key, filebrowser_up
    <2>2. CASE filebrowser_down
      BY <1>4, <2>2 DEF filebrowser_key, filebrowser_down
    <2> QED
      BY <1>4, <2>1, <2>2 DEF filebrowser_key
  <1>5. ASSUME NEW p \in MousePoints, filebrowser_click(p)
        PROVE  FileList'
    <2> DEFINE y == p[2] - 36
               item == filebrowser_scroll + y \div 14
    <2>1. UNCHANGED <<filebrowser_scroll, fs_count>>
      BY <1>5 DEF filebrowser_click
    <2>2. \/ filebrowser_selected' = filebrowser_selected
          \/ p[2] \in 36..155 /\ item < fs_count /\ filebrowser_selected' = item
      BY <1>5 DEF filebrowser_click
    <2>3. ASSUME p[2] \in 36..155
          PROVE  item \in filebrowser_scroll..(filebrowser_scroll + visible_items)
      <3>1. y \in 0..119
        BY <2>3
      <3>2. y \div 14 \in 0..8
        BY <3>1
      <3> HIDE DEF y
      <3> QED
        BY <3>2
    <2> HIDE DEF item
    <2> QED
      BY <2>1, <2>2, <2>3
  <1> QED
    BY <1>1, <1>2, <1>3, <1>4, <1>5
    DEF Next, vars, programs, Reset, PowerLoss, shell_prints, cmd_guitest, save_text_screen,
        gui_check_and_restore_screen, prompt_loop, Escape, close_click, save_click, gui_notepad,
        gui_paint, gui_sysinfo, gui_clock, cmd_calc_gui, gpu_disable_scanout, guitest_key,
        notepad_key, mouse_release, paint_size, paint_pick, clock_runs, calc_input

(* The second last drawn.                                                  *)
LEMMA SecondStep == SecondKept /\ ClockInv /\ [Next]_vars => SecondKept'
  <1> SUFFICES ASSUME SecondKept, ClockInv, [Next]_vars
               PROVE  SecondKept'
    OBVIOUS
  <1>1. CASE current_s' = current_s
    BY <1>1 DEF SecondKept
  <1>2. ASSUME sys_reboot
        PROVE  SecondKept'
    BY <1>2, ClockAssumption DEF sys_reboot, clock_reset, SecondKept
  <1>3. CASE clock_runs
    <2>1. time \in Times
      BY DEF ClockInv, ClockValues
    <2>2. current_s' = current_s \/ current_s' = time.s
      BY <1>3 DEF clock_runs, clock_step, rtc_tick, program, clock_frame, sys_get_time,
                  clock_draw, wait_get_time, clock_wait
    <2> QED
      BY <1>1, <2>1, <2>2, TimeParts DEF SecondKept
  <1> QED
    BY <1>1, <1>2, <1>3
    DEF Next, vars, programs, clock, program, Reset, PowerLoss, shell_prints, cmd_guitest,
        save_text_screen, gui_check_and_restore_screen, prompt_loop, Escape, close_click,
        save_click, filebrowser_click, gui_notepad, gui_paint, gui_sysinfo, gui_filebrowser,
        gui_clock, cmd_calc_gui, gpu_disable_scanout, guitest_key, notepad_key, mouse_release,
        paint_size, paint_pick, filebrowser_key, calc_input

(* The parts together.                                                     *)
GuiInv ==
    /\ Mode /\ TextKept /\ SmallPrograms /\ FileList
    /\ TextInv /\ CalcInv /\ ClockInv /\ SecondKept

(* What CLOCK's invariant says of its types.                               *)
LEMMA ClockTyped == ClockInv /\ SecondKept => ClockTypeOK
  <1> SUFFICES ASSUME ClockInv, SecondKept
               PROVE  ClockTypeOK
    OBVIOUS
  <1>1. PICK t \in Times : rtc = Registers(t)
    BY DEF ClockInv, ClockValues
  <1>2. Now = t
    BY <1>1, NowIs DEF Now
  <1>3. /\ time \in Times /\ shown \in Times /\ frames \in 0..2
        /\ clock_pc \in {"key"} \cup ReadSteps \cup WaitSteps
    BY DEF ClockInv, ClockValues
  <1>4. tick \in {"no", "due", "seen"}
    BY <1>3 DEF ClockInv, TickSeen
  <1>5. clock_pc \in {"key", "h", "m", "s", "draw"} \cup WaitSteps
    BY <1>3 DEF ReadSteps
  <1> QED
    BY <1>2, <1>3, <1>4, <1>5 DEF ClockTypeOK, SecondKept

(* Every variable of the graphical programs keeps its type, a program is   *)
(* in graphics mode exactly while it runs, and the selected entry of the   *)
(* file browser exists and is never more than a row below the window.      *)
THEOREM GuiTypeCorrect == Spec => []TypeOK
  <1>1. Init => GuiInv
    <2> SUFFICES ASSUME Init
                 PROVE  GuiInv
      OBVIOUS
    <2>1. Mode
      <3>1. (app \in Programs) = FALSE /\ graphics = FALSE
        BY DEF Init, Programs
      <3>2. graphics = (app \in Programs)
        BY <3>1, Zenon
      <3>3. app \in BootSteps
        BY DEF Init, BootSteps
      <3> QED
        BY <3>2, <3>3, Zenon DEF Mode
    <2>2. TextKept
      BY DEF Init, TextKept
    <2>3. SmallPrograms
      <3>1. 0 \in 0..InputMax /\ 3 \in 1..10 /\ 15 \in 0..15
        BY GuiAssumption
      <3>2. gui_input_len = 0 /\ waiting = FALSE /\ paint_brush_size = 3 /\ paint_color = 15
        BY DEF Init
      <3> QED
        BY <3>1, <3>2 DEF SmallPrograms
    <2>4. FileList
      BY DEF Init, FileList, visible_items
    <2>5. SecondKept
      BY ClockAssumption DEF Init, SecondKept
    <2>6. CalcInv
      BY CalcInitial DEF Init
    <2> QED
      BY <2>1, <2>2, <2>3, <2>4, <2>5, <2>6, TextInit, ClockInit, Zenon DEF GuiInv
  <1>2. GuiInv /\ [Next]_vars => GuiInv'
    <2>1. TextInv /\ UNCHANGED notepad => TextInv'
      BY DEF TextInv, NotepadTypeOK, TextReachable, notepad
    <2>2. TextInv /\ [Next]_vars => TextInv'
      BY <2>1, TextClear, TextEdit, NotepadSteps
    <2> QED
      BY <2>2, ModeStep, TextKeptStep, SmallStep, FileListStep, CalcStep, ClockStep, SecondStep,
         Zenon
      DEF GuiInv
  <1>3. GuiInv => TypeOK
    BY ClockTyped, Zenon DEF GuiInv, Mode, TextKept, SmallPrograms, FileList, TextInv, CalcInv, TypeOK
  <1> QED
    BY <1>1, <1>2, <1>3, PTL DEF Spec

-----------------------------------------------------------------------------
(* The mouse the programs poll.                                            *)

(* What a PS/2 mouse promises of the first byte of a packet.               *)
StatusBytes == \A p \in Packets : Bit(p[1], 3)

(* The types, those of the histories and of the bounds included.           *)
MouseValues ==
    /\ MouseTypeOK
    /\ limit \in (Nat \ {0}) \X (Nat \ {0})
    /\ line \in Seq(Bytes)
    /\ reports \in Seq(Packets) /\ applied \in Nat

(* How far mouse_init is.                                                  *)
MouseStarted ==
    /\ init \in {"off", "on"} => awaiting = 0
    /\ init \in {"off", "reset", "defaults"} => reports = <<>>
    /\ init # "on" => applied = 0 /\ mouse_packet = <<>>
    /\ init = "off" => line = <<>> /\ mouse_head = mouse_tail

(* Everything between the mouse and the pointer, oldest first.             *)
Unread == (mouse_packet \o InRing) \o line

Sent(k) == reports[applied + 1 + ((k - 1) \div 3)][1 + ((k - 1) % 3)]

(* The answers that are awaited, and behind them the packets not yet       *)
(* taken.                                                                  *)
Unbroken ==
    ~lost => /\ cursor = pointer
             /\ applied <= Len(reports)
             /\ Len(Unread) = awaiting + 3 * (Len(reports) - applied)
             /\ \A k \in 1..(3 * (Len(reports) - applied)) : Unread[awaiting + k] = Sent(k)

(* What % gives within one modulus of the range 0..(n - 1).                *)
LEMMA ModSmall ==
    ASSUME NEW n \in Nat, n > 0, NEW x \in Int, -n <= x, x < 2 * n
    PROVE  x % n = IF x < 0 THEN x + n ELSE IF x < n THEN x ELSE x - n
  OBVIOUS

(* A function on 1..n is a sequence of length n.                           *)
LEMMA FunctionIsSeq ==
    ASSUME NEW S, NEW n \in Nat, NEW f \in [1..n -> S]
    PROVE  f \in Seq(S) /\ Len(f) = n
  OBVIOUS

(* The constants of the mouse, in the form the proofs use.                 *)
LEMMA MouseConstants ==
    /\ mouse_buffer_size \in Nat /\ mouse_buffer_size > 1
    /\ \A p \in Packets : p \in Seq(Bytes) /\ Len(p) = 3 /\ p = <<p[1], p[2], p[3]>>
    /\ \A s \in WindowSizes \cup {ScreenSize} : s \in (Nat \ {0}) \X (Nat \ {0})
  <1>1. \A p \in Packets : p \in (0..255) \X (0..255) \X (0..255)
    BY MouseAssumption
  <1>2. \A p \in (0..255) \X (0..255) \X (0..255) :
          p \in Seq(0..255) /\ Len(p) = 3 /\ p = <<p[1], p[2], p[3]>>
    <2> SUFFICES ASSUME NEW p \in (0..255) \X (0..255) \X (0..255)
                 PROVE  p \in Seq(0..255) /\ Len(p) = 3 /\ p = <<p[1], p[2], p[3]>>
      OBVIOUS
    <2>1. /\ p = <<p[1], p[2], p[3]>>
          /\ p[1] \in 0..255 /\ p[2] \in 0..255 /\ p[3] \in 0..255
      OBVIOUS
    <2>2. ASSUME NEW x \in 0..255, NEW y \in 0..255, NEW z \in 0..255
          PROVE  <<x, y, z>> \in Seq(0..255) /\ Len(<<x, y, z>>) = 3
      OBVIOUS
    <2>3. <<p[1], p[2], p[3]>> \in Seq(0..255) /\ Len(<<p[1], p[2], p[3]>>) = 3
      BY <2>1, <2>2
    <2> QED
      BY <2>1, <2>3, Zenon
  <1> QED
    BY <1>1, <1>2, MouseAssumption DEF Bytes

(* The bytes of a ring b with its first byte at slot t and its end at slot *)
(* h.                                                                      *)
RingOf(b, h, t) ==
    [k \in 1..((h - t) % mouse_buffer_size) |-> b[(t + k - 1) % mouse_buffer_size]]

(* What r says when it holds those bytes: their number, and where each of  *)
(* them is in the ring.                                                    *)
HoldsRing(r, b, h, t) ==
    /\ r \in Seq(Bytes)
    /\ Len(r) = IF h >= t THEN h - t ELSE h - t + mouse_buffer_size
    /\ \A k \in 1..Len(r) : /\ t + k - 1 < mouse_buffer_size => r[k] = b[t + k - 1]
                            /\ t + k - 1 >= mouse_buffer_size =>
                                 r[k] = b[t + k - 1 - mouse_buffer_size]

(* The bytes of a ring are that.                                           *)
LEMMA RingIs ==
    ASSUME NEW b \in [Slots -> Bytes],
           NEW h \in Slots, NEW t \in Slots, NEW r, r = RingOf(b, h, t)
    PROVE  HoldsRing(r, b, h, t)
  <1> DEFINE m == mouse_buffer_size
             n == (h - t) % m
  <1>1. m \in Nat /\ m > 1 /\ h \in 0..(m - 1) /\ t \in 0..(m - 1)
    BY MouseConstants DEF Slots
  <1>2. n = IF h >= t THEN h - t ELSE h - t + m
    <2>1. h - t \in Int /\ -m <= h - t /\ h - t < 2 * m /\ h - t < m /\ m > 0
      BY <1>1
    <2> HIDE DEF m
    <2>2. (h - t) % m = IF h - t < 0 THEN h - t + m ELSE h - t
      BY <1>1, <2>1, ModSmall
    <2> QED
      BY <1>1, <2>2
  <1>3. n \in Nat
    BY <1>1, <1>2
  <1>4. ASSUME NEW k \in 1..n
        PROVE  /\ t + k - 1 < m => (t + k - 1) % m = t + k - 1
               /\ t + k - 1 >= m => (t + k - 1) % m = t + k - 1 - m
               /\ (t + k - 1) % m \in Slots
    <2> HIDE DEF m, n
    <2> DEFINE x == t + k - 1
    <2>1. x \in Int /\ 0 <= x /\ -m <= x /\ x < 2 * m /\ m > 0
      BY <1>1, <1>2, <1>3
    <2> HIDE DEF x
    <2>2. x % m = IF x < m THEN x ELSE x - m
      BY <1>1, <2>1, ModSmall
    <2>3. x % m \in 0..(m - 1)
      BY <1>1, <2>1, <2>2
    <2> QED
      BY <1>1, <2>1, <2>2, <2>3 DEF Slots, m, x
  <1>5. r \in [1..n -> Bytes]
    BY <1>4 DEF RingOf
  <1>6. r \in Seq(Bytes) /\ Len(r) = n
    BY <1>3, <1>5, FunctionIsSeq
  <1>7. \A k \in 1..n : r[k] = b[(t + k - 1) % m]
    BY DEF RingOf
  <1>8. \A k \in 1..n : /\ t + k - 1 < m => r[k] = b[t + k - 1]
                        /\ t + k - 1 >= m => r[k] = b[t + k - 1 - m]
    BY <1>4, <1>7
  <1>9. Len(r) = IF h >= t THEN h - t ELSE h - t + m
    BY <1>2, <1>6
  <1>10. \A k \in 1..Len(r) : /\ t + k - 1 < m => r[k] = b[t + k - 1]
                              /\ t + k - 1 >= m => r[k] = b[t + k - 1 - m]
    <2>1. 1..Len(r) = 1..n
      BY <1>6
    <2> HIDE DEF m, n
    <2> QED
      BY <1>8, <2>1, Zenon
  <1> QED
    BY <1>6, <1>9, <1>10, Zenon DEF HoldsRing

(* A slot further on.                                                      *)
LEMMA AdvanceWraps ==
    ASSUME NEW i \in Slots
    PROVE  /\ Advance(i) = IF i + 1 = mouse_buffer_size THEN 0 ELSE i + 1
           /\ Advance(i) \in Slots
  <1>1. /\ mouse_buffer_size \in Nat /\ mouse_buffer_size > 0 /\ i \in 0..(mouse_buffer_size - 1)
        /\ i + 1 \in Int /\ -mouse_buffer_size <= i + 1 /\ i + 1 < 2 * mouse_buffer_size
    BY MouseConstants DEF Slots
  <1>2. (i + 1) % mouse_buffer_size =
          IF i + 1 < mouse_buffer_size THEN i + 1 ELSE i + 1 - mouse_buffer_size
    BY <1>1, ModSmall
  <1> QED
    BY <1>1, <1>2 DEF Advance, Slots

(* The byte of an interrupt joins the others at the end, unless it makes   *)
(* the ring full, which empties it.                                        *)
LEMMA RingStores ==
    ASSUME MouseValues, irq12, mouse_head' # mouse_tail
    PROVE  InRing' = Append(InRing, Head(line))
  <1> DEFINE m == mouse_buffer_size
             h == mouse_head
             t == mouse_tail
             r == InRing
             q == InRing'
             x == Head(line)
  <1>1. /\ mouse_buffer \in [Slots -> Bytes]
        /\ h \in Slots /\ t \in Slots /\ line \in Seq(Bytes) /\ line # <<>>
        /\ mouse_buffer' = [mouse_buffer EXCEPT ![h] = x]
        /\ mouse_head' = Advance(h) /\ mouse_tail' = t
    BY DEF MouseValues, MouseTypeOK, irq12
  <1>2. x \in Bytes /\ mouse_buffer' \in [Slots -> Bytes]
    BY <1>1, HeadTailProperties
  <1>3. /\ mouse_head' = (IF h + 1 = m THEN 0 ELSE h + 1) /\ mouse_head' \in Slots
    BY <1>1, AdvanceWraps
  <1>4. /\ r \in Seq(Bytes)
        /\ Len(r) = IF h >= t THEN h - t ELSE h - t + m
        /\ \A k \in 1..Len(r) : /\ t + k - 1 < m => r[k] = mouse_buffer[t + k - 1]
                                /\ t + k - 1 >= m => r[k] = mouse_buffer[t + k - 1 - m]
    <2>1. r = RingOf(mouse_buffer, h, t)
      BY DEF InRing, RingOf
    <2>2. mouse_buffer \in [Slots -> Bytes] /\ h \in Slots /\ t \in Slots
      BY <1>1
    <2>3. HoldsRing(r, mouse_buffer, h, t)
      BY <2>1, <2>2, RingIs, Zenon
    <2> QED
      BY <2>3 DEF HoldsRing
  <1>5. /\ q \in Seq(Bytes)
        /\ Len(q) = IF mouse_head' >= t THEN mouse_head' - t ELSE mouse_head' - t + m
        /\ \A k \in 1..Len(q) : /\ t + k - 1 < m => q[k] = mouse_buffer'[t + k - 1]
                                /\ t + k - 1 >= m => q[k] = mouse_buffer'[t + k - 1 - m]
    <2>1. q = RingOf(mouse_buffer', mouse_head', t)
      BY <1>1 DEF InRing, RingOf
    <2>2. /\ mouse_buffer' \in [Slots -> Bytes]
          /\ mouse_head' \in Slots /\ t \in Slots
      BY <1>1, <1>2, <1>3
    <2>3. HoldsRing(q, mouse_buffer', mouse_head', t)
      BY <2>1, <2>2, RingIs, Zenon
    <2> QED
      BY <2>3 DEF HoldsRing
  <1>6. Slots = 0..(m - 1) /\ m \in Nat /\ m > 1
    BY MouseConstants DEF Slots
  <1> HIDE DEF m, h, r, q, x
  <1>7. Len(q) = Len(r) + 1 /\ Len(r) \in Nat
    <2>1. /\ h \in 0..(m - 1) /\ t \in 0..(m - 1) /\ m \in Nat /\ mouse_head' # t
          /\ mouse_head' = (IF h + 1 = m THEN 0 ELSE h + 1)
      BY <1>1, <1>3, <1>6
    <2>2. /\ Len(r) = (IF h >= t THEN h - t ELSE h - t + m)
          /\ Len(q) = (IF mouse_head' >= t THEN mouse_head' - t ELSE mouse_head' - t + m)
      BY <1>4, <1>5
    <2> HIDE DEF t
    <2> QED
      BY <2>1, <2>2
  <1>8. \A k \in 1..Len(r) : q[k] = r[k]
    <2> SUFFICES ASSUME NEW k \in 1..Len(r)
                 PROVE  q[k] = r[k]
      OBVIOUS
    <2>1. k \in 1..Len(q) /\ k \in Nat /\ k >= 1
      BY <1>7
    <2>2. CASE t + k - 1 < m
      <3>1. t + k - 1 \in Slots /\ t + k - 1 # h
        BY <1>1, <1>4, <1>6, <2>1, <2>2
      <3> QED
        BY <1>1, <1>4, <1>5, <2>1, <2>2, <3>1
    <2>3. CASE t + k - 1 >= m
      <3>1. t + k - 1 - m \in Slots /\ t + k - 1 - m # h
        BY <1>1, <1>4, <1>6, <2>1, <2>3
      <3> QED
        BY <1>1, <1>4, <1>5, <2>1, <2>3, <3>1
    <2> QED
      BY <1>1, <1>6, <2>1, <2>2, <2>3
  <1>9. q[Len(r) + 1] = x
    <2>1. Len(r) + 1 \in 1..Len(q)
      BY <1>7
    <2>2. CASE h >= t
      <3>1. t + (Len(r) + 1) - 1 = h /\ h < m
        BY <1>1, <1>4, <1>6, <1>7, <2>2
      <3> QED
        BY <1>1, <1>2, <1>5, <2>1, <3>1
    <2>3. CASE ~(h >= t)
      <3>1. t + (Len(r) + 1) - 1 >= m /\ t + (Len(r) + 1) - 1 - m = h
        BY <1>1, <1>4, <1>6, <1>7, <2>3
      <3> QED
        BY <1>1, <1>2, <1>5, <2>1, <3>1
    <2> QED
      BY <2>2, <2>3
  <1>10. /\ Append(r, x) \in Seq(Bytes) /\ Len(Append(r, x)) = Len(r) + 1
         /\ \A k \in 1..Len(r) : Append(r, x)[k] = r[k]
         /\ Append(r, x)[Len(r) + 1] = x
    BY <1>2, <1>4, AppendProperties
  <1>11. \A k \in 1..Len(q) : q[k] = Append(r, x)[k]
    <2>1. \A k \in 1..Len(q) : k \in 1..Len(r) \/ k = Len(r) + 1
      BY <1>7
    <2> QED
      BY <1>8, <1>9, <1>10, <2>1
  <1>12. q = Append(r, x)
    BY <1>5, <1>7, <1>10, <1>11, SeqEqual
  <1> QED
    BY <1>12 DEF q, r, x

(* c_mouse_read takes the oldest byte.                                     *)
LEMMA RingTakes ==
    ASSUME MouseValues, Waiting, Take
    PROVE  /\ InRing \in Seq(Bytes) /\ InRing # <<>>
           /\ c_mouse_read = Head(InRing)
           /\ InRing' = Tail(InRing)
  <1> DEFINE m == mouse_buffer_size
             h == mouse_head
             t == mouse_tail
             r == InRing
             q == InRing'
  <1>1. /\ mouse_buffer \in [Slots -> Bytes]
        /\ h \in Slots /\ t \in Slots /\ h # t
        /\ mouse_buffer' = mouse_buffer /\ mouse_head' = h /\ mouse_tail' = Advance(t)
    BY DEF MouseValues, MouseTypeOK, Waiting, Take
  <1>2. /\ mouse_tail' = (IF t + 1 = m THEN 0 ELSE t + 1) /\ mouse_tail' \in Slots
    BY <1>1, AdvanceWraps
  <1>3. /\ r \in Seq(Bytes)
        /\ Len(r) = IF h >= t THEN h - t ELSE h - t + m
        /\ \A k \in 1..Len(r) : /\ t + k - 1 < m => r[k] = mouse_buffer[t + k - 1]
                                /\ t + k - 1 >= m => r[k] = mouse_buffer[t + k - 1 - m]
    <2>1. r = RingOf(mouse_buffer, h, t)
      BY DEF InRing, RingOf
    <2>2. mouse_buffer \in [Slots -> Bytes] /\ h \in Slots /\ t \in Slots
      BY <1>1
    <2>3. HoldsRing(r, mouse_buffer, h, t)
      BY <2>1, <2>2, RingIs, Zenon
    <2> QED
      BY <2>3 DEF HoldsRing
  <1>4. /\ q \in Seq(Bytes)
        /\ Len(q) = IF h >= mouse_tail' THEN h - mouse_tail' ELSE h - mouse_tail' + m
        /\ \A k \in 1..Len(q) : /\ mouse_tail' + k - 1 < m => q[k] = mouse_buffer[mouse_tail' + k - 1]
                                /\ mouse_tail' + k - 1 >= m =>
                                     q[k] = mouse_buffer[mouse_tail' + k - 1 - m]
    <2>1. q = RingOf(mouse_buffer, h, mouse_tail')
      BY <1>1 DEF InRing, RingOf
    <2>2. /\ mouse_buffer \in [Slots -> Bytes]
          /\ h \in Slots /\ mouse_tail' \in Slots
      BY <1>1, <1>2
    <2>3. HoldsRing(q, mouse_buffer, h, mouse_tail')
      BY <2>1, <2>2, RingIs, Zenon
    <2> QED
      BY <2>3 DEF HoldsRing
  <1>5. Slots = 0..(m - 1) /\ m \in Nat /\ m > 1
    BY MouseConstants DEF Slots
  <1> HIDE DEF m, h, t, r, q
  <1>6. Len(r) \in Nat /\ Len(r) > 0 /\ Len(q) = Len(r) - 1
    BY <1>1, <1>2, <1>3, <1>4, <1>5
  <1>7. r # <<>>
    BY <1>6
  <1>8. Head(r) = mouse_buffer[t]
    <2>1. 1 \in 1..Len(r) /\ t + 1 - 1 = t /\ t < m
      BY <1>1, <1>5, <1>6
    <2>2. r[1] = mouse_buffer[t]
      BY <1>3, <2>1
    <2> QED
      BY <1>3, <1>7, <2>2
  <1>9. /\ Tail(r) \in Seq(Bytes) /\ Len(Tail(r)) = Len(r) - 1
        /\ \A k \in 1..Len(Tail(r)) : Tail(r)[k] = r[k + 1]
    BY <1>3, <1>7, HeadTailProperties
  <1>10. \A k \in 1..Len(q) : q[k] = r[k + 1]
    <2> SUFFICES ASSUME NEW k \in 1..Len(q)
                 PROVE  q[k] = r[k + 1]
      OBVIOUS
    <2>1. k + 1 \in 1..Len(r) /\ k \in Nat /\ k >= 1
      BY <1>6
    <2>2. CASE t + 1 = m
      <3>1. /\ mouse_tail' + k - 1 = k - 1 /\ k - 1 < m
            /\ t + (k + 1) - 1 >= m /\ t + (k + 1) - 1 - m = k - 1
        BY <1>1, <1>2, <1>3, <1>5, <1>6, <2>1, <2>2
      <3> QED
        BY <1>3, <1>4, <2>1, <3>1
    <2>3. CASE t + 1 # m
      <3>1. /\ mouse_tail' + k - 1 = t + (k + 1) - 1 /\ t + (k + 1) - 1 \in Nat
            /\ mouse_tail' + k - 1 - m = t + (k + 1) - 1 - m
        BY <1>1, <1>2, <1>5, <2>1, <2>3
      <3>2. t + (k + 1) - 1 < m \/ t + (k + 1) - 1 >= m
        BY <1>5, <3>1
      <3> QED
        BY <1>3, <1>4, <2>1, <3>1, <3>2
    <2> QED
      BY <2>2, <2>3
  <1>11. q = Tail(r)
    BY <1>4, <1>6, <1>9, <1>10, SeqEqual
  <1> QED
    BY <1>3, <1>7, <1>8, <1>11 DEF c_mouse_read, q, r, t

(* mouse_poll keeps the pointer inside the bounds, whatever the packet.    *)
LEMMA MovedInside ==
    ASSUME MouseValues, NEW x \in Int, NEW y \in Int, NEW p \in Seq(Bytes), Len(p) = 3
    PROVE  LET moved == Moved(x, y, p)
           IN  /\ moved = <<moved[1], moved[2], moved[3], moved[4]>>
               /\ moved[1] \in 0..(limit[1] - 1) /\ moved[2] \in 0..(limit[2] - 1)
               /\ moved[3] \in BOOLEAN /\ moved[4] \in BOOLEAN
  <1>1. ASSUME NEW v \in Int, NEW size \in Nat \ {0}
        PROVE  Clamp(v, size) \in 0..(size - 1)
    BY DEF Clamp
  <1>2. p[2] \in 0..255 /\ p[3] \in 0..255
    <2>1. 2 \in 1..Len(p) /\ 3 \in 1..Len(p)
      OBVIOUS
    <2>2. p[2] \in Bytes /\ p[3] \in Bytes
      BY <2>1, ElementOfSeq
    <2> QED
      BY <2>2 DEF Bytes
  <1>3. Signed(p[2]) \in Int /\ Signed(p[3]) \in Int
    <2>1. \A b \in 0..255 : Signed(b) \in Int
      BY DEF Signed
    <2> QED
      BY <1>2, <2>1
  <1>4. limit[1] \in Nat \ {0} /\ limit[2] \in Nat \ {0}
    BY DEF MouseValues
  <1> DEFINE dx == IF Bit(p[1], 6) THEN 0 ELSE Signed(p[2])
             dy == IF Bit(p[1], 7) THEN 0 ELSE Signed(p[3])
  <1>5. x + dx \in Int /\ y - dy \in Int
    BY <1>3
  <1>6. Moved(x, y, p) = <<Clamp(x + dx, limit[1]), Clamp(y - dy, limit[2]),
                                  Bit(p[1], 0), Bit(p[1], 1)>>
    BY DEF Moved
  <1>7. Clamp(x + dx, limit[1]) \in 0..(limit[1] - 1)
    BY <1>1, <1>4, <1>5
  <1>8. Clamp(y - dy, limit[2]) \in 0..(limit[2] - 1)
    BY <1>1, <1>4, <1>5
  <1>9. Bit(p[1], 0) \in BOOLEAN /\ Bit(p[1], 1) \in BOOLEAN
    BY Zenon DEF Bit
  <1> HIDE DEF dx, dy
  <1> QED
    BY <1>6, <1>7, <1>8, <1>9

(* The answers to a command of mouse_init are bytes, three at most.        *)
LEMMA AnswersType ==
    ASSUME NEW c
    PROVE  /\ Answers(c) \in Seq(Bytes)
           /\ Len(Answers(c)) \in 1..3
  <1>1. <<250, 170, 0>> \in Seq(Bytes) /\ <<250>> \in Seq(Bytes)
    BY DEF Bytes
  <1>2. Len(<<250, 170, 0>>) = 3 /\ Len(<<250>>) = 1
    OBVIOUS
  <1> QED
    BY <1>1, <1>2 DEF Answers

(* Before mouse_init.                                                      *)
LEMMA MouseValuesInit ==
    ASSUME MouseInit
    PROVE  MouseValues /\ MouseStarted
  <1>1. /\ 0 \in Slots /\ 0 \in Bytes /\ 0 \in 0..3
        /\ <<>> \in Seq(Bytes) /\ <<>> \in Seq(Packets) /\ Len(<<>>) < 3
    BY MouseConstants, EmptySeq DEF Slots, Bytes
  <1>2. mouse_buffer \in [Slots -> Bytes]
    BY <1>1 DEF MouseInit
  <1>3. mouse_x \in 0..(limit[1] - 1) /\ mouse_y \in 0..(limit[2] - 1)
    BY DEF MouseInit
  <1>4. limit \in (Nat \ {0}) \X (Nat \ {0}) /\ applied \in Nat
    BY DEF MouseInit
  <1>5. mouse_left \in BOOLEAN /\ mouse_right \in BOOLEAN /\ lost \in BOOLEAN
    BY Zenon DEF MouseInit
  <1>6. MouseValues
    BY <1>1, <1>2, <1>3, <1>4, <1>5 DEF MouseInit, MouseValues, MouseTypeOK
  <1>7. MouseStarted
    BY DEF MouseInit, MouseStarted
  <1> QED
    BY <1>6, <1>7

(* A command of mouse_init and what it leaves alone.                       *)
LEMMA CommandType ==
    ASSUME MouseValues, NEW c \in {"reset", "defaults", "enable"}, Command(c)
    PROVE  /\ init' \in {"off", "reset", "defaults", "enable", "on"} /\ awaiting' \in 0..3
           /\ line' \in Seq(Bytes)
  <1>1. line' \in Seq(Bytes)
    BY AnswersType, ConcatProperties DEF MouseValues, Command
  <1> DEFINE n == Len(Answers(c))
  <1>2. n \in 1..3
    BY AnswersType
  <1>3. awaiting' = n
    BY DEF Command
  <1> HIDE DEF n
  <1>4. awaiting' \in 0..3
    BY <1>2, <1>3
  <1> QED
    BY <1>1, <1>4 DEF Command

(* A byte in mouse_poll.                                                   *)
LEMMA PollType ==
    ASSUME MouseValues, MouseStarted, mouse_poll
    PROVE  MouseValues' /\ MouseStarted'
  <1> DEFINE b == c_mouse_read
             packet == Append(mouse_packet, b)
             moved == Moved(mouse_x, mouse_y, packet)
  <1>1. /\ mouse_buffer \in [Slots -> Bytes]
        /\ mouse_head \in Slots /\ mouse_tail \in Slots
        /\ mouse_packet \in Seq(Bytes) /\ Len(mouse_packet) < 3
        /\ mouse_x \in Int /\ mouse_y \in Int /\ applied \in Nat
    BY DEF MouseValues, MouseTypeOK
  <1>2. /\ mouse_buffer' = mouse_buffer /\ mouse_head' = mouse_head
        /\ mouse_tail' = Advance(mouse_tail) /\ mouse_tail' \in Slots
        /\ init = "on" /\ UNCHANGED <<init, awaiting, limit, line, reports, lost>>
    BY <1>1, AdvanceWraps DEF mouse_poll, Take
  <1>3. b \in Bytes
    BY <1>1 DEF c_mouse_read
  <1>4. packet \in Seq(Bytes) /\ Len(packet) = Len(mouse_packet) + 1
    BY <1>1, <1>3, AppendProperties
  <1>5. \/ UNCHANGED <<mouse_packet, mouse_x, mouse_y, mouse_left, mouse_right, applied>>
        \/ /\ Len(packet) < 3 /\ mouse_packet' = packet
           /\ UNCHANGED <<mouse_x, mouse_y, mouse_left, mouse_right, applied>>
        \/ /\ ~(Len(packet) < 3) /\ mouse_packet' = <<>>
           /\ mouse_x' = moved[1] /\ mouse_y' = moved[2]
           /\ mouse_left' = moved[3] /\ mouse_right' = moved[4]
           /\ applied' = applied + 1
    BY DEF mouse_poll, cursor
  <1>6. ~(Len(packet) < 3) => Len(packet) = 3
    BY <1>1, <1>4, LenProperties
  <1>7. ~(Len(packet) < 3) =>
          /\ moved[1] \in 0..(limit[1] - 1) /\ moved[2] \in 0..(limit[2] - 1)
          /\ moved[3] \in BOOLEAN /\ moved[4] \in BOOLEAN
    <2> HIDE DEF packet
    <2> QED
      BY <1>1, <1>4, <1>6, MovedInside
  <1>8. <<>> \in Seq(Bytes) /\ Len(<<>>) < 3 /\ applied + 1 \in Nat
    BY <1>1, EmptySeq
  <1> HIDE DEF b, packet, moved
  <1>9. /\ mouse_packet' \in Seq(Bytes) /\ Len(mouse_packet') < 3
        /\ applied' \in Nat
    BY <1>1, <1>4, <1>5, <1>8
  <1>10. mouse_x' \in 0..(limit[1] - 1) /\ mouse_y' \in 0..(limit[2] - 1)
    BY <1>5, <1>7 DEF MouseValues, MouseTypeOK
  <1>11. mouse_left' \in BOOLEAN /\ mouse_right' \in BOOLEAN
    <2>1. mouse_left \in BOOLEAN /\ mouse_right \in BOOLEAN
      BY DEF MouseValues, MouseTypeOK
    <2> QED
      BY <1>5, <1>7, <2>1, Zenon
  <1>12. MouseValues'
    BY <1>1, <1>2, <1>9, <1>10, <1>11 DEF MouseValues, MouseTypeOK
  <1>13. MouseStarted'
    BY <1>2 DEF MouseStarted
  <1> QED
    BY <1>12, <1>13

(* Every step keeps the types.                                             *)
LEMMA MouseTypeStep ==
    ASSUME MouseValues, MouseStarted, [MouseNext]_mouse_vars
    PROVE  MouseValues' /\ MouseStarted'
  <1>1. /\ mouse_buffer \in [Slots -> Bytes]
        /\ mouse_head \in Slots /\ mouse_tail \in Slots
        /\ init \in {"off", "reset", "defaults", "enable", "on"} /\ awaiting \in 0..3
        /\ line \in Seq(Bytes) /\ reports \in Seq(Packets)
        /\ mouse_x \in 0..(limit[1] - 1) /\ mouse_y \in 0..(limit[2] - 1)
        /\ limit \in (Nat \ {0}) \X (Nat \ {0})
    BY DEF MouseValues, MouseTypeOK
  <1>2. ASSUME NEW p \in Packets, DeviceReports(p)
        PROVE  MouseValues' /\ MouseStarted'
    <2>1. /\ line' = p /\ reports' = Append(reports, p) /\ init \in {"enable", "on"}
          /\ UNCHANGED <<mouse_buffer, mouse_head, mouse_tail, init, awaiting, mouse_packet,
                         mouse_x, mouse_y, mouse_left, mouse_right, limit, applied, pointer, lost>>
      BY <1>2 DEF DeviceReports, ring, cursor
    <2>2. line' \in Seq(Bytes) /\ reports' \in Seq(Packets)
      BY <1>1, <2>1, MouseConstants, AppendProperties
    <2> QED
      BY <2>1, <2>2 DEF MouseValues, MouseStarted, MouseTypeOK
  <1>3. CASE irq12
    <2>1. /\ mouse_buffer' = [mouse_buffer EXCEPT ![mouse_head] = Head(line)]
          /\ mouse_head' = Advance(mouse_head) /\ line # <<>> /\ line' = Tail(line)
          /\ lost' \in BOOLEAN
          /\ UNCHANGED <<mouse_tail, init, awaiting, mouse_packet,
                         mouse_x, mouse_y, mouse_left, mouse_right, limit, reports, applied>>
      BY <1>3 DEF irq12, cursor
    <2>2. Head(line) \in Bytes /\ line' \in Seq(Bytes)
      BY <1>1, <2>1, HeadTailProperties
    <2>3. mouse_buffer' \in [Slots -> Bytes] /\ mouse_head' \in Slots
      BY <1>1, <2>1, <2>2, AdvanceWraps
    <2> QED
      BY <2>1, <2>2, <2>3 DEF MouseValues, MouseStarted, MouseTypeOK
  <1>4. CASE mouse_init
    <2>1. /\ mouse_tail' = mouse_head /\ Command("reset") /\ init' = "reset" /\ init = "off"
          /\ UNCHANGED <<mouse_buffer, mouse_head, mouse_packet,
                         mouse_x, mouse_y, mouse_left, mouse_right, limit, reports, applied, lost>>
      BY <1>4 DEF mouse_init, Command, cursor
    <2>2. awaiting' \in 0..3 /\ line' \in Seq(Bytes)
      BY <2>1, CommandType
    <2> QED
      BY <1>1, <2>1, <2>2 DEF MouseValues, MouseStarted, MouseTypeOK
  <1>5. CASE mouse_read_byte
    <2>1. /\ init \in {"reset", "defaults", "enable"} /\ awaiting > 0 /\ awaiting' = awaiting - 1
          /\ \/ Take /\ lost' = lost
             \/ lost' = TRUE /\ UNCHANGED <<mouse_buffer, mouse_head, mouse_tail>>
          /\ UNCHANGED <<init, mouse_packet, mouse_x, mouse_y, mouse_left, mouse_right, limit,
                         line, reports, applied>>
      BY <1>5 DEF mouse_read_byte, ring, cursor
    <2>2. /\ mouse_buffer' = mouse_buffer /\ mouse_head' = mouse_head /\ mouse_tail' \in Slots
      BY <1>1, <2>1, AdvanceWraps DEF Take
    <2>3. awaiting' \in 0..3
      BY <1>1, <2>1
    <2>4. lost' \in BOOLEAN
      <3>1. lost \in BOOLEAN
        BY DEF MouseValues, MouseTypeOK
      <3> QED
        BY <2>1, <3>1, Zenon
    <2> QED
      BY <2>1, <2>2, <2>3, <2>4 DEF MouseValues, MouseStarted, MouseTypeOK
  <1>6. CASE next_command
    <2>1. /\ \/ init = "reset" /\ Command("defaults") /\ init' = "defaults"
             \/ init = "defaults" /\ Command("enable") /\ init' = "enable"
          /\ UNCHANGED <<mouse_buffer, mouse_head, mouse_tail, mouse_packet,
                         mouse_x, mouse_y, mouse_left, mouse_right, limit, reports, applied, lost>>
      BY <1>6 DEF next_command, Command, ring, cursor
    <2>2. awaiting' \in 0..3 /\ line' \in Seq(Bytes)
      BY <2>1, CommandType
    <2> QED
      BY <2>1, <2>2 DEF MouseValues, MouseStarted, MouseTypeOK
  <1>7. CASE init_done
    <2>1. /\ limit' = ScreenSize /\ init = "enable" /\ awaiting = 0 /\ init' = "on"
          /\ mouse_x' = ScreenSize[1] \div 2 /\ mouse_y' = ScreenSize[2] \div 2
          /\ UNCHANGED <<mouse_buffer, mouse_head, mouse_tail, awaiting, mouse_packet,
                         mouse_left, mouse_right, line, reports, applied, lost>>
      BY <1>7 DEF init_done, ring
    <2>2. limit' \in (Nat \ {0}) \X (Nat \ {0})
      BY <2>1, MouseConstants
    <2>3. \A n \in Nat \ {0} : n \div 2 \in 0..(n - 1)
      OBVIOUS
    <2>4. limit'[1] \in Nat \ {0} /\ limit'[2] \in Nat \ {0}
      BY <2>2
    <2>5. mouse_x' \in 0..(limit'[1] - 1) /\ mouse_y' \in 0..(limit'[2] - 1)
      BY <2>1, <2>3, <2>4
    <2> QED
      BY <2>1, <2>2, <2>5 DEF MouseValues, MouseStarted, MouseTypeOK
  <1>8. CASE mouse_poll
    BY <1>8, PollType
  <1>9. ASSUME NEW s \in WindowSizes, mouse_set_bounds(s)
        PROVE  MouseValues' /\ MouseStarted'
    <2>1. /\ limit' = s /\ init = "on"
          /\ mouse_x' = Clamp(mouse_x, s[1]) /\ mouse_y' = Clamp(mouse_y, s[2])
          /\ UNCHANGED <<mouse_buffer, mouse_head, mouse_tail, init, awaiting, mouse_packet,
                         mouse_left, mouse_right, line, reports, applied, lost>>
      BY <1>9 DEF mouse_set_bounds, ring
    <2>2. s \in (Nat \ {0}) \X (Nat \ {0})
      BY MouseConstants
    <2>3. s[1] \in Nat \ {0} /\ s[2] \in Nat \ {0} /\ mouse_x \in Int /\ mouse_y \in Int
      BY <1>1, <2>2
    <2>4. mouse_x' \in 0..(limit'[1] - 1) /\ mouse_y' \in 0..(limit'[2] - 1)
      BY <2>1, <2>3 DEF Clamp
    <2> QED
      BY <2>1, <2>2, <2>4 DEF MouseValues, MouseStarted, MouseTypeOK
  <1>10. CASE UNCHANGED mouse_vars
    BY <1>10 DEF mouse_vars, ring, cursor, MouseValues, MouseStarted, MouseTypeOK
  <1> QED
    BY <1>2, <1>3, <1>4, <1>5, <1>6, <1>7, <1>8, <1>9, <1>10 DEF MouseNext

(* Whatever bytes come, and whatever bytes are lost, the driver counts to  *)
(* three and mouse_poll and mouse_set_bounds leave the pointer on the      *)
(* screen.                                                                 *)
THEOREM MouseTypeCorrect == MouseSpec => []MouseTypeOK
  <1> DEFINE TInv == MouseValues /\ MouseStarted
  <1>1. MouseInit => TInv
    BY MouseValuesInit
  <1>2. TInv /\ [MouseNext]_mouse_vars => TInv'
    BY MouseTypeStep
  <1>3. TInv => MouseTypeOK
    BY DEF MouseValues
  <1> HIDE DEF TInv
  <1> QED
    BY <1>1, <1>2, <1>3, PTL DEF MouseSpec

-----------------------------------------------------------------------------
(* The bytes between the mouse and the pointer.                            *)

(* The bytes of three sequences in a row.                                  *)
LEMMA JoinedThree ==
    ASSUME NEW S, NEW p \in Seq(S), NEW r \in Seq(S), NEW l \in Seq(S)
    PROVE  /\ (p \o r) \o l \in Seq(S)
           /\ Len((p \o r) \o l) = Len(p) + Len(r) + Len(l)
           /\ \A k \in 1..Len(p) : ((p \o r) \o l)[k] = p[k]
           /\ \A k \in 1..(Len(r) + Len(l)) : ((p \o r) \o l)[Len(p) + k] = (r \o l)[k]
  <1>1. Len(p) \in Nat /\ Len(r) \in Nat /\ Len(l) \in Nat
    BY LenProperties
  <1>2. r \o l \in Seq(S) /\ Len(r \o l) = Len(r) + Len(l)
    BY ConcatProperties
  <1>3. (p \o r) \o l = p \o (r \o l)
    BY ConcatAssociative
  <1> DEFINE q == r \o l
  <1>4. q \in Seq(S) /\ Len(q) = Len(r) + Len(l)
    BY <1>2
  <1> HIDE DEF q
  <1>5. /\ p \o q \in Seq(S) /\ Len(p \o q) = Len(p) + Len(q)
        /\ \A k \in 1..(Len(p) + Len(q)) :
             (p \o q)[k] = IF k <= Len(p) THEN p[k] ELSE q[k - Len(p)]
    <2>1. q \in Seq(S)
      BY <1>4
    <2> QED
      BY <2>1, ConcatProperties, Zenon
  <1>6. \A k \in 1..Len(p) : (p \o q)[k] = p[k]
    BY <1>1, <1>4, <1>5
  <1>7. \A k \in 1..(Len(r) + Len(l)) : (p \o q)[Len(p) + k] = q[k]
    BY <1>1, <1>4, <1>5
  <1>8. Len(p \o q) = Len(p) + Len(r) + Len(l)
    BY <1>1, <1>4, <1>5
  <1> QED
    BY <1>3, <1>5, <1>6, <1>7, <1>8 DEF q

(* An element taken from the front of one sequence and put at the end of   *)
(* the one before it.                                                      *)
LEMMA HandedOver ==
    ASSUME NEW S, NEW p \in Seq(S), NEW r \in Seq(S), r # <<>>
    PROVE  Append(p, Head(r)) \o Tail(r) = p \o r
  <1>1. Head(r) \in S /\ Tail(r) \in Seq(S)
    BY HeadTailProperties
  <1>2. Append(p, Head(r)) = p \o <<Head(r)>> /\ <<Head(r)>> \in Seq(S)
    BY <1>1, AppendIsConcat
  <1>3. (p \o <<Head(r)>>) \o Tail(r) = p \o (<<Head(r)>> \o Tail(r))
    BY <1>1, <1>2, ConcatAssociative
  <1>4. <<Head(r)>> \o Tail(r) = r
    OBVIOUS
  <1> QED
    BY <1>2, <1>3, <1>4

(* A sequence of three.                                                    *)
LEMMA ThreeBytes ==
    ASSUME NEW S, NEW s \in Seq(S), Len(s) = 3
    PROVE  s = <<s[1], s[2], s[3]>>
  <1> DEFINE t == <<s[1], s[2], s[3]>>
  <1>1. 1 \in 1..Len(s) /\ 2 \in 1..Len(s) /\ 3 \in 1..Len(s)
    OBVIOUS
  <1>2. s[1] \in S /\ s[2] \in S /\ s[3] \in S
    BY <1>1, ElementOfSeq
  <1>3. t \in Seq(S) /\ Len(t) = 3 /\ t[1] = s[1] /\ t[2] = s[2] /\ t[3] = s[3]
    BY <1>2
  <1> HIDE DEF t
  <1>4. \A k \in 1..3 : k = 1 \/ k = 2 \/ k = 3
    OBVIOUS
  <1>5. \A k \in 1..Len(s) : s[k] = t[k]
    BY <1>3, <1>4
  <1>6. s = t
    BY <1>3, <1>5, SeqEqual
  <1> QED
    BY <1>6 DEF t

(* The types of the bytes on their way.                                    *)
LEMMA UnreadType ==
    ASSUME MouseValues
    PROVE  /\ InRing \in Seq(Bytes) /\ Unread \in Seq(Bytes)
           /\ Len(Unread) = Len(mouse_packet) + Len(InRing) + Len(line)
           /\ mouse_head = mouse_tail => Len(InRing) = 0
  <1> DEFINE r == InRing
  <1>1. /\ mouse_buffer \in [Slots -> Bytes]
        /\ mouse_head \in Slots /\ mouse_tail \in Slots
        /\ mouse_packet \in Seq(Bytes) /\ line \in Seq(Bytes)
    BY DEF MouseValues, MouseTypeOK
  <1>2. r = RingOf(mouse_buffer, mouse_head, mouse_tail)
    BY DEF InRing, RingOf
  <1> HIDE DEF r
  <1>3. /\ r \in Seq(Bytes)
        /\ Len(r) = IF mouse_head >= mouse_tail THEN mouse_head - mouse_tail
                    ELSE mouse_head - mouse_tail + mouse_buffer_size
    <2>1. HoldsRing(r, mouse_buffer, mouse_head, mouse_tail)
      BY <1>1, <1>2, RingIs, Zenon
    <2> QED
      BY <2>1 DEF HoldsRing
  <1>4. mouse_head \in Int /\ mouse_tail \in Int
    BY <1>1, MouseConstants DEF Slots
  <1>5. mouse_head = mouse_tail => Len(r) = 0
    BY <1>3, <1>4
  <1>6. /\ (mouse_packet \o r) \o line \in Seq(Bytes)
        /\ Len((mouse_packet \o r) \o line) = Len(mouse_packet) + Len(r) + Len(line)
    <2> DEFINE q == mouse_packet \o r
    <2>1. q \in Seq(Bytes) /\ Len(q) = Len(mouse_packet) + Len(r)
      BY <1>1, <1>3, ConcatProperties
    <2> HIDE DEF q
    <2>2. q \o line \in Seq(Bytes) /\ Len(q \o line) = Len(q) + Len(line)
      BY <1>1, <2>1, ConcatProperties
    <2>3. q \o line \in Seq(Bytes) /\ Len(q \o line) = Len(mouse_packet) + Len(r) + Len(line)
      BY <2>1, <2>2
    <2> QED
      BY <2>3 DEF q
  <1> QED
    BY <1>3, <1>5, <1>6 DEF r, Unread

(* irq12 moves a byte from the mouse to the ring and nothing else.         *)
LEMMA InterruptKeeps ==
    ASSUME MouseValues, irq12, ~lost'
    PROVE  Unread' = Unread
  <1> DEFINE r == InRing
             x == Head(line)
  <1>1. /\ line \in Seq(Bytes) /\ line # <<>> /\ line' = Tail(line)
        /\ mouse_packet \in Seq(Bytes) /\ mouse_packet' = mouse_packet
        /\ mouse_head' # mouse_tail
    BY DEF MouseValues, MouseTypeOK, irq12
  <1>2. InRing' = Append(r, x)
    BY <1>1, RingStores
  <1>3. r \in Seq(Bytes)
    BY UnreadType
  <1>4. x \in Bytes
    BY <1>1, HeadTailProperties
  <1> HIDE DEF r
  <1>5. mouse_packet \o Append(r, x) = Append(mouse_packet \o r, x)
    <2> HIDE DEF x
    <2>1. /\ Append(r, x) = r \o <<x>> /\ <<x>> \in Seq(Bytes)
          /\ mouse_packet \o r \in Seq(Bytes)
      BY <1>1, <1>3, <1>4, AppendIsConcat, ConcatProperties
    <2>2. Append(mouse_packet \o r, x) = (mouse_packet \o r) \o <<x>>
      BY <1>4, <2>1, AppendIsConcat
    <2>3. (mouse_packet \o r) \o <<x>> = mouse_packet \o (r \o <<x>>)
      BY <1>1, <1>3, <2>1, ConcatAssociative
    <2> QED
      BY <2>1, <2>2, <2>3
  <1>6. Append(mouse_packet \o r, x) \o Tail(line) = (mouse_packet \o r) \o line
    <2> DEFINE q == mouse_packet \o r
    <2>1. q \in Seq(Bytes)
      BY <1>1, <1>3, ConcatProperties
    <2> HIDE DEF q
    <2>2. Append(q, Head(line)) \o Tail(line) = q \o line
      BY <1>1, <2>1, HandedOver
    <2> QED
      BY <2>2 DEF q
  <1>7. Unread' = (mouse_packet' \o InRing') \o line'
    BY DEF Unread
  <1>8. Unread' = Append(mouse_packet \o r, x) \o Tail(line)
    BY <1>1, <1>2, <1>5, <1>7
  <1>9. Unread = (mouse_packet \o r) \o line
    BY DEF Unread, r
  <1> QED
    BY <1>6, <1>8, <1>9

(* The bytes of the packets not taken, one by one.                         *)
LEMMA SentFirst ==
    ASSUME MouseValues, applied < Len(reports)
    PROVE  /\ reports[applied + 1] \in Packets
           /\ Sent(1) = reports[applied + 1][1]
           /\ Sent(2) = reports[applied + 1][2]
           /\ Sent(3) = reports[applied + 1][3]
           /\ <<Sent(1), Sent(2), Sent(3)>> = reports[applied + 1]
  <1>1. applied \in Nat /\ reports \in Seq(Packets) /\ Len(reports) \in Nat
    BY LenProperties DEF MouseValues
  <1>2. applied + 1 \in 1..Len(reports)
    BY <1>1
  <1>3. reports[applied + 1] \in Packets
    BY <1>1, <1>2, ElementOfSeq
  <1>4. /\ (1 - 1) \div 3 = 0 /\ (2 - 1) \div 3 = 0 /\ (3 - 1) \div 3 = 0
        /\ (1 - 1) % 3 = 0 /\ (2 - 1) % 3 = 1 /\ (3 - 1) % 3 = 2
    OBVIOUS
  <1>5. applied + 1 + 0 = applied + 1 /\ 1 + 0 = 1 /\ 1 + 1 = 2 /\ 1 + 2 = 3
    BY <1>1
  <1>6. /\ Sent(1) = reports[applied + 1][1]
        /\ Sent(2) = reports[applied + 1][2]
        /\ Sent(3) = reports[applied + 1][3]
    BY <1>4, <1>5 DEF Sent
  <1>7. reports[applied + 1] = <<reports[applied + 1][1], reports[applied + 1][2],
                                 reports[applied + 1][3]>>
    BY <1>3, MouseConstants
  <1> QED
    BY <1>3, <1>6, <1>7

(* A packet joins the bytes on their way.                                  *)
LEMMA ReportTracked ==
    ASSUME MouseValues, Unbroken, ~lost,
           NEW p \in Packets, DeviceReports(p)
    PROVE  Unbroken'
  <1> DEFINE n == Len(reports) - applied
             u == Unread
             v == Unread'
  <1>1. /\ line = <<>> /\ line' = p /\ reports' = Append(reports, p)
        /\ UNCHANGED <<mouse_buffer, mouse_head, mouse_tail, init, awaiting, mouse_packet,
                       mouse_x, mouse_y, mouse_left, mouse_right, limit, applied, pointer, lost>>
    BY DEF DeviceReports, ring, cursor
  <1>2. InRing' = InRing
    BY <1>1 DEF InRing
  <1>3. /\ p \in Seq(Bytes) /\ Len(p) = 3 /\ mouse_packet \in Seq(Bytes)
        /\ InRing \in Seq(Bytes) /\ u \in Seq(Bytes)
        /\ applied \in Nat /\ reports \in Seq(Packets) /\ awaiting \in Nat
    <2>1. p \in Seq(Bytes) /\ Len(p) = 3
      BY MouseConstants
    <2>2. InRing \in Seq(Bytes) /\ u \in Seq(Bytes)
      BY UnreadType
    <2>3. /\ mouse_packet \in Seq(Bytes) /\ applied \in Nat /\ reports \in Seq(Packets)
          /\ awaiting \in Nat
      BY DEF MouseValues, MouseTypeOK
    <2> HIDE DEF u
    <2> QED
      BY <2>1, <2>2, <2>3
  <1>4. v = u \o p
    <2> DEFINE r == InRing
               q == mouse_packet \o r
    <2>1. q \in Seq(Bytes)
      BY <1>3, ConcatProperties
    <2>2. u = q \o <<>> /\ v = q \o p
      BY <1>1, <1>2 DEF Unread
    <2> HIDE DEF q, r, u, v
    <2>3. q \o <<>> = q
      BY <2>1, ConcatEmptySeq
    <2> QED
      BY <2>2, <2>3
  <1>5. /\ cursor = pointer /\ applied <= Len(reports)
        /\ Len(u) = awaiting + 3 * n
        /\ \A k \in 1..(3 * n) : u[awaiting + k] = Sent(k)
    BY DEF Unbroken
  <1>6. n \in Nat /\ Len(reports) \in Nat
    BY <1>3, <1>5, LenProperties
  <1>7. Len(reports') = Len(reports) + 1 /\ reports'[Len(reports) + 1] = p
        /\ \A k \in 1..Len(reports) : reports'[k] = reports[k]
    BY <1>1, <1>3, AppendProperties
  <1>8. /\ Len(v) = Len(u) + 3
        /\ \A k \in 1..Len(u) : v[k] = u[k]
        /\ \A k \in 1..3 : v[Len(u) + k] = p[k]
    <2> HIDE DEF u, v
    <2>1. /\ Len(v) = Len(u) + Len(p) /\ Len(u) \in Nat
          /\ \A k \in 1..(Len(u) + Len(p)) : v[k] = IF k <= Len(u) THEN u[k] ELSE p[k - Len(u)]
      <3>1. u \in Seq(Bytes) /\ p \in Seq(Bytes)
        BY <1>3
      <3>2. Len(u) \in Nat
        BY <3>1, LenProperties
      <3> QED
        BY <1>4, <3>1, <3>2, ConcatProperties, Zenon
    <2>2. \A k \in 1..Len(u) : v[k] = u[k]
      BY <1>3, <2>1
    <2>3. ASSUME NEW k \in 1..3
          PROVE  v[Len(u) + k] = p[k]
      <3>1. /\ Len(u) + k \in 1..(Len(u) + Len(p)) /\ ~(Len(u) + k <= Len(u))
            /\ Len(u) + k - Len(u) = k
        BY <1>3, <2>1
      <3> QED
        BY <2>1, <3>1
    <2> QED
      BY <1>3, <2>1, <2>2, <2>3
  <1> HIDE DEF u, v, n
  <1>9. ASSUME NEW k \in 1..(3 * (n + 1))
        PROVE  v[awaiting + k] = Sent(k)'
    <2> DEFINE d == (k - 1) \div 3
               e == (k - 1) % 3
    <2>1. Sent(k)' = reports'[applied + 1 + d][1 + e]
      BY <1>1 DEF Sent
    <2>2. CASE k <= 3 * n
      <3>1. d \in 0..(n - 1)
        BY <1>6, <2>2
      <3>2. applied + 1 + d \in 1..Len(reports) /\ k \in 1..(3 * n) /\ awaiting + k \in 1..Len(u)
        <4> HIDE DEF d
        <4> QED
          BY <1>3, <1>5, <1>6, <2>2, <3>1 DEF n
      <3>3. Sent(k) = reports[applied + 1 + d][1 + e]
        BY DEF Sent
      <3> HIDE DEF d, e
      <3>4. Sent(k)' = Sent(k)
        BY <1>7, <2>1, <3>2, <3>3
      <3> QED
        BY <1>5, <1>8, <3>2, <3>4
    <2>3. CASE ~(k <= 3 * n)
      <3>1. k = 3 * n + 1 \/ k = 3 * n + 2 \/ k = 3 * n + 3
        BY <1>6, <2>3
      <3>2. d = n /\ e = k - 3 * n - 1
        BY <1>6, <3>1
      <3> DEFINE j == k - 3 * n
      <3>3. j \in 1..3 /\ 1 + e = j /\ awaiting + k = Len(u) + j
        <4> HIDE DEF d, e
        <4> QED
          BY <1>3, <1>5, <1>6, <3>1, <3>2
      <3>4. applied + 1 + d = Len(reports) + 1
        <4> HIDE DEF d
        <4> QED
          BY <1>3, <1>6, <3>2 DEF n
      <3> HIDE DEF d, e, j
      <3>5. Sent(k)' = p[j]
        BY <1>7, <2>1, <3>3, <3>4
      <3> QED
        BY <1>8, <3>3, <3>5
    <2> QED
      BY <2>2, <2>3
  <1>10. Len(reports') - applied' = n + 1
    BY <1>1, <1>3, <1>6, <1>7 DEF n
  <1>11. Len(v) = awaiting' + 3 * (n + 1) /\ applied' <= Len(reports')
    BY <1>1, <1>3, <1>5, <1>6, <1>7, <1>8
  <1>12. cursor' = pointer'
    BY <1>1, <1>5 DEF cursor
  <1> QED
    BY <1>1, <1>9, <1>10, <1>11, <1>12 DEF Unbroken, v

(* A step that moves no byte out of the row and takes no packet.           *)
LEMMA RowKept ==
    ASSUME Unbroken, ~lost, Unread' = Unread, UNCHANGED <<awaiting, reports, applied>>,
           cursor' = pointer'
    PROVE  Unbroken'
  <1>1. \A k \in 1..(3 * (Len(reports) - applied)) : Sent(k)' = Sent(k)
    BY DEF Sent
  <1> QED
    BY <1>1 DEF Unbroken

(* mouse_read_byte takes an answer, and a packet keeps its place.          *)
LEMMA AnswerTracked ==
    ASSUME MouseValues, MouseStarted, Unbroken, ~lost',
           mouse_read_byte
    PROVE  Unbroken'
  <1> DEFINE n == Len(reports) - applied
             r == InRing
             u == Unread
             v == Unread'
  <1>1. /\ Waiting /\ Take /\ ~lost /\ awaiting > 0 /\ awaiting' = awaiting - 1
        /\ mouse_packet = <<>> /\ applied = 0
        /\ UNCHANGED <<mouse_packet, mouse_x, mouse_y, mouse_left, mouse_right, line, reports,
                       applied, pointer>>
    BY DEF MouseStarted, mouse_read_byte, cursor
  <1>2. /\ r \in Seq(Bytes) /\ r # <<>> /\ InRing' = Tail(r)
    BY <1>1, RingTakes
  <1>3. /\ u \in Seq(Bytes) /\ line \in Seq(Bytes)
        /\ awaiting \in Nat /\ reports \in Seq(Packets) /\ Len(reports) \in Nat
    <2>1. u \in Seq(Bytes)
      BY UnreadType
    <2> HIDE DEF u
    <2> QED
      BY <2>1, LenProperties DEF MouseValues, MouseTypeOK
  <1>4. u = (<<>> \o r) \o line /\ v = (<<>> \o Tail(r)) \o line
    BY <1>1, <1>2 DEF Unread
  <1>5. /\ cursor = pointer /\ applied <= Len(reports)
        /\ Len(u) = awaiting + 3 * n
        /\ \A k \in 1..(3 * n) : u[awaiting + k] = Sent(k)
    BY <1>1 DEF Unbroken
  <1> HIDE DEF r, u, v
  <1>6. Tail(r) \in Seq(Bytes) /\ Len(Tail(r)) = Len(r) - 1 /\ Len(r) \in Nat
    BY <1>2, HeadTailProperties, LenProperties
  <1>7. u = r \o line /\ v = Tail(r) \o line
    <2>1. <<>> \o r = r /\ <<>> \o Tail(r) = Tail(r)
      BY <1>2, <1>6, ConcatEmptySeq
    <2> QED
      BY <1>4, <2>1
  <1>8. Len(v) = Len(u) - 1 /\ Len(u) \in Nat
        /\ \A k \in 1..Len(v) : v[k] = u[k + 1]
    BY <1>2, <1>3, <1>6, <1>7
  <1>9. ASSUME NEW k \in 1..(3 * n)
        PROVE  v[awaiting' + k] = Sent(k)'
    <2>1. n \in Nat
      BY <1>1, <1>3
    <2> HIDE DEF n
    <2>2. awaiting' + k \in 1..Len(v) /\ awaiting' + k + 1 = awaiting + k
      BY <1>1, <1>3, <1>5, <1>8, <2>1
    <2>3. Sent(k)' = Sent(k)
      BY <1>1 DEF Sent
    <2>4. v[awaiting' + k] = u[awaiting + k]
      BY <1>8, <2>2
    <2> QED
      BY <1>5, <2>3, <2>4
  <1>10. Len(v) = awaiting' + 3 * n
    <2>1. n \in Nat
      BY <1>1, <1>3
    <2> HIDE DEF n
    <2> QED
      BY <1>1, <1>3, <1>5, <1>8, <2>1
  <1>11. cursor' = pointer'
    BY <1>1, <1>5 DEF cursor
  <1>12. Len(reports') - applied' = n /\ applied' <= Len(reports')
    BY <1>1, <1>5
  <1> HIDE DEF n
  <1> QED
    BY <1>9, <1>10, <1>11, <1>12 DEF Unbroken, v

(* The answers to a command are all that is in the row.                    *)
LEMMA CommandTracked ==
    ASSUME MouseValues, MouseStarted, Unbroken, ~lost',
           mouse_init \/ next_command
    PROVE  Unbroken'
  <1>1. PICK c \in {"reset", "defaults", "enable"} : Command(c)
    BY DEF mouse_init, next_command
  <1> DEFINE a == Answers(c)
  <1>2. line' = line \o a /\ awaiting' = Len(a)
    BY <1>1 DEF Command
  <1>3. a \in Seq(Bytes) /\ Len(a) \in Nat
    BY AnswersType, LenProperties
  <1>4. /\ init \in {"off", "reset", "defaults"} /\ awaiting = 0 /\ ~lost
        /\ UNCHANGED <<mouse_packet, mouse_x, mouse_y, mouse_left, mouse_right, reports,
                       applied, pointer>>
    BY DEF MouseStarted, mouse_init, next_command, cursor
  <1>5. reports = <<>> /\ applied = 0 /\ mouse_packet = <<>>
    BY <1>4 DEF MouseStarted
  <1>6. Len(reports) = 0 /\ Len(mouse_packet) = 0
    BY <1>5
  <1>7. /\ InRing \in Seq(Bytes)
        /\ Len(Unread) = Len(mouse_packet) + Len(InRing) + Len(line)
        /\ mouse_head = mouse_tail => Len(InRing) = 0
    BY UnreadType
  <1>8. cursor = pointer /\ Len(Unread) = 0
    BY <1>4, <1>5, <1>6 DEF Unbroken
  <1>9. Len(InRing) = 0 /\ Len(line) = 0 /\ line \in Seq(Bytes)
    <2>1. Len(InRing) \in Nat /\ Len(line) \in Nat /\ line \in Seq(Bytes)
      BY <1>7, LenProperties DEF MouseValues
    <2> DEFINE x == Len(InRing)
               y == Len(line)
               z == Len(mouse_packet)
    <2>2. z + x + y = 0 /\ z = 0 /\ x \in Nat /\ y \in Nat
      BY <1>6, <1>7, <1>8, <2>1
    <2> HIDE DEF x, y, z
    <2>3. x = 0 /\ y = 0
      BY <2>2
    <2> QED
      BY <2>1, <2>3 DEF x, y
  <1> DEFINE q == InRing'
  <1>10. q \in Seq(Bytes) /\ Len(q) = 0
    <2>1. CASE mouse_init
      <3>1. /\ mouse_tail' = mouse_head /\ mouse_head' = mouse_head
            /\ mouse_buffer' = mouse_buffer
        BY <2>1 DEF mouse_init
      <3>2. q = RingOf(mouse_buffer, mouse_head, mouse_head)
        BY <3>1 DEF InRing, RingOf
      <3>3. mouse_buffer \in [Slots -> Bytes] /\ mouse_head \in Slots
        BY DEF MouseValues, MouseTypeOK
      <3>4. mouse_head >= mouse_head /\ mouse_head - mouse_head = 0
        BY <3>3, MouseConstants DEF Slots
      <3>5. HoldsRing(q, mouse_buffer, mouse_head, mouse_head)
        BY <3>2, <3>3, RingIs, Zenon
      <3> HIDE DEF q
      <3> QED
        BY <3>4, <3>5 DEF HoldsRing
    <2>2. CASE next_command
      <3>1. q = InRing
        BY <2>2 DEF next_command, ring, InRing
      <3> QED
        BY <1>7, <1>9, <3>1
    <2> QED
      BY <2>1, <2>2
  <1> HIDE DEF a, q
  <1>11. line' \in Seq(Bytes) /\ Len(line') = Len(a)
    BY <1>2, <1>3, <1>9, ConcatProperties
  <1>12. /\ (mouse_packet' \o q) \o line' \in Seq(Bytes)
         /\ Len((mouse_packet' \o q) \o line') = awaiting'
    <2>1. mouse_packet' \in Seq(Bytes) /\ Len(mouse_packet') = 0
      BY <1>4, <1>6 DEF MouseValues, MouseTypeOK
    <2>2. /\ mouse_packet' \o q \in Seq(Bytes) /\ Len(mouse_packet' \o q) = 0
      BY <1>10, <2>1, ConcatProperties
    <2> DEFINE w == mouse_packet' \o q
    <2>3. w \in Seq(Bytes) /\ Len(w) = 0
      BY <2>2
    <2> HIDE DEF w
    <2>4. w \o line' \in Seq(Bytes) /\ Len(w \o line') = awaiting'
      BY <1>2, <1>3, <1>11, <2>3, ConcatProperties
    <2> QED
      BY <2>4 DEF w
  <1>13. Len(Unread') = awaiting'
    BY <1>12 DEF Unread, q
  <1>14. cursor' = pointer'
    BY <1>4, <1>8 DEF cursor
  <1>15. Len(reports') = 0 /\ applied' = 0 /\ 3 * (0 - 0) = 0
    BY <1>4, <1>5, <1>6
  <1>16. 3 * (Len(reports') - applied') = 0 /\ applied' <= Len(reports')
    BY <1>15
  <1> DEFINE n == 3 * (Len(reports') - applied')
             u == Unread'
  <1>17. n = 0 /\ Len(u) = awaiting'
    BY <1>13, <1>16
  <1> HIDE DEF n, u
  <1>18. Len(u) = awaiting' + n /\ \A k \in 1..n : u[awaiting' + k] = Sent(k)'
    <2>1. awaiting' + 0 = awaiting'
      <3>1. awaiting' \in Nat
        BY <1>2, <1>3
      <3>2. \A i \in Nat : i + 0 = i
        OBVIOUS
      <3> QED
        BY <3>1, <3>2
    <2>2. \A k \in 1..0 : FALSE
      OBVIOUS
    <2> QED
      BY <1>17, <2>1, <2>2
  <1> QED
    BY <1>14, <1>16, <1>18 DEF Unbroken, n, u

(* A byte of mouse_poll: it is the oldest one that is not in the packet,   *)
(* never one to drop, and the third byte completes the packet that was     *)
(* sent.                                                                   *)
LEMMA PollTracked ==
    ASSUME StatusBytes, MouseValues, MouseStarted, Unbroken, ~lost',
           mouse_poll
    PROVE  Unbroken'
  <1> DEFINE n == Len(reports) - applied
             r == InRing
             b == c_mouse_read
             packet == Append(mouse_packet, b)
             moved == Moved(mouse_x, mouse_y, packet)
             u == Unread
             v == Unread'
             m == Len(mouse_packet)
  <1>1. /\ Waiting /\ Take /\ init = "on" /\ ~lost
        /\ UNCHANGED <<init, awaiting, limit, line, reports, lost>>
    BY DEF mouse_poll
  <1>2. awaiting = 0
    BY <1>1 DEF MouseStarted
  <1>3. r \in Seq(Bytes) /\ r # <<>> /\ b = Head(r) /\ InRing' = Tail(r)
    BY <1>1, RingTakes
  <1>4. /\ mouse_packet \in Seq(Bytes) /\ line \in Seq(Bytes) /\ m \in 0..2
        /\ reports \in Seq(Packets) /\ Len(reports) \in Nat /\ applied \in Nat
        /\ mouse_x \in Int /\ mouse_y \in Int
    <2>1. /\ mouse_packet \in Seq(Bytes) /\ line \in Seq(Bytes) /\ m < 3
          /\ reports \in Seq(Packets) /\ applied \in Nat /\ mouse_x \in Int /\ mouse_y \in Int
      BY DEF MouseValues, MouseTypeOK
    <2>2. m \in Nat /\ Len(reports) \in Nat
      BY <2>1, LenProperties
    <2> HIDE DEF m
    <2> QED
      BY <2>1, <2>2
  <1>5. /\ u \in Seq(Bytes) /\ Len(u) = m + Len(r) + Len(line)
    BY UnreadType
  <1>6. /\ cursor = pointer /\ applied <= Len(reports)
        /\ Len(u) = 3 * n
        /\ \A k \in 1..(3 * n) : u[k] = Sent(k)
    <2>1. /\ cursor = pointer /\ applied <= Len(reports)
          /\ Len(u) = 0 + 3 * n
          /\ \A k \in 1..(3 * n) : u[0 + k] = Sent(k)
      BY <1>1, <1>2 DEF Unbroken
    <2>2. n \in Nat
      BY <1>4, <2>1
    <2> HIDE DEF n, u
    <2>3. \A k \in 1..(3 * n) : 0 + k = k
      BY <2>2
    <2> QED
      BY <2>1, <2>2, <2>3
  <1>7. u = (mouse_packet \o r) \o line
    BY DEF Unread
  <1>8. v = (mouse_packet' \o Tail(r)) \o line
    BY <1>1, <1>3 DEF Unread
  <1>9. b \in Bytes /\ Tail(r) \in Seq(Bytes) /\ Len(Tail(r)) = Len(r) - 1
        /\ Len(r) \in Nat /\ Len(r) > 0 /\ Len(line) \in Nat
    <2> HIDE DEF r, b
    <2> QED
      BY <1>3, <1>4, HeadTailProperties, LenProperties, EmptySeq
  <1>10. n \in Nat
    BY <1>4, <1>6
  <1>11. \/ /\ mouse_packet = <<>> /\ ~Bit(b, 3)
         \/ /\ Len(packet) < 3 /\ mouse_packet' = packet
            /\ UNCHANGED <<mouse_x, mouse_y, mouse_left, mouse_right, applied, pointer>>
         \/ /\ ~(Len(packet) < 3) /\ mouse_packet' = <<>>
            /\ mouse_x' = moved[1] /\ mouse_y' = moved[2]
            /\ mouse_left' = moved[3] /\ mouse_right' = moved[4]
            /\ applied' = applied + 1
            /\ pointer' = IF applied < Len(reports)
                          THEN Moved(pointer[1], pointer[2], reports[applied + 1])
                          ELSE pointer
    BY DEF mouse_poll, cursor
  <1>12. /\ packet \in Seq(Bytes) /\ Len(packet) = m + 1
         /\ packet[m + 1] = b /\ \A k \in 1..m : packet[k] = mouse_packet[k]
    <2> HIDE DEF b
    <2> QED
      BY <1>4, <1>9, AppendProperties
  <1>13. (packet \o Tail(r)) \o line = u
    <2> HIDE DEF r, b, u
    <2>1. packet \o Tail(r) = mouse_packet \o r
      BY <1>3, <1>4, HandedOver
    <2> QED
      BY <1>7, <2>1
  <1>14. /\ \A k \in 1..Len(packet) : u[k] = packet[k]
         /\ \A k \in 1..(Len(Tail(r)) + Len(line)) : u[Len(packet) + k] = (Tail(r) \o line)[k]
    <2> HIDE DEF packet, r, u
    <2>1. Tail(r) \in Seq(Bytes) /\ line \in Seq(Bytes) /\ packet \in Seq(Bytes)
      BY <1>4, <1>9, <1>12
    <2> DEFINE t == Tail(r)
    <2>2. t \in Seq(Bytes)
      BY <2>1
    <2> HIDE DEF t
    <2>3. /\ \A k \in 1..Len(packet) : ((packet \o t) \o line)[k] = packet[k]
          /\ \A k \in 1..(Len(t) + Len(line)) : ((packet \o t) \o line)[Len(packet) + k] = (t \o line)[k]
      <3>1. ASSUME NEW p \in Seq(Bytes), NEW q \in Seq(Bytes),
                   NEW l \in Seq(Bytes)
            PROVE  /\ \A k \in 1..Len(p) : ((p \o q) \o l)[k] = p[k]
                   /\ \A k \in 1..(Len(q) + Len(l)) : ((p \o q) \o l)[Len(p) + k] = (q \o l)[k]
        BY JoinedThree
      <3> QED
        BY <2>1, <2>2, <3>1
    <2> QED
      BY <1>13, <2>3 DEF t
  <1>15. applied < Len(reports) /\ n > 0
    <2> HIDE DEF r, u
    <2>1. 3 * n > 0
      BY <1>4, <1>5, <1>6, <1>9
    <2>2. n > 0
      <3> HIDE DEF n
      <3> QED
        BY <1>10, <2>1
    <2> QED
      BY <1>4, <2>2
  <1>16. /\ reports[applied + 1] \in Packets
         /\ Sent(1) = reports[applied + 1][1]
         /\ <<Sent(1), Sent(2), Sent(3)>> = reports[applied + 1]
    BY <1>15, SentFirst
  <1> HIDE DEF n, r, b, packet, moved, u, v, m
  <1>17. ~(mouse_packet = <<>> /\ ~Bit(b, 3))
    <2> SUFFICES ASSUME mouse_packet = <<>>
                 PROVE  Bit(b, 3)
      OBVIOUS
    <2>1. m = 0
      BY DEF m
    <2>2. 1 \in 1..Len(packet) /\ packet[1] = b /\ 1 \in 1..(3 * n)
      BY <1>10, <1>12, <1>15, <2>1
    <2>3. b = reports[applied + 1][1]
      BY <1>6, <1>14, <1>16, <2>2
    <2> QED
      BY <1>16, <2>3 DEF StatusBytes
  <1>18. CASE Len(packet) < 3 /\ mouse_packet' = packet
              /\ UNCHANGED <<mouse_x, mouse_y, mouse_left, mouse_right, applied, pointer>>
    <2>1. v = u
      BY <1>8, <1>13, <1>18
    <2>2. cursor' = pointer'
      BY <1>6, <1>18 DEF cursor
    <2> QED
      BY <1>1, <1>18, <2>1, <2>2, RowKept DEF u, v
  <1>19. CASE /\ ~(Len(packet) < 3) /\ mouse_packet' = <<>>
              /\ mouse_x' = moved[1] /\ mouse_y' = moved[2]
              /\ mouse_left' = moved[3] /\ mouse_right' = moved[4]
              /\ applied' = applied + 1
              /\ pointer' = IF applied < Len(reports)
                            THEN Moved(pointer[1], pointer[2], reports[applied + 1])
                            ELSE pointer
    <2>1. Len(packet) = 3
      BY <1>4, <1>12, <1>19
    <2>2. packet = reports[applied + 1]
      <3>1. 1 \in 1..3 /\ 2 \in 1..3 /\ 3 \in 1..3
        OBVIOUS
      <3>2. 1 \in 1..(3 * n) /\ 2 \in 1..(3 * n) /\ 3 \in 1..(3 * n)
        BY <1>10, <1>15
      <3>3. packet[1] = Sent(1) /\ packet[2] = Sent(2) /\ packet[3] = Sent(3)
        BY <1>6, <1>14, <2>1, <3>1, <3>2
      <3>4. packet = <<packet[1], packet[2], packet[3]>>
        BY <1>12, <2>1, ThreeBytes
      <3> QED
        BY <1>16, <3>3, <3>4
    <2>3. pointer[1] = mouse_x /\ pointer[2] = mouse_y
      BY <1>6 DEF cursor
    <2>4. pointer' = moved
      BY <1>15, <1>19, <2>2, <2>3 DEF moved
    <2>5. moved = <<moved[1], moved[2], moved[3], moved[4]>>
      BY <1>4, <1>12, <2>1, MovedInside DEF moved
    <2>6. cursor' = pointer'
      BY <1>19, <2>4, <2>5 DEF cursor
    <2>7. v = Tail(r) \o line
      <3> DEFINE t == Tail(r)
      <3>1. t \in Seq(Bytes) /\ v = (<<>> \o t) \o line
        BY <1>8, <1>9, <1>19
      <3> HIDE DEF t
      <3>2. <<>> \o t = t
        BY <3>1, ConcatEmptySeq
      <3>3. v = t \o line
        BY <3>1, <3>2
      <3> QED
        BY <3>3 DEF t
    <2>8. Len(v) = Len(Tail(r)) + Len(line)
      BY <1>4, <1>9, <2>7, ConcatProperties
    <2>9. Len(v) = 3 * (n - 1)
      <3> DEFINE x == Len(r)
                 y == Len(line)
                 z == Len(v)
      <3>1. /\ x \in Nat /\ y \in Nat /\ m + 1 = 3 /\ m \in Nat
            /\ z = x - 1 + y /\ 3 * n = m + x + y
        <4>1. x \in Nat /\ y \in Nat /\ m \in Nat /\ m + 1 = 3
          <5>1. m \in 0..2
            BY <1>4
          <5>2. m \in Nat
            BY <5>1
          <5>3. m + 1 = 3
            BY <1>12, <2>1
          <5> QED
            BY <1>9, <5>2, <5>3
        <4>2. z = Len(Tail(r)) + y /\ Len(Tail(r)) = x - 1
          BY <1>9, <2>8
        <4>3. 3 * n = m + x + y
          BY <1>5, <1>6
        <4> HIDE DEF x, y, z
        <4> QED
          BY <4>1, <4>2, <4>3
      <3> HIDE DEF x, y, z
      <3>2. z = 3 * (n - 1)
        BY <1>10, <3>1
      <3> QED
        BY <3>2 DEF z
    <2>10. \A k \in 1..Len(v) : v[k] = u[3 + k]
      BY <1>14, <2>1, <2>7, <2>8
    <2>11. ASSUME NEW k \in 1..(3 * (n - 1))
           PROVE  v[k] = Sent(k)'
      <3>1. 3 + k \in 1..(3 * n) /\ k \in Nat
        BY <1>10
      <3>2. v[k] = Sent(3 + k)
        BY <1>6, <2>9, <2>10, <3>1
      <3>3. (3 + k - 1) \div 3 = 1 + ((k - 1) \div 3) /\ (3 + k - 1) % 3 = (k - 1) % 3
            /\ (k - 1) \div 3 \in Int
        BY <3>1
      <3> DEFINE d == (k - 1) \div 3
                 e == (k - 1) % 3
      <3>4. Sent(3 + k) = reports[applied + 1 + (1 + d)][1 + e]
        BY <3>3 DEF Sent
      <3>5. Sent(k)' = reports[applied + 1 + 1 + d][1 + e]
        BY <1>1, <1>19 DEF Sent
      <3>6. d \in Int
        BY <3>3
      <3> HIDE DEF d, e
      <3>7. applied + 1 + (1 + d) = applied + 1 + 1 + d
        BY <1>4, <3>6
      <3> QED
        BY <3>2, <3>4, <3>5, <3>7
    <2>12. Len(reports') - applied' = n - 1 /\ applied' <= Len(reports')
      BY <1>1, <1>4, <1>15, <1>19 DEF n
    <2>13. awaiting' = 0
      BY <1>1, <1>2
    <2> DEFINE w == 3 * (n - 1)
    <2>14. Len(v) = 0 + w /\ \A k \in 1..w : v[0 + k] = Sent(k)'
      <3>1. w \in Int
        BY <1>10
      <3>2. \A k \in 1..w : v[k] = Sent(k)'
        BY <2>11
      <3>3. Len(v) = w
        BY <2>9
      <3> HIDE DEF w
      <3>4. 0 + w = w /\ \A k \in 1..w : 0 + k = k
        BY <3>1
      <3> QED
        BY <3>2, <3>3, <3>4
    <2> QED
      BY <2>6, <2>12, <2>13, <2>14 DEF Unbroken, v
  <1> QED
    BY <1>11, <1>17, <1>18, <1>19

(* Before mouse_init nothing is on its way.                                *)
LEMMA UnbrokenInit ==
    ASSUME MouseInit
    PROVE  Unbroken
  <1>1. MouseValues
    BY MouseValuesInit
  <1>2. /\ Len(Unread) = Len(mouse_packet) + Len(InRing) + Len(line)
        /\ mouse_head = mouse_tail => Len(InRing) = 0
    BY <1>1, UnreadType
  <1>3. /\ mouse_head = mouse_tail /\ awaiting = 0 /\ applied = 0
        /\ Len(mouse_packet) = 0 /\ Len(line) = 0 /\ Len(reports) = 0
        /\ cursor = pointer
    BY DEF MouseInit, cursor
  <1> DEFINE u == Unread
  <1>4. Len(u) = 0
    BY <1>2, <1>3
  <1> HIDE DEF u
  <1>5. \A k \in 1..0 : FALSE
    OBVIOUS
  <1>6. 3 * (0 - 0) = 0 /\ 0 + 0 = 0 /\ 0 <= 0
    OBVIOUS
  <1> QED
    BY <1>3, <1>4, <1>5, <1>6 DEF Unbroken, u

(* Every step keeps the row of bytes whole.                                *)
LEMMA UnbrokenStep ==
    ASSUME StatusBytes, MouseValues, MouseStarted, Unbroken,
           [MouseNext]_mouse_vars
    PROVE  Unbroken'
  <1> SUFFICES ASSUME ~lost'
               PROVE  Unbroken'
    BY DEF Unbroken
  <1>1. ASSUME NEW p \in Packets, DeviceReports(p)
        PROVE  Unbroken'
    <2>1. ~lost
      BY <1>1 DEF DeviceReports
    <2> QED
      BY <1>1, <2>1, ReportTracked
  <1>2. CASE irq12
    <2>1. /\ ~lost /\ UNCHANGED <<awaiting, reports, applied, pointer, mouse_x, mouse_y,
                                  mouse_left, mouse_right>>
      BY <1>2 DEF irq12, cursor
    <2>2. Unread' = Unread
      BY <1>2, InterruptKeeps
    <2>3. cursor' = pointer'
      BY <2>1 DEF Unbroken, cursor
    <2> QED
      BY <2>1, <2>2, <2>3, RowKept
  <1>3. CASE mouse_init \/ next_command
    BY <1>3, CommandTracked
  <1>4. CASE mouse_read_byte
    BY <1>4, AnswerTracked
  <1>5. CASE init_done
    <2>1. /\ ~lost
          /\ UNCHANGED <<mouse_buffer, mouse_head, mouse_tail, awaiting, mouse_packet, mouse_left,
                         mouse_right, line, reports, applied>>
          /\ pointer' = <<mouse_x', mouse_y', mouse_left, mouse_right>>
      BY <1>5 DEF init_done, ring
    <2>2. Unread' = Unread
      BY <2>1 DEF Unread, InRing
    <2>3. cursor' = pointer'
      BY <2>1 DEF cursor
    <2> QED
      BY <2>1, <2>2, <2>3, RowKept
  <1>6. CASE mouse_poll
    BY <1>6, PollTracked
  <1>7. ASSUME NEW s \in WindowSizes, mouse_set_bounds(s)
        PROVE  Unbroken'
    <2>1. /\ ~lost
          /\ UNCHANGED <<mouse_buffer, mouse_head, mouse_tail, awaiting, mouse_packet, mouse_left,
                         mouse_right, line, reports, applied>>
          /\ mouse_x' = Clamp(mouse_x, s[1]) /\ mouse_y' = Clamp(mouse_y, s[2])
          /\ pointer' = [pointer EXCEPT ![1] = Clamp(@, s[1]), ![2] = Clamp(@, s[2])]
      BY <1>7 DEF mouse_set_bounds, ring
    <2>2. Unread' = Unread
      BY <2>1 DEF Unread, InRing
    <2>3. pointer = <<mouse_x, mouse_y, mouse_left, mouse_right>>
      BY <2>1 DEF Unbroken, cursor
    <2>4. pointer' = <<mouse_x', mouse_y', mouse_left, mouse_right>>
      BY <2>1, <2>3
    <2>5. cursor' = pointer'
      BY <2>1, <2>4 DEF cursor
    <2> QED
      BY <2>1, <2>2, <2>5, RowKept
  <1>8. CASE UNCHANGED mouse_vars
    <2>1. /\ ~lost
          /\ UNCHANGED <<mouse_buffer, mouse_head, mouse_tail, awaiting, mouse_packet, mouse_x,
                         mouse_y, mouse_left, mouse_right, line, reports, applied, pointer>>
      BY <1>8 DEF mouse_vars, ring, cursor
    <2>2. Unread' = Unread
      BY <2>1 DEF Unread, InRing
    <2>3. cursor' = pointer'
      BY <2>1 DEF Unbroken, cursor
    <2> QED
      BY <2>1, <2>2, <2>3, RowKept
  <1> QED
    BY <1>1, <1>2, <1>3, <1>4, <1>5, <1>6, <1>7, <1>8 DEF MouseNext

(* With no answer awaited the row is the packets not taken.                *)
LEMMA UnbrokenInStep ==
    ASSUME MouseValues, MouseStarted, Unbroken
    PROVE  InStep
  <1> SUFFICES ASSUME init = "on", ~lost
               PROVE  /\ cursor = pointer
                      /\ mouse_packet \o InRing \o line =
                           [k \in 1..(3 * (Len(reports) - applied)) |->
                              reports[applied + 1 + ((k - 1) \div 3)][1 + ((k - 1) % 3)]]
    BY DEF InStep
  <1> DEFINE n == 3 * (Len(reports) - applied)
             u == Unread
  <1>1. awaiting = 0
    BY DEF MouseStarted
  <1>2. u \in Seq(Bytes)
    BY UnreadType
  <1>3. /\ cursor = pointer /\ applied <= Len(reports)
        /\ Len(u) = 0 + n /\ \A k \in 1..n : u[0 + k] = Sent(k)
    BY <1>1 DEF Unbroken
  <1>4. n \in Nat
    <2>1. Len(reports) \in Nat /\ applied \in Nat
      BY LenProperties DEF MouseValues
    <2> QED
      BY <1>3, <2>1
  <1> HIDE DEF n, u
  <1>5. Len(u) = n /\ \A k \in 1..n : 0 + k = k
    BY <1>3, <1>4
  <1>6. \A k \in 1..n : u[k] = Sent(k)
    BY <1>3, <1>5
  <1>7. u = [k \in 1..n |-> u[k]]
    BY <1>2, <1>5
  <1>8. u = [k \in 1..n |-> Sent(k)]
    BY <1>6, <1>7
  <1> QED
    BY <1>3, <1>8 DEF u, n, Unread, Sent

(* Over any number of packets, interrupts and polls, and for a ring of any *)
(* size: while the ring has not overflowed and no answer came too late,    *)
(* mouse_poll puts every packet together from its own three bytes, takes   *)
(* each once and in order, and none is missing.                            *)
THEOREM MouseStepCorrect == StatusBytes => (MouseSpec => []InStep)
  <1> SUFFICES ASSUME StatusBytes
               PROVE  MouseSpec => []InStep
    OBVIOUS
  <1> DEFINE MInv == MouseValues /\ MouseStarted /\ Unbroken
  <1>1. MouseInit => MInv
    BY MouseValuesInit, UnbrokenInit
  <1>2. MInv /\ [MouseNext]_mouse_vars => MInv'
    BY MouseTypeStep, UnbrokenStep
  <1>3. MInv => InStep
    BY UnbrokenInStep
  <1> HIDE DEF MInv
  <1> QED
    BY <1>1, <1>2, <1>3, PTL DEF MouseSpec
=============================================================================

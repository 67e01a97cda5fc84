-------------------------------- MODULE Gui --------------------------------
(***************************************************************************)
(* The graphical programs (gui_apps.c, cmd_calc_gui in commands.c and      *)
(* gpu_driver_test in rust_driver_stubs.c) and the change between text and *)
(* graphics mode.                                                          *)
(*                                                                         *)
(* One program runs at a time.  CALC-GUI goes back to the shell; the       *)
(* others end by resetting the machine.  GUITEST first copies the text     *)
(* screen and its cursor to low memory, which a reset does not clear, and  *)
(* sets a flag behind them; the shell that starts after the reset looks at *)
(* the flag and puts the screen back.  The machine may be reset, or lose   *)
(* its power, at any step.                                                 *)
(*                                                                         *)
(* A pass of a program's loop takes a key and looks at the mouse; the two  *)
(* are separate actions, and a pass that has both is one after the other.  *)
(* Of what the programs draw only the text screen is kept.  ESC is not     *)
(* among the keys of SYSINFO and the file browser: both look for its scan  *)
(* code, and the keyboard handler stores 0 there for every key that has an *)
(* ASCII code.                                                             *)
(***************************************************************************)
EXTENDS Notepad, Calculator, Clock

CONSTANTS
    Screens,      \* texts the screen can show
    Cursors,      \* places of the cursor
    Nothing,      \* no text: after a reset or power loss, or in graphics mode
    MousePoints,  \* places the pointer can be at
    CalcChars,    \* keys CALC-GUI has buttons for
    FsCounts,     \* numbers of entries of fs_table
    InputMax      \* 35, characters of the input box of GUITEST

ASSUME GuiAssumption ==
    /\ Nothing \notin Screens \cup Cursors
    /\ Screens # {} /\ Cursors # {}
    /\ MousePoints \subseteq (0..319) \X (0..199)
    /\ FsCounts \subseteq Nat
    /\ InputMax \in Nat

VARIABLES
    app,           \* the program, or a step of saving and restoring the screen
    graphics,      \* in_graphics_mode
    screen, cursor_at,               \* the text screen and its cursor
    flag, backup, backup_cursor,     \* low memory
    before,        \* history: the screen and cursor GUITEST was started on
    gui_input_len,
    waiting,       \* the program polls until the left button is released
    paint_brush_size, paint_color,
    filebrowser_selected, filebrowser_scroll, fs_count

text == <<graphics, screen, cursor_at>>
lowmem == <<flag, backup, backup_cursor>>
paint == <<paint_brush_size, paint_color>>
filebrowser == <<filebrowser_selected, filebrowser_scroll, fs_count>>
programs == <<notepad, calculator, clock, gui_input_len, waiting, paint, filebrowser>>
vars == <<app, text, lowmem, before, programs>>

Programs == {"guitest", "notepad", "paint", "sysinfo", "filebrowser", "clock", "calc"}
SaveSteps == {"save_screen", "save_cursor", "save_flag"}
BootSteps == {"boot", "restore_screen", "restore_cursor", "restored"}

visible_items == 8

(* The selected entry of the file browser exists and is among the ones     *)
(* drawn or just below them: the list is a little higher than its eight    *)
(* rows, and a click there selects the ninth.                              *)
TypeOK ==
    /\ app \in Programs \cup SaveSteps \cup BootSteps \cup {"shell"}
    /\ graphics = (app \in Programs)
    /\ screen \in Screens \cup {Nothing} /\ cursor_at \in Cursors \cup {Nothing}
    /\ flag \in BOOLEAN
    /\ backup \in Screens \cup {Nothing} /\ backup_cursor \in Cursors \cup {Nothing}
    /\ before \in (Screens \cup {Nothing}) \X (Cursors \cup {Nothing})
    /\ gui_input_len \in 0..InputMax
    /\ waiting \in BOOLEAN
    /\ paint_brush_size \in 1..10 /\ paint_color \in 0..15
    /\ filebrowser_scroll \in 0..filebrowser_selected
    /\ filebrowser_selected \in 0..(filebrowser_scroll + visible_items)
    /\ filebrowser_selected < fs_count \/ filebrowser_selected = 0
    /\ NotepadTypeOK /\ CalcTypeOK /\ ClockTypeOK

Init ==
    /\ app = "boot" /\ graphics = FALSE
    /\ screen = Nothing /\ cursor_at = Nothing
    /\ flag = FALSE /\ backup = Nothing /\ backup_cursor = Nothing
    /\ before = <<Nothing, Nothing>>
    /\ gui_input_len = 0 /\ waiting = FALSE
    /\ paint_brush_size = 3 /\ paint_color = 15
    /\ filebrowser_selected = 0 /\ filebrowser_scroll = 0 /\ fs_count = 0
    /\ notepad_cleared
    /\ CalcInit
    /\ rtc = Registers(Zero) /\ tick = "no" /\ clock_pc = "key"
    /\ time = Zero /\ current_s = 0 /\ shown = Zero /\ frames = 0

-----------------------------------------------------------------------------
(* The machine.                                                            *)

(* A reset: the kernel is loaded again, low memory is kept.  The real-time *)
(* clock goes on, but only CLOCK reads it and takes any time when started. *)
sys_reboot ==
    /\ app' = "boot" /\ graphics' = FALSE
    /\ screen' = Nothing /\ cursor_at' = Nothing
    /\ gui_input_len' = 0 /\ waiting' = FALSE
    /\ paint_brush_size' = 3 /\ paint_color' = 15
    /\ filebrowser_selected' = 0 /\ filebrowser_scroll' = 0 /\ fs_count' = 0
    /\ notepad_clear /\ calc_start /\ clock_reset /\ rtc' = Registers(Zero)
    /\ UNCHANGED before

Reset == sys_reboot /\ UNCHANGED lowmem

PowerLoss ==
    /\ sys_reboot
    /\ flag' = FALSE /\ backup' = Nothing /\ backup_cursor' = Nothing

(* The picture goes over the memory of the text.                           *)
set_mode_13h == graphics' = TRUE /\ screen' = Nothing

gpu_setup_framebuffer == set_mode_13h /\ UNCHANGED cursor_at

(* The text screen is empty; what is printed next follows at once.         *)
set_text_mode == graphics' = FALSE /\ screen' \in Screens /\ cursor_at' \in Cursors

(* What the shell and its commands print.                                  *)
shell_prints ==
    /\ app = "shell"
    /\ screen' \in Screens /\ cursor_at' \in Cursors
    /\ UNCHANGED <<app, graphics, lowmem, before, programs>>

-----------------------------------------------------------------------------
(* GUITEST.                                                                *)

cmd_guitest ==
    /\ app = "shell"
    /\ app' = "save_screen"
    /\ before' = <<screen, cursor_at>>
    /\ UNCHANGED <<text, lowmem, programs>>

(* Mutation: the flag is set before the screen and the cursor are saved.   *)
save_text_screen_flag_first ==
    /\ \/ app = "save_screen" /\ flag' = TRUE /\ UNCHANGED <<backup, backup_cursor>>
       \/ app = "save_cursor" /\ backup' = screen /\ UNCHANGED <<flag, backup_cursor>>
       \/ app = "save_flag" /\ backup_cursor' = cursor_at /\ UNCHANGED <<flag, backup>>
    /\ app' = CASE app = "save_screen" -> "save_cursor"
                [] app = "save_cursor" -> "save_flag"
                [] app = "save_flag" -> "guitest"
    /\ IF app = "save_flag" THEN gpu_setup_framebuffer ELSE UNCHANGED text
    /\ UNCHANGED <<before, programs>>

(* save_text_screen, and gpu_setup_framebuffer after its last step.        *)
save_text_screen ==
    /\ \/ app = "save_screen" /\ backup' = screen /\ UNCHANGED <<flag, backup_cursor>>
       \/ app = "save_cursor" /\ backup_cursor' = cursor_at /\ UNCHANGED <<flag, backup>>
       \/ app = "save_flag" /\ flag' = TRUE /\ UNCHANGED <<backup, backup_cursor>>
    /\ app' = CASE app = "save_screen" -> "save_cursor"
                [] app = "save_cursor" -> "save_flag"
                [] app = "save_flag" -> "guitest"
    /\ IF app = "save_flag" THEN gpu_setup_framebuffer ELSE UNCHANGED text
    /\ UNCHANGED <<before, programs>>

(* Its input box: a character, Backspace, Enter.                           *)
guitest_key ==
    /\ app = "guitest"
    /\ \/ gui_input_len < InputMax /\ gui_input_len' = gui_input_len + 1
       \/ gui_input_len > 0 /\ gui_input_len' = gui_input_len - 1
       \/ gui_input_len' = 0
    /\ UNCHANGED <<app, text, lowmem, before, notepad, calculator, clock, waiting, paint,
                   filebrowser>>

-----------------------------------------------------------------------------
(* The shell after a reset.                                                *)

gui_check_and_restore_screen ==
    /\ \/ /\ app = "boot" /\ flag
          /\ flag' = FALSE
          /\ app' = "restore_screen" /\ UNCHANGED <<screen, cursor_at>>
       \/ /\ app = "restore_screen"
          /\ screen' = backup
          /\ app' = "restore_cursor" /\ UNCHANGED <<cursor_at, flag>>
       \/ /\ app = "restore_cursor"
          /\ cursor_at' = backup_cursor
          /\ app' = "restored" /\ UNCHANGED <<screen, flag>>
    /\ UNCHANGED <<graphics, backup, backup_cursor, before, programs>>

(* The newline after a restored screen, or the messages of a normal boot,  *)
(* and the prompt.                                                         *)
prompt_loop ==
    /\ app = "restored" \/ (app = "boot" /\ ~flag)
    /\ app' = "shell"
    /\ screen' \in Screens /\ cursor_at' \in Cursors
    /\ before' = <<Nothing, Nothing>>
    /\ UNCHANGED <<graphics, lowmem, programs>>

-----------------------------------------------------------------------------
(* The start of the other programs.                                        *)

start(p) == app = "shell" /\ app' = p /\ gpu_setup_framebuffer /\ UNCHANGED <<lowmem, before>>

gui_notepad ==
    /\ start("notepad")
    /\ notepad_clear
    /\ UNCHANGED <<calculator, clock, gui_input_len, waiting, paint, filebrowser>>

gui_paint == start("paint") /\ UNCHANGED programs

gui_sysinfo == start("sysinfo") /\ UNCHANGED programs

gui_filebrowser ==
    /\ start("filebrowser")
    /\ filebrowser_selected' = 0 /\ filebrowser_scroll' = 0 /\ fs_count' \in FsCounts
    /\ UNCHANGED <<notepad, calculator, clock, gui_input_len, waiting, paint>>

gui_clock ==
    /\ start("clock")
    /\ rtc' \in {Registers(t) : t \in Times}
    /\ UNCHANGED <<tick, program, notepad, calculator, gui_input_len, waiting, paint, filebrowser>>

cmd_calc_gui ==
    /\ start("calc")
    /\ calc_start
    /\ UNCHANGED <<notepad, clock, gui_input_len, waiting, paint, filebrowser>>

-----------------------------------------------------------------------------
(* Their ends.                                                             *)

Escape ==
    /\ \/ app \in {"guitest", "notepad", "paint"} /\ ~waiting
       \/ app = "clock" /\ clock_pc \in {"key", "wait"}
    /\ sys_reboot /\ UNCHANGED lowmem

(* CALC-GUI goes back to text mode, which clears the screen.               *)
gpu_disable_scanout ==
    /\ app = "calc" /\ ~trapped
    /\ app' = "shell" /\ set_text_mode
    /\ calc_start
    /\ UNCHANGED <<lowmem, before, notepad, clock, gui_input_len, waiting, paint, filebrowser>>

(* The close box, which is not in the same place everywhere.               *)
CloseBox ==
    [notepad     |-> [x : 300..319, y : 0..19],
     sysinfo     |-> [x : 282..295, y : 24..37],
     filebrowser |-> [x : 300..314, y : 10..24]]

close_click(p) ==
    /\ app \in DOMAIN CloseBox /\ ~waiting
    /\ [x |-> p[1], y |-> p[2]] \in CloseBox[app]
    /\ sys_reboot /\ UNCHANGED lowmem

-----------------------------------------------------------------------------
(* NOTEPAD.  Nothing is saved: the Save button shows a message.            *)

notepad_key ==
    /\ app = "notepad" /\ ~waiting
    /\ notepad_edit
    /\ UNCHANGED <<app, text, lowmem, before, calculator, clock, gui_input_len, waiting, paint,
                   filebrowser>>

save_click(p) ==
    /\ app = "notepad" /\ ~waiting
    /\ p[1] \in 4..43 /\ p[2] \in 19..36
    /\ waiting' = TRUE
    /\ UNCHANGED <<app, text, lowmem, before, notepad, calculator, clock, gui_input_len, paint,
                   filebrowser>>

mouse_release ==
    /\ waiting /\ waiting' = FALSE
    /\ UNCHANGED <<app, text, lowmem, before, notepad, calculator, clock, gui_input_len, paint,
                   filebrowser>>

-----------------------------------------------------------------------------
(* PAINT: the brush and its colour, an index of paint_palette.             *)

paint_size ==
    /\ app = "paint"
    /\ \/ paint_brush_size < 10 /\ paint_brush_size' = paint_brush_size + 1
       \/ paint_brush_size > 1 /\ paint_brush_size' = paint_brush_size - 1
    /\ UNCHANGED <<app, text, lowmem, before, notepad, calculator, clock, gui_input_len, waiting,
                   paint_color, filebrowser>>

(* Keys 1 to 8, or a click on the palette, of which only the first         *)
(* thirteen boxes are on the screen.                                       *)
PaletteBox(i) == (20 + i * 24)..(20 + i * 24 + 19)

paint_pick ==
    /\ app = "paint"
    /\ \/ paint_color' \in 0..7
       \/ \E p \in MousePoints, i \in 0..15 :
            p[2] >= 176 /\ p[1] \in PaletteBox(i) /\ paint_color' = i
    /\ UNCHANGED <<app, text, lowmem, before, notepad, calculator, clock, gui_input_len, waiting,
                   paint_brush_size, filebrowser>>

-----------------------------------------------------------------------------
(* The file browser: the list scrolls with the arrows.                     *)

filebrowser_up ==
    /\ filebrowser_selected > 0
    /\ filebrowser_selected' = filebrowser_selected - 1
    /\ filebrowser_scroll' = IF filebrowser_selected' < filebrowser_scroll
                             THEN filebrowser_selected' ELSE filebrowser_scroll

(* Mutation: the list scrolls one entry late.                              *)
filebrowser_down_late ==
    /\ filebrowser_selected < fs_count - 1
    /\ filebrowser_selected' = filebrowser_selected + 1
    /\ filebrowser_scroll' = IF filebrowser_selected' > filebrowser_scroll + visible_items + 1
                             THEN filebrowser_selected' - visible_items + 1
                             ELSE filebrowser_scroll

filebrowser_down ==
    /\ filebrowser_selected < fs_count - 1
    /\ filebrowser_selected' = filebrowser_selected + 1
    /\ filebrowser_scroll' = IF filebrowser_selected' >= filebrowser_scroll + visible_items
                             THEN filebrowser_selected' - visible_items + 1
                             ELSE filebrowser_scroll

filebrowser_key ==
    /\ app = "filebrowser" /\ ~waiting
    /\ filebrowser_up \/ filebrowser_down
    /\ UNCHANGED <<app, text, lowmem, before, notepad, calculator, clock, gui_input_len, waiting,
                   paint, fs_count>>

(* A click waits for the release wherever it was.                          *)
filebrowser_click(p) ==
    /\ app = "filebrowser" /\ ~waiting
    /\ [x |-> p[1], y |-> p[2]] \notin CloseBox.filebrowser
    /\ waiting' = TRUE
    /\ LET item == filebrowser_scroll + (p[2] - 36) \div 14
       IN  filebrowser_selected' =
             IF p[1] \in 16..303 /\ p[2] \in 36..155 /\ item < fs_count
             THEN item ELSE filebrowser_selected
    /\ UNCHANGED <<app, text, lowmem, before, notepad, calculator, clock, gui_input_len, paint,
                   filebrowser_scroll, fs_count>>

-----------------------------------------------------------------------------
(* CLOCK and CALC-GUI.                                                     *)

clock_runs ==
    /\ app = "clock"
    /\ clock_step \/ rtc_tick
    /\ UNCHANGED <<app, text, lowmem, before, notepad, calculator, gui_input_len, waiting, paint,
                   filebrowser>>

calc_input ==
    /\ app = "calc"
    /\ \/ \E p \in MousePoints, down \in BOOLEAN : calc_mouse(p, down)
       \/ \E c \in CalcChars : calc_char(c)
       \/ calc_enter
       \/ calc_arrow
    /\ UNCHANGED <<app, text, lowmem, before, notepad, clock, gui_input_len, waiting, paint,
                   filebrowser>>

-----------------------------------------------------------------------------
Next ==
    \/ Reset \/ PowerLoss
    \/ shell_prints
    \/ cmd_guitest \/ save_text_screen \/ guitest_key
    \/ gui_check_and_restore_screen \/ prompt_loop
    \/ gui_notepad \/ gui_paint \/ gui_sysinfo \/ gui_filebrowser \/ gui_clock \/ cmd_calc_gui
    \/ Escape \/ gpu_disable_scanout
    \/ \E p \in MousePoints : close_click(p) \/ save_click(p) \/ filebrowser_click(p)
    \/ notepad_key \/ mouse_release
    \/ paint_size \/ paint_pick
    \/ filebrowser_key
    \/ clock_runs
    \/ calc_input

Spec == Init /\ [][Next]_vars

-----------------------------------------------------------------------------
(* A screen that is put back after a reset is the one GUITEST was started  *)
(* on, with its cursor, however often the machine was reset while it was   *)
(* being saved or restored; and a later reset does not put it back again.  *)
(* save_text_screen sets the flag last, gui_check_and_restore_screen       *)
(* clears it first.                                                        *)
ScreenRestored ==
    /\ app = "restored" => <<screen, cursor_at>> = before
    /\ app \in {"shell", "restored"} \cup (Programs \ {"guitest"}) => ~flag
=============================================================================

-------------------------------- MODULE Shell --------------------------------
(***************************************************************************)
(* The prompt of src/shell.c: shell_main reads keys into a line buffer,    *)
(* echoes them, recalls earlier lines with the arrow keys and hands the    *)
(* line to cmd_dispatch.                                                   *)
(*                                                                         *)
(* The buffer keeps whatever was written into it until the next prompt     *)
(* clears it: rubbed-out characters stay behind pos.  A history row holds  *)
(* a line without the bytes behind its terminator, which nothing reads.    *)
(*                                                                         *)
(* putc (src/io.asm) goes on in the next row of the screen behind its last *)
(* column, but a backspace in the first column does nothing: of a line     *)
(* that has gone on to another row only the characters in the row of the   *)
(* cursor can be rubbed out.                                               *)
(***************************************************************************)
EXTENDS Integers, Sequences

CONSTANTS
    Letters,       \* printable characters other than the space
    Upper,         \* strupr of a character
    MAX_INPUT,     \* 256: size of the line buffer
    HISTORY_SIZE,  \* 20: rows of history
    ROWS, WIDTH,   \* 25 and 80: rows and columns of the screen
    PromptColumns, \* where the cursor is behind a prompt, the current directory and "> "
    MaxCommands    \* bound: lines dispatched in a behaviour

Space == " "
NUL == "NUL"
Chars == Letters \cup {Space}

ASSUME ShellAssumption ==
    /\ NUL \notin Chars
    /\ Upper \in [Chars -> Chars] /\ Upper[Space] = Space
    /\ MAX_INPUT \in Nat /\ MAX_INPUT > 1
    /\ HISTORY_SIZE \in Nat \ {0}
    /\ WIDTH \in Nat /\ WIDTH > 1 /\ PromptColumns \subseteq 0..(WIDTH - 1)
    /\ ROWS \in Nat /\ ROWS > 1 /\ MAX_INPUT <= (ROWS - 1) * WIDTH
    /\ MaxCommands \in Nat

VARIABLES
    line,         \* the buffer
    pos,          \* characters entered
    history,      \* recalled lines, its length is history_count
    history_pos,  \* row last recalled, starting at 0 as in the code
    shown,        \* what the screen shows behind the prompt, up to the cursor
    cursor_col,   \* column of the cursor
    ran           \* history: every line given to cmd_dispatch

screen == <<shown, cursor_col>>
shell_vars == <<line, pos, history, history_pos, screen, ran>>

EmptyLine == [i \in 1..MAX_INPUT |-> NUL]

(* The C string in the buffer.                                             *)
StringLength(l) ==
    IF \E i \in 1..MAX_INPUT : l[i] = NUL
    THEN (CHOOSE i \in 1..MAX_INPUT : l[i] = NUL /\ \A j \in 1..(i - 1) : l[j] # NUL) - 1
    ELSE MAX_INPUT
CString(l) == SubSeq(l, 1, StringLength(l))

(* str_trim: trailing blanks go.                                           *)
TrimmedLength(s) ==
    IF \E i \in 1..Len(s) : s[i] # Space
    THEN CHOOSE i \in 1..Len(s) : s[i] # Space /\ \A j \in (i + 1)..Len(s) : s[j] = Space
    ELSE 0
str_trim(s) == SubSeq(s, 1, TrimmedLength(s))
strupr(s) == [i \in 1..Len(s) |-> Upper[s[i]]]

-----------------------------------------------------------------------------
(* The last n characters are rubbed out, and putc prints those of s.  In   *)
(* the last row of the screen it scrolls, and the first one is lost.       *)
RubbedOut(n) == IF n <= cursor_col THEN n ELSE cursor_col

Above == (ROWS - 1) * WIDTH

Scrolled(s, col) ==
    IF Len(s) <= Above + col THEN s ELSE SubSeq(s, Len(s) - (Above + col) + 1, Len(s))

Echo(n, s) ==
    LET kept == SubSeq(shown, 1, Len(shown) - RubbedOut(n))
        col  == (cursor_col - RubbedOut(n) + Len(s)) % WIDTH
    IN  cursor_col' = col /\ shown' = Scrolled(kept \o s, col)

(* Mutation: no room is kept for the terminator.                           *)
type_key_unbounded(c) ==
    /\ pos < MAX_INPUT
    /\ line' = [line EXCEPT ![pos + 1] = c]
    /\ pos' = pos + 1
    /\ Echo(0, <<c>>)
    /\ UNCHANGED <<history, history_pos, ran>>

(* A printable key; a full buffer ignores it.                              *)
type_key(c) ==
    /\ pos < MAX_INPUT - 1
    /\ line' = [line EXCEPT ![pos + 1] = c]
    /\ pos' = pos + 1
    /\ Echo(0, <<c>>)
    /\ UNCHANGED <<history, history_pos, ran>>

(* Mutation: only pos moves back.                                          *)
backspace_silent ==
    /\ pos > 0
    /\ pos' = pos - 1
    /\ UNCHANGED <<line, history, history_pos, screen, ran>>

backspace ==
    /\ pos > 0
    /\ pos' = pos - 1
    /\ Echo(1, <<>>)
    /\ UNCHANGED <<line, history, history_pos, ran>>

(* As many characters as were entered are rubbed out and the row is copied *)
(* in.                                                                     *)
Recall(row) ==
    LET s == history[row + 1]
    IN  /\ history_pos' = row
        /\ line' = [i \in 1..MAX_INPUT |-> IF i <= Len(s) THEN s[i]
                                           ELSE IF i = Len(s) + 1 THEN NUL ELSE line[i]]
        /\ pos' = Len(s)
        /\ Echo(pos, s)
        /\ UNCHANGED <<history, ran>>

arrow_up ==
    /\ history # <<>>
    /\ Recall(IF history_pos > 0 THEN history_pos - 1 ELSE history_pos)

arrow_down ==
    /\ history # <<>> /\ history_pos < Len(history) - 1
    /\ Recall(history_pos + 1)

(* Mutation: the oldest row is not dropped.                                *)
Remember_first(s) ==
    IF Len(history) < HISTORY_SIZE THEN Append(history, s)
    ELSE [history EXCEPT ![HISTORY_SIZE] = s]

(* A full history drops its oldest row.                                    *)
Remember(s) ==
    IF Len(history) < HISTORY_SIZE THEN Append(history, s)
    ELSE Append(Tail(history), s)

(* The line is trimmed, remembered, put in upper case and dispatched; an   *)
(* empty line is not.  The next prompt clears the buffer.                  *)
Submit(l) ==
    LET s == str_trim(CString(l))
    IN  /\ Len(ran) < MaxCommands
        /\ IF s = <<>> THEN UNCHANGED <<history, history_pos, ran>>
           ELSE /\ history' = Remember(s)
                /\ history_pos' = Len(history')
                /\ ran' = Append(ran, strupr(s))
        /\ line' = EmptyLine
        /\ pos' = 0
        /\ shown' = <<>> /\ cursor_col' \in PromptColumns

(* Mutation: the line is not terminated at pos.                            *)
enter_unterminated == Submit(line)

enter == Submit([line EXCEPT ![pos + 1] = NUL])

(* Ctrl+C resets pos but leaves the buffer: what was typed is dispatched,  *)
(* rubbed-out characters included.                                         *)
ctrl_c == Submit(line)

-----------------------------------------------------------------------------
ShellInit ==
    /\ line = EmptyLine
    /\ pos = 0
    /\ history = <<>>
    /\ history_pos = 0
    /\ shown = <<>> /\ cursor_col \in PromptColumns
    /\ ran = <<>>

ShellNext ==
    \/ \E c \in Chars : type_key(c)
    \/ backspace \/ arrow_up \/ arrow_down \/ enter \/ ctrl_c

ShellSpec == ShellInit /\ [][ShellNext]_shell_vars

-----------------------------------------------------------------------------
(* Properties.                                                             *)

Lines == UNION {[1..n -> Chars] : n \in 0..(MAX_INPUT - 1)}

(* The cursor never leaves the buffer and always has room for the          *)
(* terminator; a recalled row exists.                                      *)
ShellTypeOK ==
    /\ line \in [1..MAX_INPUT -> Chars \cup {NUL}]
    /\ pos \in 0..(MAX_INPUT - 1)
    /\ history \in Seq(Lines) /\ Len(history) <= HISTORY_SIZE
    /\ history_pos \in 0..Len(history)
    /\ cursor_col \in 0..(WIDTH - 1)
    /\ shown \in Seq(Chars) /\ Len(shown) <= Above + cursor_col
    /\ ran \in Seq(Lines) /\ Len(ran) <= MaxCommands

(* The characters entered in the row of the cursor.                        *)
OnRow == IF cursor_col < Len(shown) THEN cursor_col ELSE Len(shown)

(* After any sequence of typing, rubbing out and recalling, the row of the *)
(* cursor shows the end of the line; and as long as no character was left  *)
(* standing in the row above, what is shown behind the prompt is the line. *)
LineMatchesScreen ==
    /\ OnRow <= pos /\ pos <= Len(shown)
    /\ \A i \in 0..(OnRow - 1) : shown[Len(shown) - i] = line[pos - i]
    /\ Len(shown) = pos => shown = SubSeq(line, 1, pos)

(* Enter runs the line, in upper case and without trailing blanks: nothing *)
(* rubbed out or left over from a longer recalled line gets into it.  What *)
(* runs is what is shown, unless a character was left standing.            *)
EnterRunsWhatIsShown ==
    [][enter => LET s == str_trim(IF Len(shown) = pos THEN shown ELSE SubSeq(line, 1, pos))
                IN  ran' = IF s = <<>> THEN ran ELSE Append(ran, strupr(s))]_shell_vars

(* The history is the last HISTORY_SIZE commands, oldest first, however    *)
(* often it has been recalled from and shifted.                            *)
HistoryIsRecent ==
    LET dropped == Len(ran) - Len(history)
    IN  /\ Len(ran) > Len(history) => Len(history) = HISTORY_SIZE
        /\ \A i \in 1..Len(history) : strupr(history[i]) = ran[dropped + i]
=============================================================================

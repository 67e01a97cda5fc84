---------------------------- MODULE Calculator -----------------------------
(***************************************************************************)
(* CALC-GUI (cmd_calc_gui in commands.c): the display is a string, the     *)
(* values are signed words.  A value is read from the display digit by     *)
(* digit and wraps; a result is written by int_to_str, which takes it for  *)
(* unsigned.  Built without optimisation the arithmetic wraps, and a       *)
(* quotient that has no signed word is a divide error, on which the        *)
(* exception handler halts the machine.                                    *)
(***************************************************************************)
EXTENDS Integers, Sequences, SequencesExt

CONSTANTS
    Word,        \* 2^32
    DisplayMax,  \* 10, characters that can be typed
    Buttons      \* "789/456*123-0.=+C"

ASSUME CalculatorAssumption ==
    /\ Word \in Nat /\ Word > 1 /\ Word % 2 = 0
    /\ DisplayMax \in Nat \ {0}
    /\ Buttons \in Seq(STRING)

VARIABLES
    display, stored_value, current_value, operation, new_number,
    selected,    \* <<selected_row, selected_col>>
    mouse_was_down,
    trapped      \* the divide error

calc == <<display, stored_value, current_value, operation, new_number>>
calculator == <<calc, selected, mouse_was_down, trapped>>

MinWord == -(Word \div 2)
Words == MinWord..(-MinWord - 1)
Wrap(n) == ((n - MinWord) % Word) + MinWord

Digits == <<"0", "1", "2", "3", "4", "5", "6", "7", "8", "9">>
DigitChars == Range(Digits)
DigitValue == [c \in DigitChars |-> (CHOOSE i \in 1..10 : Digits[i] = c) - 1]
Operators == {"+", "-", "*", "/"}
None == "none"

(* The digits of the display; anything else is skipped.                    *)
Parse(s) ==
    FoldLeft(LAMBDA v, c : IF c \in DigitChars THEN Wrap(v * 10 + DigitValue[c]) ELSE v, 0, s)

Decimal[n \in 0..(Word - 1)] ==
    IF n < 10 THEN <<Digits[n + 1]>> ELSE Append(Decimal[n \div 10], Digits[(n % 10) + 1])

(* Mutation: a result below zero is written without its sign.              *)
int_to_str_magnitude(n) == Decimal[IF n < 0 THEN -n ELSE n]

int_to_str(n) == Decimal[n % Word]

CalcInit ==
    /\ display = <<"0">> /\ stored_value = 0 /\ current_value = 0
    /\ operation = None /\ new_number = TRUE
    /\ selected = <<0, 0>> /\ mouse_was_down = FALSE /\ trapped = FALSE

calc_start ==
    /\ display' = <<"0">> /\ stored_value' = 0 /\ current_value' = 0
    /\ operation' = None /\ new_number' = TRUE
    /\ selected' = <<0, 0>> /\ mouse_was_down' = FALSE /\ trapped' = FALSE

CalcTypeOK ==
    /\ display \in Seq(DigitChars \cup {"."})
    /\ stored_value \in Words /\ current_value \in Words
    /\ operation \in Operators \cup {None}
    /\ new_number \in BOOLEAN
    /\ selected \in Nat \X (0..3)
    /\ mouse_was_down \in BOOLEAN /\ trapped \in BOOLEAN

-----------------------------------------------------------------------------
(* PROCESS_BUTTON, by button.                                              *)

press_clear ==
    /\ display' = <<"0">> /\ stored_value' = 0 /\ current_value' = 0
    /\ operation' = None /\ new_number' = TRUE
    /\ UNCHANGED trapped

press_digit(c) ==
    /\ \/ /\ new_number \/ display = <<"0">>
          /\ display' = <<c>> /\ new_number' = FALSE
       \/ /\ ~new_number /\ display # <<"0">>
          /\ display' = IF Len(display) < DisplayMax THEN Append(display, c) ELSE display
          /\ UNCHANGED new_number
    /\ UNCHANGED <<stored_value, current_value, operation, trapped>>

press_dot ==
    /\ display' = IF "." \notin Range(display) /\ Len(display) < DisplayMax
                  THEN Append(display, ".") ELSE display
    /\ UNCHANGED <<stored_value, current_value, operation, new_number, trapped>>

(* Division rounds toward zero.                                            *)
Quotient(a, b) ==
    LET abs(n) == IF n < 0 THEN -n ELSE n
        q == abs(a) \div abs(b)
    IN  IF (a < 0) = (b < 0) THEN q ELSE -q

Result(op, a, b) ==
    CASE op = "+" -> Wrap(a + b)
      [] op = "-" -> Wrap(a - b)
      [] op = "*" -> Wrap(a * b)
      [] op = "/" -> IF b # 0 THEN Quotient(a, b) ELSE b
      [] op = None -> b

(* The divide error: the quotient is not a word.                           *)
press_equals ==
    LET b == Parse(display)
        r == Result(operation, stored_value, b)
    IN  \/ /\ r \in Words
           /\ current_value' = r /\ display' = int_to_str(r)
           /\ operation' = None /\ new_number' = TRUE
           /\ UNCHANGED <<stored_value, trapped>>
        \/ /\ r \notin Words
           /\ trapped' = TRUE
           /\ UNCHANGED calc

press_operator(op) ==
    /\ current_value' = Parse(display)
    /\ stored_value' = current_value'
    /\ operation' = op /\ new_number' = TRUE
    /\ UNCHANGED <<display, trapped>>

process_button(c) ==
    \/ c = "C" /\ press_clear
    \/ c \in DigitChars /\ press_digit(c)
    \/ c = "." /\ press_dot
    \/ c = "=" /\ press_equals
    \/ c \in Operators /\ press_operator(c)

-----------------------------------------------------------------------------
(* The 320x200 layout: four columns of 35x22 buttons, 4 pixels apart.      *)
ButtonAt(i, p) ==
    LET x == 84 + ((i - 1) % 4) * 39
        y == 45 + ((i - 1) \div 4) * 26
    IN  p[1] \in x..(x + 34) /\ p[2] \in y..(y + 21)

(* A pass over the mouse: a button is pressed once per press of the mouse. *)
calc_mouse(p, down) ==
    /\ ~trapped
    /\ LET hit == {i \in DOMAIN Buttons : ButtonAt(i, p)}
       IN  \/ /\ down /\ ~mouse_was_down /\ hit # {}
              /\ \E i \in hit : process_button(Buttons[i])
           \/ /\ ~down \/ mouse_was_down \/ hit = {}
              /\ UNCHANGED <<calc, trapped>>
    /\ mouse_was_down' = down
    /\ UNCHANGED selected

(* A key that is a button.                                                 *)
calc_char(c) ==
    /\ ~trapped
    /\ process_button(c)
    /\ UNCHANGED <<selected, mouse_was_down>>

(* Enter presses the selected button; the last row is not full.            *)
calc_enter ==
    /\ ~trapped
    /\ LET i == selected[1] * 4 + selected[2] + 1
       IN  \/ i <= Len(Buttons) /\ process_button(Buttons[i])
           \/ i > Len(Buttons) /\ UNCHANGED <<calc, trapped>>
    /\ UNCHANGED <<selected, mouse_was_down>>

LastRow == (Len(Buttons) - 1) \div 4

calc_arrow ==
    /\ ~trapped
    /\ \/ selected[1] > 0 /\ selected' = [selected EXCEPT ![1] = @ - 1]
       \/ selected[1] < LastRow /\ selected' = [selected EXCEPT ![1] = @ + 1]
       \/ selected[2] > 0 /\ selected' = [selected EXCEPT ![2] = @ - 1]
       \/ selected[2] < 3 /\ selected' = [selected EXCEPT ![2] = @ + 1]
    /\ UNCHANGED <<calc, mouse_was_down, trapped>>

-----------------------------------------------------------------------------
(* The display stands for the value it came from, whatever its sign: an    *)
(* operator pressed next reads back the result that was computed.  And the *)
(* only operands that halt the machine are the smallest word and -1; a     *)
(* zero divisor does not.  PROCESS_BUTTON tests the divisor for 0 only.    *)
ResultsReadBack ==
    /\ new_number /\ ~trapped => Parse(display) = current_value
    /\ trapped => operation = "/" /\ stored_value = MinWord /\ Parse(display) = -1
=============================================================================

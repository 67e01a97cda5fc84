----------------------------- MODULE MCKeyboard -----------------------------
(***************************************************************************)
(* A keyboard with the keys A and C, Shift, Ctrl, Caps Lock and one arrow. *)
(***************************************************************************)
EXTENDS Keyboard

KeyA == 30

Plain == [c \in 0..127 |-> IF c = KeyA THEN 97 ELSE IF c = KeyC THEN 99 ELSE 0]
Shifted == [c \in 0..127 |-> IF c = KeyA THEN 65 ELSE IF c = KeyC THEN 67 ELSE 0]

Codes == {KeyA, KeyC, LShift, LShift + Break, Ctrl, Ctrl + Break, CapsLock, E0, 72}
=============================================================================

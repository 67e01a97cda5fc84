------------------------------- MODULE MCGui -------------------------------
(***************************************************************************)
(* A small instance of Gui.  The pointer is on a close box, the Save       *)
(* button, the first and the strip below the last row of the file list,    *)
(* the first and the last box of the palette, or two buttons of the        *)
(* calculator.  With words of four bits and two typed digits the           *)
(* calculator meets every wrap it meets with 32 bits and ten digits.       *)
(***************************************************************************)
EXTENDS Gui

CONSTANTS s1, s2, c1, c2

SomeScreens == {s1, s2}
SomeCursors == {c1, c2}
SomePoints == {<<305, 15>>, <<285, 30>>, <<20, 30>>, <<100, 40>>, <<100, 152>>, <<30, 185>>,
               <<310, 185>>, <<90, 50>>, <<205, 50>>}
SomeButtons == <<"1", "5", "/", "*", "=", "C">>
SomeChars == {"5", ".", "-", "+", "="}
Symmetry == Permutations(SomeScreens) \cup Permutations(SomeCursors)
=============================================================================

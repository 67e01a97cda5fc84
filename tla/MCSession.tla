----------------------------- MODULE MCSession -----------------------------
(***************************************************************************)
(* What runs between the keyboard and the devices: the prompt (Shell), the *)
(* memory of the commands (Session) and the heap (Heap).  They share no    *)
(* state: a behaviour of this instance exercises one of them, while the    *)
(* other two are in an initial state.                                      *)
(***************************************************************************)
EXTENDS Session, Shell, Heap

(* A keyboard with one letter in two cases.                                *)
UpperCase == [c \in Chars |-> IF c = "a" THEN "A" ELSE c]

MCInit == Init /\ ShellInit /\ HeapInit

MCNext ==
    \/ ShellInit /\ HeapInit /\ Next /\ UNCHANGED <<shell_vars, heap_vars>>
    \/ Init /\ HeapInit /\ ShellNext /\ UNCHANGED <<vars, heap_vars>>
    \/ Init /\ ShellInit /\ HeapNext /\ UNCHANGED <<vars, shell_vars>>

MCSpec == MCInit /\ [][MCNext]_<<vars, shell_vars, heap_vars>>
=============================================================================

------------------------------ MODULE MCMouse ------------------------------
(***************************************************************************)
(* A small instance of Mouse: a packet with the left button down, one that *)
(* moves the other way and one whose x overflowed; 255 and 8 have bit 3    *)
(* set and can be taken for the start of a packet.                         *)
(***************************************************************************)
EXTENDS Mouse

SomePackets == {<<9, 255, 1>>, <<8, 1, 255>>, <<74, 8, 0>>}
Small == <<2, 2>>
Windows == {<<1, 2>>}
=============================================================================

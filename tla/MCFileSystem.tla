---------------------------- MODULE MCFileSystem ----------------------------
(***************************************************************************)
(* Small instances of FileSystem.                                          *)
(***************************************************************************)
EXTENDS FileSystem

RelNames == {<<"A">>, <<"B">>}
OneRelName == {<<"A">>}
AbsNames == {<<"C:", "A">>, <<"C:", "B">>}
=============================================================================

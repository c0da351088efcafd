----------------------------- MODULE MCLibrary -----------------------------
(***************************************************************************)
(* Library with two threads and two fatal signals: the signals come to one *)
(* thread, the second inside the handler of the first, or one to each.     *)
(***************************************************************************)
EXTENDS Library
=============================================================================

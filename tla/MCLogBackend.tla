---- MODULE MCLogBackend ----
(***************************************************************************)
(* A small instance of LogBackend: two threads that log two lines each     *)
(* through a queue of two cells.                                           *)
(***************************************************************************)
EXTENDS LogBackend
=============================================================================

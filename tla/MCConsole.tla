------------------------------ MODULE MCConsole ------------------------------
(* Small instance of Console: two of each thing, and a few steps of each kind. *)
EXTENDS Console
=============================================================================

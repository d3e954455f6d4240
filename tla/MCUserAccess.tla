---------------------------- MODULE MCUserAccess ----------------------------
(* UserAccess on a small instance, for TLC. *)
EXTENDS UserAccess, TLC

Symmetry == Permutations(Workers)
=============================================================================

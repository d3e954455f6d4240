--------------------------- MODULE MCAccountSecurity ---------------------------
(* AccountSecurity for TLC.                                                     *)
EXTENDS AccountSecurity, TLC

Symmetric == Permutations(Workers) \cup Permutations(Browsers) \cup Permutations(Passwords \ {Initial})
================================================================================

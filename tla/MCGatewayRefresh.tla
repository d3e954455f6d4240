-------------------------- MODULE MCGatewayRefresh --------------------------
(* GatewayRefresh on a small instance, for TLC. *)
EXTENDS GatewayRefresh, TLC

Symmetry == Permutations(Tokens) \cup Permutations(Workers) \cup Permutations(Sessions)
=============================================================================

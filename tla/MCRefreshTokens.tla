-------------------------- MODULE MCRefreshTokens --------------------------
(* RefreshTokens on small instances, for TLC. *)
EXTENDS RefreshTokens, TLC

CONSTANTS c1, c2, u1, portal, rp

\* Two authorizations of one user, at the Portal itself and at another client.
TwoClientsUser == c1 :> u1 @@ c2 :> u1
TwoClientsClient == c1 :> portal @@ c2 :> rp

\* One authorization, for the runs about a single lineage of tokens.
OneCodeUser == c1 :> u1
OneCodeClient == c1 :> portal

Symmetry == Permutations(Tokens) \cup Permutations(Workers)
=============================================================================

--------------------------- MODULE GrantLifecycle ---------------------------
(***************************************************************************)
(* What the OIDC provider promises about one authorization grant (one      *)
(* authorization code and everything redeemed from it): it is redeemed at  *)
(* most once, from then on it has at most one live refresh token, each     *)
(* rotation hands that role to a token never used before, and a grant that *)
(* has lost its live token never gets another one.                         *)
(*                                                                         *)
(* The promise does not say that a sweep revokes every grant it was meant  *)
(* for: see UserSweepIsTotal in RefreshTokens.                             *)
(***************************************************************************)
CONSTANTS Grants, Tokens

VARIABLES
  stage,    \* stage[g] of each grant
  live,     \* live[g], the set of usable refresh tokens of g
  spent     \* the tokens that were usable once and are not any more

vars == <<stage, live, spent>>

Stage == {"unused", "redeemed", "active", "dead"}

TypeOK ==
  /\ stage \in [Grants -> Stage]
  /\ live \in [Grants -> SUBSET Tokens]
  /\ spent \subseteq Tokens

Init ==
  /\ stage = [g \in Grants |-> "unused"]
  /\ live = [g \in Grants |-> {}]
  /\ spent = {}

NeverUsed(t) ==
  /\ t \notin spent
  /\ \A g \in Grants : t \notin live[g]

Redeem(g) ==
  /\ stage[g] = "unused"
  /\ stage' = [stage EXCEPT ![g] = "redeemed"]
  /\ UNCHANGED <<live, spent>>

Issue(g, t) ==
  /\ stage[g] = "redeemed"
  /\ NeverUsed(t)
  /\ stage' = [stage EXCEPT ![g] = "active"]
  /\ live' = [live EXCEPT ![g] = {t}]
  /\ UNCHANGED spent

Rotate(g, t) ==
  /\ stage[g] = "active"
  /\ NeverUsed(t)
  /\ live' = [live EXCEPT ![g] = {t}]
  /\ spent' = spent \cup live[g]
  /\ UNCHANGED stage

Revoke(S) ==
  /\ S # {}
  /\ \A g \in S : stage[g] = "active"
  /\ stage' = [g \in Grants |-> IF g \in S THEN "dead" ELSE stage[g]]
  /\ live' = [g \in Grants |-> IF g \in S THEN {} ELSE live[g]]
  /\ spent' = spent \cup UNION {live[g] : g \in S}

Next ==
  \/ \E g \in Grants : Redeem(g)
  \/ \E g \in Grants, t \in Tokens : Issue(g, t) \/ Rotate(g, t)
  \/ \E S \in SUBSET Grants : Revoke(S)

Spec == Init /\ [][Next]_vars
=============================================================================

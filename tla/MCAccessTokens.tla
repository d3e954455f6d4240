--------------------------- MODULE MCAccessTokens ---------------------------
(***************************************************************************)
(* AccessTokens and Reads for TLC: who a token lets in, and what who is    *)
(* let in may read.  They share no variable, so that a behaviour is one of *)
(* either: the other stays at its start.                                   *)
(*                                                                         *)
(* AccessTokens has two clients whose tokens live for one and for two      *)
(* units of time.  Reads has an administrator and a clerk of one           *)
(* department, and a department below it; the clerk's only role is of the  *)
(* lower one, so that the clerk's own row is out of the clerk's reach.     *)
(***************************************************************************)
EXTENDS AccessTokens, Reads, TLC

CONSTANTS c1, c2, adm, clerk, staff, root, leaf

MixedTtl == (c1 :> 1) @@ (c2 :> 2)
Symmetry == Permutations(Jtis) \cup Permutations(Workers)

MCBelow == (root :> {root, leaf}) @@ (leaf :> {leaf})
MCGrants == (SuperAdmin :> {}) @@ (staff :> {"user:list", "user:read", "role:list"})
MCPortals ==
  {[person |-> [u \in Users |-> [dept |-> root, condition |-> "ACTIVE"]],
    holds |-> (adm :> {SuperAdmin}) @@ (clerk :> {staff}),
    post |-> (SuperAdmin :> [dept |-> root, active |-> TRUE])
             @@ (staff :> [dept |-> leaf, active |-> TRUE])]}

VARIABLE reading   \* whether the behaviour is one of Reads

MCInit == Init /\ ReadInit /\ reading \in BOOLEAN

TokensStep == ~reading /\ Next /\ UNCHANGED <<reading, readVars>>
ReadsStep == reading /\ ReadNext /\ UNCHANGED <<reading, vars>>

MCSpec == MCInit /\ [][TokensStep \/ ReadsStep]_<<reading, vars, readVars>>
=============================================================================

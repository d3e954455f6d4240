--------------------------- MODULE MCAdministration ---------------------------
(***************************************************************************)
(* An administrator, a manager and a clerk.  Directory: a root with two    *)
(* departments and an id for a third; the manager is in one department     *)
(* with two roles.  Permissions: a reserved code, a menu of the console, a *)
(* permission of the application and one it may add.                       *)
(***************************************************************************)
EXTENDS Administration, TLC

CONSTANTS root, d1, d2, d3, adm, mgr, clerk, team, staff, manage, menu, a1, a2

MCUsers == {adm, mgr, clerk}
MCRoles == {SuperAdmin, team, staff}

MCDepts == {root, d1, d2, d3}
MCCodes == [r \in MCRoles |-> IF r = staff THEN {"users"} ELSE {"users", "roles"}]
FreshRole == [dept |-> None, status |-> "fresh"]
StartDept ==
  [d \in MCDepts |->
     CASE d = root -> [parent |-> None, anc |-> <<>>, status |-> "ACTIVE"]
       [] d = d3 -> [parent |-> None, anc |-> <<>>, status |-> "fresh"]
       [] OTHER -> [parent |-> root, anc |-> <<root>>, status |-> "ACTIVE"]]
\* grown: whether the clerk and the second role are there already.
Home(grown) ==
  [dept |-> StartDept,
   user |-> [u \in MCUsers |->
      IF u = clerk /\ ~grown THEN [dept |-> None, status |-> "fresh", gone |-> FALSE]
      ELSE [dept |-> IF u = adm THEN root ELSE d1, status |-> "ACTIVE", gone |-> FALSE]],
   role |-> [r \in MCRoles |->
      IF r = staff /\ ~grown THEN FreshRole
      ELSE [dept |-> IF r = SuperAdmin THEN root ELSE d1, status |-> "ACTIVE"]],
   holds |-> (adm :> {SuperAdmin}) @@ (clerk :> {})
             @@ (mgr :> IF grown THEN {team, staff} ELSE {team})]
MCHomes == {Home(TRUE), Home(FALSE)}
MCAsks == {"keep", "DISABLED"}

MCPerms == {manage, menu, a1, a2}
MCTrees == {<< >>, manage :> None, a1 :> None, (a1 :> None) @@ (a2 :> a1)}
MCStart ==
  [perm |-> [p \in MCPerms |->
               [parent |-> None, status |-> IF p = a2 THEN "fresh" ELSE "ACTIVE",
                owner |-> IF p = a1 THEN App ELSE None]],
   grants |-> (SuperAdmin :> {manage, menu, a1}) @@ (team :> {manage, a1}) @@ (staff :> {a1}),
   holds |-> (adm :> {SuperAdmin}) @@ (mgr :> {team}) @@ (clerk :> {staff})]

Sym == Permutations(Workers)
=============================================================================

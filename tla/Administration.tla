---------------------------- MODULE Administration ----------------------------
(***************************************************************************)
(* What administrators do to the rows of the portal: departments, users,   *)
(* roles and bindings (Directory), permissions, registrations and the      *)
(* contexts computed from them (Permissions).  Each takes as fixed what    *)
(* the other one changes: Directory the codes of a role, Permissions the   *)
(* departments.  A behaviour works in one section, chosen at the start,    *)
(* while the other rests.                                                  *)
(***************************************************************************)
EXTENDS Directory, Permissions

VARIABLE section

vars == <<section, dirVars, permVars>>

-----------------------------------------------------------------------------
Init ==
  /\ section \in {"directory", "permissions"}
  /\ DirInit /\ (section # "directory" => user = (CHOOSE h \in Homes : TRUE).user)
  /\ PermInit

AtWork(s) == section = s /\ section' = s

DirStep == AtWork("directory") /\ DirNext /\ UNCHANGED permVars
PermStep == AtWork("permissions") /\ PermNext /\ UNCHANGED dirVars

Next == DirStep \/ PermStep

Spec == Init /\ [][Next]_vars

-----------------------------------------------------------------------------
\* A user keeps a role, but for the named exceptions
\* (user-role-assignment.ts): see Directory.
SomeRoleStays == [][KeepsSomeRole]_dirVars

\* Nobody gives codes that nobody had (role-permission-assignment.ts): see
\* Permissions.
CodesAreHandedDown == [][HandsCodesDown]_permVars
=============================================================================

----------------------------- MODULE PortalRows -----------------------------
(* What the modules about the rows of the portal's database have in common.  *)

CONSTANTS
  Workers,      \* transactions or requests in flight
  Users, Roles,
  SuperAdmin,   \* the system role
  None          \* SQL NULL

ASSUME RolesAssumption == SuperAdmin \in Roles /\ None \notin Users \cup Roles
=============================================================================

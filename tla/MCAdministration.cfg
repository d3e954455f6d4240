\* Histories of three transactions, or two requests, two at a time.
SPECIFICATION Spec
CONSTANTS
  root = root
  d1 = d1
  d2 = d2
  d3 = d3
  adm = adm
  mgr = mgr
  clerk = clerk
  team = team
  staff = staff
  manage = manage
  menu = menu
  a1 = a1
  a2 = a2
  None = None
  Keep = Keep
  SuperAdmin = SuperAdmin
  App = App
  Manage = manage
  Workers = {w1, w2}
  Users <- MCUsers
  Roles <- MCRoles
  Depts <- MCDepts
  Codes <- MCCodes
  Homes <- MCHomes
  Asks <- MCAsks
  Perms <- MCPerms
  Reserved = {manage}
  Trees <- MCTrees
  Start <- MCStart
  MaxWrites = 3
  MaxCommits = 2
SYMMETRY Sym
CHECK_DEADLOCK FALSE
INVARIANTS TreeIsSound RolesAreFromHome TreeIsAForest ContextsConverge
PROPERTIES SomeRoleStays CodesAreHandedDown

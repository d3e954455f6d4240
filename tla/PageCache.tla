------------------------------ MODULE PageCache ------------------------------
(***************************************************************************)
(* The read models the console's pages are rendered from ('use cache' in   *)
(* the data.ts files) and their invalidation after a write                 *)
(* (lib/cache-invalidation.ts).                                            *)
(*                                                                         *)
(* Data are abstracted to what a read model depends on: the tables a write *)
(* changes.  An entry is out of date in a table written since its query.   *)
(* A write commits, converges sessions and contexts, and then invalidates. *)
(* Read models do not interact, so that one of them is watched.  The cache *)
(* itself is external: an entry counts as filled when its query began, so  *)
(* that an invalidation in between discards it.                            *)
(***************************************************************************)
EXTENDS Naturals

CONSTANTS
  Handlers,      \* server actions and route handlers in flight
  MaxCommits     \* bound: commits

VARIABLES
  view,       \* the read model watched
  entry,      \* its entry, and the tables written since its query
  call,       \* call[h]: the handler's operation and where it is
  explained,  \* history: the tables in which the entry may be out of date
  commits     \* bound

cacheVars == <<view, entry, call, explained, commits>>

-----------------------------------------------------------------------------
Tables == {"users", "userRoles", "departments", "roles", "rolePermissions",
           "permissions", "clients", "refreshTokens"}
Absent == [phase |-> "absent", old |-> {}]
NoCall == [op |-> "none", pc |-> "idle"]

\* The rows a read model shows: those of its own table, and what it joins or
\* counts.
UsersRead == {"users", "departments", "userRoles"}
RolesRead == {"roles", "rolePermissions"}
ClientsRead == {"clients", "refreshTokens"}
PermissionsRead == {"permissions"}
DepartmentsRead == {"departments"}
OptionsRead == {"departments"}
ClientOptionsRead == {"clients"}     \* in the form of a permission
ClientCountsRead == {"clients"}      \* enabled and disabled
Reads == [users |-> UsersRead, deptOptions |-> OptionsRead, roles |-> RolesRead,
          clients |-> ClientsRead, clientOptions |-> ClientOptionsRead,
          clientCounts |-> ClientCountsRead, permissions |-> PermissionsRead,
          departments |-> DepartmentsRead]

\* Mutant: a resource invalidates its own read models only.
InvalidationOwnOnly ==
  [users |-> {"users"}, roles |-> {"roles"}, permissions |-> {"permissions"},
   departments |-> {"departments"}, clients |-> {"clients"}, profile |-> {}]

\* INVALIDATION: the read models whose tag a resource names.
Invalidation ==
  [users |-> {"users"}, roles |-> {"roles"}, permissions |-> {"permissions"},
   departments |-> {"departments", "deptOptions"},
   clients |-> {"clients", "clientOptions", "clientCounts", "permissions"},
   profile |-> {"users"}]

\* What an operation changes, with the cascades of the foreign keys; the
\* resource it invalidates; whether something that can throw comes between.
Op(changes, resource, converges) ==
  [changes |-> changes, resource |-> resource, converges |-> converges]
DepartmentOp == Op({"departments"}, "departments", FALSE)
RegisterOp == Op({"permissions"}, "permissions", FALSE)
Ops ==
  [editUser |-> Op({"users"}, "users", TRUE),
   assignRoles |-> Op({"userRoles"}, "users", TRUE),
   editProfile |-> Op({"users"}, "profile", FALSE),
   login |-> Op({"users"}, "none", FALSE),
   issueToken |-> Op({"refreshTokens"}, "none", FALSE),
   editRole |-> Op({"roles"}, "roles", TRUE),
   deleteRole |-> Op({"roles", "userRoles", "rolePermissions"}, "roles", TRUE),
   grant |-> Op({"rolePermissions"}, "roles", TRUE),
   editPermission |-> Op({"permissions"}, "permissions", TRUE),
   deletePermission |-> Op({"permissions", "rolePermissions"}, "permissions", TRUE),
   register |-> RegisterOp,
   editDepartment |-> DepartmentOp,
   editClient |-> Op({"clients"}, "clients", FALSE),
   deleteClient |-> Op({"clients", "permissions", "rolePermissions", "refreshTokens"},
                       "clients", FALSE),
   revokeTokens |-> Op({"refreshTokens"}, "clients", FALSE)]

\* What the code leaves out of date until cacheLife ends: names and counts a
\* list shows of rows that another resource's operation changes.
Gaps(op) ==
  CASE op = "editDepartment" -> {<<"users", "departments">>}
    [] op = "deleteRole" -> {<<"users", "userRoles">>}
    [] op = "login" -> {<<"users", "users">>}
    [] op = "issueToken" -> {<<"clients", "refreshTokens">>}
    [] op \in {"deletePermission", "deleteClient"} -> {<<"roles", "rolePermissions">>}
    [] OTHER -> {}

-----------------------------------------------------------------------------
CacheInit ==
  /\ view \in DOMAIN Reads
  /\ entry = Absent /\ call = [h \in Handlers |-> NoCall]
  /\ explained = {} /\ commits = 0

\* A page misses: the queries run, then the entry is stored (external).
BeginFill ==
  /\ entry.phase = "absent"
  /\ entry' = [phase |-> "filling", old |-> {}] /\ explained' = {}
  /\ UNCHANGED <<view, call, commits>>

Store ==
  /\ entry.phase = "filling" /\ entry' = [entry EXCEPT !.phase = "stored"]
  /\ UNCHANGED <<view, call, explained, commits>>

\* cacheLife ends (external).
Expire ==
  /\ entry.phase = "stored" /\ entry' = Absent
  /\ UNCHANGED <<view, call, explained, commits>>

Commit(h, op) ==
  /\ call[h].pc = "idle" /\ commits < MaxCommits
  /\ call' = [call EXCEPT ![h] = [op |-> op, pc |-> "committed"]]
  /\ entry' = IF entry.phase = "absent" THEN entry
              ELSE [entry EXCEPT !.old = @ \cup (Ops[op].changes \cap Reads[view])]
  /\ explained' = explained \cup {t \in Tables : <<view, t>> \in Gaps(op)}
  /\ commits' = commits + 1
  /\ UNCHANGED view

\* applyInvalidation: the tags of the resource expire, then the answer.
Invalidate(h) ==
  LET r == Ops[call[h].op].resource IN
  /\ call[h].pc = "committed"
  /\ entry' = IF r # "none" /\ view \in Invalidation[r] THEN Absent ELSE entry
  /\ call' = [call EXCEPT ![h] = NoCall]
  /\ UNCHANGED <<view, explained, commits>>

\* The convergence after the commit throws: the handler answers with an
\* error, and the entries stay.
Throw(h) ==
  /\ call[h].pc = "committed" /\ Ops[call[h].op].converges
  /\ call' = [call EXCEPT ![h] = NoCall]
  /\ explained' = explained \cup Ops[call[h].op].changes
  /\ UNCHANGED <<view, entry, commits>>

CacheNext ==
  \/ BeginFill \/ Store \/ Expire
  \/ \E h \in Handlers : (\E op \in DOMAIN Ops : Commit(h, op)) \/ Invalidate(h) \/ Throw(h)

-----------------------------------------------------------------------------
\* A page never shows rows that a finished write has changed, but for the
\* gaps named above and for a convergence that failed: whatever a write
\* changes, its resource names the tag of every read model that shows it
\* (cache-invalidation.ts), also when the page was being rendered.
CachedPagesAreCurrent ==
  \A t \in entry.old :
    \/ t \in explained
    \/ \E h \in Handlers : call[h].pc = "committed" /\ t \in Ops[call[h].op].changes
=============================================================================

----------------------------- MODULE Directory -----------------------------
(***************************************************************************)
(* Departments (a tree kept twice: parent links and materialized paths),   *)
(* the users and roles that belong to them, and the roles a user holds     *)
(* (departments, users and roles actions.ts, user-role-assignment.ts).     *)
(*                                                                         *)
(* A handler is one READ COMMITTED transaction: it loads the row and the   *)
(* operator's scope, makes its checks, and writes; another transaction may *)
(* commit between these steps.  Nothing locks what a check has read, so    *)
(* what the checks keep true they keep only while no relevant commit falls *)
(* inside a transaction: such a transaction is "crossed".                  *)
(* Permission codes of a role are fixed here; see Permissions.             *)
(***************************************************************************)
EXTENDS PortalRows, Naturals, FiniteSets, SequencesExt

CONSTANTS
  Depts,
  Keep,         \* a patch that leaves the department alone
  Codes,        \* Codes[r]: the active permission codes of role r
  Homes,        \* the rows to start with: a set of records, see DirInit
  Asks,         \* the statuses a patch asks for, or "keep"
  MaxWrites     \* bound: transactions that may commit

ASSUME DirectoryAssumption ==
  /\ None \notin Depts /\ Keep \notin Depts \cup {None}
  /\ IsFiniteSet(Depts) /\ MaxWrites \in Nat

Exists(r) == r.status \in {"ACTIVE", "DISABLED"}
PathOf(d, anc) == Append(anc, d)

DeptRows == [parent : Depts \cup {None}, anc : Seq(Depts),
             status : {"fresh", "ACTIVE", "DISABLED", "gone"}]
UserRows == [dept : Depts \cup {None}, gone : BOOLEAN,
             status : {"fresh", "ACTIVE", "DISABLED", "LOCKED", "DELETED"}]
RoleRows == [dept : Depts \cup {None}, status : {"fresh", "ACTIVE", "DISABLED", "gone"}]

\* The two forms of a tree agree: there is one root, and every other
\* department's path is its parent's path and the parent.
Sound(tree, root) ==
  \A d \in Depts :
    LET p == tree[d].parent IN
    /\ d = root <=> Exists(tree[d]) /\ p = None
    /\ Exists(tree[d]) =>
         IF p = None THEN tree[d].anc = <<>>
         ELSE Exists(tree[p]) /\ tree[d].anc = PathOf(p, tree[p].anc)

\* The database a behaviour starts with is in order: a sound tree, roles that
\* belong to departments and are held at home.
InOrder(h) ==
  /\ h.dept \in [Depts -> DeptRows] /\ h.user \in [Users -> UserRows]
  /\ h.role \in [Roles -> RoleRows] /\ h.holds \in [Users -> SUBSET Roles]
  /\ \E root \in Depts : Sound(h.dept, root)
  /\ \A r \in Roles : IF Exists(h.role[r])
                      THEN h.role[r].dept \in Depts /\ Exists(h.dept[h.role[r].dept])
                      ELSE h.role[r].dept = None
  /\ \A u \in Users :
       /\ h.user[u].status = "fresh" => h.holds[u] = {}
       /\ \A r \in h.holds[u] : Exists(h.role[r]) /\ h.role[r].dept = h.user[u].dept

ASSUME HomesAssumption ==
  /\ \A h \in Homes : InOrder(h)
  /\ Asks \subseteq {"keep", "ACTIVE", "DISABLED"}

VARIABLES
  dept,     \* departments: parent, ancestors (a path from the root), status
  user,     \* users: department, status, and whether deleted_at is set
  role,     \* roles: department, status
  holds,    \* user_roles: holds[u] is a set of roles
  req,      \* req[w]: the transaction of w
  excused,  \* history: what a crossed transaction may have broken
  writes    \* commits so far

dirVars == <<dept, user, role, holds, req, excused, writes>>

-----------------------------------------------------------------------------
\* A row: "fresh" is an id not used yet; a physical deletion leaves "gone".
NoRow == [dept |-> None, status |-> "fresh"]
Gone == [dept |-> None, status |-> "gone"]

Idle == [pc |-> "idle", op |-> "none", by |-> None, on |-> None, to |-> Keep,
         ask |-> "keep", set |-> {}, row |-> NoRow, anc |-> <<>>,
         path |-> <<>>, seen |-> {}, crossed |-> FALSE]

ActiveRoles(u) == {r \in holds[u] : role[r].status = "ACTIVE"}
CodesOf(u) == UNION {Codes[r] : r \in ActiveRoles(u)}
IsAdmin(u) == SuperAdmin \in ActiveRoles(u)

\* The departments of the operator's active roles with their subtrees, which
\* the paths tell.
Scope(o) ==
  {d \in Depts : /\ Exists(dept[d])
                 /\ \E r \in ActiveRoles(o) :
                      role[r].dept \in {d} \cup ToSet(dept[d].anc)}

Available(o) == user[o].status = "ACTIVE"
MayActOn(o, u) ==
  /\ Available(o)
  /\ ~IsAdmin(o) => ~IsAdmin(u) /\ CodesOf(u) \subseteq CodesOf(o)
MayChangeRole(o, r) ==
  Available(o) /\ (~IsAdmin(o) => Codes[r] \subseteq CodesOf(o))

Usable(d) == dept[d].status = "ACTIVE"

\* What validateNoCircularReference walks through, from d upwards: the least
\* set with d that the parent links do not leave.
Above(d) ==
  LET Closed(S) == \A x \in S : dept[x].parent \in S \cup {None}
  IN  {x \in Depts : \A S \in SUBSET Depts : d \in S /\ Closed(S) => x \in S}

Moves(h) == h.to \in Depts /\ h.to # h.row.dept
At(w, pc) == req[w].pc = pc
Become(w, r) == req' = [req EXCEPT ![w] = r]
InFlight == {w \in Workers : req[w].pc # "idle"}
Rows == <<dept, user, role, holds>>

DirInit ==
  /\ \E h \in Homes : /\ dept = h.dept /\ user = h.user
                      /\ role = h.role /\ holds = h.holds
  /\ req = [w \in Workers |-> Idle]
  /\ excused = {}
  /\ writes = 0

-----------------------------------------------------------------------------
(* Loading: the row and the scope of the operator o, which must hold the *)
(* row's department and the one it is to move to.                        *)

CanStart(w) == At(w, "idle") /\ writes + Cardinality(InFlight) < MaxWrites

Load(w, o, r) ==
  /\ Become(w, [r EXCEPT !.pc = "check", !.by = o])
  /\ UNCHANGED <<Rows, excused, writes>>

Unused(x) == \A w \in InFlight : req[w].on # x

LoadCreateDept(w, o) ==
  \E p \in Scope(o), d \in Depts :
    /\ Usable(p)
    /\ dept[d].status = "fresh" /\ Unused(d)
    /\ Load(w, o, [Idle EXCEPT !.op = "createDept", !.on = d, !.to = p])

\* The row of a department names its parent in the field dept.
LoadUpdateDept(w, o) ==
  \E d \in Scope(o), to \in Scope(o) \cup {Keep}, ask \in Asks :
    Load(w, o, [Idle EXCEPT !.op = "updateDept", !.on = d, !.to = to, !.ask = ask,
                  !.row = [dept |-> dept[d].parent, status |-> dept[d].status],
                  !.anc = dept[d].anc])

LoadDeleteDept(w, o) ==
  \E d \in Scope(o) : Load(w, o, [Idle EXCEPT !.op = "deleteDept", !.on = d])

LoadCreateUser(w, o) ==
  \E d \in Scope(o), u \in Users :
    /\ Usable(d)
    /\ user[u].status = "fresh" /\ Unused(u)
    /\ Load(w, o, [Idle EXCEPT !.op = "createUser", !.on = u, !.to = d])

Managed(o) == {u \in Users : user[u].status # "fresh" /\ user[u].dept \in Scope(o)}

\* A user without a department is judged by the one he is to get.
LoadUpdateUser(w, o) ==
  \E u \in Users, to \in Scope(o) \cup {Keep} :
    /\ u \in Managed(o) \/ (user[u].status # "fresh" /\ user[u].dept = None /\ to # Keep)
    /\ Load(w, o, [Idle EXCEPT !.op = "updateUser", !.on = u, !.to = to,
                     !.row = user[u]])

LoadDeleteUser(w, o) ==
  \E u \in Managed(o) \ {o} :
    Load(w, o, [Idle EXCEPT !.op = "deleteUser", !.on = u, !.row = user[u]])

LoadRestoreUser(w, o) ==
  \E u \in Managed(o) :
    /\ user[u].status = "DELETED"
    /\ Load(w, o, [Idle EXCEPT !.op = "restoreUser", !.on = u])

\* Roles to assign, or the role to remove: never one's own.
LoadAssign(w, o) ==
  \E u \in Managed(o) \ {o}, R \in (SUBSET Roles) \ {{}} :
    Load(w, o, [Idle EXCEPT !.op = "assign", !.on = u, !.set = R, !.row = user[u]])

LoadRemove(w, o) ==
  \E u \in Managed(o) \ {o}, r \in Roles :
    Load(w, o, [Idle EXCEPT !.op = "remove", !.on = u, !.set = {r}])

LoadCreateRole(w, o) ==
  \E d \in Scope(o), r \in Roles :
    /\ Usable(d)
    /\ role[r].status = "fresh" /\ Unused(r)
    /\ Load(w, o, [Idle EXCEPT !.op = "createRole", !.on = r, !.to = d])

Led(o) == {r \in Roles : role[r].dept \in Scope(o)}

LoadUpdateRole(w, o) ==
  \E r \in Led(o), to \in Scope(o) \cup {Keep}, ask \in Asks :
    Load(w, o, [Idle EXCEPT !.op = "updateRole", !.on = r, !.to = to, !.ask = ask,
                  !.row = role[r]])

LoadDeleteRole(w, o) ==
  \E r \in Led(o) : Load(w, o, [Idle EXCEPT !.op = "deleteRole", !.on = r])

-----------------------------------------------------------------------------
(* Checks inside the transaction *)

MayUpdateDept(h) ==
  /\ h.row.dept = None => h.ask # "DISABLED"
  /\ h.to # Keep => Usable(h.to)
  /\ Moves(h) => h.on \notin Above(h.to)

MayDeleteDept(h) ==
  /\ dept[h.on].parent # None
  /\ \A d \in Depts : dept[d].parent # h.on
  /\ \A u \in Users : user[u].dept = h.on => user[u].gone
  /\ \A r \in Roles : role[r].dept # h.on

\* Mutant: the roles bound to the user are not looked at.
MayUpdateUserBound(h) ==
  /\ MayActOn(h.by, h.on)
  /\ h.row.status # "DELETED"
  /\ Moves(h) => h.on # h.by /\ Usable(h.to)

MayUpdateUser(h) ==
  /\ MayActOn(h.by, h.on)
  /\ h.row.status # "DELETED"
  /\ Moves(h) => /\ h.on # h.by
                 /\ Usable(h.to)
                 /\ \A r \in holds[h.on] : role[r].dept = h.to

MayAssign(h) ==
  /\ MayActOn(h.by, h.on)
  /\ \A r \in h.set : role[r] = [dept |-> h.row.dept, status |-> "ACTIVE"]
  /\ ~IsAdmin(h.by) => /\ SuperAdmin \notin h.set
                       /\ UNION {Codes[r] : r \in h.set} \subseteq CodesOf(h.by)

\* Mutant: the last role may go.
MayRemoveLast(h) == MayActOn(h.by, h.on)

MayRemove(h) == MayActOn(h.by, h.on) /\ holds[h.on] # h.set

MayUpdateRole(h) ==
  /\ h.on # SuperAdmin
  /\ MayChangeRole(h.by, h.on)
  /\ Moves(h) => /\ Usable(h.to)
                 /\ \A u \in Users : h.on \in holds[u] => user[u].dept = h.to

MayDeleteRole(h) == h.on # SuperAdmin /\ MayChangeRole(h.by, h.on)

Passes(h) ==
  CASE h.op = "updateDept" -> MayUpdateDept(h)
    [] h.op = "deleteDept" -> MayDeleteDept(h)
    [] h.op = "updateUser" -> MayUpdateUser(h)
    [] h.op = "deleteUser" -> MayActOn(h.by, h.on) /\ h.row.status # "DELETED"
    [] h.op = "assign" -> MayAssign(h)
    [] h.op = "remove" -> MayRemove(h)
    [] h.op = "updateRole" -> MayUpdateRole(h)
    [] h.op = "deleteRole" -> MayDeleteRole(h)
    [] OTHER -> TRUE

\* The path of a new or moved department, as its parent's row has it now.
NewPath(h) ==
  IF h.op = "createDept" \/ (h.op = "updateDept" /\ Moves(h))
  THEN PathOf(h.to, dept[h.to].anc) ELSE h.anc

Check(w) ==
  /\ At(w, "check")
  /\ Passes(req[w])
  /\ Become(w, [req[w] EXCEPT !.pc = "write", !.path = NewPath(req[w]),
                  !.to = IF Moves(req[w]) THEN @ ELSE Keep,
                  !.row = IF req[w].op = "assign" THEN NoRow ELSE @])
  /\ UNCHANGED <<Rows, excused, writes>>

Refuse(w) ==
  /\ At(w, "check")
  /\ ~Passes(req[w])
  /\ Become(w, Idle)
  /\ UNCHANGED <<Rows, excused, writes>>
-----------------------------------------------------------------------------
(* Writes and commits *)

\* The kinds of commit that make what h has read outdated.
Conflicts(h) ==
  CASE h.op = "createDept" -> {"move", "deptGone"}
    [] h.op = "updateDept" -> IF Moves(h) THEN {"move", "deptGone"} ELSE {"move"}
    [] h.op = "deleteDept" -> {"move", "deptNew", "userDept", "role"}
    [] h.op = "updateUser" -> IF Moves(h) THEN {"userDept", "role", "bind"}
                              ELSE {"userDept"}
    [] h.op = "deleteUser" -> {"userDept"}
    [] h.op = "assign" -> {"userDept", "role", "bind"}
    [] h.op = "remove" -> {"bind", "roleGone", "deptGone"}
    [] h.op = "updateRole" -> IF Moves(h) THEN {"userDept", "role", "bind"}
                              ELSE {"role"}
    [] OTHER -> {}

Family(h) ==
  IF h.op \in {"createDept", "updateDept", "deleteDept"} THEN "tree" ELSE "home"

\* The transaction of w ends with a commit of this kind.
Commit(w, kind) ==
  /\ writes' = writes + 1
  /\ excused' = excused \cup (IF req[w].crossed THEN {Family(req[w])} ELSE {})
  /\ req' = [v \in Workers |->
               IF v = w THEN Idle
               ELSE [req[v] EXCEPT !.crossed = @ \/ kind \in Conflicts(req[v])]]

Writing(w, op) == At(w, "write") /\ req[w].op = op

WriteCreateDept(w) ==
  LET h == req[w] IN
  /\ Writing(w, "createDept")
  /\ dept' = [dept EXCEPT ![h.on] = [parent |-> h.to, anc |-> h.path, status |-> "ACTIVE"]]
  /\ Commit(w, "deptNew")
  /\ UNCHANGED <<user, role, holds>>

Asked(h) == IF h.ask = "keep" THEN h.row.status ELSE h.ask
Place(h) == IF h.to = Keep THEN h.row.dept ELSE h.to

\* Mutant: only the department itself gets a new path.
NotRebased(h, anc) == anc

\* A path that leads through the moved department begins anew.
Rebased(h, anc) ==
  LET old == PathOf(h.on, h.anc) IN
  IF Moves(h) /\ IsPrefix(old, anc)
  THEN PathOf(h.on, h.path) \o SubSeq(anc, Len(old) + 1, Len(anc))
  ELSE anc

\* The whole row is written back as it was loaded, patched; then the paths
\* below it change their beginning, if the department moved.
WriteUpdateDept(w) ==
  LET h == req[w]
      own == IF Exists(dept[h.on])
             THEN [dept EXCEPT ![h.on] = [parent |-> Place(h), anc |-> h.path, status |-> Asked(h)]]
             ELSE dept
  IN
  /\ Writing(w, "updateDept")
  /\ dept' = [d \in Depts |-> [own[d] EXCEPT !.anc = Rebased(h, @)]]
  /\ Commit(w, IF Moves(h) THEN "move" ELSE "none")
  /\ UNCHANGED <<user, role, holds>>

\* The foreign keys: users lose the department, its roles go with it.
WriteDeleteDept(w) ==
  LET d == req[w].on
      below == {r \in Roles : role[r].dept = d}
  IN
  /\ Writing(w, "deleteDept")
  /\ dept' = [dept EXCEPT ![d] = [parent |-> None, anc |-> <<>>, status |-> "gone"]]
  /\ user' = [u \in Users |-> IF user[u].dept = d THEN [user[u] EXCEPT !.dept = None] ELSE user[u]]
  /\ role' = [r \in Roles |-> IF r \in below THEN Gone ELSE role[r]]
  /\ holds' = [u \in Users |-> holds[u] \ below]
  /\ Commit(w, "deptGone")

\* A department that a foreign key would not find.
Refers(h) == h.op \in {"createUser", "updateUser", "deleteUser", "createRole", "updateRole"}
Dangling(h) ==
  \/ Refers(h) /\ Place(h) # None /\ ~Exists(dept[Place(h)])
  \/ h.op = "assign" /\ \E r \in h.set : ~Exists(role[r]) \/ r \in holds[h.on] \ h.seen

\* A violated key aborts the transaction.
Abort(w) ==
  /\ req[w].pc \in {"write", "insert"}
  /\ (req[w].op = "assign") = At(w, "insert")
  /\ Dangling(req[w])
  /\ Become(w, Idle)
  /\ UNCHANGED <<Rows, excused, writes>>

WriteUser(w) ==
  LET h == req[w]
      next == CASE h.op = "deleteUser" -> [h.row EXCEPT !.status = "DELETED", !.gone = TRUE]
                [] h.op = "updateUser" -> [h.row EXCEPT !.dept = Place(h)]
                [] h.op = "createUser" -> [dept |-> h.to, status |-> "ACTIVE", gone |-> FALSE]
  IN
  /\ At(w, "write") /\ h.op \in {"createUser", "updateUser", "deleteUser"}
  /\ ~Dangling(h)
  /\ user' = [user EXCEPT ![h.on] = next]
  /\ Commit(w, IF next.dept = user[h.on].dept THEN "none" ELSE "userDept")
  /\ UNCHANGED <<dept, role, holds>>

\* Only the status is written: deleted_at stays.
WriteRestoreUser(w) ==
  /\ Writing(w, "restoreUser")
  /\ user' = [user EXCEPT ![req[w].on].status = "ACTIVE"]
  /\ Commit(w, "none")
  /\ UNCHANGED <<dept, role, holds>>

\* DELETE of all the rows its snapshot shows; another assignment may insert
\* rows before this one does.
AssignDeletes(w) ==
  /\ Writing(w, "assign")
  /\ Become(w, [req[w] EXCEPT !.pc = "insert", !.seen = holds[req[w].on]])
  /\ UNCHANGED <<Rows, excused, writes>>

AssignInserts(w) ==
  LET h == req[w] IN
  /\ At(w, "insert")
  /\ ~Dangling(h)
  /\ holds' = [holds EXCEPT ![h.on] = (@ \ h.seen) \cup h.set]
  /\ Commit(w, "bind")
  /\ UNCHANGED <<dept, user, role>>

WriteRemove(w) ==
  LET h == req[w] IN
  /\ Writing(w, "remove")
  /\ holds' = [holds EXCEPT ![h.on] = @ \ h.set]
  /\ Commit(w, "bind")
  /\ UNCHANGED <<dept, user, role>>

WriteRole(w) ==
  LET h == req[w]
      next == IF h.op = "createRole" THEN [dept |-> h.to, status |-> "ACTIVE"]
              ELSE [dept |-> Place(h), status |-> Asked(h)]
      there == h.op = "createRole" \/ Exists(role[h.on])
  IN
  /\ At(w, "write") /\ h.op \in {"createRole", "updateRole"}
  /\ there => ~Dangling(h)
  /\ role' = IF there THEN [role EXCEPT ![h.on] = next] ELSE role
  /\ Commit(w, IF there /\ next # role[h.on] THEN "role" ELSE "none")
  /\ UNCHANGED <<dept, user, holds>>

WriteDeleteRole(w) ==
  LET r == req[w].on IN
  /\ Writing(w, "deleteRole")
  /\ role' = [role EXCEPT ![r] = Gone]
  /\ holds' = [u \in Users |-> holds[u] \ {r}]
  /\ Commit(w, "roleGone")
  /\ UNCHANGED <<dept, user>>

-----------------------------------------------------------------------------
LoadAny(w, o) ==
  \/ LoadCreateDept(w, o) \/ LoadUpdateDept(w, o) \/ LoadDeleteDept(w, o)
  \/ LoadCreateUser(w, o) \/ LoadUpdateUser(w, o) \/ LoadDeleteUser(w, o)
  \/ LoadRestoreUser(w, o) \/ LoadAssign(w, o) \/ LoadRemove(w, o)
  \/ LoadCreateRole(w, o) \/ LoadUpdateRole(w, o) \/ LoadDeleteRole(w, o)

WriteAny(w) ==
  \/ WriteCreateDept(w) \/ WriteUpdateDept(w) \/ WriteDeleteDept(w)
  \/ WriteUser(w) \/ WriteRestoreUser(w)
  \/ AssignDeletes(w) \/ AssignInserts(w) \/ WriteRemove(w)
  \/ WriteRole(w) \/ WriteDeleteRole(w)

DirNext == \E w \in Workers : 
  \/ CanStart(w) /\ \E o \in Users : LoadAny(w, o)
  \/ Check(w) \/ Refuse(w) \/ Abort(w) \/ WriteAny(w)

DirSpec == DirInit /\ [][DirNext]_dirVars

-----------------------------------------------------------------------------
(* Properties *)

\* Unless a transaction on departments was crossed by a move, a creation or a
\* deletion, the two forms of the tree agree: every department but the one
\* root has an existing parent, its path is its parent's path and the parent,
\* and so following parents ends at the root (departments/actions.ts keeps
\* the path by REPLACE and never computes it again).
TreeIsSound ==
  "tree" \in excused \/
  /\ Cardinality({d \in Depts : Exists(dept[d]) /\ dept[d].parent = None}) = 1
  /\ \A d \in Depts :
       LET p == dept[d].parent IN
       Exists(dept[d]) /\ p # None =>
         Exists(dept[p]) /\ dept[d].anc = PathOf(p, dept[p].anc)

\* Unless crossed, a user holds only roles of the user's own department,
\* whichever of the user, the role and the binding moves
\* (users/actions.ts:307, roles/actions.ts:139, validateRoleAssignment).
RolesAreFromHome ==
  "home" \in excused \/ \A u \in Users : \A r \in holds[u] : role[r].dept = user[u].dept

Commits(w) == req[w].pc \in {"write", "insert"} /\ req'[w].pc = "idle" /\ writes' # writes

\* Step of: a user who holds a role goes on holding one, unless a role is
\* deleted or a removal was crossed by another (user-role-assignment.ts:252).
KeepsSomeRole ==
  \A u \in Users :
    holds[u] # {} /\ holds'[u] = {} =>
      \E w \in Workers :
        Commits(w) /\ (req[w].op \in {"deleteRole", "deleteDept"} \/ req[w].crossed)
=============================================================================

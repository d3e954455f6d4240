---------------------------- MODULE Permissions ----------------------------
(***************************************************************************)
(* The permission tree, the registration of an application's permissions,  *)
(* the permissions of roles, and the permission contexts of the users that *)
(* a change must reach (permissions/actions.ts, permissions/register,      *)
(* role-permission-assignment.ts, authorization-effects.ts).               *)
(*                                                                         *)
(* Handlers are READ COMMITTED transactions as in Directory, followed by   *)
(* the refresh of the contexts of the users they take to be affected.      *)
(* Scopes and departments are in Directory, the steps of a refresh in      *)
(* UserAccess, the revocation that precedes it in AccessTokens.            *)
(***************************************************************************)
EXTENDS PortalRows, Naturals, FiniteSets

CONSTANTS
  Perms,        \* permissions, one per code
  Reserved,     \* the codes the program itself refers to
  Manage,       \* the reserved code that opens these operations
  App,          \* an application that registers its permissions
  Trees,        \* what it may report: functions from codes to parents
  Start,        \* the rows at the start: perm, grants, holds
  MaxCommits    \* bound: requests that may commit

CodeRows == [parent : Perms \cup {None}, status : {"fresh", "ACTIVE", "DISABLED", "gone"},
             owner : {None, App}]

\* Parents exist, and no permissions hang below each other in a circle.
Forest(up) ==
  /\ \A p \in DOMAIN up : up[p] \in DOMAIN up \cup {None}
  /\ \A S \in (SUBSET (DOMAIN up)) \ {{}} : \E p \in S : up[p] \notin S

ASSUME PermissionsAssumption ==
  /\ None \notin Perms \cup {App} /\ Reserved \subseteq Perms /\ Manage \in Reserved
  /\ IsFiniteSet(Perms) /\ MaxCommits \in Nat

\* An application reports nested lists, in which no code comes twice.
ASSUME TreesAssumption == \A t \in Trees : DOMAIN t \subseteq Perms /\ Forest(t)

\* The rows a behaviour starts with are in order, the reserved ones are there
\* and of the portal.
ASSUME StartAssumption ==
  LET there == {p \in Perms : Start.perm[p].status \in {"ACTIVE", "DISABLED"}} IN
  /\ Start.perm \in [Perms -> CodeRows] /\ Start.holds \in [Users -> SUBSET Roles]
  /\ Start.grants \in [Roles -> SUBSET there]
  /\ Forest([p \in there |-> Start.perm[p].parent])
  /\ \A p \in Reserved : p \in there /\ Start.perm[p].owner # App

VARIABLES
  perm,     \* permissions: parent, status, client (App or another)
  grants,   \* role_permissions: grants[r] is a set of permissions
  bound,    \* user_roles: bound[u] is a set of roles
  context,  \* context[u]: the codes of the cached permission context of u
  call,     \* call[w]: the request of w
  pardoned, \* history: what a crossed request, or a registration, may explain
  commits   \* commits so far

permVars == <<perm, grants, bound, context, call, pardoned, commits>>

-----------------------------------------------------------------------------
\* A row; an id is not used again: a deleted permission stays "gone".
NoPerm == [parent |-> None, status |-> "fresh", owner |-> None]
GonePerm == [NoPerm EXCEPT !.status = "gone"]

NoRequest == [pc |-> "idle", op |-> "none", by |-> None, on |-> None, old |-> NoPerm,
         row |-> NoPerm, set |-> {}, seen |-> {}, tree |-> << >>, snap |-> << >>,
         due |-> {}, crossed |-> {}]

IsThere(p) == perm[p].status \in {"ACTIVE", "DISABLED"}
Present == {p \in Perms : IsThere(p)}
Active == {p \in Perms : perm[p].status = "ACTIVE"}
Effective(u) == Active \cap UNION {grants[r] : r \in bound[u]}
Administers(u) == SuperAdmin \in bound[u]
Holders(R) == {u \in Users : bound[u] \cap R # {}}

\* assertCanMutateRoleTarget
MayRegrant(o, r) == Administers(o) \/ grants[r] \cap Active \subseteq Effective(o)

\* The permission and what hangs below it, as the recursive queries find it.
Subtree(p) ==
  LET Closed(S) == \A x \in Present : perm[x].parent \in S => x \in S
  IN  {x \in Perms : \A S \in SUBSET Perms : p \in S /\ Closed(S) => x \in S}

AtStep(w, pc) == call[w].pc = pc
SetRequest(w, r) == call' = [call EXCEPT ![w] = r]
UnderWay == {w \in Workers : ~AtStep(w, "idle")}
PermRows == <<perm, grants, bound>>
MayArrive(w) == AtStep(w, "idle") /\ commits + Cardinality(UnderWay) < MaxCommits

PermInit ==
  /\ perm = Start.perm /\ grants = Start.grants /\ bound = Start.holds
  /\ context = [u \in Users |-> Effective(u)]
  /\ call = [w \in Workers |-> NoRequest]
  /\ pardoned = {}
  /\ commits = 0

-----------------------------------------------------------------------------
(* Checks *)

MovesPerm(h) == h.row.parent # h.old.parent

\* Mutant: a parent is not looked for below the permission.
MayUpdateAnyParent(h) ==
  LET p == h.on IN
  /\ MovesPerm(h) /\ h.row.parent # None => IsThere(h.row.parent)
  /\ p \in Reserved =>
       /\ h.row.status # h.old.status => Administers(h.by)
       /\ h.row.owner = h.old.owner

MayUpdate(h) ==
  LET p == h.on IN
  /\ MovesPerm(h) /\ h.row.parent # None =>
       IsThere(h.row.parent) /\ h.row.parent \notin Subtree(p)
  /\ p \in Reserved =>
       /\ h.row.status # h.old.status => Administers(h.by)
       /\ h.row.owner = h.old.owner

MayDelete(h) == IsThere(h.on) /\ Subtree(h.on) \cap Reserved = {}

\* Mutant: only the role is checked, not what is given to it.
MayGrantAnything(h) == h.on # SuperAdmin /\ MayRegrant(h.by, h.on) /\ h.set \subseteq Active

MayGrant(h) ==
  /\ h.on # SuperAdmin
  /\ MayRegrant(h.by, h.on)
  /\ h.set \subseteq Active
  /\ ~Administers(h.by) => h.set \subseteq Effective(h.by)

MayBind(h) ==
  ~Administers(h.by) =>
    /\ ~Administers(h.on) /\ Effective(h.on) \subseteq Effective(h.by)
    /\ SuperAdmin \notin h.set
    /\ Active \cap UNION {grants[r] : r \in h.set} \subseteq Effective(h.by)

\* One registration of the application at a time: the advisory lock.
LockFree == \A v \in Workers : ~(AtStep(v, "write") /\ call[v].op = "register")

RequestPasses(h) ==
  CASE h.op = "update" -> MayUpdate(h)
    [] h.op = "delete" -> MayDelete(h)
    [] h.op = "grant" -> MayGrant(h)
    [] h.op = "bind" -> MayBind(h)
    [] OTHER -> TRUE

\* Mutant: a deletion counts the bindings of the permission alone.
ReachedAlone(h) ==
  CASE h.op = "grant" -> Holders({h.on})
    [] h.op = "delete" -> Holders({r \in Roles : h.on \in grants[r]})
    [] h.op = "bind" -> {h.on}
    [] OTHER -> {}

\* The users a request will refresh, known before it commits: the holders of
\* the role, or of a role with a permission of the subtree.
Reached(h) ==
  CASE h.op = "grant" -> Holders({h.on})
    [] h.op = "delete" -> Holders({r \in Roles : grants[r] \cap Subtree(h.on) # {}})
    [] h.op = "bind" -> {h.on}
    [] OTHER -> {}

Owned == {p \in Perms : IsThere(p) /\ perm[p].owner = App}

-----------------------------------------------------------------------------
(* Beginning *)

\* withAuth looks at the cached context.
MayCall(o) == Administers(o) \/ Manage \in context[o]

\* What h remembers once its checks have passed.
Ready(h) ==
  [h EXCEPT !.pc = "write", !.due = Reached(h),
     !.seen = CASE h.op = "delete" -> Subtree(h.on)
                [] h.op = "grant" -> grants[h.on]
                [] OTHER -> {},
     !.snap = IF h.op = "register" THEN [p \in Owned |-> perm[p]] ELSE << >>]

\* A request that reads nothing before its checks.
Begin(w, h) ==
  /\ RequestPasses(h)
  /\ SetRequest(w, Ready(h))
  /\ UNCHANGED <<PermRows, context, pardoned, commits>>

\* A request that has read something when it comes to its checks.
LoadRequest(w, h) ==
  /\ SetRequest(w, [h EXCEPT !.pc = "check"])
  /\ UNCHANGED <<PermRows, context, pardoned, commits>>

\* A new permission of the console: ACTIVE, of the application if asked for.
Create(w, o) ==
  \E p \in Perms, up \in Present \cup {None}, owner \in {None, App} :
    /\ perm[p].status = "fresh"
    /\ Begin(w, [NoRequest EXCEPT !.op = "create", !.by = o, !.on = p,
                             !.row = [parent |-> up, status |-> "ACTIVE", owner |-> owner]])

\* The patched row; a change of the type to PAGE drops the application.
Update(w, o) ==
  \E p \in Present, up \in Perms \cup {None},
     status \in {"ACTIVE", "DISABLED"}, owner \in {None, App} :
    LoadRequest(w, [NoRequest EXCEPT !.op = "update", !.by = o, !.on = p, !.old = perm[p],
                         !.row = [parent |-> up, status |-> status, owner |-> owner]])

Delete(w, o) ==
  \E p \in Present :
    Begin(w, [NoRequest EXCEPT !.op = "delete", !.by = o, !.on = p])

Grant(w, o) ==
  \E r \in Roles, S \in SUBSET Present :
    Begin(w, [NoRequest EXCEPT !.op = "grant", !.by = o, !.on = r, !.set = S])

\* The roles of a user, see Directory.
Bind(w, o) ==
  \E u \in Users, R \in (SUBSET Roles) \ {{}} :
    /\ o # u
    /\ Begin(w, [NoRequest EXCEPT !.op = "bind", !.by = o, !.on = u, !.set = R])

\* Before its transaction a registration looks for codes of other owners.
Conflicting(tree) == {p \in DOMAIN tree : IsThere(p) /\ perm[p].owner # App}

Register(w) ==
  \E t \in Trees :
    /\ \A p \in DOMAIN t : perm[p].status # "gone"
    /\ Conflicting(t) = {}
    /\ LoadRequest(w, [NoRequest EXCEPT !.op = "register", !.tree = t])

CheckRequest(w) ==
  LET h == call[w] IN
  /\ AtStep(w, "check")
  /\ RequestPasses(h)
  /\ h.op = "register" => LockFree
  /\ SetRequest(w, Ready(h))
  /\ UNCHANGED <<PermRows, context, pardoned, commits>>

RefuseRequest(w) ==
  /\ AtStep(w, "check")
  /\ ~RequestPasses(call[w])
  /\ SetRequest(w, NoRequest)
  /\ UNCHANGED <<PermRows, context, pardoned, commits>>

-----------------------------------------------------------------------------
(* Writes, and what follows the commit *)

\* What a commit changes of the rows that were there before it.
Changed ==
  {kind \in {"move", "status", "grants", "bind"} :
     CASE kind = "move" -> \E p \in Present : IsThere(p)' /\ perm'[p].parent # perm[p].parent
       [] kind = "status" -> \E p \in Present : perm'[p].status # perm[p].status
       [] kind = "grants" -> grants' # grants
       [] kind = "bind" -> bound' # bound}

\* The changes that undo what a request has read or checked.
CrossedBy(h) ==
  CASE h.op = "update" -> {"move", "status", "bind"}
    [] h.op = "delete" -> {"move", "grants", "bind"}
    [] h.op = "grant" -> {"grants", "bind"}
    [] h.op = "bind" -> {"status", "grants", "bind"}
    [] h.op = "register" -> {"move"}
    [] OTHER -> {}

\* Registrations refresh nobody: if codes come or go with one, contexts may
\* be outdated from then on.
Explained(w) ==
  LET h == call[w] IN
  CASE h.op = "register" -> (h.crossed \cap {"move"}) \cup (IF "status" \in Changed THEN {"reach"} ELSE {})
    [] h.op = "update" -> h.crossed \cap {"move"}
    [] h.op = "delete" /\ h.crossed # {} -> {"reach"}
    [] h.op = "grant" /\ "bind" \in h.crossed -> {"reach"}
    [] OTHER -> {}

\* Last in every write, where the new rows are known.
CommitRequest(w, next) ==
  /\ commits' = commits + 1
  /\ pardoned' = pardoned \cup Explained(w)
  /\ call' = [v \in Workers |->
               IF v = w THEN next
               ELSE [call[v] EXCEPT !.crossed = @ \cup (Changed \cap CrossedBy(call[v]))]]
  /\ UNCHANGED context

Refreshing(h, due) ==
  IF due = {} THEN NoRequest ELSE [NoRequest EXCEPT !.pc = "refresh", !.due = due]

AtWrite(w, op) == AtStep(w, "write") /\ call[w].op = op

CreateFails(h) == perm[h.on].status # "fresh" \/ h.row.parent \notin Present \cup {None}

WriteCreate(w) ==
  LET h == call[w] IN
  /\ AtWrite(w, "create")
  /\ ~CreateFails(h)
  /\ perm' = [perm EXCEPT ![h.on] = h.row]
  /\ UNCHANGED <<grants, bound>>
  /\ CommitRequest(w, NoRequest)

\* The whole row as loaded and patched; who is affected is asked afterwards.
WriteUpdate(w) ==
  LET h == call[w] IN
  /\ AtWrite(w, "update")
  /\ IsThere(h.on) => h.row.parent \in Present \cup {None}
  /\ perm' = IF IsThere(h.on) THEN [perm EXCEPT ![h.on] = h.row] ELSE perm
  /\ UNCHANGED <<grants, bound>>
  /\ CommitRequest(w, [NoRequest EXCEPT !.pc = "affected", !.on = h.on])

AskAffected(w) ==
  LET p == call[w].on IN
  /\ AtStep(w, "affected")
  /\ SetRequest(w, Refreshing(call[w], Holders({r \in Roles : p \in grants[r]})))
  /\ UNCHANGED <<PermRows, context, pardoned, commits>>

\* Bindings of the subtree as it was read; the foreign key then deletes the
\* subtree, and its bindings, as they are.
WriteDelete(w) ==
  LET h == call[w]
      below == Subtree(h.on)
  IN
  /\ AtWrite(w, "delete")
  /\ perm' = [p \in Perms |-> IF p \in below THEN GonePerm ELSE perm[p]]
  /\ grants' = [r \in Roles |-> grants[r] \ (below \cup h.seen)]
  /\ UNCHANGED bound
  /\ CommitRequest(w, Refreshing(h, h.due))

\* DELETE of the rows its snapshot shows, then INSERT: a grant that commits
\* in between is seen or not.
WriteGrant(w) ==
  LET h == call[w] IN
  /\ AtWrite(w, "grant")
  /\ \E seen \in {h.seen, grants[h.on]} :
       /\ \A p \in h.set : IsThere(p) /\ p \notin grants[h.on] \ seen
       /\ grants' = [grants EXCEPT ![h.on] = (@ \ seen) \cup h.set]
  /\ UNCHANGED <<perm, bound>>
  /\ CommitRequest(w, Refreshing(h, h.due))

WriteBind(w) ==
  LET h == call[w] IN
  /\ AtWrite(w, "bind")
  /\ bound' = [bound EXCEPT ![h.on] = h.set]
  /\ UNCHANGED <<perm, grants>>
  /\ CommitRequest(w, Refreshing(h, h.due))

\* What a registration makes of the permission p: reported ones are inserted,
\* or made ACTIVE again and moved if the snapshot differs from what is reported;
\* the others of the application are disabled.
Synced(h, p) ==
  LET new == h.tree[p]
      was == h.snap[p]
      same == was.parent = new /\ was.status = "ACTIVE"
  IN
  CASE p \in DOMAIN h.tree \ DOMAIN h.snap ->
         [parent |-> new, status |-> "ACTIVE", owner |-> App]
    [] p \in DOMAIN h.tree \cap DOMAIN h.snap /\ IsThere(p) ->
         [perm[p] EXCEPT !.status = IF same THEN @ ELSE "ACTIVE",
                         !.parent = IF was.parent = new THEN @ ELSE new]
    [] p \in DOMAIN h.snap \ DOMAIN h.tree /\ IsThere(p) ->
         [perm[p] EXCEPT !.status = "DISABLED"]
    [] OTHER -> perm[p]

\* A code taken, or the parent of a row it inserts or moves deleted, since
\* the checks.
SyncFails(h) ==
  \/ \E p \in DOMAIN h.tree \ DOMAIN h.snap : perm[p].status # "fresh"
  \/ \E p \in DOMAIN h.tree :
       /\ p \in DOMAIN h.snap => IsThere(p) /\ h.snap[p].parent # h.tree[p]
       /\ h.tree[p] # None /\ perm[h.tree[p]].status = "gone"

WriteRegister(w) ==
  LET h == call[w] IN
  /\ AtWrite(w, "register")
  /\ ~SyncFails(h)
  /\ perm' = [p \in Perms |-> Synced(h, p)]
  /\ UNCHANGED <<grants, bound>>
  /\ CommitRequest(w, NoRequest)

\* A violated key aborts the transaction.
AbortRequest(w) ==
  LET h == call[w] IN
  /\ AtStep(w, "write")
  /\ \/ h.op = "create" /\ CreateFails(h)
     \/ h.op = "update" /\ IsThere(h.on) /\ h.row.parent \notin Present \cup {None}
     \/ h.op = "grant" /\ \E p \in h.set : ~IsThere(p) \/ p \in grants[h.on] \ h.seen
     \/ h.op = "register" /\ SyncFails(h)
  /\ SetRequest(w, NoRequest)
  /\ UNCHANGED <<PermRows, context, pardoned, commits>>

\* One user's context after the other.
Refresh(w) ==
  \E u \in call[w].due :
    /\ AtStep(w, "refresh")
    /\ context' = [context EXCEPT ![u] = Effective(u)]
    /\ SetRequest(w, Refreshing(call[w], call[w].due \ {u}))
    /\ UNCHANGED <<PermRows, pardoned, commits>>

-----------------------------------------------------------------------------
Arrive(w) ==
  \/ \E o \in {x \in Users : MayCall(x)} :
       Create(w, o) \/ Update(w, o) \/ Delete(w, o) \/ Grant(w, o) \/ Bind(w, o)
  \/ Register(w)

WriteRequest(w) ==
  \/ WriteCreate(w) \/ WriteUpdate(w) \/ AskAffected(w) \/ WriteDelete(w)
  \/ WriteGrant(w) \/ WriteBind(w) \/ WriteRegister(w) \/ AbortRequest(w) \/ Refresh(w)

PermNext == \E w \in Workers :
  \/ MayArrive(w) /\ Arrive(w)
  \/ CheckRequest(w) \/ RefuseRequest(w) \/ WriteRequest(w)

PermSpec == PermInit /\ [][PermNext]_permVars

-----------------------------------------------------------------------------
(* Properties *)

\* Unless an update or a registration was crossed by a move, the parent of a
\* permission exists, and no permissions hang below each other in a circle,
\* which no query that starts at a root would find (actions.ts:123).
TreeIsAForest ==
  "move" \in pardoned \/ Forest([p \in Present |-> perm[p].parent])

\* When no request is under way, every cached context holds exactly the codes
\* its user has: whichever way a change takes through the tree, the roles and
\* the bindings, the users it concerns were refreshed.  Unless a registration
\* enabled or disabled one, a grant was crossed by a change of bindings, or a
\* deletion by a change of bindings or grants or by a move.
ContextsConverge ==
  UnderWay = {} /\ "reach" \notin pardoned =>
    \A u \in Users : context[u] = Effective(u)

RequestCommits(w) == AtStep(w, "write") /\ commits' # commits /\ call'[w].pc # "write"

\* Step of: codes are handed down: whoever makes a user have a code had it, or
\* is the administrator; only a code that is not reserved comes back by
\* enabling the permission.  Unless crossed by another change than a move.
HandsCodesDown ==
  \A w \in Workers, u \in Users :
    RequestCommits(w) /\ call[w].crossed \subseteq {"move"} =>
      \A p \in Effective(u)' \ Effective(u) :
        \/ call[w].by \in Users /\ (Administers(call[w].by) \/ p \in Effective(call[w].by))
        \/ p \notin Reserved /\ call[w].op \in {"update", "register"}
=============================================================================

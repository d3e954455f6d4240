------------------------------- MODULE Reads -------------------------------
(***************************************************************************)
(* The requests that read: REST routes and pages, from the identity of the *)
(* reader over the guard and the data scope to the rows that are answered, *)
(* while the rows, the roles and the reader's own account change.          *)
(*                                                                         *)
(* The tree of departments is fixed here (Directory moves it); keyword,    *)
(* status and page only narrow an answer and are left out; rows of clients *)
(* and permissions belong to no department and are not followed.           *)
(***************************************************************************)
EXTENDS Naturals, FiniteSets

CONSTANTS
  Readers,      \* requests in flight
  Users, Roles,
  SuperAdmin,   \* the system role
  None,         \* SQL NULL, and an id that nobody has
  Depts,        \* departments
  Below,        \* Below[d]: d and the departments under it
  Grants,       \* Grants[r]: the codes of the permissions of role r
  Portals,      \* the rows at the start: person, holds, post
  MaxEntries,   \* bound: lists the cache holds at a time
  MaxWrites     \* bound: writes of other requests

ASSUME ReadsAssumption ==
  /\ SuperAdmin \in Roles /\ None \notin Users \cup Roles \cup Depts
  /\ Below \in [Depts -> SUBSET Depts]
  /\ MaxEntries \in Nat \ {0} /\ MaxWrites \in Nat

\* What of a user's row the reads look at: "NEW" is ACTIVE with a password the
\* user has yet to change, "DISABLED" also stands for LOCKED; deletedAt is set
\* with DELETED and with nothing else.
Conditions == {"ACTIVE", "NEW", "DISABLED", "DELETED"}
People == [Users -> [dept : Depts \cup {None}, condition : Conditions]]
Posts == [Roles -> [dept : Depts, active : BOOLEAN]]

ASSUME PortalsAssumption ==
  \A p \in Portals : p.person \in People /\ p.holds \in [Users -> SUBSET Roles] /\ p.post \in Posts

VARIABLES
  person,   \* users: department and condition
  holds,    \* user_roles: holds[u] is a set of roles
  post,     \* roles: department, and whether ACTIVE
  had,      \* had[u]: the permission contexts of u a cache may still hold
  memo,     \* the lists the cache holds
  request,  \* request[w]: the request of w
  writes    \* writes so far

readVars == <<person, holds, post, had, memo, request, writes>>
ReadRows == <<person, holds, post>>

-----------------------------------------------------------------------------
(* Who reads, with what *)

\* verifySignature: of the gateway's key, and of now.
Signatures == {"none", "forged", "old", "good"}
Trusted(signature) == signature = "good"

\* resolveIdentity: the header of the gateway if it can be trusted, else the
\* token.
Identify(header, signature, token) ==
  IF header # None /\ Trusted(signature) THEN header ELSE token
Identified ==
  {Identify(header, signature, token) :
     header \in Users \cup {None}, signature \in Signatures, token \in Users \cup {None}}

AliveIn(people, u) == people[u].condition \in {"ACTIVE", "NEW"}
Alive(u) == AliveIn(person, u)

\* resolveScope: the departments of the reader's ACTIVE roles and all below
\* them, as they are now; the reader's own row is not asked.
InForceIn(has, at, u) == {r \in has[u] : at[r].active}
ScopeIn(has, at, u) == UNION {Below[at[r].dept] : r \in InForceIn(has, at, u)}
Scope(u) == ScopeIn(holds, post, u)

\* getUserPermissionContext: one read for an active user, now or at any time
\* before (UserAccess has how long one is kept); or none, when the user is not
\* active or it cannot be had.
ContextsIn(people, has, at, u) ==
  IF AliveIn(people, u)
    THEN {[roles |-> InForceIn(has, at, u), must |-> people[u].condition = "NEW"]}
    ELSE {}
NoContext == [roles |-> {}, must |-> FALSE]
Contexts(u) == had[u] \cup {NoContext}

\* checkPermission: every code, or one of them; SUPER_ADMIN needs none.
Satisfies(context, gate) ==
  LET codes == UNION {Grants[r] : r \in context.roles} IN
  /\ ~context.must
  /\ \/ SuperAdmin \in context.roles \/ gate.codes = {}
     \/ gate.all /\ gate.codes \subseteq codes
     \/ ~gate.all /\ gate.codes \cap codes # {}

-----------------------------------------------------------------------------
(* What is read: rows, with the department that puts them in a scope *)

Row(id, dept) == [id |-> id, dept |-> dept]

\* Mutant: a department asked for takes the place of the scope.
UserListAsAsked(on, scope) ==
  {Row(u, person[u].dept) : u \in {x \in Users :
     /\ person[x].condition # "DELETED"
     /\ IF on = None THEN person[x].dept \in scope ELSE person[x].dept = on}}

\* getUsers; on is the department asked for, if any.
UserList(on, scope) ==
  {Row(u, person[u].dept) : u \in {x \in Users :
     /\ person[x].condition # "DELETED"
     /\ person[x].dept \in scope
     /\ on # None => person[x].dept = on}}

\* getUser: a deleted user is still there.
OneUser(on, scope) ==
  {Row(u, person[u].dept) : u \in {x \in Users : x = on /\ person[x].dept \in scope}}

\* getUserRoles: the roles hang on the user, who must be in reach.
AssignedRoles(on, scope) == OneUser(on, scope)

\* getRoles.
RoleList(on, scope) ==
  {Row(r, post[r].dept) : r \in {x \in Roles :
     post[x].dept \in scope /\ (on # None => post[x].dept = on)}}

\* getRoleById and getRolePermissions.
OneRole(on, scope) ==
  {Row(r, post[r].dept) : r \in {x \in Roles : x = on /\ post[x].dept \in scope}}

\* getDepartments and getDepartmentOptions.
DepartmentList(scope) == {Row(d, d) : d \in Depts \cap scope}

\* getDepartmentById.
OneDepartment(on, scope) == {Row(d, d) : d \in Depts \cap scope \cap {on}}

\* getDepartmentMembers: both the department and the scope are asked for.
Members(on, scope) ==
  {Row(u, on) : u \in {x \in Users :
     person[x].condition # "DELETED" /\ person[x].dept = on /\ on \in scope}}

\* Mutant: the own row of a disabled or deleted user is still answered.
OwnRowAnyway(u) == u \in Users

\* getUserProfile and getOwnUser: the reader's own row, whatever the scope.
OwnRow(u) == Alive(u)

\* getDashboardStats and getDashboardRisks: what is counted.
UserTally(scope) == UserList(None, scope)
RoleTally(scope) == RoleList(None, scope)

\* One query, once the scope is known.
Selected(part, on, scope) ==
  CASE part = "users" -> UserList(on, scope)
    [] part = "user" -> OneUser(on, scope)
    [] part = "user roles" -> AssignedRoles(on, scope)
    [] part = "roles" -> RoleList(on, scope)
    [] part \in {"role", "role permissions"} -> OneRole(on, scope)
    [] part \in {"departments", "options"} -> DepartmentList(scope)
    [] part = "department" -> OneDepartment(on, scope)
    [] part = "members" -> Members(on, scope)
    [] part = "user tally" -> UserTally(scope)
    [] part = "role tally" -> RoleTally(scope)
    [] OTHER -> {}

Cached == {"users", "roles", "departments", "options"}
Own == {"own", "shell"}
Global ==
  {"client", "clients", "tokens", "permission", "permissions", "log", "logs", "context"}
Details == {"user", "user roles", "role", "department", "client", "permission"}

\* Not found is the answer when there is none.
MayLack == Details \cup {"log", "context"}

\* Read only once another is found.
Follows(part) ==
  CASE part = "role permissions" -> {"role"}
    [] part = "members" -> {"department"}
    [] part = "tokens" -> {"client"}
    [] OTHER -> {}

-----------------------------------------------------------------------------
(* Routes: what guards them and what they read *)

OneOf(codes) == [codes |-> codes, all |-> FALSE]
AllOf(codes) == [codes |-> codes, all |-> TRUE]

Api(codes, reads) ==
  [face |-> "api", layout |-> {}, gates |-> {OneOf(codes)}, reads |-> reads]

\* A page: the gate in the layout of its section, if any, and those of its own.
Page(section, gates, reads) ==
  [face |-> "page", layout |-> {OneOf({code}) : code \in section}, gates |-> gates,
   reads |-> reads]

\* How a page is come to: loaded as a whole, entered from another section, or
\* from within its own.  A layout that is there already is not asked again.
Visits == {"load", "enter", "stay"}
VisitsOf(route) ==
  CASE route.face # "page" -> {"load"}
    [] route.face = "page" /\ route.layout = {} -> {"load", "stay"}
    [] OTHER -> Visits
GatesOf(route, visit) == route.gates \cup IF visit = "stay" THEN {} ELSE route.layout

\* The shell is the layout of all pages.
PartsOf(route, visit) ==
  route.reads \cup IF route.face = "page" /\ visit = "load" THEN {"shell"} ELSE {}

GetUsers == Api({"user:list"}, {"users"})
GetUser == Api({"user:read"}, {"user"})
GetUserRoles == Api({"user:read", "user:assign_role"}, {"user roles"})
GetRoles == Api({"role:list", "user:assign_role"}, {"roles"})
GetRole == Api({"role:read"}, {"role"})
GetRolePermissions == Api({"role:read"}, {"role", "role permissions"})
GetDepartments == Api({"department:list"}, {"departments"})
GetDepartment == Api({"department:read"}, {"department"})
GetMembers == Api({"department:read"}, {"department", "members"})
GetPermissions == Api({"permission:list"}, {"permissions"})
GetPermission == Api({"permission:read"}, {"permission"})
GetClients == Api({"client:list"}, {"clients"})
GetClient == Api({"client:read"}, {"client"})
GetClientTokens == Api({"client:read"}, {"client", "tokens"})
GetAuditLogs == Api({"audit:read"}, {"logs"})
GetAccessLogs == Api({"audit:read"}, {"logs"})
GetLoginLogs == Api({"audit:read"}, {"logs"})
GetMyPermissions == [face |-> "own", layout |-> {}, gates |-> {}, reads |-> {"context"}]
GetMe == [face |-> "own", layout |-> {}, gates |-> {}, reads |-> {"own"}]
GetUserinfo == [face |-> "token", layout |-> {}, gates |-> {}, reads |-> {"own"}]

\* The code for all pages of a section (route-access.ts).
UsersSection == {"user:list"}
RolesSection == {"role:list"}
DepartmentsSection == {"department:list"}
PermissionsSection == {"permission:list"}
ClientsSection == {"client:list"}
AuditSection == {"audit:read"}

UsersPage == Page(UsersSection, {}, {"users", "options"})
NewUserPage == Page(UsersSection, {OneOf({"user:create"})}, {"options"})
UserPage == Page(UsersSection, {OneOf({"user:read"})}, {"user", "options"})
UserRolesPage == Page(UsersSection, {AllOf({"user:manage", "user:assign_role"})}, {"user"})
RolesPage == Page(RolesSection, {}, {"roles", "options"})
RolePermissionsPage ==
  Page(RolesSection, {AllOf({"role:manage", "role:assign_permission"})}, {"role"})
DepartmentsPage == Page(DepartmentsSection, {}, {"departments"})
PermissionsPage == Page(PermissionsSection, {}, {"permissions", "clients"})
NewPermissionPage ==
  Page(PermissionsSection, {OneOf({"permission:create"})}, {"permissions", "clients"})
EditPermissionPage ==
  Page(PermissionsSection, {OneOf({"permission:update"})},
       {"permissions", "clients", "permission"})
ClientsPage == Page(ClientsSection, {}, {"clients"})
ClientPage == Page(ClientsSection, {OneOf({"client:read"})}, {"client", "tokens"})
AuditLogsPage == Page(AuditSection, {}, {"logs"})
AuditLogPage == Page(AuditSection, {}, {"log"})
ProfilePage == Page({}, {}, {"own"})

\* Its tiles about logins and audit are left out.
DashboardPage == Page({}, {}, {"user tally", "role tally"})

Routes ==
  {GetUsers, GetUser, GetUserRoles, GetRoles, GetRole, GetRolePermissions, GetDepartments,
   GetDepartment, GetMembers, GetPermissions, GetPermission, GetClients, GetClient,
   GetClientTokens, GetAuditLogs, GetAccessLogs, GetLoginLogs, GetMyPermissions, GetMe,
   GetUserinfo, UsersPage, NewUserPage, UserPage, UserRolesPage, RolesPage,
   RolePermissionsPage, DepartmentsPage, PermissionsPage, NewPermissionPage,
   EditPermissionPage, ClientsPage, ClientPage, AuditLogsPage, AuditLogPage, ProfilePage,
   DashboardPage}

\* The id or the department a request may name; None is an id nobody has.
Named(route) ==
  {None} \cup
  (IF route.reads \cap {"user", "user roles"} # {} THEN Users ELSE {}) \cup
  (IF "role" \in route.reads THEN Roles ELSE {}) \cup
  (IF route.reads \cap {"department", "users", "roles"} # {} THEN Depts ELSE {})

\* An answered list or detail has rows by which the scope is asked for.
IsScoped(part) == part \notin Own \cup Global

-----------------------------------------------------------------------------
(* Requests *)

NoRead == [pc |-> "idle", by |-> None, route |-> GetMe, visit |-> "load", on |-> None, gates |-> {},
           left |-> {}, scoped |-> FALSE, scope |-> {}, rows |-> {}, logged |-> FALSE,
           told |-> FALSE, scopes |-> {}, lived |-> FALSE]

ReadInit ==
  /\ \E p \in Portals : person = p.person /\ holds = p.holds /\ post = p.post
  /\ had = [u \in Users |-> ContextsIn(person, holds, post, u)]
  /\ memo = {}
  /\ request = [w \in Readers |-> NoRead]
  /\ writes = 0

SetRead(w, h) == request' = [request EXCEPT ![w] = h]
Open(w) == request[w].pc = "open"

\* REST routes ask for the code before they read, pages beside.
MayRead(h) == h.route.face = "api" => h.gates = {}

\* Userinfo goes by the token alone.
Callers(route) == IF route.face = "token" THEN Users ELSE Identified \ {None}

ArriveToRead(w) ==
  \E route \in Routes : \E who \in Callers(route) :
    /\ request[w].pc = "idle"
    /\ \E on \in Named(route), visit \in VisitsOf(route) :
         SetRead(w, [NoRead EXCEPT !.pc = "open", !.by = who, !.route = route, !.visit = visit,
                       !.on = on, !.gates = GatesOf(route, visit), !.left = PartsOf(route, visit),
                       !.scopes = {Scope(who)}, !.lived = Alive(who)])
    /\ UNCHANGED <<ReadRows, had, memo, writes>>

\* One gate, by the context it finds; none is one without codes.
PassGate(w) ==
  LET h == request[w] IN
  /\ Open(w)
  /\ \E gate \in h.gates, context \in Contexts(h.by) :
       SetRead(w, IF Satisfies(context, gate) THEN [h EXCEPT !.gates = @ \ {gate}] ELSE NoRead)
  /\ UNCHANGED <<ReadRows, had, memo, writes>>

ResolveScope(w) ==
  LET h == request[w] IN
  /\ Open(w) /\ MayRead(h) /\ ~h.scoped
  /\ \E part \in h.left : IsScoped(part)
  /\ SetRead(w, [h EXCEPT !.scoped = TRUE, !.scope = Scope(h.by)])
  /\ UNCHANGED <<ReadRows, had, memo, writes>>

\* What the cache knows a list by.
Entry(part, h) ==
  [of |-> part, by |-> IF part \in {"users", "departments"} THEN h.by ELSE None,
   on |-> IF part \in {"users", "roles"} THEN h.on ELSE None, scope |-> h.scope]

Answer(h, part, found) == [h EXCEPT !.left = @ \ {part}, !.rows = @ \cup found]

IsDue(w, part) ==
  LET h == request[w] IN
  /\ Open(w) /\ MayRead(h) /\ part \in h.left
  /\ IsScoped(part) => h.scoped
  /\ Follows(part) \cap h.left = {}

\* A list out of the cache, however old; nothing is looked up for no scope.
ReadCached(w) ==
  LET h == request[w] IN
  \E part \in Cached \cap h.left, e \in memo :
    /\ IsDue(w, part)
    /\ e.key = Entry(part, h)
    /\ SetRead(w, Answer(h, part, e.rows))
    /\ UNCHANGED <<ReadRows, had, memo, writes>>

\* A list read and kept; what has no room any more goes.
ReadList(w) ==
  LET h == request[w] IN
  \E part \in Cached \cap h.left, rest \in SUBSET memo :
    LET found == Selected(part, h.on, h.scope)
        fresh == [key |-> Entry(part, h), rows |-> found]
    IN
    /\ IsDue(w, part)
    /\ \A e \in memo : e.key # fresh.key
    /\ Cardinality(rest) < MaxEntries
    /\ memo' = rest \cup {fresh}
    /\ SetRead(w, Answer(h, part, found))
    /\ UNCHANGED <<ReadRows, had, writes>>

\* A row or the rows that hang on it: not found, or not in the scope, is the
\* same answer.
ReadDetail(w) ==
  LET h == request[w] IN
  \E part \in h.left \ (Cached \cup Own \cup Global) :
    LET found == Selected(part, h.on, h.scope) IN
    /\ IsDue(w, part)
    /\ SetRead(w, IF found = {} /\ part \in MayLack THEN NoRead ELSE Answer(h, part, found))
    /\ UNCHANGED <<ReadRows, had, memo, writes>>

\* Rows of no department; a single one may be missing.
ReadGlobal(w) ==
  LET h == request[w] IN
  \E part \in Global \cap h.left :
    /\ IsDue(w, part)
    /\ \/ SetRead(w, Answer(h, part, {}))
       \/ part \in MayLack /\ SetRead(w, NoRead)
    /\ UNCHANGED <<ReadRows, had, memo, writes>>

\* The profile is shown without the row if there is none.
IsProfile(h, part) == part = "own" /\ h.route.face = "page"

\* /me, userinfo, the profile and the shell of a page that is loaded; the shell
\* sends a reader on who has a password to change.
ReadOwn(w) ==
  LET h == request[w] IN
  /\ Open(w)
  /\ \E part \in Own \cap h.left, context \in Contexts(h.by) :
       LET found == OwnRow(h.by) /\ ~(part = "shell" /\ context.must) IN
       /\ IsDue(w, part)
       /\ SetRead(w, IF found \/ IsProfile(h, part)
                       THEN [Answer(h, part, {}) EXCEPT !.told = @ \/ found] ELSE NoRead)
  /\ UNCHANGED <<ReadRows, had, memo, writes>>

Finished(h) == h.gates = {} /\ h.left = {}

\* logServerDataRead: by the REST routes of details; getPermissionById does it
\* for its callers.
IsLogged(route) == route.face = "api" /\ route.reads \cap Details # {}

LogRead(w) ==
  LET h == request[w] IN
  /\ Open(w) /\ Finished(h) /\ IsLogged(h.route) /\ ~h.logged
  /\ SetRead(w, [h EXCEPT !.logged = TRUE])
  /\ UNCHANGED <<ReadRows, had, memo, writes>>

AnswerRead(w) ==
  LET h == request[w] IN
  /\ Open(w) /\ Finished(h) /\ (IsLogged(h.route) => h.logged)
  /\ SetRead(w, [h EXCEPT !.pc = "answered"])
  /\ UNCHANGED <<ReadRows, had, memo, writes>>

LeaveRead(w) ==
  /\ request[w].pc = "answered"
  /\ SetRead(w, NoRead)
  /\ UNCHANGED <<ReadRows, had, memo, writes>>

-----------------------------------------------------------------------------
(* The rest of the portal *)

\* Last in a write: the contexts that may be cached from now on, and what every
\* request under way has lived through.
WriteRow ==
  /\ writes < MaxWrites /\ writes' = writes + 1
  /\ had' = [u \in Users |-> had[u] \cup ContextsIn(person', holds', post', u)]
  /\ request' = [w \in Readers |->
       LET h == request[w] IN
       IF h.pc # "open" THEN h
       ELSE [h EXCEPT !.scopes = @ \cup {ScopeIn(holds', post', h.by)},
                      !.lived = @ \/ AliveIn(person', h.by)]]
  /\ UNCHANGED memo

WritePerson ==
  \E u \in Users, dept \in Depts \cup {None}, condition \in Conditions :
    /\ person[u].condition # "DELETED"
    /\ person' = [person EXCEPT ![u] = [dept |-> dept, condition |-> condition]]
    /\ UNCHANGED <<holds, post>>
    /\ WriteRow

WriteHolds ==
  \E u \in Users, R \in SUBSET Roles :
    /\ holds' = [holds EXCEPT ![u] = R]
    /\ UNCHANGED <<person, post>>
    /\ WriteRow

WritePost ==
  \E r \in Roles, dept \in Depts, active \in BOOLEAN :
    /\ post' = [post EXCEPT ![r] = [dept |-> dept, active |-> active]]
    /\ UNCHANGED <<person, holds>>
    /\ WriteRow

\* Lists expire and are dropped (PageCache).
Forget ==
  /\ \E e \in memo : memo' = memo \ {e}
  /\ UNCHANGED <<ReadRows, had, request, writes>>

-----------------------------------------------------------------------------
Fetch(w) ==
  \/ ReadCached(w) \/ ReadList(w) \/ ReadDetail(w) \/ ReadGlobal(w) \/ ReadOwn(w)

ServeRead(w) ==
  \/ ArriveToRead(w) \/ PassGate(w) \/ ResolveScope(w) \/ Fetch(w)
  \/ LogRead(w) \/ AnswerRead(w) \/ LeaveRead(w)

ReadNext ==
  \/ \E w \in Readers : ServeRead(w)
  \/ WritePerson \/ WriteHolds \/ WritePost \/ Forget

ReadSpec == ReadInit /\ [][ReadNext]_readVars

-----------------------------------------------------------------------------
(* Properties *)

Gates == UNION {r.layout \cup r.gates : r \in Routes}
Parts == {"shell"} \cup UNION {r.reads : r \in Routes}
Ids == Users \cup Roles \cup Depts
FoundRows == [id : Ids, dept : Depts \cup {None}]
Keys == [of : Parts, by : Users \cup {None}, on : Ids \cup {None}, scope : SUBSET Depts]
Requests ==
  [pc : {"idle", "open", "answered"}, by : Users \cup {None}, route : Routes, visit : Visits,
   on : Ids \cup {None}, gates : SUBSET Gates, left : SUBSET Parts, scoped : BOOLEAN,
   scope : SUBSET Depts, rows : SUBSET FoundRows, logged : BOOLEAN, told : BOOLEAN,
   scopes : SUBSET SUBSET Depts, lived : BOOLEAN]

\* Every variable holds what it is meant to: above all, an answer has only rows
\* there are, whatever id was asked for.
ReadTypeOK ==
  /\ person \in People /\ holds \in [Users -> SUBSET Roles] /\ post \in Posts
  /\ had \in [Users -> SUBSET [roles : SUBSET Roles, must : BOOLEAN]]
  /\ memo \subseteq [key : Keys, rows : SUBSET FoundRows]
  /\ request \in [Readers -> Requests]
  /\ writes \in 0..MaxWrites

\* Every row of an answer lies in a department of the scope the reader had at
\* one and the same moment of the request: lists kept for others, a department
\* asked for, rows that move and roles that come and go between the queries of
\* a page, and a permission context that outlives its roles, extend no answer
\* (data-scope.ts, query.ts, "fail-closed").
ShownWithinReach ==
  \A w \in Readers : request[w].pc = "answered" =>
    \E S \in request[w].scopes : \A row \in request[w].rows : row.dept \in S

\* Nobody is told their own row, and no page is loaded as a whole, with the
\* reader disabled or deleted through the whole request, whatever token or
\* cached context is still about (users/data.ts:227, layout.tsx:60).  A page
\* come to from another, and the REST routes of rows, go by the cached context
\* and the scope alone, or by the scope: they show such a reader rows.
OwnRowNeedsALiveReader ==
  \A w \in Readers :
    LET h == request[w] IN
    h.pc = "answered" /\ (h.told \/ "shell" \in PartsOf(h.route, h.visit)) => h.lived
=============================================================================

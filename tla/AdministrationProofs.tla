------------------------ MODULE AdministrationProofs ------------------------
(***************************************************************************)
(* Proofs about Administration, for any number of departments, users,      *)
(* roles, permissions and transactions, any homes and rows that are in     *)
(* order, any trees an application reports and any bound on the writes.    *)
(*                                                                         *)
(* The argument is the same for roles, departments and permissions: what a *)
(* transaction has read, and what its checks made sure of, holds until it  *)
(* commits or until a commit crosses it (HomeFits, TreeFits, Seen).        *)
(* HomeEffect and TreeEffect say what a commit of each kind leaves alone,  *)
(* Conflicts which transactions it crosses; of a permission commit Changed *)
(* says what it changed, CrossedBy whom that crosses. CommitKeepsHome,     *)
(* CommitKeepsTree and CrossingKeeps bring the two together: a check that  *)
(* fits a rule against every kind of commit that can undo it.              *)
(*                                                                         *)
(* A move of a department needs more: the paths show that the new parent   *)
(* is not below the department that moves (NotAbove, by the least          *)
(* counterexample on the length of a path), and every path through the     *)
(* department is rebased as its parent's path is (RebasedBelow).           *)
(* Permissions have no paths: a circle closed by a move would leave an old *)
(* one outside what hangs below the permission (UpdateKeepsForest). A      *)
(* context that is outdated is one that a request in course will refresh   *)
(* or ask for (WillReach).                                                 *)
(***************************************************************************)
EXTENDS Administration, FiniteSetTheorems, SequenceTheorems, WellFoundedInduction, TLAPS

-----------------------------------------------------------------------------
(* Types *)

DeptOps == {"createDept", "updateDept", "deleteDept"}
UserOps == {"createUser", "updateUser", "deleteUser", "restoreUser", "assign", "remove"}
RoleOps == {"createRole", "updateRole", "deleteRole"}
Transactions ==
  [pc : {"idle", "check", "write", "insert"},
   op : {"none"} \cup DeptOps \cup UserOps \cup RoleOps,
   by : Users \cup {None}, on : Depts \cup Users \cup Roles \cup {None},
   to : Depts \cup {Keep}, ask : {"keep", "ACTIVE", "DISABLED"},
   set : SUBSET Roles, row : UserRows \cup RoleRows,
   anc : Seq(Depts), path : Seq(Depts), seen : SUBSET Roles, crossed : BOOLEAN]

\* A transaction under way names rows of the right kind, and what it writes is
\* a row that is there.
Formed(h) ==
  h.pc # "idle" =>
    /\ h.op # "none"
    /\ h.op \in DeptOps => h.on \in Depts
    /\ h.op \in UserOps => h.on \in Users
    /\ h.op \in RoleOps => h.on \in Roles
    /\ h.op \in {"createDept", "createUser", "createRole"} => h.to \in Depts /\ h.row = NoRow
    /\ h.op \in {"updateUser", "deleteUser"} => h.row \in UserRows /\ h.row.status # "fresh"
    /\ h.op \in {"updateDept", "updateRole"} => h.row \in RoleRows /\ Exists(h.row)
    /\ h.op = "updateRole" => h.row.dept \in Depts
    /\ h.op = "assign" => h.set # {} /\ (h.pc = "check" => h.row \in UserRows)
    /\ h.op = "remove" => \E r \in Roles : h.set = {r}
    /\ h.op \notin {"createDept", "updateDept", "createUser", "updateUser",
                    "createRole", "updateRole"} => h.to = Keep
    /\ h.pc # "check" => h.to = Keep \/ Moves(h)
    /\ h.pc = "insert" => h.op = "assign"

DirType ==
  /\ dept \in [Depts -> DeptRows] /\ user \in [Users -> UserRows]
  /\ role \in [Roles -> RoleRows] /\ holds \in [Users -> SUBSET Roles]
  /\ req \in [Workers -> Transactions] /\ \A w \in Workers : Formed(req[w])

\* What is there belongs somewhere, what is held is there.
Placed ==
  /\ \A r \in Roles : IF Exists(role[r]) THEN role[r].dept \in Depts /\ Exists(dept[role[r].dept])
                      ELSE role[r].dept = None
  /\ \A u \in Users : \A r \in holds[u] : Exists(role[r])
  /\ \A u \in Users : user[u].status = "fresh" => holds[u] = {}

\* An id is taken by the one transaction that creates its row, the others
\* work on rows that were made.
Creates(h) == h.op \in {"createDept", "createUser", "createRole"}
IdFits(h) ==
  /\ h.op \in DeptOps => (dept[h.on].status = "fresh") = Creates(h)
  /\ h.op \in UserOps => (user[h.on].status = "fresh") = Creates(h)
  /\ h.op \in RoleOps => (role[h.on].status = "fresh") = Creates(h)
Alone(w, h) ==
  \A v \in Workers : v # w /\ req[v].pc # "idle" /\ Creates(h) => req[v].op # h.op \/ req[v].on # h.on
IdsOnce == \A w \in Workers : req[w].pc # "idle" => IdFits(req[w]) /\ Alone(w, req[w])

-----------------------------------------------------------------------------
(* What an uncrossed transaction has read, and what its checks made sure of. *)

Lost(d) == d \in Depts /\ dept[d].status = "gone"

\* The department of the user is the one loaded, or the department is gone.
UserSeen(h) ==
  h.op \in {"updateUser", "deleteUser"} \/ (h.op = "assign" /\ h.pc = "check") =>
    h.row.dept = user[h.on].dept \/ Lost(h.row.dept)
MoveFits(h) ==
  h.op = "updateUser" /\ h.pc = "write" /\ Moves(h) => \A r \in holds[h.on] : role[r].dept = h.to
SetFits(h) ==
  h.op = "assign" /\ h.pc \in {"write", "insert"} =>
    \A r \in h.set : Exists(role[r]) => role[r].dept = user[h.on].dept
RoleSeen(h) ==
  h.op = "updateRole" /\ Exists(role[h.on]) =>
    /\ h.row.dept = role[h.on].dept
    /\ h.pc = "write" /\ Moves(h) =>
         \A u \in Users : h.on \in holds[u] => user[u].dept = h.to \/ Lost(h.to)
OneLeft(h) == h.op = "remove" /\ h.pc = "write" => holds[h.on] # h.set

HomeFits(h) == UserSeen(h) /\ MoveFits(h) /\ SetFits(h) /\ RoleSeen(h) /\ OneLeft(h)
HomeSeen == \A w \in Workers : req[w].pc # "idle" /\ ~req[w].crossed => HomeFits(req[w])

\* The rows of departments: the one that is updated, the one something is put
\* below, the one that is deleted.
DeptSeen(h) ==
  h.op = "updateDept" =>
    /\ Exists(dept[h.on]) => h.row.dept = dept[h.on].parent /\ h.anc = dept[h.on].anc
    /\ h.pc = "write" /\ ~Moves(h) => h.path = h.anc
TargetFits(h) ==
  h.op = "createDept" \/ (h.op = "updateDept" /\ Moves(h)) =>
    /\ Exists(dept[h.to])
    /\ h.op = "updateDept" => Exists(dept[h.on])
    /\ h.pc = "write" =>
         /\ h.path = PathOf(h.to, dept[h.to].anc)
         /\ h.op = "updateDept" => dept[h.on].parent # None /\ ~IsPrefix(PathOf(h.on, h.anc), h.path)
LeafSeen(h) ==
  h.op = "deleteDept" /\ h.pc = "write" =>
    /\ \A d \in Depts : dept[d].parent # h.on
    /\ Exists(dept[h.on]) => dept[h.on].parent # None

TreeFits(h) == DeptSeen(h) /\ TargetFits(h) /\ LeafSeen(h)
TreeInv ==
  "tree" \notin excused =>
    /\ \E root \in Depts : Sound(dept, root)
    /\ \A w \in Workers : req[w].pc # "idle" /\ ~req[w].crossed => TreeFits(req[w])

HomeInv == DirType /\ Placed /\ IdsOnce /\ HomeSeen /\ RolesAreFromHome

-----------------------------------------------------------------------------
(* Steps that write no rows *)

LEMMA OneBecomes ==
  ASSUME HomeInv, UNCHANGED <<Rows, excused>>, NEW w \in Workers, NEW k \in Transactions,
         Become(w, k), Formed(k), k.pc # "idle" => IdFits(k) /\ Alone(w, k),
         k.pc # "idle" /\ ~k.crossed => HomeFits(k)
  PROVE  HomeInv'
<1>1. /\ req' \in [Workers -> Transactions] /\ req'[w] = k
      /\ \A v \in Workers : v # w => req'[v] = req[v]
  BY DEF HomeInv, DirType, Become
<1>2. dept' = dept /\ user' = user /\ role' = role /\ holds' = holds /\ excused' = excused
  BY DEF Rows
<1>3. DirType'
  <2>1. \A v \in Workers : Formed(req'[v])
    BY <1>1 DEF HomeInv, DirType
  <2> QED BY <1>1, <1>2, <2>1 DEF HomeInv, DirType, Formed, Moves
<1>4. Placed' /\ RolesAreFromHome'
  BY <1>2 DEF HomeInv, Placed, RolesAreFromHome, Exists
<1>5. IdsOnce'
  <2> SUFFICES ASSUME NEW v \in Workers, req'[v].pc # "idle"
               PROVE  IdFits(req[v])' /\ Alone(v, req[v])'
    BY DEF IdsOnce
  <2>1. IdFits(req[v])'
    BY <1>1, <1>2 DEF HomeInv, IdsOnce, IdFits, Creates
  <2>2. Alone(v, req[v])'
    BY <1>1, <1>2 DEF HomeInv, IdsOnce, Alone, Creates
  <2> QED BY <2>1, <2>2
<1>6. HomeSeen'
  <2> SUFFICES ASSUME NEW v \in Workers, req'[v].pc # "idle", ~req'[v].crossed
               PROVE  HomeFits(req[v])'
    BY DEF HomeSeen
  <2> PICK h \in Transactions : h = req'[v]
    BY <1>1
  <2>1. HomeFits(h)
    BY <1>1 DEF HomeInv, HomeSeen
  <2>2. UserSeen(req[v])' /\ MoveFits(req[v])'
    BY <1>2, <2>1 DEF HomeFits, UserSeen, MoveFits, Lost, Moves
  <2>3. SetFits(req[v])' /\ RoleSeen(req[v])' /\ OneLeft(req[v])'
    BY <1>2, <2>1 DEF HomeFits, SetFits, RoleSeen, OneLeft, Lost, Exists, Moves
  <2> QED BY <2>2, <2>3 DEF HomeFits
<1> QED BY <1>3, <1>4, <1>5, <1>6 DEF HomeInv

LEMMA OneBecomesTree ==
  ASSUME HomeInv, TreeInv, UNCHANGED <<Rows, excused>>, NEW w \in Workers, NEW k \in Transactions,
         Become(w, k), "tree" \notin excused /\ k.pc # "idle" /\ ~k.crossed => TreeFits(k)
  PROVE  TreeInv'
<1>1. /\ req' \in [Workers -> Transactions] /\ req'[w] = k
      /\ \A v \in Workers : v # w => req'[v] = req[v]
  BY DEF HomeInv, DirType, Become
<1>2. dept' = dept /\ excused' = excused
  BY DEF Rows
<1> SUFFICES ASSUME "tree" \notin excused
             PROVE  /\ \E root \in Depts : Sound(dept', root)
                    /\ \A v \in Workers : req'[v].pc # "idle" /\ ~req'[v].crossed => TreeFits(req[v])'
  BY <1>2 DEF TreeInv, Sound, Exists
<1>3. \E root \in Depts : Sound(dept', root)
  BY <1>2 DEF TreeInv
<1>4. ASSUME NEW v \in Workers, req'[v].pc # "idle", ~req'[v].crossed PROVE TreeFits(req[v])'
  <2> PICK h \in Transactions : h = req'[v]
    BY <1>1
  <2>1. TreeFits(h)
    BY <1>1, <1>4 DEF TreeInv
  <2> QED BY <1>2, <2>1 DEF TreeFits, DeptSeen, TargetFits, LeafSeen, Exists, Moves, PathOf
<1> QED BY <1>3, <1>4

LEMMA IdleType ==
  /\ Idle \in Transactions /\ Idle.pc = "idle" /\ ~Idle.crossed /\ Idle.to = Keep
  /\ Idle.row = NoRow
  /\ NoRow \in RoleRows
<1>1. NoRow \in RoleRows
  BY DEF NoRow, RoleRows
<1> QED BY <1>1 DEF Idle, Transactions

LEMMA LoadIs ==
  ASSUME HomeInv, NEW w \in Workers, NEW o \in Users, LoadAny(w, o)
  PROVE  /\ UNCHANGED <<Rows, excused>>
         /\ \E k \in Transactions : /\ Become(w, k) /\ Formed(k) /\ IdFits(k) /\ Alone(w, k)
                                    /\ HomeFits(k) /\ TreeFits(k)
<1>a. /\ \A d \in Depts : dept[d] \in DeptRows /\ dept[d].parent \in Depts \cup {None}
                         /\ dept[d].anc \in Seq(Depts)
                         /\ [dept |-> dept[d].parent, status |-> dept[d].status] \in RoleRows
      /\ \A u \in Users : user[u] \in UserRows
      /\ \A r \in Roles : role[r] \in RoleRows
      /\ None \notin Depts /\ NoRow \in RoleRows
  BY DirectoryAssumption DEF HomeInv, DirType, DeptRows, RoleRows, NoRow
<1>b. /\ \A d \in Scope(o) : d \in Depts /\ Exists(dept[d]) /\ dept[d].status # "fresh"
      /\ \A u \in Managed(o) : u \in Users /\ user[u].status # "fresh"
      /\ \A r \in Led(o) : r \in Roles /\ role[r].dept \in Depts /\ Exists(role[r])
                         /\ role[r].status # "fresh"
  BY <1>a DEF Scope, Managed, Led, HomeInv, Placed, Exists
<1>1. CASE LoadCreateDept(w, o)
  <2>1. PICK p \in Scope(o), d \in Depts :
          dept[d].status = "fresh" /\ Unused(d) /\ Load(w, o, [Idle EXCEPT !.op = "createDept", !.on = d, !.to = p])
    BY <1>b, <1>1 DEF LoadCreateDept
  <2> DEFINE k == [Idle EXCEPT !.pc = "check", !.by = o, !.op = "createDept", !.on = d,
                               !.to = p]
  <2>2. Become(w, k) /\ UNCHANGED <<Rows, excused>>
    BY <2>1 DEF Load, Idle
  <2>m. p \in Depts /\ d \in Depts
    BY <1>a, <1>b, <2>1, HomesAssumption
  <2>3. /\ k \in Transactions /\ k.pc = "check" /\ ~k.crossed
        /\ k.op = "createDept" /\ k.on = d /\ k.to = p /\ k.row = NoRow
    BY <1>a, <2>m, IdleType DEF Transactions, DeptOps, UserOps, RoleOps
  <2> HIDE DEF k
  <2>4. Formed(k)
    BY <1>a, <1>b, <2>m, <2>1, <2>3 DEF Formed, Exists, DeptOps, UserOps, RoleOps
  <2>5. IdFits(k)
    BY <1>b, <2>m, <2>1, <2>3 DEF IdFits, Creates, DeptOps, UserOps, RoleOps
  <2>6. Alone(w, k) /\ HomeFits(k)
    BY <1>a, <1>b, <2>1, <2>3 DEF Alone, Creates, Unused, InFlight, HomeFits, UserSeen,
       MoveFits, SetFits, RoleSeen, OneLeft
  <2>7. TreeFits(k)
    BY <1>a, <1>b, <2>m, <2>3 DEF TreeFits, DeptSeen, TargetFits, LeafSeen
  <2> QED BY <2>2, <2>3, <2>4, <2>6, <2>5, <2>7
<1>2. CASE LoadUpdateDept(w, o)
  <2>1. PICK d \in Scope(o), to \in Scope(o) \cup {Keep}, ask \in Asks :
          Load(w, o, [Idle EXCEPT !.op = "updateDept", !.on = d, !.to = to, !.ask = ask,
                                  !.row = [dept |-> dept[d].parent,
                                  status |-> dept[d].status], !.anc = dept[d].anc])
    BY <1>b, <1>2 DEF LoadUpdateDept
  <2> DEFINE k == [Idle EXCEPT !.pc = "check", !.by = o, !.op = "updateDept", !.on = d,
                               !.to = to, !.ask = ask, !.row = [dept |-> dept[d].parent,
                               status |-> dept[d].status], !.anc = dept[d].anc]
  <2>2. Become(w, k) /\ UNCHANGED <<Rows, excused>>
    BY <2>1, ZenonT(60) DEF Load, Idle
  <2>m. d \in Depts /\ to \in Depts \cup {Keep} /\ ask \in {"keep", "ACTIVE", "DISABLED"}
    BY <1>a, <1>b, <2>1, HomesAssumption
  <2>3. /\ k \in Transactions /\ k.pc = "check" /\ ~k.crossed
        /\ k.op = "updateDept" /\ k.on = d /\ k.to = to /\ k.ask = ask
        /\ k.row = [dept |-> dept[d].parent, status |-> dept[d].status] /\ k.anc = dept[d].anc
    BY <1>a, <2>m, IdleType, ZenonT(60) DEF Transactions, DeptOps, UserOps, RoleOps
  <2> HIDE DEF k
  <2>4. Formed(k)
    BY <1>a, <1>b, <2>m, <2>1, <2>3 DEF Formed, Exists, DeptOps, UserOps, RoleOps
  <2>5. IdFits(k)
    BY <1>b, <2>m, <2>1, <2>3 DEF IdFits, Creates, DeptOps, UserOps, RoleOps
  <2>6. Alone(w, k) /\ HomeFits(k)
    BY <1>a, <1>b, <2>1, <2>3 DEF Alone, Creates, Unused, InFlight, HomeFits, UserSeen,
       MoveFits, SetFits, RoleSeen, OneLeft
  <2>7. Exists(dept[d]) /\ (to \in Depts => Exists(dept[to]))
    BY <1>b, <2>1, DirectoryAssumption
  <2>8. TreeFits(k)
    BY <2>m, <2>3, <2>7 DEF TreeFits, DeptSeen, TargetFits, LeafSeen, Moves
  <2> QED BY <2>2, <2>3, <2>4, <2>6, <2>5, <2>8
<1>3. CASE LoadDeleteDept(w, o)
  <2>1. PICK d \in Scope(o) :
          Load(w, o, [Idle EXCEPT !.op = "deleteDept", !.on = d])
    BY <1>b, <1>3 DEF LoadDeleteDept
  <2> DEFINE k == [Idle EXCEPT !.pc = "check", !.by = o, !.op = "deleteDept", !.on = d]
  <2>2. Become(w, k) /\ UNCHANGED <<Rows, excused>>
    BY <2>1 DEF Load, Idle
  <2>m. d \in Depts
    BY <1>a, <1>b, <2>1, HomesAssumption
  <2>3. /\ k \in Transactions /\ k.pc = "check" /\ ~k.crossed
        /\ k.op = "deleteDept" /\ k.on = d /\ k.to = Keep /\ k.row = NoRow
    BY <1>a, <2>m, IdleType DEF Transactions, DeptOps, UserOps, RoleOps
  <2> HIDE DEF k
  <2>4. Formed(k)
    BY <1>a, <1>b, <2>m, <2>1, <2>3 DEF Formed, Exists, DeptOps, UserOps, RoleOps
  <2>5. IdFits(k)
    BY <1>b, <2>m, <2>1, <2>3 DEF IdFits, Creates, DeptOps, UserOps, RoleOps
  <2>6. Alone(w, k) /\ HomeFits(k)
    BY <1>a, <1>b, <2>1, <2>3 DEF Alone, Creates, Unused, InFlight, HomeFits, UserSeen,
       MoveFits, SetFits, RoleSeen, OneLeft
  <2>7. TreeFits(k)
    BY <1>a, <1>b, <2>m, <2>3 DEF TreeFits, DeptSeen, TargetFits, LeafSeen
  <2> QED BY <2>2, <2>3, <2>4, <2>6, <2>5, <2>7
<1>4. CASE LoadCreateUser(w, o)
  <2>1. PICK d \in Scope(o), u \in Users :
          user[u].status = "fresh" /\ Unused(u) /\ Load(w, o, [Idle EXCEPT !.op = "createUser", !.on = u, !.to = d])
    BY <1>b, <1>4 DEF LoadCreateUser
  <2> DEFINE k == [Idle EXCEPT !.pc = "check", !.by = o, !.op = "createUser", !.on = u,
                               !.to = d]
  <2>2. Become(w, k) /\ UNCHANGED <<Rows, excused>>
    BY <2>1 DEF Load, Idle
  <2>m. d \in Depts /\ u \in Users /\ user[u] \in UserRows
    BY <1>a, <1>b, <2>1, HomesAssumption
  <2>3. /\ k \in Transactions /\ k.pc = "check" /\ ~k.crossed
        /\ k.op = "createUser" /\ k.on = u /\ k.to = d /\ k.row = NoRow
    BY <1>a, <2>m, IdleType DEF Transactions, DeptOps, UserOps, RoleOps
  <2> HIDE DEF k
  <2>4. Formed(k)
    BY <1>a, <1>b, <2>m, <2>1, <2>3 DEF Formed, Exists, DeptOps, UserOps, RoleOps
  <2>5. IdFits(k)
    BY <1>b, <2>m, <2>1, <2>3 DEF IdFits, Creates, DeptOps, UserOps, RoleOps
  <2>6. Alone(w, k) /\ HomeFits(k)
    BY <1>a, <1>b, <2>1, <2>3 DEF Alone, Creates, Unused, InFlight, HomeFits, UserSeen,
       MoveFits, SetFits, RoleSeen, OneLeft
  <2>7. TreeFits(k)
    BY <1>a, <1>b, <2>m, <2>3 DEF TreeFits, DeptSeen, TargetFits, LeafSeen
  <2> QED BY <2>2, <2>3, <2>4, <2>6, <2>5, <2>7
<1>5. CASE LoadUpdateUser(w, o)
  <2>1. PICK u \in Users, to \in Scope(o) \cup {Keep} :
          user[u].status # "fresh" /\ Load(w, o, [Idle EXCEPT !.op = "updateUser",
                                                              !.on = u, !.to = to,
                                                              !.row = user[u]])
    BY <1>b, <1>5 DEF LoadUpdateUser
  <2> DEFINE k == [Idle EXCEPT !.pc = "check", !.by = o, !.op = "updateUser", !.on = u,
                               !.to = to, !.row = user[u]]
  <2>2. Become(w, k) /\ UNCHANGED <<Rows, excused>>
    BY <2>1 DEF Load, Idle
  <2>m. u \in Users /\ user[u] \in UserRows /\ to \in Depts \cup {Keep}
    BY <1>a, <1>b, <2>1
  <2>3. /\ k \in Transactions /\ k.pc = "check" /\ ~k.crossed
        /\ k.op = "updateUser" /\ k.on = u /\ k.to = to /\ k.row = user[u]
    BY <1>a, <2>m, IdleType DEF Transactions, DeptOps, UserOps, RoleOps
  <2> HIDE DEF k
  <2>4. Formed(k)
    BY <1>a, <1>b, <2>m, <2>1, <2>3 DEF Formed, Exists, DeptOps, UserOps, RoleOps
  <2>5. IdFits(k)
    BY <1>b, <2>m, <2>1, <2>3 DEF IdFits, Creates, DeptOps, UserOps, RoleOps
  <2>6. Alone(w, k) /\ HomeFits(k)
    BY <1>a, <1>b, <2>1, <2>3 DEF Alone, Creates, Unused, InFlight, HomeFits, UserSeen,
       MoveFits, SetFits, RoleSeen, OneLeft
  <2>7. TreeFits(k)
    BY <1>a, <1>b, <2>m, <2>3 DEF TreeFits, DeptSeen, TargetFits, LeafSeen
  <2> QED BY <2>2, <2>3, <2>4, <2>6, <2>5, <2>7
<1>6. CASE LoadDeleteUser(w, o)
  <2>1. PICK u \in Managed(o) :
          Load(w, o, [Idle EXCEPT !.op = "deleteUser", !.on = u, !.row = user[u]])
    BY <1>b, <1>6 DEF LoadDeleteUser
  <2> DEFINE k == [Idle EXCEPT !.pc = "check", !.by = o, !.op = "deleteUser", !.on = u,
                               !.row = user[u]]
  <2>2. Become(w, k) /\ UNCHANGED <<Rows, excused>>
    BY <2>1 DEF Load, Idle
  <2>m. u \in Users /\ user[u] \in UserRows
    BY <1>a, <1>b, <2>1, HomesAssumption
  <2>3. /\ k \in Transactions /\ k.pc = "check" /\ ~k.crossed
        /\ k.op = "deleteUser" /\ k.on = u /\ k.row = user[u] /\ k.to = Keep
    BY <1>a, <2>m, IdleType DEF Transactions, DeptOps, UserOps, RoleOps
  <2> HIDE DEF k
  <2>4. Formed(k)
    BY <1>a, <1>b, <2>m, <2>1, <2>3 DEF Formed, Exists, DeptOps, UserOps, RoleOps
  <2>5. IdFits(k)
    BY <1>b, <2>m, <2>1, <2>3 DEF IdFits, Creates, DeptOps, UserOps, RoleOps
  <2>6. Alone(w, k) /\ HomeFits(k)
    BY <1>a, <1>b, <2>1, <2>3 DEF Alone, Creates, Unused, InFlight, HomeFits, UserSeen,
       MoveFits, SetFits, RoleSeen, OneLeft
  <2>7. TreeFits(k)
    BY <1>a, <1>b, <2>m, <2>3 DEF TreeFits, DeptSeen, TargetFits, LeafSeen
  <2> QED BY <2>2, <2>3, <2>4, <2>6, <2>5, <2>7
<1>7. CASE LoadRestoreUser(w, o)
  <2>1. PICK u \in Managed(o) :
          Load(w, o, [Idle EXCEPT !.op = "restoreUser", !.on = u])
    BY <1>b, <1>7 DEF LoadRestoreUser
  <2> DEFINE k == [Idle EXCEPT !.pc = "check", !.by = o, !.op = "restoreUser", !.on = u]
  <2>2. Become(w, k) /\ UNCHANGED <<Rows, excused>>
    BY <2>1 DEF Load, Idle
  <2>m. u \in Users /\ user[u] \in UserRows
    BY <1>a, <1>b, <2>1, HomesAssumption
  <2>3. /\ k \in Transactions /\ k.pc = "check" /\ ~k.crossed
        /\ k.op = "restoreUser" /\ k.on = u /\ k.to = Keep /\ k.row = NoRow
    BY <1>a, <2>m, IdleType DEF Transactions, DeptOps, UserOps, RoleOps
  <2> HIDE DEF k
  <2>4. Formed(k)
    BY <1>a, <1>b, <2>m, <2>1, <2>3 DEF Formed, Exists, DeptOps, UserOps, RoleOps
  <2>5. IdFits(k)
    BY <1>b, <2>m, <2>1, <2>3 DEF IdFits, Creates, DeptOps, UserOps, RoleOps
  <2>6. Alone(w, k) /\ HomeFits(k)
    BY <1>a, <1>b, <2>1, <2>3 DEF Alone, Creates, Unused, InFlight, HomeFits, UserSeen,
       MoveFits, SetFits, RoleSeen, OneLeft
  <2>7. TreeFits(k)
    BY <1>a, <1>b, <2>m, <2>3 DEF TreeFits, DeptSeen, TargetFits, LeafSeen
  <2> QED BY <2>2, <2>3, <2>4, <2>6, <2>5, <2>7
<1>8. CASE LoadAssign(w, o)
  <2>1. PICK u \in Managed(o), R \in (SUBSET Roles) \ {{}} :
          Load(w, o, [Idle EXCEPT !.op = "assign", !.on = u, !.set = R, !.row = user[u]])
    BY <1>b, <1>8 DEF LoadAssign
  <2> DEFINE k == [Idle EXCEPT !.pc = "check", !.by = o, !.op = "assign", !.on = u,
                               !.set = R, !.row = user[u]]
  <2>2. Become(w, k) /\ UNCHANGED <<Rows, excused>>
    BY <2>1 DEF Load, Idle
  <2>s. R \subseteq Roles /\ R # {}
    BY <2>1
  <2>m. u \in Users /\ user[u] \in UserRows /\ R \subseteq Roles /\ R # {}
    BY <1>a, <1>b, <2>1, HomesAssumption
  <2>3. /\ k \in Transactions /\ k.pc = "check" /\ ~k.crossed
        /\ k.op = "assign" /\ k.on = u /\ k.set = R /\ k.row = user[u] /\ k.to = Keep
    BY <1>a, <2>m, IdleType DEF Transactions, DeptOps, UserOps, RoleOps
  <2> HIDE DEF k
  <2>4. Formed(k)
    BY <1>a, <1>b, <2>m, <2>1, <2>3 DEF Formed, Exists, DeptOps, UserOps, RoleOps
  <2>5. IdFits(k)
    BY <1>b, <2>m, <2>1, <2>3 DEF IdFits, Creates, DeptOps, UserOps, RoleOps
  <2>6. Alone(w, k) /\ HomeFits(k)
    BY <1>a, <1>b, <2>1, <2>3 DEF Alone, Creates, Unused, InFlight, HomeFits, UserSeen,
       MoveFits, SetFits, RoleSeen, OneLeft
  <2>7. TreeFits(k)
    BY <1>a, <1>b, <2>m, <2>3 DEF TreeFits, DeptSeen, TargetFits, LeafSeen
  <2> QED BY <2>2, <2>3, <2>4, <2>6, <2>5, <2>7
<1>9. CASE LoadRemove(w, o)
  <2>1. PICK u \in Managed(o), r \in Roles :
          Load(w, o, [Idle EXCEPT !.op = "remove", !.on = u, !.set = {r}])
    BY <1>b, <1>9 DEF LoadRemove
  <2> DEFINE k == [Idle EXCEPT !.pc = "check", !.by = o, !.op = "remove", !.on = u, !.set = {r}]
  <2>2. Become(w, k) /\ UNCHANGED <<Rows, excused>>
    BY <2>1 DEF Load, Idle
  <2>m. u \in Users /\ user[u] \in UserRows /\ r \in Roles /\ role[r] \in RoleRows
    BY <1>a, <1>b, <2>1, HomesAssumption
  <2>3. /\ k \in Transactions /\ k.pc = "check" /\ ~k.crossed
        /\ k.op = "remove" /\ k.on = u /\ k.set = {r} /\ k.to = Keep /\ k.row = NoRow
    BY <1>a, <2>m, IdleType DEF Transactions, DeptOps, UserOps, RoleOps
  <2> HIDE DEF k
  <2>4. Formed(k)
    BY <1>a, <1>b, <2>m, <2>1, <2>3 DEF Formed, Exists, DeptOps, UserOps, RoleOps
  <2>5. IdFits(k)
    BY <1>b, <2>m, <2>1, <2>3 DEF IdFits, Creates, DeptOps, UserOps, RoleOps
  <2>6. Alone(w, k) /\ HomeFits(k)
    BY <1>a, <1>b, <2>1, <2>3 DEF Alone, Creates, Unused, InFlight, HomeFits, UserSeen,
       MoveFits, SetFits, RoleSeen, OneLeft
  <2>7. TreeFits(k)
    BY <1>a, <1>b, <2>m, <2>3 DEF TreeFits, DeptSeen, TargetFits, LeafSeen
  <2> QED BY <2>2, <2>3, <2>4, <2>6, <2>5, <2>7
<1>10. CASE LoadCreateRole(w, o)
  <2>1. PICK d \in Scope(o), r \in Roles :
          role[r].status = "fresh" /\ Unused(r) /\ Load(w, o, [Idle EXCEPT !.op = "createRole", !.on = r, !.to = d])
    BY <1>b, <1>10 DEF LoadCreateRole
  <2> DEFINE k == [Idle EXCEPT !.pc = "check", !.by = o, !.op = "createRole", !.on = r,
                               !.to = d]
  <2>2. Become(w, k) /\ UNCHANGED <<Rows, excused>>
    BY <2>1 DEF Load, Idle
  <2>m. d \in Depts /\ r \in Roles /\ role[r] \in RoleRows
    BY <1>a, <1>b, <2>1, HomesAssumption
  <2>3. /\ k \in Transactions /\ k.pc = "check" /\ ~k.crossed
        /\ k.op = "createRole" /\ k.on = r /\ k.to = d /\ k.row = NoRow
    BY <1>a, <2>m, IdleType DEF Transactions, DeptOps, UserOps, RoleOps
  <2> HIDE DEF k
  <2>4. Formed(k)
    BY <1>a, <1>b, <2>m, <2>1, <2>3 DEF Formed, Exists, DeptOps, UserOps, RoleOps
  <2>5. IdFits(k)
    BY <1>b, <2>m, <2>1, <2>3 DEF IdFits, Creates, DeptOps, UserOps, RoleOps
  <2>6. Alone(w, k) /\ HomeFits(k)
    BY <1>a, <1>b, <2>1, <2>3 DEF Alone, Creates, Unused, InFlight, HomeFits, UserSeen,
       MoveFits, SetFits, RoleSeen, OneLeft
  <2>7. TreeFits(k)
    BY <1>a, <1>b, <2>m, <2>3 DEF TreeFits, DeptSeen, TargetFits, LeafSeen
  <2> QED BY <2>2, <2>3, <2>4, <2>6, <2>5, <2>7
<1>11. CASE LoadUpdateRole(w, o)
  <2>1. PICK r \in Led(o), to \in Scope(o) \cup {Keep}, ask \in Asks :
          Load(w, o, [Idle EXCEPT !.op = "updateRole", !.on = r, !.to = to, !.ask = ask,
                                  !.row = role[r]])
    BY <1>b, <1>11 DEF LoadUpdateRole
  <2> DEFINE k == [Idle EXCEPT !.pc = "check", !.by = o, !.op = "updateRole", !.on = r,
                               !.to = to, !.ask = ask, !.row = role[r]]
  <2>2. Become(w, k) /\ UNCHANGED <<Rows, excused>>
    BY <2>1 DEF Load, Idle
  <2>m. r \in Roles /\ role[r] \in RoleRows /\ to \in Depts \cup {Keep} /\ ask \in {"keep", "ACTIVE", "DISABLED"}
    BY <1>a, <1>b, <2>1, HomesAssumption
  <2>3. /\ k \in Transactions /\ k.pc = "check" /\ ~k.crossed
        /\ k.op = "updateRole" /\ k.on = r /\ k.to = to /\ k.ask = ask /\ k.row = role[r]
    BY <1>a, <2>m, IdleType, ZenonT(60) DEF Transactions, DeptOps, UserOps, RoleOps
  <2> HIDE DEF k
  <2>4. Formed(k)
    BY <1>a, <1>b, <2>m, <2>1, <2>3 DEF Formed, Exists, DeptOps, UserOps, RoleOps
  <2>5. IdFits(k)
    BY <1>b, <2>m, <2>1, <2>3 DEF IdFits, Creates, DeptOps, UserOps, RoleOps
  <2>6. Alone(w, k) /\ HomeFits(k)
    BY <1>a, <1>b, <2>1, <2>3 DEF Alone, Creates, Unused, InFlight, HomeFits, UserSeen,
       MoveFits, SetFits, RoleSeen, OneLeft
  <2>7. TreeFits(k)
    BY <1>a, <1>b, <2>m, <2>3 DEF TreeFits, DeptSeen, TargetFits, LeafSeen
  <2> QED BY <2>2, <2>3, <2>4, <2>6, <2>5, <2>7
<1>12. CASE LoadDeleteRole(w, o)
  <2>1. PICK r \in Led(o) :
          Load(w, o, [Idle EXCEPT !.op = "deleteRole", !.on = r])
    BY <1>b, <1>12 DEF LoadDeleteRole
  <2> DEFINE k == [Idle EXCEPT !.pc = "check", !.by = o, !.op = "deleteRole", !.on = r]
  <2>2. Become(w, k) /\ UNCHANGED <<Rows, excused>>
    BY <2>1 DEF Load, Idle
  <2>m. r \in Roles /\ role[r] \in RoleRows
    BY <1>a, <1>b, <2>1, HomesAssumption
  <2>3. /\ k \in Transactions /\ k.pc = "check" /\ ~k.crossed
        /\ k.op = "deleteRole" /\ k.on = r /\ k.to = Keep /\ k.row = NoRow
    BY <1>a, <2>m, IdleType DEF Transactions, DeptOps, UserOps, RoleOps
  <2> HIDE DEF k
  <2>4. Formed(k)
    BY <1>a, <1>b, <2>m, <2>1, <2>3 DEF Formed, Exists, DeptOps, UserOps, RoleOps
  <2>5. IdFits(k)
    BY <1>b, <2>m, <2>1, <2>3 DEF IdFits, Creates, DeptOps, UserOps, RoleOps
  <2>6. Alone(w, k) /\ HomeFits(k)
    BY <1>a, <1>b, <2>1, <2>3 DEF Alone, Creates, Unused, InFlight, HomeFits, UserSeen,
       MoveFits, SetFits, RoleSeen, OneLeft
  <2>7. TreeFits(k)
    BY <1>a, <1>b, <2>m, <2>3 DEF TreeFits, DeptSeen, TargetFits, LeafSeen
  <2> QED BY <2>2, <2>3, <2>4, <2>6, <2>5, <2>7
<1> QED BY <1>1, <1>2, <1>3, <1>4, <1>5, <1>6, <1>7, <1>8, <1>9, <1>10, <1>11, <1>12 DEF LoadAny

LEMMA LoadKeepsHome ==
  ASSUME HomeInv, NEW w \in Workers, NEW o \in Users, LoadAny(w, o)
  PROVE  HomeInv'
BY LoadIs, OneBecomes

LEMMA LoadKeepsTree ==
  ASSUME HomeInv, TreeInv, NEW w \in Workers, NEW o \in Users, LoadAny(w, o)
  PROVE  TreeInv'
BY LoadIs, OneBecomesTree

LEMMA ToType ==
  ASSUME NEW h \in Transactions, NEW to \in Depts \cup {Keep}
  PROVE  [h EXCEPT !.to = to] \in Transactions
BY DEF Transactions

LEMMA RowType ==
  ASSUME NEW h \in Transactions, NEW row \in UserRows \cup RoleRows
  PROVE  [h EXCEPT !.row = row] \in Transactions
BY DEF Transactions

LEMMA CheckedType ==
  ASSUME NEW h \in Transactions, NEW path \in Seq(Depts), NEW to \in Depts \cup {Keep},
         NEW row \in UserRows \cup RoleRows
  PROVE  [h EXCEPT !.pc = "write", !.path = path, !.to = to, !.row = row] \in Transactions
<1> DEFINE k == [h EXCEPT !.pc = "write", !.path = path, !.to = to, !.row = row]
           f == [h EXCEPT !.pc = "write", !.path = path]
           g == [f EXCEPT !.to = to]
<1>1. f \in Transactions
  BY DEF Transactions
<1>2. f \in Transactions => g \in Transactions
  <2> HIDE DEF f
  <2> QED BY ToType
<1>3. g \in Transactions => [g EXCEPT !.row = row] \in Transactions
  <2> HIDE DEF g
  <2> QED BY RowType
<1>4. k = [g EXCEPT !.row = row]
  BY DEF Transactions
<1> QED BY <1>1, <1>2, <1>3, <1>4

\* What the checks find holds as long as nothing relevant commits.
LEMMA CheckIs ==
  ASSUME HomeInv, NEW w \in Workers, Check(w)
  PROVE  /\ UNCHANGED <<Rows, excused>> /\ At(w, "check") /\ Passes(req[w])
         /\ \E k \in Transactions :
              /\ Become(w, k) /\ Formed(k) /\ IdFits(k) /\ Alone(w, k) /\ (~k.crossed => HomeFits(k))
              /\ k.pc = "write" /\ k.op = req[w].op /\ k.on = req[w].on
              /\ k.crossed = req[w].crossed
              /\ k.to = (IF Moves(req[w]) THEN req[w].to ELSE Keep)
              /\ k.op # "assign" => k.row = req[w].row /\ (Moves(k) <=> Moves(req[w]))
              /\ k.anc = req[w].anc /\ k.path = NewPath(req[w])
<1> PICK h \in Transactions : h = req[w]
  BY DEF HomeInv, DirType
<1>1. h.pc = "check" /\ Passes(h) /\ Formed(h) /\ IdFits(h) /\ Alone(w, h)
  BY DEF Check, At, HomeInv, DirType, IdsOnce
<1>2. PICK path : path = NewPath(h)
  OBVIOUS
<1>3. path \in Seq(Depts)
  <2>1. h.to \in Depts => dept[h.to].anc \in Seq(Depts)
    BY DEF HomeInv, DirType, DeptRows
  <2>2. h.op = "createDept" => h.to \in Depts
    BY <1>1 DEF Formed
  <2>3. h.anc \in Seq(Depts)
    BY DEF Transactions
  <2> QED BY <1>2, <2>1, <2>2, <2>3 DEF NewPath, PathOf, Moves
<1>a. PICK to \in Depts \cup {Keep} : to = IF Moves(h) THEN h.to ELSE Keep
  BY DEF Transactions
<1>b. PICK row \in UserRows \cup RoleRows : row = IF h.op = "assign" THEN NoRow ELSE h.row
  BY IdleType DEF Transactions
<1> DEFINE k == [h EXCEPT !.pc = "write", !.path = path, !.to = to, !.row = row]
<1>4. Become(w, k) /\ UNCHANGED <<Rows, excused>>
  BY <1>2, <1>a, <1>b DEF Check, Transactions
<1>5. k \in Transactions
  BY <1>3, CheckedType
<1>6. /\ k.pc = "write" /\ k.op = h.op /\ k.on = h.on /\ k.set = h.set /\ k.crossed = h.crossed
      /\ k.to = (IF Moves(h) THEN h.to ELSE Keep) /\ (h.op # "assign" => k.row = h.row)
      /\ k.anc = h.anc /\ k.path = path
  BY <1>a, <1>b DEF Transactions
<1> HIDE DEF k
<1>7. Moves(k) <=> h.op # "assign" /\ Moves(h)
  BY <1>1, <1>6, DirectoryAssumption DEF Moves, Formed, NoRow
<1>8. Formed(k)
  BY <1>1, <1>6, <1>7, DirectoryAssumption DEF Formed, Moves, NoRow, DeptOps, UserOps, RoleOps
<1>9. IdFits(k) /\ Alone(w, k)
  BY <1>1, <1>6 DEF IdFits, Alone, Creates
<1>10. ~k.crossed => HomeFits(k)
  <2> SUFFICES ASSUME ~h.crossed PROVE HomeFits(k)
    BY <1>6
  <2>1. UserSeen(h) /\ RoleSeen(h)
    BY <1>1 DEF HomeInv, HomeSeen, HomeFits
  <2>2. UserSeen(k)
    BY <2>1, <1>6 DEF UserSeen
  <2>3. MoveFits(k)
    BY <1>1, <1>6, <1>7 DEF MoveFits, Passes, MayUpdateUser
  <2>4. SetFits(k)
    <3> SUFFICES ASSUME h.op = "assign", NEW r \in h.set
                 PROVE  role[r].dept = user[h.on].dept
      BY <1>6 DEF SetFits
    <3>1. role[r].dept = h.row.dept /\ role[r].status = "ACTIVE" /\ r \in Roles
      BY <1>1 DEF Passes, MayAssign, Transactions
    <3>2. h.row.dept \in Depts /\ Exists(dept[h.row.dept])
      BY <3>1 DEF HomeInv, Placed, Exists
    <3> QED BY <1>1, <2>1, <3>1, <3>2 DEF UserSeen, Lost, Exists
  <2>5. RoleSeen(k)
    BY <1>1, <1>6, <1>7, <2>1 DEF RoleSeen, Passes, MayUpdateRole, Moves
  <2>6. OneLeft(k)
    BY <1>1, <1>6 DEF OneLeft, Passes, MayRemove
  <2> QED BY <2>2, <2>3, <2>4, <2>5, <2>6 DEF HomeFits
<1>11. At(w, "check")
  BY DEF Check
<1> QED BY <1>1, <1>2, <1>4, <1>5, <1>6, <1>7, <1>8, <1>9, <1>10, <1>11

LEMMA CheckKeepsHome ==
  ASSUME HomeInv, NEW w \in Workers, Check(w)
  PROVE  HomeInv'
BY CheckIs, OneBecomes

LEMMA OthersKeepHome ==
  ASSUME HomeInv, NEW w \in Workers, Refuse(w) \/ Abort(w) \/ AssignDeletes(w)
  PROVE  HomeInv'
<1> PICK h \in Transactions : h = req[w]
  BY DEF HomeInv, DirType
<1>1. CASE Refuse(w) \/ Abort(w)
  <2>1. Become(w, Idle) /\ UNCHANGED <<Rows, excused>>
    BY <1>1 DEF Refuse, Abort
  <2>2. Formed(Idle)
    BY IdleType DEF Formed
  <2> QED BY <2>1, <2>2, IdleType, OneBecomes
<1>2. CASE AssignDeletes(w)
  <2>1. PICK seen : seen = holds[h.on]
    OBVIOUS
  <2> DEFINE k == [h EXCEPT !.pc = "insert", !.seen = seen]
  <2>2. Become(w, k) /\ UNCHANGED <<Rows, excused>> /\ h.pc = "write" /\ h.op = "assign"
    BY <1>2, <2>1 DEF AssignDeletes, Writing, At
  <2>3. Formed(h) /\ IdFits(h) /\ Alone(w, h) /\ (~h.crossed => HomeFits(h))
    BY <2>2 DEF HomeInv, DirType, IdsOnce, HomeSeen
  <2>4. seen \in SUBSET Roles
    BY <2>1, <2>2, <2>3 DEF HomeInv, DirType, Formed, UserOps
  <2>5. /\ k \in Transactions /\ k.pc = "insert" /\ k.op = "assign" /\ k.on = h.on /\ k.set = h.set
        /\ k.crossed = h.crossed /\ k.to = h.to /\ k.row = h.row
    BY <2>2, <2>4 DEF Transactions
  <2> HIDE DEF k
  <2>6. Formed(k) /\ IdFits(k) /\ Alone(w, k)
    BY <2>2, <2>3, <2>5 DEF Formed, IdFits, Alone, Creates, Moves, DeptOps, UserOps, RoleOps
  <2>7. ~k.crossed => HomeFits(k)
    BY <2>2, <2>3, <2>5 DEF HomeFits, UserSeen, MoveFits, SetFits, RoleSeen, OneLeft
  <2> QED BY <2>2, <2>5, <2>6, <2>7, OneBecomes
<1> QED BY <1>1, <1>2

-----------------------------------------------------------------------------
(* Commits *)

Alike(k, h) ==
  /\ k.pc = h.pc /\ k.op = h.op /\ k.by = h.by /\ k.on = h.on /\ k.to = h.to /\ k.ask = h.ask
  /\ k.set = h.set /\ k.row = h.row /\ k.anc = h.anc /\ k.path = h.path /\ k.seen = h.seen

LEMMA CommitIs ==
  ASSUME DirType, NEW w \in Workers, NEW kind, Commit(w, kind)
  PROVE  /\ req' \in [Workers -> Transactions] /\ req'[w] = Idle
         /\ \A v \in Workers : v # w =>
              /\ Alike(req'[v], req[v])
              /\ ~req'[v].crossed => ~req[v].crossed /\ kind \notin Conflicts(req[v])
<1>1. ASSUME NEW h \in Transactions, NEW c \in BOOLEAN
      PROVE  \E k \in Transactions : k = [h EXCEPT !.crossed = c] /\ Alike(k, h) /\ k.crossed = c
  <2> DEFINE k == [h EXCEPT !.crossed = c]
  <2>1. k \in Transactions
    BY DEF Transactions
  <2>2. Alike(k, h) /\ k.crossed = c
    BY DEF Transactions, Alike
  <2> QED BY <2>1, <2>2
<1>2. ASSUME NEW v \in Workers, v # w
      PROVE  /\ req'[v] \in Transactions /\ Alike(req'[v], req[v])
             /\ ~req'[v].crossed => ~req[v].crossed /\ kind \notin Conflicts(req[v])
  <2> PICK h \in Transactions : h = req[v]
    BY DEF DirType
  <2> PICK c \in BOOLEAN : c = (h.crossed \/ kind \in Conflicts(h))
    BY DEF Transactions
  <2>1. PICK k \in Transactions : k = [h EXCEPT !.crossed = c] /\ Alike(k, h) /\ k.crossed = c
    BY <1>1
  <2>2. req'[v] = k
    BY <2>1, <1>2 DEF Commit
  <2> QED BY <2>1, <2>2
<1>3. req' = [v \in Workers |-> req'[v]] /\ req'[w] = Idle
  BY DEF Commit
<1> QED BY <1>2, <1>3, IdleType

\* What a commit of this kind may do to what others have read at home.
HomeEffect(kind) ==
  /\ \A d \in Depts : dept[d].status = "gone" => dept'[d].status = "gone"
  /\ kind # "userDept" =>
       \A u \in Users :
         \/ user'[u].dept = user[u].dept
         \/ /\ user[u].dept \in Depts /\ dept'[user[u].dept].status = "gone"
            /\ \A r \in Roles : role[r].dept = user[u].dept => ~Exists(role'[r])
  /\ kind # "role" => \A r \in Roles : role'[r] = role[r] \/ ~Exists(role'[r])
  /\ kind # "bind" => \A u \in Users : holds'[u] \subseteq holds[u]
  /\ kind \notin {"bind", "roleGone", "deptGone"} => holds' = holds

\* Ids are used up by those who create their rows, and by nobody else.
FreshOnce(w) ==
  /\ \A d \in Depts : dept'[d].status = "fresh" <=>
       dept[d].status = "fresh" /\ ~(req[w].op = "createDept" /\ req[w].on = d)
  /\ \A u \in Users : user'[u].status = "fresh" <=>
       user[u].status = "fresh" /\ ~(req[w].op = "createUser" /\ req[w].on = u)
  /\ \A r \in Roles : role'[r].status = "fresh" <=>
       role[r].status = "fresh" /\ ~(req[w].op = "createRole" /\ req[w].on = r)

RowsType ==
  /\ dept \in [Depts -> DeptRows] /\ user \in [Users -> UserRows]
  /\ role \in [Roles -> RoleRows] /\ holds \in [Users -> SUBSET Roles]

LEMMA CommitKeepsHome ==
  ASSUME HomeInv, NEW w \in Workers, NEW kind, req[w].pc # "idle", Commit(w, kind), RowsType',
         Placed', RolesAreFromHome', FreshOnce(w), HomeEffect(kind)
  PROVE  HomeInv'
<1>1. /\ req' \in [Workers -> Transactions] /\ req'[w] = Idle /\ Idle.pc = "idle"
      /\ \A v \in Workers : v # w =>
           /\ Alike(req'[v], req[v])
           /\ ~req'[v].crossed => ~req[v].crossed /\ kind \notin Conflicts(req[v])
  BY CommitIs, IdleType DEF HomeInv
<1>2. DirType'
  <2>1. ASSUME NEW v \in Workers PROVE Formed(req'[v])
    <3>1. CASE v = w
      BY <1>1, <3>1 DEF Formed
    <3>2. CASE v # w
      <4> PICK h \in Transactions : h = req[v]
        BY DEF HomeInv, DirType
      <4> PICK k \in Transactions : k = req'[v]
        BY <1>1
      <4>1. Formed(h) /\ Alike(k, h)
        BY <1>1, <3>2 DEF HomeInv, DirType
      <4> QED BY <4>1 DEF Formed, Alike, Moves
    <3> QED BY <3>1, <3>2
  <2> QED BY <1>1, <2>1 DEF RowsType, DirType, Formed, Moves
<1>3. ASSUME NEW v \in Workers, req'[v].pc # "idle"
      PROVE  /\ v # w /\ req[v].pc # "idle" /\ Formed(req[v]) /\ Alike(req'[v], req[v])
             /\ IdFits(req[v]) /\ Alone(v, req[v]) /\ Alone(w, req[w])
  BY <1>1, <1>3 DEF Alike, HomeInv, DirType, IdsOnce
<1>4. IdsOnce'
  <2> SUFFICES ASSUME NEW v \in Workers, req'[v].pc # "idle"
               PROVE  IdFits(req[v])' /\ Alone(v, req[v])'
    BY DEF IdsOnce
  <2>1. IdFits(req[v])'
    BY <1>3 DEF IdFits, Formed, Alike, Alone, Creates, FreshOnce, DeptOps, UserOps, RoleOps
  <2>2. Alone(v, req[v])'
    BY <1>1, <1>3 DEF Alone, Alike, Creates
  <2> QED BY <2>1, <2>2
<1>5. HomeSeen'
  <2> SUFFICES ASSUME NEW v \in Workers, req'[v].pc # "idle", ~req'[v].crossed
               PROVE  HomeFits(req[v])'
    BY DEF HomeSeen
  <2> PICK h \in Transactions : h = req[v]
    BY DEF HomeInv, DirType
  <2> PICK k \in Transactions : k = req'[v]
    BY <1>1
  <2>1. Formed(h) /\ Alike(k, h) /\ IdFits(h) /\ HomeFits(h) /\ kind \notin Conflicts(h) /\ h.pc # "idle"
    BY <1>1, <1>3 DEF HomeInv, HomeSeen
  <2>2. Moves(k) = Moves(h) /\ \A d \in Depts : Lost(d) => Lost(d)'
    BY <2>1 DEF Alike, Moves, Lost, HomeEffect
  <2>3. UserSeen(k)'
    BY <2>1, <2>2 DEF Alike, HomeFits, UserSeen, Formed, HomeEffect, Conflicts, Lost, UserOps
  <2>4. MoveFits(k)'
    BY <2>1, <2>2 DEF Alike, HomeFits, MoveFits, Formed, HomeEffect, Conflicts, Placed,
       UserOps, Moves, HomeInv, DirType
  <2>5. SetFits(k)'
    <3> SUFFICES ASSUME h.op = "assign", h.pc \in {"write", "insert"}, NEW r \in h.set, Exists(role'[r])
                 PROVE  role'[r].dept = user'[h.on].dept
      BY <2>1 DEF SetFits, Alike, Exists
    <3>1. r \in Roles /\ h.on \in Users
      BY <2>1 DEF Transactions, Formed, UserOps
    <3>2. kind # "role" /\ kind # "userDept"
      BY <2>1 DEF Conflicts
    <3>3. role'[r] = role[r]
      BY <3>1, <3>2 DEF HomeEffect
    <3>4. role[r].dept = user[h.on].dept
      BY <2>1, <3>3 DEF HomeFits, SetFits
    <3> QED BY <3>1, <3>2, <3>3, <3>4 DEF HomeEffect
  <2>6. RoleSeen(k)'
    BY <2>1, <2>2 DEF Alike, HomeFits, RoleSeen, Formed, HomeEffect, Conflicts, RoleOps,
       Lost, Moves, HomeInv, DirType
  <2>7. OneLeft(k)'
    BY <2>1, <2>2 DEF Alike, HomeFits, OneLeft, Formed, HomeEffect, Conflicts, UserOps
  <2> QED BY <2>3, <2>4, <2>5, <2>6, <2>7 DEF HomeFits, UserSeen, MoveFits, SetFits,
             RoleSeen, OneLeft
<1> QED BY <1>2, <1>4, <1>5 DEF HomeInv

-----------------------------------------------------------------------------
(* Writes *)

LEMMA WriterIs ==
  ASSUME HomeInv, NEW w \in Workers, req[w].pc # "idle"
  PROVE  /\ req[w] \in Transactions /\ Formed(req[w]) /\ IdFits(req[w])
         /\ ~req[w].crossed => HomeFits(req[w])
         /\ \A d \in Depts : dept[d] \in DeptRows
         /\ \A u \in Users : user[u] \in UserRows /\ holds[u] \in SUBSET Roles
         /\ \A r \in Roles : role[r] \in RoleRows
BY DEF HomeInv, DirType, IdsOnce, HomeSeen

\* A commit of a transaction at home is excused only if it was crossed.
LEMMA ExcusedIs ==
  ASSUME NEW w \in Workers, NEW kind, Commit(w, kind)
  PROVE  /\ excused \subseteq excused'
         /\ req[w].crossed => Family(req[w]) \in excused'
BY DEF Commit

LEMMA RebasedType ==
  ASSUME NEW h \in Transactions, h.on \in Depts, NEW anc \in Seq(Depts)
  PROVE  Rebased(h, anc) \in Seq(Depts)
<1>1. h.anc \in Seq(Depts) /\ h.path \in Seq(Depts)
  BY DEF Transactions
<1>2. PathOf(h.on, h.anc) \in Seq(Depts) /\ PathOf(h.on, h.path) \in Seq(Depts)
  BY <1>1 DEF PathOf
<1> PICK old \in Seq(Depts) : old = PathOf(h.on, h.anc)
  BY <1>2
<1> PICK new \in Seq(Depts) : new = PathOf(h.on, h.path)
  BY <1>2
<1>3. SubSeq(anc, Len(old) + 1, Len(anc)) \in Seq(Depts)
  OBVIOUS
<1>4. new \o SubSeq(anc, Len(old) + 1, Len(anc)) \in Seq(Depts)
  BY <1>3
<1> QED BY <1>4 DEF Rebased

\* The row that is updated, and the paths of all the others.
LEMMA UpdateDeptIs ==
  ASSUME DirType, NEW w \in Workers, WriteUpdateDept(w)
  PROVE  LET h == req[w] IN
         /\ dept' \in [Depts -> DeptRows]
         /\ \A d \in Depts :
              IF d = h.on /\ Exists(dept[d])
              THEN dept'[d] = [parent |-> Place(h), anc |-> Rebased(h, h.path), status |-> Asked(h)]
              ELSE dept'[d] = [parent |-> dept[d].parent, anc |-> Rebased(h, dept[d].anc),
                               status |-> dept[d].status]
<1> PICK h \in Transactions : h = req[w]
  BY DEF DirType
<1>1. Formed(h) /\ h.op = "updateDept" /\ h.pc = "write" /\ h.on \in Depts
  BY DEF DirType, WriteUpdateDept, Writing, At, Formed, DeptOps
<1>2. Place(h) \in Depts \cup {None} /\ Asked(h) \in {"ACTIVE", "DISABLED"} /\ h.path \in Seq(Depts)
  BY <1>1 DEF Formed, Place, Asked, Exists, RoleRows, Transactions
<1>3. ASSUME NEW d \in Depts
      PROVE  /\ dept'[d] \in DeptRows
             /\ IF d = h.on /\ Exists(dept[d])
                THEN dept'[d] = [parent |-> Place(h), anc |-> Rebased(h, h.path), status |-> Asked(h)]
                ELSE dept'[d] = [parent |-> dept[d].parent, anc |-> Rebased(h, dept[d].anc),
                                 status |-> dept[d].status]
  <2> PICK x \in DeptRows : x = dept[d]
    BY DEF DirType
  <2>1. x.anc \in Seq(Depts)
    BY DEF DeptRows
  <2>2. Rebased(h, h.path) \in Seq(Depts) /\ Rebased(h, x.anc) \in Seq(Depts)
    BY <1>1, <1>2, <2>1, RebasedType
  <2> PICK p \in Seq(Depts) : p = Rebased(h, h.path)
    BY <2>2
  <2> PICK q \in Seq(Depts) : q = Rebased(h, x.anc)
    BY <2>2
  <2>3. CASE d = h.on /\ Exists(dept[d])
    <3>1. dept'[d] = [[parent |-> Place(h), anc |-> h.path, status |-> Asked(h)] EXCEPT !.anc = p]
      BY <2>3, <1>1 DEF WriteUpdateDept, DirType
    <3>2. dept'[d] = [parent |-> Place(h), anc |-> p, status |-> Asked(h)]
      BY <3>1
    <3> QED BY <1>2, <2>3, <3>2 DEF DeptRows
  <2>4. CASE ~(d = h.on /\ Exists(dept[d]))
    <3>1. dept'[d] = [x EXCEPT !.anc = q]
      BY <2>4, <1>1 DEF WriteUpdateDept, DirType
    <3>2. dept'[d] = [parent |-> x.parent, anc |-> q, status |-> x.status] /\ dept'[d] \in DeptRows
      BY <3>1 DEF DeptRows
    <3> QED BY <2>4, <3>2
  <2> QED BY <2>3, <2>4
<1>4. dept' = [d \in Depts |-> dept'[d]]
  BY DEF WriteUpdateDept
<1>5. dept' \in [Depts -> DeptRows]
  BY <1>3, <1>4
<1> QED BY <1>3, <1>5

LEMMA TreeWriteKeepsHome ==
  ASSUME HomeInv, NEW w \in Workers, WriteCreateDept(w) \/ WriteUpdateDept(w)
  PROVE  HomeInv'
<1> PICK h \in Transactions : h = req[w]
  BY DEF HomeInv, DirType
<1>1. h.pc = "write" /\ h.on \in Depts /\ Formed(h) /\ IdFits(h)
  BY WriterIs DEF WriteCreateDept, WriteUpdateDept, Writing, At, Formed, DeptOps
<1>2. user' = user /\ role' = role /\ holds' = holds
  BY DEF WriteCreateDept, WriteUpdateDept
<1>3. PICK kind : Commit(w, kind)
  BY DEF WriteCreateDept, WriteUpdateDept
<1>4. /\ dept' \in [Depts -> DeptRows]
      /\ \A d \in Depts : dept[d].status = "gone" => dept'[d].status = "gone"
      /\ \A d \in Depts : Exists(dept[d]) => Exists(dept'[d])
      /\ \A d \in Depts : dept'[d].status = "fresh" <=>
           dept[d].status = "fresh" /\ ~(h.op = "createDept" /\ h.on = d)
  <2>1. CASE WriteCreateDept(w)
    <3>1. /\ dept' = [dept EXCEPT ![h.on] = [parent |-> h.to, anc |-> h.path, status |-> "ACTIVE"]]
          /\ h.op = "createDept" /\ h.to \in Depts /\ h.path \in Seq(Depts)
      BY <2>1, <1>1 DEF WriteCreateDept, Writing, Formed, Transactions
    <3>2. dept[h.on].status = "fresh"
      BY <1>1, <3>1 DEF IdFits, Creates, DeptOps
    <3> QED BY <1>1, <3>1, <3>2 DEF HomeInv, DirType, DeptRows, Exists
  <2>2. CASE WriteUpdateDept(w)
    <3>1. h.op = "updateDept" /\ Asked(h) \in {"ACTIVE", "DISABLED"}
      BY <2>2, <1>1 DEF WriteUpdateDept, Writing, Formed, Asked, Exists, Transactions
    <3>2. /\ dept' \in [Depts -> DeptRows]
          /\ \A d \in Depts : dept'[d].status = IF d = h.on /\ Exists(dept[d]) THEN Asked(h) ELSE dept[d].status
      <4>1. DirType
        BY DEF HomeInv
      <4>2. dept' \in [Depts -> DeptRows]
        BY <2>2, <4>1, UpdateDeptIs
      <4>3. ASSUME NEW d \in Depts
            PROVE  dept'[d].status = IF d = h.on /\ Exists(dept[d]) THEN Asked(h) ELSE dept[d].status
        <5>1. CASE d = h.on /\ Exists(dept[d])
          <6>1. dept'[d] = [parent |-> Place(h), anc |-> Rebased(h, h.path), status |-> Asked(h)]
            BY <2>2, <4>1, <5>1, UpdateDeptIs
          <6> QED BY <5>1, <6>1
        <5>2. CASE ~(d = h.on /\ Exists(dept[d]))
          <6>1. dept'[d] = [parent |-> dept[d].parent, anc |-> Rebased(h, dept[d].anc), status |-> dept[d].status]
            BY <2>2, <4>1, <5>2, UpdateDeptIs
          <6> QED BY <5>2, <6>1
        <5> QED BY <5>1, <5>2
      <4> QED BY <4>2, <4>3
    <3> QED BY <3>1, <3>2 DEF Exists
  <2> QED BY <2>1, <2>2
<1>5. RowsType' /\ Placed' /\ FreshOnce(w) /\ HomeEffect(kind)
  <2>1. RowsType'
    BY <1>2, <1>4 DEF RowsType, HomeInv, DirType
  <2>2. Placed'
    BY <1>2, <1>4 DEF HomeInv, Placed, Exists
  <2>3. FreshOnce(w)
    <3>1. h.op \notin {"createUser", "createRole"}
      BY <1>1 DEF WriteCreateDept, WriteUpdateDept, Writing
    <3> QED BY <1>2, <1>4, <3>1 DEF FreshOnce
  <2>4. HomeEffect(kind)
    BY <1>2, <1>4 DEF HomeEffect, HomeInv, DirType
  <2> QED BY <2>1, <2>2, <2>3, <2>4
<1>6. RolesAreFromHome'
  BY <1>2, <1>3, ExcusedIs DEF RolesAreFromHome, HomeInv
<1> QED BY <1>1, <1>3, <1>5, <1>6, CommitKeepsHome

LEMMA DeleteDeptKeepsHome ==
  ASSUME HomeInv, NEW w \in Workers, WriteDeleteDept(w)
  PROVE  HomeInv'
<1> PICK h \in Transactions : h = req[w]
  BY DEF HomeInv, DirType
<1>1. h.pc = "write" /\ h.op = "deleteDept" /\ h.on \in Depts /\ Commit(w, "deptGone") /\ dept[h.on].status # "fresh"
  BY WriterIs DEF WriteDeleteDept, Writing, At, Formed, DeptOps, IdFits, Creates
<1>2. /\ dept' = [dept EXCEPT ![h.on] = [parent |-> None, anc |-> <<>>, status |-> "gone"]]
      /\ \A u \in Users : user'[u] = IF user[u].dept = h.on THEN [user[u] EXCEPT !.dept = None] ELSE user[u]
      /\ \A r \in Roles : role'[r] = IF role[r].dept = h.on THEN Gone ELSE role[r]
      /\ \A u \in Users : holds'[u] = {r \in holds[u] : role[r].dept # h.on}
  BY DEF WriteDeleteDept, HomeInv, DirType
<1>3. RowsType'
  <2>1. dept' \in [Depts -> DeptRows]
    BY <1>1, <1>2 DEF HomeInv, DirType, DeptRows
  <2>2. \A u \in Users : user'[u] \in UserRows
    BY <1>2 DEF HomeInv, DirType, UserRows
  <2>3. \A r \in Roles : role'[r] \in RoleRows
    BY <1>2 DEF HomeInv, DirType, RoleRows, Gone
  <2>4. \A u \in Users : holds'[u] \in SUBSET Roles
    BY <1>2 DEF HomeInv, DirType
  <2>5. user' = [u \in Users |-> user'[u]] /\ role' = [r \in Roles |-> role'[r]]
        /\ holds' = [u \in Users |-> holds'[u]]
    BY DEF WriteDeleteDept
  <2> QED BY <2>1, <2>2, <2>3, <2>4, <2>5 DEF RowsType
<1>4. \A u \in Users : user'[u].status = user[u].status
                       /\ user'[u].dept = IF user[u].dept = h.on THEN None ELSE user[u].dept
  BY <1>2 DEF HomeInv, DirType, UserRows
<1>5. Gone.status = "gone" /\ Gone.dept = None
  BY DEF Gone
<1>6. Placed'
  BY <1>1, <1>2, <1>4, <1>5 DEF HomeInv, DirType, Placed, Exists
<1>7. FreshOnce(w)
  <2>1. \A r \in Roles : role[r].dept = h.on => role[r].status # "fresh"
    BY <1>1, DirectoryAssumption DEF HomeInv, Placed, Exists
  <2>2. \A r \in Roles : role'[r].status = "fresh" <=> role[r].status = "fresh"
    BY <1>2, <1>5, <2>1
  <2>3. \A d \in Depts : dept'[d].status = "fresh" <=> dept[d].status = "fresh"
    BY <1>1, <1>2 DEF HomeInv, DirType
  <2> QED BY <1>1, <1>4, <2>2, <2>3 DEF FreshOnce
<1>8. HomeEffect("deptGone")
  BY <1>1, <1>2, <1>4, <1>5 DEF HomeEffect, HomeInv, DirType, Exists
<1>9. RolesAreFromHome'
  BY <1>1, <1>2, <1>4, ExcusedIs DEF RolesAreFromHome, HomeInv, DirType
<1> QED BY <1>1, <1>3, <1>6, <1>7, <1>8, <1>9, CommitKeepsHome

LEMMA WriteUserKeepsHome ==
  ASSUME HomeInv, NEW w \in Workers, WriteUser(w)
  PROVE  HomeInv'
<1> PICK h \in Transactions : h = req[w]
  BY DEF HomeInv, DirType
<1>1. /\ h.pc = "write" /\ h.op \in {"createUser", "updateUser", "deleteUser"}
      /\ Formed(h) /\ IdFits(h) /\ h.on \in Users /\ ~Dangling(h)
  BY WriterIs DEF WriteUser, At, Formed, UserOps
<1>2. PICK next : next = CASE h.op = "deleteUser" -> [h.row EXCEPT !.status = "DELETED", !.gone = TRUE]
                           [] h.op = "updateUser" -> [h.row EXCEPT !.dept = Place(h)]
                           [] h.op = "createUser" -> [dept |-> h.to, status |-> "ACTIVE", gone |-> FALSE]
  OBVIOUS
<1>3. /\ user' = [user EXCEPT ![h.on] = next]
      /\ dept' = dept /\ role' = role /\ holds' = holds
      /\ Commit(w, IF next.dept = user[h.on].dept THEN "none" ELSE "userDept")
  BY <1>2 DEF WriteUser
<1>4. Place(h) \in Depts \cup {None} /\ (Place(h) # None => Exists(dept[Place(h)]))
  <2>1. Place(h) \in Depts \cup {None}
    BY <1>1, DirectoryAssumption DEF Place, Formed, UserRows, Transactions
  <2> QED BY <1>1, <2>1 DEF Dangling, Refers
<1>5. next \in UserRows /\ next.dept = Place(h) /\ next.status # "fresh"
  BY <1>1, <1>2, <1>4, DirectoryAssumption DEF UserRows, Formed, Place
<1>6. RowsType' /\ Placed'
  BY <1>1, <1>3, <1>5 DEF RowsType, Placed, HomeInv, DirType, Exists
<1>7. FreshOnce(w)
  BY <1>1, <1>3, <1>5 DEF FreshOnce, HomeInv, DirType, IdFits, Creates, UserOps
<1>8. HomeEffect(IF next.dept = user[h.on].dept THEN "none" ELSE "userDept")
  BY <1>1, <1>3, <1>5 DEF HomeEffect, HomeInv, DirType
<1>9. RolesAreFromHome'
  <2> SUFFICES ASSUME "home" \notin excused', NEW u \in Users, NEW r \in holds[u]
               PROVE  role[r].dept = user'[u].dept
    BY <1>3 DEF RolesAreFromHome
  <2>1. "home" \notin excused /\ ~h.crossed
    BY <1>1, <1>3, ExcusedIs DEF Family
  <2>2. role[r].dept = user[u].dept /\ r \in Roles
    BY <2>1 DEF HomeInv, RolesAreFromHome, DirType
  <2>3. CASE u # h.on
    BY <1>3, <2>2, <2>3 DEF HomeInv, DirType
  <2>4. CASE u = h.on
    <3>1. user'[u].dept = Place(h)
      BY <1>3, <1>5, <2>4 DEF HomeInv, DirType
    <3>2. h.op # "createUser"
      BY <1>1, <2>4 DEF IdFits, Creates, UserOps, HomeInv, Placed
    <3>3. UserSeen(h) /\ MoveFits(h)
      BY <1>1, <2>1, WriterIs DEF HomeFits
    <3>4. CASE h.to = Keep
      <4>1. h.row.dept = user[u].dept \/ Lost(h.row.dept)
        BY <1>1, <2>4, <3>2, <3>3 DEF UserSeen
      <4> QED BY <1>4, <2>2, <3>1, <3>4, <4>1, DirectoryAssumption DEF Place, Lost, Exists
    <3>5. CASE h.to # Keep
      <4>1. Moves(h) /\ h.op = "updateUser"
        BY <1>1, <3>2, <3>5 DEF Formed
      <4> QED BY <1>1, <2>4, <3>1, <3>3, <3>5, <4>1 DEF MoveFits, Place
    <3> QED BY <3>4, <3>5
  <2> QED BY <2>3, <2>4
<1>10. req[w].pc # "idle"
  BY <1>1
<1>11. PICK kind : kind = IF next.dept = user[h.on].dept THEN "none" ELSE "userDept"
  OBVIOUS
<1> QED BY <1>3, <1>6, <1>7, <1>8, <1>9, <1>10, <1>11, CommitKeepsHome

LEMMA RestoreUserKeepsHome ==
  ASSUME HomeInv, NEW w \in Workers, WriteRestoreUser(w)
  PROVE  HomeInv'
<1> PICK h \in Transactions : h = req[w]
  BY DEF HomeInv, DirType
<1>1. h.pc = "write" /\ h.op = "restoreUser" /\ h.on \in Users /\ user[h.on].status # "fresh" /\ Commit(w, "none")
  BY WriterIs DEF WriteRestoreUser, Writing, At, Formed, UserOps, IdFits, Creates
<1>2. /\ user' = [user EXCEPT ![h.on].status = "ACTIVE"]
      /\ dept' = dept /\ role' = role /\ holds' = holds
  BY DEF WriteRestoreUser
<1>3. /\ user' \in [Users -> UserRows]
      /\ \A u \in Users : user'[u].dept = user[u].dept /\ (user'[u].status = "fresh" <=> user[u].status = "fresh")
  BY <1>1, <1>2 DEF HomeInv, DirType, UserRows
<1>4. RowsType' /\ Placed'
  BY <1>2, <1>3 DEF RowsType, Placed, HomeInv, DirType, Exists
<1>5. FreshOnce(w) /\ HomeEffect("none")
  BY <1>1, <1>2, <1>3 DEF FreshOnce, HomeEffect, HomeInv, DirType
<1>6. RolesAreFromHome'
  BY <1>1, <1>2, <1>3, ExcusedIs DEF RolesAreFromHome, HomeInv
<1> QED BY <1>1, <1>4, <1>5, <1>6, CommitKeepsHome

LEMMA BindingsKeepHome ==
  ASSUME HomeInv, NEW w \in Workers, AssignInserts(w) \/ WriteRemove(w)
  PROVE  HomeInv'
<1> PICK h \in Transactions : h = req[w]
  BY DEF HomeInv, DirType
<1>1. /\ h.pc # "idle" /\ Formed(h) /\ IdFits(h) /\ (~h.crossed => HomeFits(h)) /\ Commit(w, "bind")
      /\ dept' = dept /\ user' = user /\ role' = role
  BY WriterIs DEF AssignInserts, WriteRemove, Writing, At
<1>2. h.op \in {"assign", "remove"} /\ h.on \in Users /\ h.set \subseteq Roles /\ user[h.on].status # "fresh"
  BY <1>1 DEF AssignInserts, WriteRemove, Writing, At, Formed, UserOps, IdFits, Creates,
     Transactions
<1>3. PICK next \in SUBSET Roles :
        /\ holds' = [holds EXCEPT ![h.on] = next]
        /\ \A r \in next : r \in holds[h.on] \/ (r \in h.set /\ Exists(role[r]) /\ h.op = "assign" /\ h.pc = "insert")
  <2>1. CASE AssignInserts(w)
    <3>1. h.op = "assign" /\ h.pc = "insert"
      BY <1>1, <2>1 DEF AssignInserts, At, Formed
    <3>2. \A r \in h.set : Exists(role[r])
      BY <2>1, <3>1 DEF AssignInserts, Dangling
    <3>3. (holds[h.on] \ h.seen) \cup h.set \in SUBSET Roles
      BY <1>2 DEF HomeInv, DirType
    <3>4. holds' = [holds EXCEPT ![h.on] = (holds[h.on] \ h.seen) \cup h.set]
      BY <2>1 DEF AssignInserts
    <3> QED BY <3>1, <3>2, <3>3, <3>4
  <2>2. CASE WriteRemove(w)
    <3>1. holds[h.on] \ h.set \in SUBSET Roles
      BY <1>2 DEF HomeInv, DirType
    <3>2. holds' = [holds EXCEPT ![h.on] = holds[h.on] \ h.set]
      BY <2>2 DEF WriteRemove
    <3> QED BY <3>1, <3>2
  <2> QED BY <2>1, <2>2
<1>4. RowsType' /\ Placed'
  BY <1>1, <1>2, <1>3 DEF RowsType, Placed, HomeInv, DirType, Exists
<1>5. FreshOnce(w) /\ HomeEffect("bind")
  BY <1>1, <1>2 DEF FreshOnce, HomeEffect
<1>6. RolesAreFromHome'
  <2> SUFFICES ASSUME "home" \notin excused', NEW u \in Users, NEW r \in holds'[u]
               PROVE  role[r].dept = user[u].dept
    BY <1>1 DEF RolesAreFromHome
  <2>1. "home" \notin excused /\ ~h.crossed
    BY <1>1, <1>2, ExcusedIs DEF Family
  <2>2. CASE r \in holds[u]
    BY <2>1, <2>2 DEF HomeInv, RolesAreFromHome
  <2>3. CASE r \notin holds[u]
    <3>1. u = h.on /\ r \in h.set /\ Exists(role[r]) /\ h.op = "assign" /\ h.pc = "insert"
      BY <1>3, <2>3 DEF HomeInv, DirType
    <3> QED BY <1>1, <2>1, <3>1 DEF HomeFits, SetFits
  <2> QED BY <2>2, <2>3
<1> QED BY <1>1, <1>4, <1>5, <1>6, CommitKeepsHome

LEMMA WriteRoleKeepsHome ==
  ASSUME HomeInv, NEW w \in Workers, WriteRole(w)
  PROVE  HomeInv'
<1> PICK h \in Transactions : h = req[w]
  BY DEF HomeInv, DirType
<1>1. /\ h.pc = "write" /\ h.op \in {"createRole", "updateRole"} /\ h.on \in Roles
      /\ Formed(h) /\ IdFits(h)
  BY WriterIs DEF WriteRole, At, Formed, RoleOps
<1>2. PICK next : next = IF h.op = "createRole" THEN [dept |-> h.to, status |-> "ACTIVE"]
                         ELSE [dept |-> Place(h), status |-> Asked(h)]
  OBVIOUS
<1>3. PICK there \in BOOLEAN : there = (h.op = "createRole" \/ Exists(role[h.on]))
  BY <1>1
<1>4. PICK kind : kind = IF there /\ next # role[h.on] THEN "role" ELSE "none"
  OBVIOUS
<1>5. /\ there => ~Dangling(h)
      /\ role' = IF there THEN [role EXCEPT ![h.on] = next] ELSE role
      /\ dept' = dept /\ user' = user /\ holds' = holds
      /\ Commit(w, kind)
  BY <1>2, <1>3, <1>4 DEF WriteRole
<1>6. /\ next \in RoleRows /\ Exists(next) /\ next.status # "fresh" /\ next.dept = Place(h) /\ next.dept \in Depts
  <2>1. CASE h.op = "createRole"
    BY <1>1, <1>2, <2>1, DirectoryAssumption DEF Formed, Place, RoleRows, Exists
  <2>2. CASE h.op = "updateRole"
    <3>1. Place(h) \in Depts /\ Asked(h) \in {"ACTIVE", "DISABLED"}
      BY <1>1, <2>2 DEF Formed, Place, Asked, Exists, Transactions
    <3> QED BY <1>2, <2>2, <3>1 DEF RoleRows, Exists
  <2> QED BY <1>1, <2>1, <2>2
<1>7. there => Exists(dept[next.dept])
  <2>1. Refers(h) /\ Place(h) # None
    BY <1>1, <1>6, DirectoryAssumption DEF Refers
  <2> QED BY <1>5, <1>6, <2>1 DEF Dangling
<1>8. RowsType' /\ Placed'
  BY <1>1, <1>5, <1>6, <1>7 DEF RowsType, Placed, HomeInv, DirType, Exists
<1>9. FreshOnce(w)
  <2>1. (role[h.on].status = "fresh") = (h.op = "createRole")
    BY <1>1 DEF IdFits, Creates, RoleOps
  <2> QED BY <1>1, <1>3, <1>5, <1>6, <2>1 DEF FreshOnce, HomeInv, DirType, Exists
<1>10. HomeEffect(kind)
  BY <1>1, <1>4, <1>5 DEF HomeEffect, HomeInv, DirType
<1>11. RolesAreFromHome'
  <2> SUFFICES ASSUME "home" \notin excused', NEW u \in Users, NEW r \in holds[u]
               PROVE  role'[r].dept = user[u].dept
    BY <1>5 DEF RolesAreFromHome
  <2>1. "home" \notin excused /\ ~h.crossed
    BY <1>1, <1>5, ExcusedIs DEF Family
  <2>2. role[r].dept = user[u].dept /\ r \in Roles /\ Exists(role[r])
    BY <2>1 DEF HomeInv, RolesAreFromHome, DirType, Placed
  <2>3. CASE r # h.on \/ ~there
    BY <1>5, <2>2, <2>3 DEF HomeInv, DirType
  <2>4. CASE r = h.on /\ there
    <3>1. role'[r] = next
      BY <1>1, <1>5, <2>4 DEF HomeInv, DirType
    <3>2. h.op = "updateRole"
      BY <1>1, <2>2, <2>4 DEF IdFits, Creates, RoleOps, Exists
    <3>3. RoleSeen(h)
      BY <1>1, <2>1, WriterIs DEF HomeFits
    <3>4. CASE h.to = Keep
      BY <1>6, <2>2, <2>4, <3>1, <3>2, <3>3, <3>4 DEF RoleSeen, Place
    <3>5. CASE h.to # Keep
      <4>1. Moves(h)
        BY <1>1, <3>5 DEF Formed
      <4>2. user[u].dept = h.to \/ Lost(h.to)
        BY <1>1, <2>2, <2>4, <3>2, <3>3, <4>1 DEF RoleSeen
      <4> QED BY <1>6, <1>7, <2>4, <3>1, <3>5, <4>2 DEF Place, Lost, Exists
    <3> QED BY <3>4, <3>5
  <2> QED BY <1>3, <2>3, <2>4
<1>12. req[w].pc # "idle"
  BY <1>1
<1> QED BY <1>5, <1>8, <1>9, <1>10, <1>11, <1>12, CommitKeepsHome

LEMMA DeleteRoleKeepsHome ==
  ASSUME HomeInv, NEW w \in Workers, WriteDeleteRole(w)
  PROVE  HomeInv'
<1> PICK h \in Transactions : h = req[w]
  BY DEF HomeInv, DirType
<1>1. h.pc = "write" /\ h.op = "deleteRole" /\ h.on \in Roles /\ role[h.on].status # "fresh" /\ Commit(w, "roleGone")
  BY WriterIs DEF WriteDeleteRole, Writing, At, Formed, RoleOps, IdFits, Creates
<1>2. /\ role' = [role EXCEPT ![h.on] = Gone] /\ holds' = [u \in Users |-> holds[u] \ {h.on}]
      /\ dept' = dept /\ user' = user
  BY DEF WriteDeleteRole
<1>3. Gone \in RoleRows /\ Gone.status = "gone" /\ Gone.dept = None
  BY DEF Gone, RoleRows
<1>4. RowsType' /\ Placed'
  BY <1>1, <1>2, <1>3 DEF RowsType, Placed, HomeInv, DirType, Exists
<1>5. FreshOnce(w) /\ HomeEffect("roleGone")
  BY <1>1, <1>2, <1>3 DEF FreshOnce, HomeEffect, HomeInv, DirType, Exists
<1>6. RolesAreFromHome'
  BY <1>1, <1>2, ExcusedIs DEF RolesAreFromHome, HomeInv, DirType
<1> QED BY <1>1, <1>4, <1>5, <1>6, CommitKeepsHome

-----------------------------------------------------------------------------
(* Every step of the directory *)

LEMMA HomeInit == ASSUME DirInit PROVE HomeInv
<1> PICK h \in Homes : dept = h.dept /\ user = h.user /\ role = h.role /\ holds = h.holds
  BY DEF DirInit
<1>1. InOrder(h)
  BY HomesAssumption
<1>2. req \in [Workers -> Transactions] /\ \A w \in Workers : req[w].pc = "idle"
  BY IdleType DEF DirInit
<1>3. DirType
  BY <1>1, <1>2 DEF DirType, InOrder, Formed
<1>4. Placed /\ RolesAreFromHome
  BY <1>1 DEF Placed, RolesAreFromHome, InOrder
<1>5. IdsOnce /\ HomeSeen
  BY <1>2 DEF IdsOnce, HomeSeen
<1> QED BY <1>3, <1>4, <1>5 DEF HomeInv

LEMMA HomeStep == ASSUME HomeInv, [DirNext]_dirVars PROVE HomeInv'
<1>1. CASE UNCHANGED dirVars
  BY <1>1 DEF dirVars, HomeInv, DirType, Placed, IdsOnce, HomeSeen, RolesAreFromHome, Formed,
     Moves, Exists,
    IdFits, Alone, Creates, HomeFits, UserSeen, MoveFits, SetFits, RoleSeen, OneLeft, Lost
<1>2. ASSUME NEW w \in Workers, CanStart(w), NEW o \in Users, LoadAny(w, o) PROVE HomeInv'
  BY <1>2, LoadKeepsHome
<1>3. ASSUME NEW w \in Workers, Check(w) PROVE HomeInv'
  BY <1>3, CheckKeepsHome
<1>4. ASSUME NEW w \in Workers, Refuse(w) \/ Abort(w) PROVE HomeInv'
  BY <1>4, OthersKeepHome
<1>5. ASSUME NEW w \in Workers, WriteAny(w) PROVE HomeInv'
  BY <1>5, TreeWriteKeepsHome, DeleteDeptKeepsHome, WriteUserKeepsHome, RestoreUserKeepsHome,
     OthersKeepHome,
     BindingsKeepHome, WriteRoleKeepsHome, DeleteRoleKeepsHome DEF WriteAny
<1> QED BY <1>1, <1>2, <1>3, <1>4, <1>5 DEF DirNext

LEMMA LoadRests ==
  ASSUME NEW w, NEW o, LoadAny(w, o)
  PROVE  UNCHANGED <<Rows, excused, writes>>
<1>1. ASSUME NEW r, Load(w, o, r) PROVE UNCHANGED <<Rows, excused, writes>>
  BY <1>1 DEF Load
<1>2. CASE LoadCreateDept(w, o) \/ LoadUpdateDept(w, o) \/ LoadDeleteDept(w, o)
  BY <1>1, <1>2 DEF LoadCreateDept, LoadUpdateDept, LoadDeleteDept
<1>3. CASE LoadCreateUser(w, o) \/ LoadUpdateUser(w, o) \/ LoadDeleteUser(w, o) \/ LoadRestoreUser(w, o)
  BY <1>1, <1>3 DEF LoadCreateUser, LoadUpdateUser, LoadDeleteUser, LoadRestoreUser
<1>4. CASE LoadAssign(w, o) \/ LoadRemove(w, o)
  BY <1>1, <1>4 DEF LoadAssign, LoadRemove
<1>5. CASE LoadCreateRole(w, o) \/ LoadUpdateRole(w, o) \/ LoadDeleteRole(w, o)
  BY <1>1, <1>5 DEF LoadCreateRole, LoadUpdateRole, LoadDeleteRole
<1> QED BY <1>2, <1>3, <1>4, <1>5 DEF LoadAny

LEMMA WritesOrRests ==
  ASSUME [DirNext]_dirVars
  PROVE  UNCHANGED <<Rows, excused, writes>> \/ \E w \in Workers : WriteAny(w)
<1>1. ASSUME NEW w \in Workers, NEW o \in Users, LoadAny(w, o) PROVE UNCHANGED <<Rows, excused, writes>>
  BY <1>1, LoadRests
<1>2. ASSUME NEW w \in Workers, Check(w) \/ Refuse(w) \/ Abort(w) PROVE UNCHANGED <<Rows, excused, writes>>
  BY <1>2 DEF Check, Refuse, Abort
<1>3. ASSUME UNCHANGED dirVars PROVE UNCHANGED <<Rows, excused, writes>>
  BY <1>3 DEF dirVars, Rows
<1> QED BY <1>1, <1>2, <1>3 DEF DirNext

LEMMA WritesStep == ASSUME writes \in Nat, [DirNext]_dirVars PROVE writes' \in Nat
<1>1. ASSUME NEW w \in Workers, WriteAny(w) PROVE writes' \in {writes, writes + 1}
  BY <1>1 DEF WriteAny, WriteCreateDept, WriteUpdateDept, WriteDeleteDept, WriteUser,
     WriteRestoreUser,
    AssignDeletes, AssignInserts, WriteRemove, WriteRole, WriteDeleteRole, Commit
<1> QED BY <1>1, WritesOrRests

\* A user is not left without roles, but by whoever deletes the roles or was
\* crossed.
LEMMA SomeRoleStep == ASSUME HomeInv, writes \in Nat, [DirNext]_dirVars PROVE KeepsSomeRole
<1> SUFFICES ASSUME NEW u \in Users, holds[u] # {}, holds'[u] = {}
             PROVE  \E w \in Workers :
                      Commits(w) /\ (req[w].op \in {"deleteRole", "deleteDept"} \/ req[w].crossed)
  BY DEF KeepsSomeRole
<1>1. ASSUME NEW w \in Workers, NEW kind, Commit(w, kind), req[w].pc \in {"write", "insert"}
      PROVE  Commits(w)
  BY <1>1, IdleType DEF Commits, Commit
<1>2. PICK w \in Workers : WriteDeleteDept(w) \/ AssignInserts(w) \/ WriteRemove(w) \/ WriteDeleteRole(w)
  <2>1. PICK w \in Workers : WriteAny(w)
    BY WritesOrRests DEF Rows
  <2> QED BY <2>1 DEF WriteAny, WriteCreateDept, WriteUpdateDept, WriteUser,
             WriteRestoreUser, AssignDeletes, Rows, WriteRole
<1>3. CASE WriteDeleteDept(w)
  BY <1>1, <1>3 DEF WriteDeleteDept, Writing, At
<1>4. CASE WriteDeleteRole(w)
  BY <1>1, <1>4 DEF WriteDeleteRole, Writing, At
<1>5. CASE AssignInserts(w)
  BY <1>5, WriterIs DEF AssignInserts, At, Formed, HomeInv, DirType
<1>6. CASE WriteRemove(w)
  <2>1. /\ req[w].pc = "write" /\ req[w].op = "remove" /\ Commit(w, "bind")
        /\ holds' = [holds EXCEPT ![req[w].on] = @ \ req[w].set]
    BY <1>6 DEF WriteRemove, Writing, At
  <2>2. Formed(req[w]) /\ (~req[w].crossed => HomeFits(req[w]))
    BY <2>1, WriterIs
  <2>3. PICK r \in Roles : req[w].set = {r}
    BY <2>1, <2>2 DEF Formed
  <2>4. u = req[w].on /\ holds[u] \ {r} = {}
    BY <2>1, <2>3 DEF HomeInv, DirType
  <2>5. holds[u] = {r}
    BY <2>4
  <2>6. req[w].crossed
    BY <2>1, <2>2, <2>3, <2>4, <2>5 DEF HomeFits, OneLeft
  <2> QED BY <1>1, <2>1, <2>6
<1> QED BY <1>2, <1>3, <1>4, <1>5, <1>6

LEMMA HomeInductive == Spec => [](HomeInv /\ writes \in Nat)
<1>1. Init => HomeInv /\ writes \in Nat
  BY HomeInit DEF Init, DirInit
<1>2. HomeInv /\ writes \in Nat /\ [Next]_vars => (HomeInv /\ writes \in Nat)'
  BY HomeStep, WritesStep DEF Next, DirStep, PermStep, vars
<1> QED BY <1>1, <1>2, PTL DEF Spec

\* Unless a commit crossed it, no transaction leaves a user with a role of
\* another department (RolesAreFromHome): assignRoleToUser, updateUser,
\* updateRole and the cascades of a deletion, in whatever order they commit.
THEOREM HeldRolesAreFromHome == Spec => []RolesAreFromHome
<1>1. HomeInv => RolesAreFromHome
  BY DEF HomeInv
<1> QED BY <1>1, HomeInductive, PTL

\* No user loses the last role but by a deletion or a removal that was crossed
\* (KeepsSomeRole): removeRoleFromUser, and the writes of assignments, which
\* delete the roles before they insert them in one transaction.
THEOREM UsersKeepSomeRole == Spec => SomeRoleStays
<1>1. HomeInv /\ writes \in Nat /\ [Next]_vars => [KeepsSomeRole]_dirVars
  BY SomeRoleStep DEF Next, DirStep, PermStep, vars
<1> QED BY <1>1, HomeInductive, PTL DEF Spec, SomeRoleStays

-----------------------------------------------------------------------------
(* Paths *)

LEMMA PrefixIs ==
  ASSUME NEW s \in Seq(Depts), NEW t \in Seq(Depts)
  PROVE  IsPrefix(s, t) <=> Len(s) <= Len(t) /\ \A i \in 1..Len(s) : s[i] = t[i]
<1>1. ASSUME IsPrefix(s, t), NEW i \in 1..Len(s) PROVE s[i] = t[i]
  <2>1. Len(s) <= Len(t) /\ SubSeq(s, 1, Len(s)) = SubSeq(t, 1, Len(s))
    BY <1>1 DEF IsPrefix
  <2>2. SubSeq(s, 1, Len(s))[i] = s[i]
    OBVIOUS
  <2>3. SubSeq(t, 1, Len(s))[i] = t[i]
    BY <2>1
  <2> QED BY <2>1, <2>2, <2>3
<1>2. ASSUME Len(s) <= Len(t), \A i \in 1..Len(s) : s[i] = t[i]
      PROVE  SubSeq(s, 1, Len(s)) = SubSeq(t, 1, Len(s))
  <2>1. SubSeq(s, 1, Len(s)) \in Seq(Depts) /\ Len(SubSeq(s, 1, Len(s))) = Len(s)
        /\ \A i \in 1..Len(s) : SubSeq(s, 1, Len(s))[i] = s[i]
    OBVIOUS
  <2>2. SubSeq(t, 1, Len(s)) \in Seq(Depts) /\ Len(SubSeq(t, 1, Len(s))) = Len(s)
        /\ \A i \in 1..Len(s) : SubSeq(t, 1, Len(s))[i] = t[i]
    BY <1>2
  <2> QED BY <1>2, <2>1, <2>2, SeqEqual
<1> QED BY <1>1, <1>2 DEF IsPrefix

IsPath(t, d, anc) ==
  /\ Len(t) = Len(anc) + 1 /\ t[Len(anc) + 1] = d
  /\ \A i \in 1..Len(anc) : t[i] = anc[i]

LEMMA PathIs ==
  ASSUME NEW d \in Depts, NEW anc \in Seq(Depts)
  PROVE  \E t \in Seq(Depts) : t = PathOf(d, anc) /\ IsPath(t, d, anc)
<1>1. /\ Append(anc, d) \in Seq(Depts) /\ Len(Append(anc, d)) = Len(anc) + 1
      /\ \A i \in 1..Len(anc) : Append(anc, d)[i] = anc[i]
      /\ Append(anc, d)[Len(anc) + 1] = d
  BY AppendProperties, SMTT(30)
<1> QED BY <1>1 DEF PathOf, IsPath

LEMMA RestIs ==
  ASSUME NEW s \in Seq(Depts), NEW n \in Nat, n <= Len(s)
  PROVE  \E rest \in Seq(Depts) :
           /\ rest = SubSeq(s, n + 1, Len(s))
           /\ Len(rest) = Len(s) - n /\ \A i \in 1..Len(rest) : rest[i] = s[n + i]
<1> DEFINE rest == SubSeq(s, n + 1, Len(s))
<1>1. \A i \in n + 1 .. Len(s) : s[i] \in Depts
  OBVIOUS
<1>2. Len(s) \in Nat
  OBVIOUS
<1>3. /\ rest \in Seq(Depts) /\ Len(rest) = IF n + 1 <= Len(s) THEN Len(s) - (n + 1) + 1 ELSE 0
      /\ \A i \in 1..Len(s) - (n + 1) + 1 : rest[i] = s[n + 1 + i - 1]
  BY <1>1, <1>2, SubSeqProperties
<1> HIDE DEF rest
<1>4. Len(rest) = Len(s) - n /\ \A i \in 1..Len(rest) : rest[i] = s[n + i]
  BY <1>2, <1>3
<1> QED BY <1>3, <1>4 DEF rest

\* A path leads through a department to another one if it does so one step
\* before.
LEMMA PrefixBelow ==
  ASSUME NEW on \in Depts, NEW old \in Seq(Depts), NEW p \in Depts, NEW anc \in Seq(Depts)
  PROVE  /\ IsPrefix(PathOf(on, old), anc) => IsPrefix(PathOf(on, old), PathOf(p, anc))
         /\ p # on /\ IsPrefix(PathOf(on, old), PathOf(p, anc)) => IsPrefix(PathOf(on, old), anc)
<1>1. PICK s \in Seq(Depts) : s = PathOf(on, old) /\ IsPath(s, on, old)
  BY PathIs
<1>2. PICK t \in Seq(Depts) : t = PathOf(p, anc) /\ IsPath(t, p, anc)
  BY PathIs
<1>3. IsPrefix(s, anc) => IsPrefix(s, t)
  <2>1. Len(anc) \in Nat
    OBVIOUS
  <2>2. Len(t) = Len(anc) + 1 /\ \A i \in 1..Len(anc) : t[i] = anc[i]
    BY <1>2 DEF IsPath
  <2>3. IsPrefix(s, anc) => Len(s) \in Nat /\ Len(s) <= Len(anc) /\ \A i \in 1..Len(s) : s[i] = anc[i]
    BY PrefixIs
  <2>4. IsPrefix(s, t) <=> Len(s) <= Len(t) /\ \A i \in 1..Len(s) : s[i] = t[i]
    BY PrefixIs
  <2> QED BY <2>1, <2>2, <2>3, <2>4
<1>4. ASSUME p # on, IsPrefix(s, t) PROVE IsPrefix(s, anc)
  <2>1. Len(s) <= Len(t) /\ \A i \in 1..Len(s) : s[i] = t[i]
    BY <1>4, PrefixIs
  <2>2. Len(s) # Len(t)
    BY <1>1, <1>2, <1>4, <2>1 DEF IsPath
  <2>3. Len(s) <= Len(anc)
    BY <1>2, <2>1, <2>2 DEF IsPath
  <2> QED BY <1>2, <2>1, <2>3, PrefixIs DEF IsPath
<1> QED BY <1>1, <1>2, <1>3, <1>4

LEMMA AppendLast ==
  ASSUME NEW s \in Seq(Depts), NEW t \in Seq(Depts), NEW p \in Depts
  PROVE  s \o Append(t, p) = Append(s \o t, p)
<1>1. <<p>> \in Seq(Depts) /\ s \o t \in Seq(Depts)
  BY ConcatProperties
<1>2. Append(t, p) = t \o <<p>>
  BY AppendIsConcat
<1>3. Append(s \o t, p) = (s \o t) \o <<p>>
  BY <1>1, AppendIsConcat
<1>4. (s \o t) \o <<p>> = s \o (t \o <<p>>)
  BY <1>1, ConcatAssociative
<1> QED BY <1>2, <1>3, <1>4

\* What follows the beginning of a path grows with the path.
LEMMA RestOfPath ==
  ASSUME NEW anc \in Seq(Depts), NEW p \in Depts, NEW n \in Nat, n <= Len(anc)
  PROVE  SubSeq(PathOf(p, anc), n + 1, Len(PathOf(p, anc))) = Append(SubSeq(anc, n + 1, Len(anc)), p)
<1>1. PICK t \in Seq(Depts) : t = PathOf(p, anc) /\ IsPath(t, p, anc)
  BY PathIs
<1>2. PICK rest \in Seq(Depts) :
        /\ rest = SubSeq(anc, n + 1, Len(anc))
        /\ Len(rest) = Len(anc) - n /\ \A i \in 1..Len(rest) : rest[i] = anc[n + i]
  BY RestIs
<1>3. n <= Len(t) /\ Len(t) = Len(anc) + 1
  BY <1>1 DEF IsPath
<1>4. PICK more \in Seq(Depts) :
        /\ more = SubSeq(t, n + 1, Len(t))
        /\ Len(more) = Len(t) - n /\ \A i \in 1..Len(more) : more[i] = t[n + i]
  BY <1>3, RestIs
<1>5. PICK both \in Seq(Depts) : both = Append(rest, p)
  BY AppendProperties
<1>6. Len(both) = Len(rest) + 1 /\ both[Len(rest) + 1] = p /\ \A i \in 1..Len(rest) : both[i] = rest[i]
  BY <1>5, AppendProperties
<1>7. Len(more) = Len(both)
  BY <1>2, <1>3, <1>4, <1>6
<1>8. ASSUME NEW i \in 1..Len(more) PROVE more[i] = both[i]
  <2>1. CASE i = Len(rest) + 1
    <3>1. n + i = Len(anc) + 1
      BY <1>2, <2>1
    <3> QED BY <1>1, <1>4, <1>6, <2>1, <3>1 DEF IsPath
  <2>2. CASE i # Len(rest) + 1
    <3> PICK m \in Nat : m = Len(rest)
      OBVIOUS
    <3> PICK l \in Nat : l = Len(anc)
      OBVIOUS
    <3>a. i \in 1..m + 1 /\ i # m + 1 /\ m = l - n
      BY <1>2, <1>6, <1>7, <2>2
    <3>1. i \in 1..Len(rest) /\ n + i \in 1..Len(anc)
      BY <3>a
    <3>2. more[i] = anc[n + i]
      BY <1>1, <1>4, <3>1 DEF IsPath
    <3> QED BY <1>2, <1>6, <3>1, <3>2
  <2> QED BY <2>1, <2>2
<1>9. more = both
  BY <1>7, <1>8, SeqEqual
<1> QED BY <1>1, <1>2, <1>4, <1>5, <1>9

\* Below the moved department the new path is the new path of the parent and
\* the parent.
LEMMA RebasedBelow ==
  ASSUME NEW h \in Transactions, Moves(h), h.on \in Depts, NEW p \in Depts, NEW anc \in Seq(Depts)
  PROVE  /\ p # h.on => Rebased(h, PathOf(p, anc)) = PathOf(p, Rebased(h, anc))
         /\ Rebased(h, PathOf(h.on, h.anc)) = PathOf(h.on, h.path)
<1>1. h.anc \in Seq(Depts) /\ h.path \in Seq(Depts)
  BY DEF Transactions
<1>2. PICK old \in Seq(Depts) : old = PathOf(h.on, h.anc) /\ IsPath(old, h.on, h.anc)
  BY <1>1, PathIs
<1>3. PICK new \in Seq(Depts) : new = PathOf(h.on, h.path) /\ IsPath(new, h.on, h.path)
  BY <1>1, PathIs
<1>4. ASSUME p # h.on PROVE Rebased(h, PathOf(p, anc)) = PathOf(p, Rebased(h, anc))
  <2>1. IsPrefix(old, PathOf(p, anc)) <=> IsPrefix(old, anc)
    BY <1>1, <1>2, <1>4, PrefixBelow
  <2>2. CASE IsPrefix(old, anc)
    <3>1. Len(old) <= Len(anc) /\ Len(old) \in Nat
      BY <2>2, PrefixIs
    <3>2. PICK rest \in Seq(Depts) :
            /\ rest = SubSeq(anc, Len(old) + 1, Len(anc))
            /\ Len(rest) = Len(anc) - Len(old) /\ \A i \in 1..Len(rest) : rest[i] = anc[Len(old) + i]
      BY <3>1, RestIs
    <3>3. SubSeq(PathOf(p, anc), Len(old) + 1, Len(PathOf(p, anc))) = Append(rest, p)
      BY <3>1, <3>2, RestOfPath
    <3>4. Rebased(h, PathOf(p, anc)) = new \o Append(rest, p)
      BY <1>2, <1>3, <2>1, <2>2, <3>3 DEF Rebased
    <3>5. Rebased(h, anc) = new \o rest
      BY <1>2, <1>3, <2>2, <3>2 DEF Rebased
    <3>6. new \o Append(rest, p) = Append(new \o rest, p)
      BY AppendLast
    <3> QED BY <3>4, <3>5, <3>6 DEF PathOf
  <2>3. CASE ~IsPrefix(old, anc)
    BY <1>2, <2>1, <2>3 DEF Rebased
  <2> QED BY <2>2, <2>3
<1>5. Rebased(h, old) = new
  <2>1. IsPrefix(old, old)
    BY PrefixIs
  <2>2. SubSeq(old, Len(old) + 1, Len(old)) = << >>
    BY SubSeqEmpty
  <2>3. new \o << >> = new
    BY ConcatEmptySeq
  <2> QED BY <1>2, <1>3, <2>1, <2>2, <2>3 DEF Rebased
<1> QED BY <1>2, <1>3, <1>4, <1>5

\* A path that does not lead through the moved department stays.
LEMMA RebasedElsewhere ==
  ASSUME NEW h, NEW anc, ~Moves(h) \/ ~IsPrefix(PathOf(h.on, h.anc), anc)
  PROVE  Rebased(h, anc) = anc
BY DEF Rebased

LEMMA LeastNat ==
  ASSUME NEW T \in SUBSET Nat, T # {}
  PROVE  \E x \in T : \A y \in T : x <= y
<1> DEFINE R == OpToRel(<, Nat)
<1>1. IsWellFoundedOn(R, Nat)
  BY NatLessThanWellFounded
<1>2. \A x, y \in Nat : x < y => <<x, y>> \in R
  BY DEF OpToRel
<1> HIDE DEF R
<1>3. PICK x \in T : \A y \in T : ~ (<<y, x>> \in R)
  BY <1>1, WFMin
<1>4. \A y \in T : x <= y
  <2> TAKE y \in T
  <2>1. x \in Nat /\ y \in Nat
    OBVIOUS
  <2>2. ~(y < x)
    BY <1>2, <1>3, <2>1
  <2> QED BY <2>1, <2>2
<1> QED BY <1>4

\* In a sound tree the path of a department starts at the root and leads
\* through what a walk upwards meets.
LEMMA PathLeadsUp ==
  ASSUME HomeInv, NEW root \in Depts, Sound(dept, root)
  PROVE  \A d \in Depts : Exists(dept[d]) =>
           /\ PathOf(d, dept[d].anc)[1] = root
           /\ \A i \in 1..Len(dept[d].anc) + 1 : PathOf(d, dept[d].anc)[i] \in Above(d)
<1> DEFINE Q(d) == /\ PathOf(d, dept[d].anc)[1] = root
                   /\ \A i \in 1..Len(dept[d].anc) + 1 : PathOf(d, dept[d].anc)[i] \in Above(d)
           T == {Len(dept[d].anc) : d \in {x \in Depts : Exists(dept[x]) /\ ~Q(x)}}
<1>1. \A d \in Depts : dept[d].anc \in Seq(Depts) /\ dept[d].parent \in Depts \cup {None}
  BY DEF HomeInv, DirType, DeptRows
<1>2. \A d \in Depts : d \in Above(d)
  BY DEF Above
<1>3. ASSUME NEW d \in Depts, dept[d].parent \in Depts PROVE Above(dept[d].parent) \subseteq Above(d)
  BY <1>3, DirectoryAssumption DEF Above
<1>4. SUFFICES ASSUME T # {} PROVE FALSE
  OBVIOUS
<1>5. T \in SUBSET Nat
  <2>1. \A d \in Depts : Len(dept[d].anc) \in Nat
    BY <1>1
  <2> HIDE DEF Q
  <2> QED BY <2>1
<1>6. PICK n \in T : \A m \in T : n <= m
  <2> HIDE DEF T
  <2> QED BY <1>4, <1>5, LeastNat
<1>7. PICK d \in Depts : Exists(dept[d]) /\ ~Q(d) /\ n = Len(dept[d].anc)
  <2> HIDE DEF Q
  <2> QED BY <1>6
<1>8. dept[d].parent # None
  <2> SUFFICES ASSUME dept[d].parent = None PROVE Q(d)
    BY <1>7
  <2>1. d = root /\ dept[d].anc = << >>
    BY <1>7 DEF Sound
  <2> QED BY <1>2, <2>1 DEF PathOf
<1>9. PICK p \in Depts : p = dept[d].parent /\ Exists(dept[p]) /\ dept[d].anc = PathOf(p, dept[p].anc)
  BY <1>1, <1>7, <1>8 DEF Sound
<1>10. PICK up \in Seq(Depts) : up = dept[p].anc
  BY <1>1
<1>11. PICK anc \in Seq(Depts) : anc = PathOf(p, up) /\ IsPath(anc, p, up)
  BY PathIs
<1>12. PICK path \in Seq(Depts) : path = PathOf(d, anc) /\ IsPath(path, d, anc)
  BY PathIs
<1>13. Len(anc) = Len(up) + 1 /\ Len(up) \in Nat /\ dept[d].anc = anc
  BY <1>9, <1>10, <1>11 DEF IsPath
<1>14. Q(p)
  <2>1. ~(n <= Len(up))
    BY <1>7, <1>13
  <2> HIDE DEF Q
  <2> QED BY <1>6, <1>9, <1>10, <2>1
<1>15. Q(d)
  <2> HIDE DEF T
  <2>1. Len(path) = Len(anc) + 1 /\ path[Len(anc) + 1] = d /\ \A i \in 1..Len(anc) : path[i] = anc[i]
    BY <1>12 DEF IsPath
  <2>2. anc[1] = root /\ \A i \in 1..Len(anc) : anc[i] \in Above(p)
    BY <1>10, <1>11, <1>13, <1>14
  <2>3. \A i \in 1..Len(anc) : path[i] \in Above(d)
    BY <1>3, <1>9, <2>1, <2>2
  <2>4. path[1] = root
    BY <1>13, <2>1, <2>2
  <2>5. \A i \in 1..Len(anc) + 1 : path[i] \in Above(d)
    BY <1>2, <1>13, <2>1, <2>3
  <2> QED BY <1>12, <1>13, <2>4, <2>5
<1> QED BY <1>7, <1>15

\* So a department that the walk from another one does not meet is not the
\* root, and not on the other one's path.
LEMMA NotAbove ==
  ASSUME HomeInv, NEW root \in Depts, Sound(dept, root), NEW on \in Depts, NEW to \in Depts,
         Exists(dept[on]), Exists(dept[to]), on \notin Above(to)
  PROVE  dept[on].parent # None /\ ~IsPrefix(PathOf(on, dept[on].anc), PathOf(to, dept[to].anc))
<1> PICK old \in Seq(Depts) : old = dept[on].anc
  BY DEF HomeInv, DirType, DeptRows
<1> PICK anc \in Seq(Depts) : anc = dept[to].anc
  BY DEF HomeInv, DirType, DeptRows
<1>1. PICK s \in Seq(Depts) : s = PathOf(on, old) /\ IsPath(s, on, old)
  BY PathIs
<1>a. PICK t \in Seq(Depts) : t = PathOf(to, anc) /\ IsPath(t, to, anc)
  BY PathIs
<1>2. t[1] = root /\ \A i \in 1..Len(anc) + 1 : t[i] \in Above(to)
  BY <1>a, PathLeadsUp
<1>3. on # root
  <2>1. 1 \in 1..Len(anc) + 1
    OBVIOUS
  <2> QED BY <1>2, <2>1
<1>4. dept[on].parent # None
  BY <1>3 DEF Sound
<1>5. ASSUME IsPrefix(s, t) PROVE FALSE
  <2>1. Len(s) <= Len(t) /\ \A i \in 1..Len(s) : s[i] = t[i]
    BY <1>5, PrefixIs
  <2> PICK n \in Nat : n = Len(s)
    OBVIOUS
  <2>2. n \in 1..Len(s) /\ n \in 1..Len(anc) + 1 /\ s[n] = on
    BY <1>1, <1>a, <2>1 DEF IsPath
  <2>3. t[n] = on
    BY <2>1, <2>2
  <2> QED BY <1>2, <2>2, <2>3
<1> QED BY <1>1, <1>a, <1>4, <1>5

-----------------------------------------------------------------------------
(* Steps on the tree *)

LEMMA CheckKeepsTree ==
  ASSUME HomeInv, TreeInv, NEW w \in Workers, Check(w)
  PROVE  TreeInv'
<1> PICK h \in Transactions : h = req[w]
  BY DEF HomeInv, DirType
<1>1. UNCHANGED <<Rows, excused>> /\ h.pc = "check" /\ Passes(h) /\ Formed(h)
  BY CheckIs DEF At, HomeInv, DirType
<1>2. PICK k \in Transactions :
        /\ Become(w, k)
        /\ k.pc = "write" /\ k.op = h.op /\ k.on = h.on /\ k.crossed = h.crossed
        /\ k.to = (IF Moves(h) THEN h.to ELSE Keep)
        /\ k.op # "assign" => k.row = h.row /\ (Moves(k) <=> Moves(h))
        /\ k.anc = h.anc /\ k.path = NewPath(h)
  BY CheckIs
<1>3. ASSUME "tree" \notin excused, ~k.crossed PROVE TreeFits(k)
  <2>1. DeptSeen(h) /\ TargetFits(h)
    BY <1>1, <1>2, <1>3 DEF TreeInv, TreeFits
  <2>2. PICK root \in Depts : Sound(dept, root)
    BY <1>3 DEF TreeInv
  <2>3. DeptSeen(k)
    BY <1>2, <2>1 DEF DeptSeen, NewPath
  <2>4. TargetFits(k)
    <3> SUFFICES ASSUME h.op = "createDept" \/ (h.op = "updateDept" /\ Moves(h))
                 PROVE  TargetFits(k)
      BY <1>2 DEF TargetFits
    <3>1. Exists(dept[h.to]) /\ (h.op = "updateDept" => Exists(dept[h.on]))
      BY <2>1 DEF TargetFits
    <3>2. k.path = PathOf(h.to, dept[h.to].anc)
      BY <1>2 DEF NewPath
    <3>3. k.to = h.to
      BY <1>1, <1>2, DirectoryAssumption DEF Formed, Moves, NoRow
    <3>4. h.op = "updateDept" => dept[h.on].parent # None /\ ~IsPrefix(PathOf(h.on, h.anc), k.path)
      <4> SUFFICES ASSUME h.op = "updateDept" PROVE dept[h.on].parent # None /\ ~IsPrefix(PathOf(h.on, h.anc), k.path)
        OBVIOUS
      <4>1. h.on \in Depts /\ h.to \in Depts /\ h.on \notin Above(h.to)
        BY <1>1 DEF Formed, DeptOps, Passes, MayUpdateDept, Moves
      <4>2. h.anc = dept[h.on].anc
        BY <2>1, <3>1 DEF DeptSeen
      <4> QED BY <2>2, <3>1, <3>2, <4>1, <4>2, NotAbove
    <3> QED BY <1>2, <3>1, <3>2, <3>3, <3>4 DEF TargetFits
  <2>5. LeafSeen(k)
    BY <1>1, <1>2 DEF LeafSeen, Passes, MayDeleteDept
  <2> QED BY <2>3, <2>4, <2>5 DEF TreeFits
<1> QED BY <1>1, <1>2, <1>3, OneBecomesTree

LEMMA OthersKeepTree ==
  ASSUME HomeInv, TreeInv, NEW w \in Workers, Refuse(w) \/ Abort(w) \/ AssignDeletes(w)
  PROVE  TreeInv'
<1> PICK h \in Transactions : h = req[w]
  BY DEF HomeInv, DirType
<1>1. CASE Refuse(w) \/ Abort(w)
  <2>1. Become(w, Idle) /\ UNCHANGED <<Rows, excused>>
    BY <1>1 DEF Refuse, Abort
  <2> QED BY <2>1, IdleType, OneBecomesTree
<1>2. CASE AssignDeletes(w)
  <2>1. PICK seen : seen = holds[h.on]
    OBVIOUS
  <2> DEFINE k == [h EXCEPT !.pc = "insert", !.seen = seen]
  <2>2. Become(w, k) /\ UNCHANGED <<Rows, excused>> /\ h.pc = "write" /\ h.op = "assign"
    BY <1>2, <2>1 DEF AssignDeletes, Writing, At
  <2>3. seen \in SUBSET Roles
    BY <2>1, <2>2 DEF HomeInv, DirType, Formed, UserOps
  <2>4. k \in Transactions /\ k.op = "assign"
    BY <2>2, <2>3 DEF Transactions
  <2> HIDE DEF k
  <2>5. TreeFits(k)
    BY <2>4 DEF TreeFits, DeptSeen, TargetFits, LeafSeen
  <2> QED BY <2>2, <2>4, <2>5, OneBecomesTree
<1> QED BY <1>1, <1>2

\* What a commit of this kind may do to the tree that others have read.
TreeEffect(kind) ==
  /\ \A d \in Depts : dept[d].status = "gone" => dept'[d].status = "gone"
  /\ kind # "move" =>
       \A d \in Depts : Exists(dept[d]) /\ Exists(dept'[d]) =>
         dept'[d].parent = dept[d].parent /\ dept'[d].anc = dept[d].anc
  /\ kind \notin {"move", "deptGone"} => \A d \in Depts : Exists(dept[d]) => Exists(dept'[d])
  /\ kind \notin {"move", "deptNew"} => \A d \in Depts : dept'[d].parent \in {dept[d].parent, None}

LEMMA CommitKeepsTree ==
  ASSUME HomeInv, TreeInv, NEW w \in Workers, NEW kind, Commit(w, kind),
         "tree" \notin excused' => TreeEffect(kind) /\ \E root \in Depts : Sound(dept', root)
  PROVE  TreeInv'
<1> SUFFICES ASSUME "tree" \notin excused', NEW v \in Workers, req'[v].pc # "idle", ~req'[v].crossed
             PROVE  TreeFits(req[v])'
  BY DEF TreeInv, Sound, Exists, PathOf
<1>1. "tree" \notin excused
  BY ExcusedIs
<1>2. /\ req' \in [Workers -> Transactions] /\ req'[w] = Idle /\ Idle.pc = "idle"
      /\ v # w => /\ Alike(req'[v], req[v])
                  /\ ~req'[v].crossed => ~req[v].crossed /\ kind \notin Conflicts(req[v])
  BY CommitIs, IdleType DEF HomeInv
<1> PICK h \in Transactions : h = req[v]
  BY DEF HomeInv, DirType
<1> PICK k \in Transactions : k = req'[v]
  BY <1>2
<1>3. Alike(k, h) /\ kind \notin Conflicts(h) /\ h.pc # "idle" /\ Formed(h) /\ IdFits(h)
  BY <1>2 DEF Alike, HomeInv, DirType, IdsOnce
<1>4. DeptSeen(h) /\ TargetFits(h) /\ LeafSeen(h)
  BY <1>1, <1>2, <1>3 DEF TreeInv, TreeFits
<1>5. TreeEffect(kind)
  OBVIOUS
<1>6. Moves(k) = Moves(h)
  BY <1>3 DEF Alike, Moves
<1>7. DeptSeen(k)'
  <2> SUFFICES ASSUME h.op = "updateDept" PROVE DeptSeen(k)'
    BY <1>3 DEF Alike, DeptSeen
  <2>1. h.on \in Depts /\ dept[h.on].status # "fresh" /\ kind # "move"
    BY <1>3 DEF Formed, IdFits, Creates, DeptOps, Conflicts
  <2>2. Exists(dept'[h.on]) => Exists(dept[h.on])
    BY <1>5, <2>1 DEF TreeEffect, Exists, HomeInv, DirType, DeptRows
  <2>3. Exists(dept'[h.on]) => h.row.dept = dept'[h.on].parent /\ h.anc = dept'[h.on].anc
    BY <1>4, <1>5, <2>1, <2>2 DEF DeptSeen, TreeEffect
  <2> QED BY <1>3, <1>4, <1>6, <2>3 DEF Alike, DeptSeen, Exists, Moves
<1>8. TargetFits(k)'
  <2> SUFFICES ASSUME h.op = "createDept" \/ (h.op = "updateDept" /\ Moves(h)) PROVE TargetFits(k)'
    BY <1>3, <1>6 DEF Alike, TargetFits, Moves
  <2>1. kind \notin {"move", "deptGone"} /\ h.to \in Depts /\ (h.op = "updateDept" => h.on \in Depts)
    BY <1>3 DEF Formed, DeptOps, Conflicts, Moves
  <2>2. Exists(dept[h.to]) /\ Exists(dept'[h.to]) /\ dept'[h.to].anc = dept[h.to].anc
    BY <1>4, <1>5, <2>1 DEF TargetFits, TreeEffect
  <2>3. h.op = "updateDept" =>
          Exists(dept[h.on]) /\ Exists(dept'[h.on]) /\ dept'[h.on].parent = dept[h.on].parent
    BY <1>4, <1>5, <2>1 DEF TargetFits, TreeEffect
  <2> QED BY <1>3, <1>4, <1>6, <2>1, <2>2, <2>3 DEF Alike, TargetFits, Exists, Moves, PathOf
<1>9. LeafSeen(k)'
  <2> SUFFICES ASSUME h.op = "deleteDept", h.pc = "write" PROVE LeafSeen(k)'
    BY <1>3 DEF Alike, LeafSeen
  <2>1. kind \notin {"move", "deptNew"} /\ h.on \in Depts /\ dept[h.on].status # "fresh" /\ h.on # None
    BY <1>3, DirectoryAssumption DEF Formed, IdFits, Creates, DeptOps, Conflicts
  <2>2. Exists(dept'[h.on]) => Exists(dept[h.on])
    BY <1>5, <2>1 DEF TreeEffect, Exists, HomeInv, DirType, DeptRows
  <2>3. Exists(dept'[h.on]) => dept'[h.on].parent # None
    BY <1>4, <1>5, <2>1, <2>2 DEF LeafSeen, TreeEffect
  <2>4. \A d \in Depts : dept'[d].parent # h.on
    BY <1>4, <1>5, <2>1 DEF LeafSeen, TreeEffect
  <2> QED BY <1>3, <2>3, <2>4 DEF Alike, LeafSeen, Exists
<1> QED BY <1>7, <1>8, <1>9 DEF TreeFits, DeptSeen, TargetFits, LeafSeen

LEMMA CreateDeptKeepsTree ==
  ASSUME HomeInv, TreeInv, NEW w \in Workers, WriteCreateDept(w)
  PROVE  TreeInv'
<1> PICK h \in Transactions : h = req[w]
  BY DEF HomeInv, DirType
<1>1. /\ h.pc = "write" /\ h.op = "createDept" /\ h.on \in Depts /\ h.to \in Depts /\ Formed(h)
      /\ dept[h.on].status = "fresh" /\ Commit(w, "deptNew")
      /\ dept' = [dept EXCEPT ![h.on] = [parent |-> h.to, anc |-> h.path, status |-> "ACTIVE"]]
  BY WriterIs DEF WriteCreateDept, Writing, At, Formed, DeptOps, IdFits, Creates
<1>2. \A d \in Depts : d # h.on => dept'[d] = dept[d]
  BY <1>1 DEF HomeInv, DirType
<1>3. dept'[h.on].parent = h.to /\ dept'[h.on].anc = h.path /\ Exists(dept'[h.on]) /\ ~Exists(dept[h.on])
  BY <1>1 DEF HomeInv, DirType, Exists
<1>4. TreeEffect("deptNew")
  BY <1>1, <1>2, <1>3 DEF TreeEffect
<1>5. ASSUME "tree" \notin excused' PROVE \E root \in Depts : Sound(dept', root)
  <2>1. "tree" \notin excused /\ ~h.crossed
    BY <1>1, <1>5, ExcusedIs DEF Family
  <2>2. PICK root \in Depts : Sound(dept, root)
    BY <2>1 DEF TreeInv
  <2>3. Exists(dept[h.to]) /\ h.path = PathOf(h.to, dept[h.to].anc) /\ h.to # h.on
    BY <1>1, <1>3, <2>1 DEF TreeInv, TreeFits, TargetFits
  <2>4. h.on # root /\ h.to # None
    BY <1>1, <1>3, <2>2, DirectoryAssumption DEF Sound
  <2>5. Sound(dept', root)
    <3> SUFFICES ASSUME NEW d \in Depts
                 PROVE  /\ d = root <=> Exists(dept'[d]) /\ dept'[d].parent = None
                        /\ Exists(dept'[d]) =>
                             IF dept'[d].parent = None THEN dept'[d].anc = <<>>
                             ELSE Exists(dept'[dept'[d].parent])
                                  /\ dept'[d].anc = PathOf(dept'[d].parent, dept'[dept'[d].parent].anc)
      BY DEF Sound
    <3>1. CASE d = h.on
      BY <1>1, <1>2, <1>3, <2>3, <2>4, <3>1
    <3>2. CASE d # h.on
      <4>1. dept'[d] = dept[d]
        BY <1>2, <3>2
      <4>2. CASE Exists(dept[d]) /\ dept[d].parent # None
        <5>1. PICK p \in Depts : p = dept[d].parent
          BY <4>2 DEF HomeInv, DirType, DeptRows
        <5>2. Exists(dept[p]) /\ p # h.on /\ dept'[p] = dept[p]
          BY <1>2, <1>3, <2>2, <4>2, <5>1 DEF Sound
        <5> QED BY <2>2, <4>1, <4>2, <5>1, <5>2 DEF Sound
      <4> QED BY <2>2, <4>1, <4>2 DEF Sound
    <3> QED BY <3>1, <3>2
  <2> QED BY <2>5
<1> QED BY <1>1, <1>4, <1>5, CommitKeepsTree

LEMMA DeleteDeptKeepsTree ==
  ASSUME HomeInv, TreeInv, NEW w \in Workers, WriteDeleteDept(w)
  PROVE  TreeInv'
<1> PICK h \in Transactions : h = req[w]
  BY DEF HomeInv, DirType
<1>1. /\ h.pc = "write" /\ h.op = "deleteDept" /\ h.on \in Depts /\ Commit(w, "deptGone")
      /\ dept' = [dept EXCEPT ![h.on] = [parent |-> None, anc |-> <<>>, status |-> "gone"]]
  BY WriterIs DEF WriteDeleteDept, Writing, At, Formed, DeptOps
<1>2. \A d \in Depts : d # h.on => dept'[d] = dept[d]
  BY <1>1 DEF HomeInv, DirType
<1>3. dept'[h.on].parent = None /\ dept'[h.on].status = "gone" /\ ~Exists(dept'[h.on])
  BY <1>1 DEF HomeInv, DirType, Exists
<1>4. TreeEffect("deptGone")
  BY <1>1, <1>2, <1>3 DEF TreeEffect
<1>5. ASSUME "tree" \notin excused' PROVE \E root \in Depts : Sound(dept', root)
  <2>1. "tree" \notin excused /\ ~h.crossed
    BY <1>1, <1>5, ExcusedIs DEF Family
  <2>2. PICK root \in Depts : Sound(dept, root)
    BY <2>1 DEF TreeInv
  <2>3. LeafSeen(h)
    BY <1>1, <2>1 DEF TreeInv, TreeFits
  <2>4. h.on # root
    BY <1>1, <2>2, <2>3 DEF Sound, LeafSeen
  <2>5. Sound(dept', root)
    <3> SUFFICES ASSUME NEW d \in Depts
                 PROVE  /\ d = root <=> Exists(dept'[d]) /\ dept'[d].parent = None
                        /\ Exists(dept'[d]) =>
                             IF dept'[d].parent = None THEN dept'[d].anc = <<>>
                             ELSE Exists(dept'[dept'[d].parent])
                                  /\ dept'[d].anc = PathOf(dept'[d].parent, dept'[dept'[d].parent].anc)
      BY DEF Sound
    <3>1. CASE d = h.on
      BY <1>3, <2>4, <3>1
    <3>2. CASE d # h.on
      <4>1. dept'[d] = dept[d]
        BY <1>2, <3>2
      <4>2. CASE Exists(dept[d]) /\ dept[d].parent # None
        <5>1. PICK p \in Depts : p = dept[d].parent
          BY <4>2 DEF HomeInv, DirType, DeptRows
        <5>2. p # h.on /\ dept'[p] = dept[p]
          BY <1>1, <1>2, <2>3, <5>1 DEF LeafSeen
        <5> QED BY <2>2, <4>1, <4>2, <5>1, <5>2 DEF Sound
      <4> QED BY <2>2, <4>1, <4>2 DEF Sound
    <3> QED BY <3>1, <3>2
  <2> QED BY <2>5
<1> QED BY <1>1, <1>4, <1>5, CommitKeepsTree

\* A move: the department below its new parent, and the paths below it.
LEMMA UpdateDeptKeepsTree ==
  ASSUME HomeInv, TreeInv, NEW w \in Workers, WriteUpdateDept(w)
  PROVE  TreeInv'
<1> PICK h \in Transactions : h = req[w]
  BY DEF HomeInv, DirType
<1>1. /\ h.pc = "write" /\ h.op = "updateDept" /\ h.on \in Depts /\ Formed(h)
      /\ Commit(w, IF Moves(h) THEN "move" ELSE "none")
  BY WriterIs DEF WriteUpdateDept, Writing, At, Formed, DeptOps
<1>2. /\ dept' \in [Depts -> DeptRows]
      /\ \A d \in Depts :
           IF d = h.on /\ Exists(dept[d])
           THEN dept'[d] = [parent |-> Place(h), anc |-> Rebased(h, h.path), status |-> Asked(h)]
           ELSE dept'[d] = [parent |-> dept[d].parent, anc |-> Rebased(h, dept[d].anc), status |-> dept[d].status]
  BY UpdateDeptIs DEF HomeInv
<1>3. Asked(h) \in {"ACTIVE", "DISABLED"}
  BY <1>1 DEF Formed, Asked, Exists, Transactions
<1>4. \A d \in Depts : dept[d].anc \in Seq(Depts) /\ dept[d].parent \in Depts \cup {None}
  BY DEF HomeInv, DirType, DeptRows
<1>5. ASSUME NEW d \in Depts, d # h.on \/ ~Exists(dept[d])
      PROVE  dept'[d].parent = dept[d].parent /\ dept'[d].anc = Rebased(h, dept[d].anc) /\ dept'[d].status = dept[d].status
  <2>1. dept'[d] = [parent |-> dept[d].parent, anc |-> Rebased(h, dept[d].anc), status |-> dept[d].status]
    BY <1>2, <1>5
  <2> QED BY <2>1
<1>6. ASSUME Exists(dept[h.on])
      PROVE  dept'[h.on].parent = Place(h) /\ dept'[h.on].anc = Rebased(h, h.path) /\ dept'[h.on].status = Asked(h)
  <2>1. dept'[h.on] = [parent |-> Place(h), anc |-> Rebased(h, h.path), status |-> Asked(h)]
    BY <1>1, <1>2, <1>6
  <2> QED BY <2>1
<1>7. \A d \in Depts : /\ Exists(dept'[d]) <=> Exists(dept[d])
                       /\ dept[d].status = "gone" => dept'[d].status = "gone"
  BY <1>3, <1>5, <1>6 DEF Exists
<1> PICK kind : kind = IF Moves(h) THEN "move" ELSE "none"
  OBVIOUS
<1>8. ASSUME "tree" \notin excused'
      PROVE  TreeEffect(kind) /\ \E root \in Depts : Sound(dept', root)
  <2>1. "tree" \notin excused /\ ~h.crossed
    BY <1>1, <1>8, ExcusedIs DEF Family
  <2>2. PICK root \in Depts : Sound(dept, root)
    BY <2>1 DEF TreeInv
  <2>3. DeptSeen(h) /\ TargetFits(h)
    BY <1>1, <2>1 DEF TreeInv, TreeFits
  <2>4. CASE ~Moves(h)
    <3>1. \A d \in Depts : dept'[d].parent = dept[d].parent /\ dept'[d].anc = dept[d].anc
      <4> SUFFICES ASSUME NEW d \in Depts
                   PROVE  dept'[d].parent = dept[d].parent /\ dept'[d].anc = dept[d].anc
        OBVIOUS
      <4>1. CASE d = h.on /\ Exists(dept[d])
        <5>1. h.to = Keep
          BY <1>1, <2>4 DEF Formed
        <5>2. h.row.dept = dept[d].parent /\ h.path = dept[d].anc
          BY <1>1, <2>3, <2>4, <4>1 DEF DeptSeen
        <5> QED BY <1>6, <2>4, <4>1, <5>1, <5>2, RebasedElsewhere DEF Place
      <4>2. CASE ~(d = h.on /\ Exists(dept[d]))
        BY <1>5, <2>4, <4>2, RebasedElsewhere
      <4> QED BY <4>1, <4>2
    <3>2. Sound(dept', root)
      BY <1>4, <1>7, <2>2, <3>1 DEF Sound
    <3> QED BY <1>7, <3>1, <3>2 DEF TreeEffect
  <2>5. CASE Moves(h)
    <3>1. PICK to \in Depts : to = h.to /\ Exists(dept[to])
      BY <2>3, <2>5, <1>1 DEF TargetFits, Moves
    <3>2. /\ Exists(dept[h.on]) /\ dept[h.on].parent # None
          /\ h.anc = dept[h.on].anc /\ h.path = PathOf(to, dept[to].anc)
          /\ ~IsPrefix(PathOf(h.on, h.anc), h.path)
      BY <1>1, <2>3, <2>5, <3>1 DEF TargetFits, DeptSeen
    <3>3. h.on # root
      BY <2>2, <3>2 DEF Sound
    <3>4. dept'[h.on].parent = to /\ dept'[h.on].anc = h.path
      <4>1. Place(h) = to
        BY <3>1, DirectoryAssumption DEF Place
      <4>2. Rebased(h, h.path) = h.path
        BY <3>2, RebasedElsewhere
      <4> QED BY <1>6, <3>2, <4>1, <4>2
    <3>5. to # h.on /\ ~IsPrefix(PathOf(h.on, h.anc), dept[to].anc)
      <4>1. IsPrefix(PathOf(h.on, h.anc), dept[to].anc) => IsPrefix(PathOf(h.on, h.anc), PathOf(to, dept[to].anc))
        BY <1>1, <1>4, <3>2, PrefixBelow
      <4>2. \E t \in Seq(Depts) : t = PathOf(h.on, h.anc)
        BY <1>1, <1>4, <3>2, PathIs
      <4>3. IsPrefix(PathOf(h.on, h.anc), PathOf(h.on, h.anc))
        BY <4>2, PrefixIs
      <4> QED BY <3>2, <4>1, <4>3
    <3>6. dept'[to].anc = dept[to].anc
      BY <1>5, <3>1, <3>5, RebasedElsewhere
    <3>7. Sound(dept', root)
      <4> SUFFICES ASSUME NEW d \in Depts
                   PROVE  /\ d = root <=> Exists(dept'[d]) /\ dept'[d].parent = None
                          /\ Exists(dept'[d]) =>
                               IF dept'[d].parent = None THEN dept'[d].anc = <<>>
                               ELSE Exists(dept'[dept'[d].parent])
                                    /\ dept'[d].anc = PathOf(dept'[d].parent, dept'[dept'[d].parent].anc)
        BY DEF Sound
      <4>1. CASE d = h.on
        BY <1>7, <3>1, <3>2, <3>3, <3>4, <3>6, <4>1, DirectoryAssumption
      <4>2. CASE d # h.on
        <5>1. dept'[d].parent = dept[d].parent /\ dept'[d].anc = Rebased(h, dept[d].anc)
          BY <1>5, <4>2
        <5>2. CASE dept[d].parent = None /\ Exists(dept[d])
          <6>1. dept[d].anc = << >>
            BY <2>2, <5>2 DEF Sound
          <6>2. ~IsPrefix(PathOf(h.on, h.anc), << >>)
            <7>1. PICK t \in Seq(Depts) : t = PathOf(h.on, h.anc) /\ IsPath(t, h.on, h.anc)
              BY <1>1, <1>4, <3>2, PathIs
            <7>2. Len(t) = Len(h.anc) + 1 /\ Len(h.anc) \in Nat
              BY <1>1, <1>4, <3>2, <7>1 DEF IsPath
            <7>3. << >> \in Seq(Depts) /\ Len(<< >>) = 0
              BY EmptySeq
            <7>4. PICK e \in Seq(Depts) : e = << >> /\ Len(e) = 0
              BY <7>3
            <7>5. ~IsPrefix(t, e)
              <8>1. ~(Len(t) <= Len(e))
                BY <7>2, <7>4
              <8> QED BY <8>1, PrefixIs
            <7> QED BY <7>1, <7>4, <7>5
          <6>3. Rebased(h, << >>) = << >>
            BY <6>2, RebasedElsewhere
          <6> QED BY <1>7, <2>2, <5>1, <5>2, <6>1, <6>3 DEF Sound
        <5>3. CASE dept[d].parent # None /\ Exists(dept[d])
          <6>1. PICK p \in Depts : p = dept[d].parent
            BY <1>4, <5>3
          <6>2. Exists(dept[p]) /\ dept[d].anc = PathOf(p, dept[p].anc)
            BY <2>2, <5>3, <6>1 DEF Sound
          <6>3. CASE p = h.on
            <7>1. dept'[d].anc = PathOf(h.on, h.path)
              BY <1>1, <1>4, <2>5, <3>2, <5>1, <6>2, <6>3, RebasedBelow
            <7> QED BY <1>7, <2>2, <3>4, <4>2, <5>1, <5>3, <6>1, <6>2, <6>3, <7>1 DEF Sound
          <6>4. CASE p # h.on
            <7>1. dept'[d].anc = PathOf(p, Rebased(h, dept[p].anc))
              BY <1>1, <1>4, <2>5, <5>1, <6>2, <6>4, RebasedBelow
            <7>2. dept'[p].anc = Rebased(h, dept[p].anc)
              BY <1>5, <6>4
            <7> QED BY <1>7, <2>2, <4>2, <5>1, <5>3, <6>1, <6>2, <7>1, <7>2 DEF Sound
          <6> QED BY <6>3, <6>4
        <5>4. CASE ~Exists(dept[d])
          BY <1>7, <2>2, <5>4 DEF Sound
        <5> QED BY <5>2, <5>3, <5>4
      <4> QED BY <4>1, <4>2
    <3>8. TreeEffect(kind)
      BY <1>7, <2>5 DEF TreeEffect
    <3> QED BY <3>7, <3>8
  <2> QED BY <2>4, <2>5
<1>9. Commit(w, kind)
  BY <1>1
<1> QED BY <1>8, <1>9, CommitKeepsTree

LEMMA HomeWriteKeepsTree ==
  ASSUME HomeInv, TreeInv, NEW w \in Workers,
         WriteUser(w) \/ WriteRestoreUser(w) \/ AssignInserts(w) \/ WriteRemove(w) \/ WriteRole(w) \/ WriteDeleteRole(w)
  PROVE  TreeInv'
<1>1. dept' = dept
  BY DEF WriteUser, WriteRestoreUser, AssignInserts, WriteRemove, WriteRole, WriteDeleteRole
<1>2. PICK kind : Commit(w, kind)
  BY DEF WriteUser, WriteRestoreUser, AssignInserts, WriteRemove, WriteRole, WriteDeleteRole
<1>3. TreeEffect(kind)
  BY <1>1 DEF TreeEffect
<1>4. "tree" \notin excused' => \E root \in Depts : Sound(dept', root)
  BY <1>1, <1>2, ExcusedIs DEF TreeInv
<1> QED BY <1>2, <1>3, <1>4, CommitKeepsTree

LEMMA TreeInit == ASSUME DirInit PROVE TreeInv
<1> PICK h \in Homes : dept = h.dept
  BY DEF DirInit
<1>1. \E root \in Depts : Sound(dept, root)
  BY HomesAssumption DEF InOrder
<1>2. \A w \in Workers : req[w].pc = "idle"
  BY IdleType DEF DirInit
<1> QED BY <1>1, <1>2 DEF TreeInv

LEMMA TreeStep == ASSUME HomeInv, TreeInv, [DirNext]_dirVars PROVE TreeInv'
<1>1. CASE UNCHANGED dirVars
  BY <1>1 DEF dirVars, TreeInv, Sound, TreeFits, DeptSeen, TargetFits, LeafSeen, Exists,
     Moves, PathOf
<1>2. ASSUME NEW w \in Workers, CanStart(w), NEW o \in Users, LoadAny(w, o) PROVE TreeInv'
  BY <1>2, LoadKeepsTree
<1>3. ASSUME NEW w \in Workers, Check(w) PROVE TreeInv'
  BY <1>3, CheckKeepsTree
<1>4. ASSUME NEW w \in Workers, Refuse(w) \/ Abort(w) PROVE TreeInv'
  BY <1>4, OthersKeepTree
<1>5. ASSUME NEW w \in Workers, WriteAny(w) PROVE TreeInv'
  BY <1>5, CreateDeptKeepsTree, UpdateDeptKeepsTree, DeleteDeptKeepsTree, HomeWriteKeepsTree,
     OthersKeepTree
     DEF WriteAny
<1> QED BY <1>1, <1>2, <1>3, <1>4, <1>5 DEF DirNext

\* One root and paths that agree with the parent links is what the property says.
LEMMA TreeInvIsSound == ASSUME HomeInv, TreeInv PROVE TreeIsSound
<1> SUFFICES ASSUME "tree" \notin excused PROVE TreeIsSound
  BY DEF TreeIsSound
<1>1. PICK root \in Depts : Sound(dept, root)
  BY DEF TreeInv
<1>2. {d \in Depts : Exists(dept[d]) /\ dept[d].parent = None} = {root}
  BY <1>1 DEF Sound
<1>3. Cardinality({root}) = 1
  BY FS_Singleton
<1>4. \A d \in Depts :
        LET p == dept[d].parent IN
        Exists(dept[d]) /\ p # None => Exists(dept[p]) /\ dept[d].anc = PathOf(p, dept[p].anc)
  BY <1>1 DEF Sound
<1> QED BY <1>2, <1>3, <1>4 DEF TreeIsSound

\* Unless a commit crossed it, every change of the tree leaves one root and
\* paths that are those of the parents (TreeIsSound): createDepartment,
\* updateDepartment with the rebased paths below it, deleteDepartment.
THEOREM TreeStaysSound == Spec => []TreeIsSound
<1>1. Init => TreeInv
  BY TreeInit DEF Init
<1>2. HomeInv /\ TreeInv /\ [Next]_vars => TreeInv'
  BY TreeStep DEF Next, DirStep, PermStep, vars
<1>3. HomeInv /\ TreeInv => TreeIsSound
  BY TreeInvIsSound
<1> QED BY <1>1, <1>2, <1>3, HomeInductive, PTL DEF Spec

-----------------------------------------------------------------------------
(* Permissions: types, and what uncrossed requests know *)

Kinds == {"move", "status", "grants", "bind"}
Snaps == UNION {[S -> CodeRows] : S \in SUBSET Perms}
Calls ==
  [pc : {"idle", "check", "write", "affected", "refresh"},
   op : {"none", "create", "update", "delete", "grant", "bind", "register"},
   by : Users \cup {None}, on : Perms \cup Roles \cup Users \cup {None},
   old : CodeRows, row : CodeRows, set : SUBSET (Perms \cup Roles), seen : SUBSET Perms,
   tree : Trees \cup {<< >>}, snap : Snaps, due : SUBSET Users, crossed : SUBSET Kinds]

\* What a request is about, by its kind; the reserved permissions are neither
\* made by it, nor become an application's, nor registered.
About(h) ==
  /\ h.op # "none"
  /\ h.op \in {"create", "update", "delete"} => h.on \in Perms
  /\ h.op \in {"create", "update"} => h.row.status \in {"ACTIVE", "DISABLED"}
  /\ h.op = "create" => h.on \notin Reserved
  /\ h.op = "update" /\ h.on \in Reserved => h.old.owner # App
  /\ h.op = "grant" => h.on \in Roles /\ h.set \subseteq Perms
  /\ h.op = "bind" => h.on \in Users /\ h.set \subseteq Roles
  /\ h.op = "register" => h.tree \in Trees /\ DOMAIN h.tree \cap Reserved = {}
  /\ h.op # "register" => h.by \in Users

Proper(h) ==
  /\ h.pc \in {"check", "write"} => About(h)
  /\ h.pc = "write" =>
       /\ h.op = "update" /\ h.on \in Reserved => h.row.owner = h.old.owner
       /\ h.op = "register" => DOMAIN h.snap \cap Reserved = {}
  /\ h.pc = "affected" => h.on \in Perms

PermType ==
  /\ perm \in [Perms -> CodeRows] /\ grants \in [Roles -> SUBSET Perms]
  /\ bound \in [Users -> SUBSET Roles] /\ context \in [Users -> SUBSET Perms]
  /\ call \in [Workers -> Calls] /\ \A w \in Workers : Proper(call[w])

\* An id that no row has had yet.
Fresh == {p \in Perms : perm[p].status = "fresh"}

\* What is granted is there, a parent is a row or was one, and the reserved
\* permissions stay the portal's.
RowsKept ==
  /\ \A r \in Roles : grants[r] \subseteq Present
  /\ \A p \in Present : perm[p].parent \notin Fresh
  /\ \A p \in Reserved : p \notin Fresh /\ perm[p].owner # App

\* What is read was there.
IdsSeen(h) ==
  /\ h.pc \in {"check", "write"} /\ h.op = "update" => h.on \notin Fresh
  /\ h.pc = "write" /\ h.op = "update" /\ MovesPerm(h) => h.row.parent \notin Fresh
  /\ h.pc = "write" /\ h.op = "register" => DOMAIN h.snap \cap Fresh = {}

\* What is left of the tree is as it was read.
TreeSeen(h) ==
  "move" \notin h.crossed =>
    /\ h.pc \in {"check", "write"} /\ h.op = "update" /\ IsThere(h.on) =>
         /\ h.old.parent = perm[h.on].parent
         /\ h.pc = "write" /\ MovesPerm(h) /\ h.row.parent # None =>
              h.row.parent \notin Subtree(h.on)
    /\ h.pc = "write" /\ h.op = "register" =>
         \A p \in DOMAIN h.snap : IsThere(p) => h.snap[p].parent = perm[p].parent

\* Who asks has what the request hands on.
RightsSeen(h) ==
  /\ h.pc \in {"check", "write"} /\ h.op = "update" /\ "status" \notin h.crossed /\ IsThere(h.on) =>
       h.old.status = perm[h.on].status
  /\ h.pc = "write" =>
       /\ h.op = "update" /\ "bind" \notin h.crossed /\ h.on \in Reserved =>
            h.row.status = h.old.status \/ Administers(h.by)
       /\ h.op = "grant" /\ h.crossed \subseteq {"move"} =>
            Administers(h.by) \/ h.set \subseteq UNION {grants[r] : r \in bound[h.by]}
       /\ h.op = "bind" /\ h.crossed \subseteq {"move"} =>
            \/ Administers(h.by)
            \/ Active \cap UNION {grants[r] : r \in h.set} \subseteq Effective(h.by)

\* Who will be affected is known.
Losing(h) == Holders({r \in Roles : grants[r] \cap (h.seen \cup Subtree(h.on)) # {}})
DueSeen(h) ==
  h.pc = "write" =>
    /\ h.op = "grant" /\ "bind" \notin h.crossed => Holders({h.on}) \subseteq h.due
    /\ h.op = "delete" /\ h.crossed = {} => Losing(h) \subseteq h.due
    /\ h.op = "bind" => h.on \in h.due

Seen(h) == IdsSeen(h) /\ TreeSeen(h) /\ RightsSeen(h) /\ DueSeen(h)
PermInv == PermType /\ RowsKept /\ \A w \in Workers : Seen(call[w])

-----------------------------------------------------------------------------
(* Operators *)

\* What hangs below a permission includes it and all its children.
LEMMA SubtreeIs ==
  ASSUME NEW p \in Perms
  PROVE  /\ p \in Subtree(p) /\ Subtree(p) \subseteq Perms
         /\ \A x \in Present : perm[x].parent \in Subtree(p) => x \in Subtree(p)
<1>1. \A x \in Present : perm[x].parent \in Subtree(p) => x \in Subtree(p)
  <2> SUFFICES ASSUME NEW x \in Present, perm[x].parent \in Subtree(p) PROVE x \in Subtree(p)
    OBVIOUS
  <2>1. x \in Perms
    BY DEF Present
  <2> QED BY <2>1 DEF Subtree
<1> QED BY <1>1 DEF Subtree

\* As long as no row moves and none comes back, only new rows come to hang
\* below a permission.
LEMMA SubtreeGrows ==
  ASSUME NEW p \in Perms, RowsKept, Present' \subseteq Present \cup Fresh,
         \A x \in Present : x \in Present' => perm'[x].parent = perm[x].parent
  PROVE  Subtree(p)' \subseteq Subtree(p) \cup Fresh
<1> DEFINE C == Subtree(p) \cup Fresh
<1>1. C \in SUBSET Perms /\ p \in C
  BY SubtreeIs DEF Fresh
<1>2. ASSUME NEW x \in Present', perm'[x].parent \in C PROVE x \in C
  <2>1. CASE x \in Present
    <3>1. perm[x].parent \in Subtree(p)
      BY <1>2, <2>1 DEF RowsKept
    <3> QED BY <2>1, <3>1, SubtreeIs
  <2>2. CASE x \notin Present
    BY <2>2
  <2> QED BY <2>1, <2>2
<1> HIDE DEF C
<1>3. Subtree(p)' = {x \in Perms : \A S \in SUBSET Perms :
                       p \in S /\ (\A y \in Present' : perm'[y].parent \in S => y \in S) => x \in S}
  BY DEF Subtree
<1>4. Subtree(p)' \subseteq C
  BY <1>1, <1>2, <1>3
<1> QED BY <1>4 DEF C

LEMMA HoldersAre ==
  ASSUME NEW R, NEW u \in Users
  PROVE  (u \in Holders(R) <=> \E r \in R : r \in bound[u]) /\ Holders(R) \subseteq Users
BY DEF Holders

LEMMA EffectiveIs ==
  ASSUME NEW u, NEW p
  PROVE  p \in Effective(u) <=> p \in Active /\ \E r \in bound[u] : p \in grants[r]
BY DEF Effective

-----------------------------------------------------------------------------
(* Steps that write no rows *)

LEMMA NoRequestType ==
  /\ NoRequest \in Calls /\ Proper(NoRequest) /\ Seen(NoRequest)
  /\ NoRequest.pc = "idle" /\ NoRequest.op = "none" /\ NoRequest.crossed = {}
<1>1. NoPerm \in CodeRows /\ GonePerm \in CodeRows
  BY DEF NoPerm, GonePerm, CodeRows
<1>2. << >> \in Snaps
  BY << >> \in [{} -> CodeRows] DEF Snaps
<1>3. NoRequest \in Calls /\ NoRequest.pc = "idle" /\ NoRequest.op = "none" /\ NoRequest.crossed = {}
  BY <1>1, <1>2 DEF NoRequest, Calls, Kinds
<1> QED BY <1>3 DEF Proper, Seen, IdsSeen, TreeSeen, RightsSeen, DueSeen

LEMMA CallBecomes ==
  ASSUME PermInv, UNCHANGED PermRows, context' \in [Users -> SUBSET Perms],
         NEW w \in Workers, NEW k \in Calls, SetRequest(w, k), Proper(k), Seen(k)
  PROVE  PermInv'
<1>1. /\ call' \in [Workers -> Calls] /\ call'[w] = k
      /\ \A v \in Workers : v # w => call'[v] = call[v]
  BY DEF PermInv, PermType, SetRequest
<1>2. perm' = perm /\ grants' = grants /\ bound' = bound
  BY DEF PermRows
<1>3. PermType'
  BY <1>1, <1>2 DEF PermInv, PermType
<1>4. RowsKept'
  BY <1>2 DEF PermInv, RowsKept, Present, IsThere, Fresh
<1>5. ASSUME NEW v \in Workers PROVE Seen(call[v])'
  <2> PICK h \in Calls : h = call'[v]
    BY <1>1
  <2>1. Seen(h)
    BY <1>1 DEF PermInv
  <2>2. /\ \A p : IsThere(p)' <=> IsThere(p)
        /\ Active' = Active /\ \A u : Effective(u)' = Effective(u) /\ (Administers(u)' <=> Administers(u))
        /\ \A R : Holders(R)' = Holders(R)
        /\ \A p : Subtree(p)' = Subtree(p)
    BY <1>2 DEF IsThere, Active, Effective, Administers, Holders, Subtree, Present
  <2>3. IdsSeen(call[v])'
    BY <1>2, <2>1 DEF Seen, IdsSeen, Fresh, MovesPerm
  <2>4. TreeSeen(call[v])'
    BY <1>2, <2>1, <2>2 DEF Seen, TreeSeen, MovesPerm
  <2>5. RightsSeen(call[v])'
    BY <1>2, <2>1, <2>2 DEF Seen, RightsSeen
  <2>6. DueSeen(call[v])'
    BY <1>2, <2>1, <2>2 DEF Seen, DueSeen, Losing
  <2> QED BY <2>3, <2>4, <2>5, <2>6 DEF Seen
<1> QED BY <1>3, <1>4, <1>5 DEF PermInv

LEMMA OwnedIs ==
  ASSUME PermInv
  PROVE  /\ [p \in Owned |-> perm[p]] \in Snaps /\ Owned \cap Reserved = {}
         /\ \A p \in Owned : IsThere(p)
<1>1. Owned \subseteq Perms /\ \A p \in Owned : IsThere(p) /\ perm[p].owner = App
  BY DEF Owned
<1>2. Owned \cap Reserved = {}
  BY <1>1 DEF PermInv, RowsKept
<1>3. [p \in Owned |-> perm[p]] \in [Owned -> CodeRows]
  BY <1>1 DEF PermInv, PermType
<1> QED BY <1>1, <1>2, <1>3 DEF Snaps

LEMMA ReadyIs ==
  ASSUME PermInv, NEW h \in Calls, About(h)
  PROVE  \E k \in Calls :
           /\ k = Ready(h) /\ k.pc = "write" /\ k.due = Reached(h)
           /\ h.op = "delete" => k.seen = Subtree(h.on)
           /\ h.op = "register" => k.snap = [p \in Owned |-> perm[p]]
           /\ k.op = h.op /\ k.by = h.by /\ k.on = h.on /\ k.old = h.old /\ k.row = h.row
           /\ k.set = h.set /\ k.tree = h.tree /\ k.crossed = h.crossed
<1>1. /\ h.op = "grant" => grants[h.on] \in SUBSET Perms
      /\ h.op = "delete" => Subtree(h.on) \in SUBSET Perms
  BY SubtreeIs DEF About, PermInv, PermType
<1>2. PICK seen \in SUBSET Perms :
        seen = CASE h.op = "delete" -> Subtree(h.on)
                 [] h.op = "grant" -> grants[h.on]
                 [] OTHER -> {}
  BY <1>1
<1>3. PICK snap \in Snaps : snap = IF h.op = "register" THEN [p \in Owned |-> perm[p]] ELSE << >>
  <2>1. << >> \in Snaps
    BY << >> \in [{} -> CodeRows] DEF Snaps
  <2> QED BY <2>1, OwnedIs
<1>4. PICK due \in SUBSET Users : due = Reached(h)
  BY DEF Reached, Holders, About
<1> DEFINE k == [h EXCEPT !.pc = "write", !.due = due, !.seen = seen, !.snap = snap]
<1>5. k = Ready(h)
  BY <1>2, <1>3, <1>4 DEF Ready
<1>6. /\ k \in Calls /\ k.pc = "write" /\ k.due = due /\ k.seen = seen /\ k.snap = snap
      /\ k.op = h.op /\ k.by = h.by /\ k.on = h.on /\ k.old = h.old /\ k.row = h.row
      /\ k.set = h.set /\ k.tree = h.tree /\ k.crossed = h.crossed
  BY DEF Calls
<1> QED BY <1>2, <1>3, <1>4, <1>5, <1>6

\* A request that passes its checks knows what they looked at.
LEMMA BecomesReady ==
  ASSUME PermInv, UNCHANGED <<PermRows, context, pardoned, commits>>,
         NEW w \in Workers, NEW h \in Calls, About(h), RequestPasses(h),
         h.op = "update" => h.pc = "check" /\ Seen(h),
         SetRequest(w, Ready(h))
  PROVE  PermInv'
<1>1. PICK k \in Calls :
        /\ k = Ready(h) /\ k.pc = "write" /\ k.due = Reached(h)
        /\ h.op = "delete" => k.seen = Subtree(h.on)
        /\ h.op = "register" => k.snap = [p \in Owned |-> perm[p]]
        /\ k.op = h.op /\ k.by = h.by /\ k.on = h.on /\ k.old = h.old /\ k.row = h.row
        /\ k.set = h.set /\ k.tree = h.tree /\ k.crossed = h.crossed
  BY ReadyIs
<1>2. About(k)
  BY <1>1 DEF About
<1>3. h.op = "update" => MayUpdate(h)
  BY DEF RequestPasses
<1>4. h.op = "grant" => MayGrant(h)
  BY DEF RequestPasses
<1>5. h.op = "bind" => MayBind(h)
  BY DEF RequestPasses
<1>6. Proper(k)
  <2>1. k.op = "update" /\ k.on \in Reserved => k.row.owner = k.old.owner
    BY <1>1, <1>3 DEF MayUpdate
  <2>2. k.op = "register" => DOMAIN k.snap \cap Reserved = {}
    BY <1>1, OwnedIs
  <2> QED BY <1>1, <1>2, <2>1, <2>2 DEF Proper
<1>7. IdsSeen(k)
  <2>1. k.op = "update" => k.on \notin Fresh
    BY <1>1 DEF Seen, IdsSeen
  <2>2. k.op = "update" /\ MovesPerm(k) => k.row.parent \notin Fresh
    BY <1>1, <1>3, PermissionsAssumption DEF MayUpdate, MovesPerm, Fresh, IsThere
  <2>3. k.op = "register" => DOMAIN k.snap \cap Fresh = {}
    <3>1. \A p \in Owned : IsThere(p)
      BY OwnedIs
    <3> QED BY <1>1, <3>1 DEF Fresh, IsThere
  <2> QED BY <2>1, <2>2, <2>3 DEF IdsSeen
<1>8. TreeSeen(k)
  <2>1. CASE k.op = "update"
    <3>1. MovesPerm(k) /\ k.row.parent # None => k.row.parent \notin Subtree(k.on)
      BY <1>1, <1>3, <2>1 DEF MayUpdate, MovesPerm
    <3> QED BY <1>1, <2>1, <3>1 DEF Seen, TreeSeen
  <2>2. CASE k.op = "register"
    <3>1. \A p \in DOMAIN k.snap : p \in Owned /\ k.snap[p] = perm[p]
      BY <1>1, <2>2
    <3> QED BY <1>1, <2>2, <3>1, OwnedIs DEF TreeSeen
  <2> QED BY <2>1, <2>2 DEF TreeSeen
<1>9. RightsSeen(k)
  <2>1. k.op = "update" /\ "status" \notin k.crossed /\ IsThere(k.on) =>
          k.old.status = perm[k.on].status
    BY <1>1 DEF Seen, RightsSeen
  <2>2. k.op = "update" /\ k.on \in Reserved => k.row.status = k.old.status \/ Administers(k.by)
    BY <1>1, <1>3 DEF MayUpdate
  <2>3. k.op = "grant" => Administers(k.by) \/ k.set \subseteq UNION {grants[r] : r \in bound[k.by]}
    BY <1>1, <1>4 DEF MayGrant, Effective
  <2>4. k.op = "bind" =>
          Administers(k.by) \/ Active \cap UNION {grants[r] : r \in k.set} \subseteq Effective(k.by)
    BY <1>1, <1>5 DEF MayBind
  <2> QED BY <2>1, <2>2, <2>3, <2>4 DEF RightsSeen
<1>10. DueSeen(k)
  <2>1. k.op = "delete" => Losing(k) = Holders({r \in Roles : grants[r] \cap Subtree(k.on) # {}})
    BY <1>1 DEF Losing
  <2>2. k.op = "delete" => k.due = Holders({r \in Roles : grants[r] \cap Subtree(k.on) # {}})
    BY <1>1 DEF Reached
  <2>3. k.op = "grant" => k.due = Holders({k.on})
    BY <1>1 DEF Reached
  <2>4. k.op = "bind" => k.due = {k.on}
    BY <1>1 DEF Reached
  <2> QED BY <2>1, <2>2, <2>3, <2>4 DEF DueSeen
<1>11. SetRequest(w, k)
  BY <1>1
<1>12. context' \in [Users -> SUBSET Perms] /\ UNCHANGED PermRows
  BY DEF PermInv, PermType
<1> QED BY <1>6, <1>7, <1>8, <1>9, <1>10, <1>11, <1>12, CallBecomes DEF Seen

-----------------------------------------------------------------------------
(* Arrivals *)

LEMMA CreateKeeps ==
  ASSUME PermInv, NEW w \in Workers, NEW o \in Users, Create(w, o) PROVE PermInv'
<1>1. PICK p \in Perms, up \in Present \cup {None}, owner \in {None, App} :
        /\ perm[p].status = "fresh"
        /\ Begin(w, [NoRequest EXCEPT !.op = "create", !.by = o, !.on = p,
                      !.row = [parent |-> up, status |-> "ACTIVE", owner |-> owner]])
  BY DEF Create
<1>2. PICK row \in CodeRows : row = [parent |-> up, status |-> "ACTIVE", owner |-> owner] /\ row.status = "ACTIVE"
  <2>1. up \in Perms \cup {None}
    BY DEF Present
  <2>2. [parent |-> up, status |-> "ACTIVE", owner |-> owner] \in CodeRows
    BY <2>1 DEF CodeRows
  <2> QED BY <2>2
<1> DEFINE h == [NoRequest EXCEPT !.op = "create", !.by = o, !.on = p, !.row = row]
<1>3. h \in Calls /\ h.op = "create" /\ h.by = o /\ h.on = p /\ h.row = row
  BY NoRequestType DEF Calls
<1>4. RequestPasses(h) /\ SetRequest(w, Ready(h)) /\ UNCHANGED <<PermRows, context, pardoned, commits>>
  BY <1>1, <1>2 DEF Begin
<1> HIDE DEF h
<1>5. About(h)
  BY <1>1, <1>2, <1>3 DEF About, PermInv, RowsKept, Fresh
<1> QED BY <1>3, <1>4, <1>5, BecomesReady

LEMMA DeleteKeeps ==
  ASSUME PermInv, NEW w \in Workers, NEW o \in Users, Delete(w, o) PROVE PermInv'
<1>1. PICK p \in Present : Begin(w, [NoRequest EXCEPT !.op = "delete", !.by = o, !.on = p])
  BY DEF Delete
<1> DEFINE h == [NoRequest EXCEPT !.op = "delete", !.by = o, !.on = p]
<1>2. p \in Perms
  BY DEF Present
<1>3. h \in Calls /\ h.op = "delete" /\ h.by = o /\ h.on = p
  BY <1>2, NoRequestType DEF Calls
<1>4. RequestPasses(h) /\ SetRequest(w, Ready(h)) /\ UNCHANGED <<PermRows, context, pardoned, commits>>
  BY <1>1 DEF Begin
<1> HIDE DEF h
<1>5. About(h)
  BY <1>2, <1>3 DEF About
<1> QED BY <1>3, <1>4, <1>5, BecomesReady

LEMMA GrantKeeps ==
  ASSUME PermInv, NEW w \in Workers, NEW o \in Users, Grant(w, o) PROVE PermInv'
<1>1. PICK r \in Roles, S \in SUBSET Present :
        Begin(w, [NoRequest EXCEPT !.op = "grant", !.by = o, !.on = r, !.set = S])
  BY DEF Grant
<1> DEFINE h == [NoRequest EXCEPT !.op = "grant", !.by = o, !.on = r, !.set = S]
<1>2. S \in SUBSET Perms
  BY DEF Present
<1>3. h \in Calls /\ h.op = "grant" /\ h.by = o /\ h.on = r /\ h.set = S
  BY <1>2, NoRequestType DEF Calls
<1>4. RequestPasses(h) /\ SetRequest(w, Ready(h)) /\ UNCHANGED <<PermRows, context, pardoned, commits>>
  BY <1>1 DEF Begin
<1> HIDE DEF h
<1>5. About(h)
  BY <1>2, <1>3 DEF About
<1> QED BY <1>3, <1>4, <1>5, BecomesReady

LEMMA BindKeeps ==
  ASSUME PermInv, NEW w \in Workers, NEW o \in Users, Bind(w, o) PROVE PermInv'
<1>1. PICK u \in Users, R \in SUBSET Roles :
        Begin(w, [NoRequest EXCEPT !.op = "bind", !.by = o, !.on = u, !.set = R])
  BY DEF Bind
<1> DEFINE h == [NoRequest EXCEPT !.op = "bind", !.by = o, !.on = u, !.set = R]
<1>2. h \in Calls /\ h.op = "bind" /\ h.by = o /\ h.on = u /\ h.set = R
  BY NoRequestType DEF Calls
<1>3. RequestPasses(h) /\ SetRequest(w, Ready(h)) /\ UNCHANGED <<PermRows, context, pardoned, commits>>
  BY <1>1 DEF Begin
<1> HIDE DEF h
<1>4. About(h)
  BY <1>2 DEF About
<1> QED BY <1>2, <1>3, <1>4, BecomesReady

\* What is loaded is what is there.
LEMMA UpdateKeeps ==
  ASSUME PermInv, NEW w \in Workers, NEW o \in Users, Update(w, o) PROVE PermInv'
<1>1. PICK p \in Present, up \in Perms \cup {None}, status \in {"ACTIVE", "DISABLED"}, owner \in {None, App} :
        LoadRequest(w, [NoRequest EXCEPT !.op = "update", !.by = o, !.on = p, !.old = perm[p],
                         !.row = [parent |-> up, status |-> status, owner |-> owner]])
  BY DEF Update
<1>2. PICK row \in CodeRows : row = [parent |-> up, status |-> status, owner |-> owner] /\ row.status = status
  <2>1. [parent |-> up, status |-> status, owner |-> owner] \in CodeRows
    BY DEF CodeRows
  <2> QED BY <2>1
<1>3. p \in Perms /\ IsThere(p) /\ perm[p] \in CodeRows
  BY DEF Present, PermInv, PermType
<1> DEFINE k == [NoRequest EXCEPT !.op = "update", !.by = o, !.on = p, !.old = perm[p], !.row = row, !.pc = "check"]
<1>4. /\ k \in Calls /\ k.op = "update" /\ k.by = o /\ k.on = p /\ k.old = perm[p] /\ k.row = row
      /\ k.pc = "check" /\ k.crossed = {}
  BY <1>3, NoRequestType DEF Calls
<1>5. SetRequest(w, k) /\ UNCHANGED <<PermRows, context, pardoned, commits>>
  BY <1>1, <1>2 DEF LoadRequest, NoRequest
<1> HIDE DEF k
<1>6. Proper(k)
  BY <1>2, <1>3, <1>4 DEF Proper, About, PermInv, RowsKept
<1>7. Seen(k)
  BY <1>3, <1>4 DEF Seen, IdsSeen, TreeSeen, RightsSeen, DueSeen, IsThere, Fresh
<1>8. context' \in [Users -> SUBSET Perms] /\ UNCHANGED PermRows
  BY <1>5 DEF PermInv, PermType
<1> QED BY <1>4, <1>5, <1>6, <1>7, <1>8, CallBecomes

\* No reserved permission is among those reported: it belongs to another.
LEMMA RegisterKeeps == ASSUME PermInv, NEW w \in Workers, Register(w) PROVE PermInv'
<1>1. PICK t \in Trees :
        /\ \A p \in DOMAIN t : perm[p].status # "gone"
        /\ Conflicting(t) = {}
        /\ LoadRequest(w, [NoRequest EXCEPT !.op = "register", !.tree = t])
  BY DEF Register
<1> DEFINE k == [NoRequest EXCEPT !.op = "register", !.tree = t, !.pc = "check"]
<1>2. k \in Calls /\ k.op = "register" /\ k.tree = t /\ k.pc = "check" /\ k.crossed = {}
  BY NoRequestType DEF Calls
<1>3. SetRequest(w, k) /\ UNCHANGED <<PermRows, context, pardoned, commits>>
  BY <1>1 DEF LoadRequest, NoRequest
<1> HIDE DEF k
<1>4. DOMAIN t \cap Reserved = {}
  <2> SUFFICES ASSUME NEW p \in DOMAIN t, p \in Reserved PROVE FALSE
    OBVIOUS
  <2>1. perm[p] \in CodeRows /\ perm[p].status # "fresh" /\ perm[p].owner # App
    BY PermissionsAssumption DEF PermInv, PermType, RowsKept, Fresh
  <2>2. IsThere(p)
    BY <1>1, <2>1 DEF CodeRows, IsThere
  <2> QED BY <1>1, <2>1, <2>2 DEF Conflicting
<1>5. Proper(k)
  BY <1>2, <1>4 DEF Proper, About
<1>6. Seen(k)
  BY <1>2 DEF Seen, IdsSeen, TreeSeen, RightsSeen, DueSeen
<1>7. context' \in [Users -> SUBSET Perms] /\ UNCHANGED PermRows
  BY <1>3 DEF PermInv, PermType
<1> QED BY <1>2, <1>3, <1>5, <1>6, <1>7, CallBecomes

LEMMA CheckRequestKeeps == ASSUME PermInv, NEW w \in Workers, CheckRequest(w) PROVE PermInv'
<1>1. PICK h \in Calls : h = call[w]
  BY DEF PermInv, PermType
<1>2. h.pc = "check" /\ RequestPasses(h) /\ SetRequest(w, Ready(h))
      /\ UNCHANGED <<PermRows, context, pardoned, commits>>
  BY <1>1 DEF CheckRequest, AtStep
<1>3. About(h) /\ Seen(h)
  BY <1>1, <1>2 DEF PermInv, PermType, Proper
<1> QED BY <1>2, <1>3, BecomesReady

LEMMA GivesUpKeeps ==
  ASSUME PermInv, NEW w \in Workers, RefuseRequest(w) \/ AbortRequest(w) PROVE PermInv'
<1>1. SetRequest(w, NoRequest) /\ UNCHANGED <<PermRows, context, pardoned, commits>>
  BY DEF RefuseRequest, AbortRequest
<1>2. context' \in [Users -> SUBSET Perms] /\ UNCHANGED PermRows
  BY <1>1 DEF PermInv, PermType
<1> QED BY <1>1, <1>2, NoRequestType, CallBecomes

LEMMA RefreshingIs ==
  ASSUME NEW h, NEW due \in SUBSET Users
  PROVE  \E k \in Calls : /\ k = Refreshing(h, due) /\ k.pc \in {"idle", "refresh"}
                          /\ k.pc = "refresh" <=> due # {}
                          /\ due # {} => k.due = due
<1>1. CASE due = {}
  BY <1>1, NoRequestType DEF Refreshing
<1>2. CASE due # {}
  <2> DEFINE k == [NoRequest EXCEPT !.pc = "refresh", !.due = due]
  <2>1. k \in Calls /\ k.pc = "refresh" /\ k.due = due
    BY NoRequestType DEF Calls
  <2> QED BY <1>2, <2>1 DEF Refreshing
<1> QED BY <1>1, <1>2

LEMMA AskAffectedKeeps == ASSUME PermInv, NEW w \in Workers, AskAffected(w) PROVE PermInv'
<1>1. PICK due \in SUBSET Users : due = Holders({r \in Roles : call[w].on \in grants[r]})
  BY DEF Holders
<1>2. PICK k \in Calls : k = Refreshing(call[w], due) /\ k.pc \in {"idle", "refresh"}
  BY RefreshingIs
<1>3. SetRequest(w, k) /\ UNCHANGED <<PermRows, context, pardoned, commits>>
  BY <1>1, <1>2 DEF AskAffected
<1>4. Proper(k) /\ Seen(k)
  BY <1>2 DEF Proper, Seen, IdsSeen, TreeSeen, RightsSeen, DueSeen
<1>5. context' \in [Users -> SUBSET Perms] /\ UNCHANGED PermRows
  BY <1>3 DEF PermInv, PermType
<1> QED BY <1>3, <1>4, <1>5, CallBecomes

LEMMA RefreshKeeps == ASSUME PermInv, NEW w \in Workers, Refresh(w) PROVE PermInv'
<1>1. call[w] \in Calls
  BY DEF PermInv, PermType
<1>2. PICK u \in call[w].due :
        /\ context' = [context EXCEPT ![u] = Effective(u)]
        /\ SetRequest(w, Refreshing(call[w], call[w].due \ {u}))
        /\ UNCHANGED <<PermRows, pardoned, commits>>
  BY DEF Refresh
<1>3. call[w].due \ {u} \in SUBSET Users
  BY <1>1 DEF Calls
<1>4. PICK k \in Calls : k = Refreshing(call[w], call[w].due \ {u}) /\ k.pc \in {"idle", "refresh"}
  BY <1>3, RefreshingIs
<1>5. Proper(k) /\ Seen(k)
  BY <1>4 DEF Proper, Seen, IdsSeen, TreeSeen, RightsSeen, DueSeen
<1>6. Effective(u) \in SUBSET Perms
  BY DEF Effective, Active
<1>7. context' \in [Users -> SUBSET Perms]
  BY <1>2, <1>6 DEF PermInv, PermType
<1> QED BY <1>2, <1>4, <1>5, <1>7, CallBecomes


-----------------------------------------------------------------------------
(* Commits *)

\* No row comes back, and ids stay used.
RowsGrow == Present' \subseteq Present \cup Fresh /\ Fresh' \subseteq Fresh

LEMMA ChangedIs ==
  /\ Changed \subseteq Kinds
  /\ "move" \notin Changed => \A p \in Present : p \in Present' => perm'[p].parent = perm[p].parent
  /\ "status" \notin Changed => \A p \in Present : perm'[p].status = perm[p].status
  /\ "grants" \notin Changed => grants' = grants
  /\ "bind" \notin Changed => bound' = bound
<1>1. \A p \in Present' : IsThere(p)'
  BY DEF Present
<1>2. Changed \subseteq Kinds
  BY DEF Changed, Kinds
<1>3. "move" \notin Changed => \A p \in Present : p \in Present' => perm'[p].parent = perm[p].parent
  BY <1>1 DEF Changed
<1>4. "status" \notin Changed => \A p \in Present : perm'[p].status = perm[p].status
  BY DEF Changed
<1>5. "grants" \notin Changed => grants' = grants
  BY DEF Changed
<1>6. "bind" \notin Changed => bound' = bound
  BY DEF Changed
<1> QED BY <1>2, <1>3, <1>4, <1>5, <1>6

\* What an uncrossed request knows is still so after the commit of another.
LEMMA CrossingKeeps ==
  ASSUME PermType, RowsKept, RowsGrow, NEW kinds, kinds = Changed,
         NEW h \in Calls, Proper(h), Seen(h),
         NEW k \in Calls, k = [h EXCEPT !.crossed = @ \cup (kinds \cap CrossedBy(h))]
  PROVE  Proper(k) /\ Seen(k)'
<1>1. /\ k.pc = h.pc /\ k.op = h.op /\ k.by = h.by /\ k.on = h.on /\ k.old = h.old /\ k.row = h.row
      /\ k.set = h.set /\ k.seen = h.seen /\ k.tree = h.tree /\ k.snap = h.snap /\ k.due = h.due
      /\ k.crossed = h.crossed \cup (kinds \cap CrossedBy(h))
  BY DEF Calls
<1>2. Proper(k)
  BY <1>1 DEF Proper, About
<1>3. ASSUME "move" \notin kinds
      PROVE  /\ \A p \in Present : p \in Present' => perm'[p].parent = perm[p].parent
             /\ \A p \in Perms : Subtree(p)' \subseteq Subtree(p) \cup Fresh
  <2>1. \A p \in Present : p \in Present' => perm'[p].parent = perm[p].parent
    BY <1>3, ChangedIs
  <2> QED BY <2>1, SubtreeGrows DEF RowsGrow
<1>4. ASSUME "bind" \notin kinds
      PROVE  /\ bound' = bound /\ (\A u : Administers(u)' <=> Administers(u))
             /\ \A R : Holders(R)' = Holders(R)
  <2>1. bound' = bound
    BY <1>4, ChangedIs
  <2> QED BY <2>1 DEF Administers, Holders
<1>5. ASSUME "status" \notin kinds PROVE \A p \in Present : perm'[p].status = perm[p].status
  BY <1>5, ChangedIs
<1>6. "grants" \notin kinds => grants' = grants
  BY ChangedIs
<1>7. \A p \in Perms : IsThere(p)' /\ p \notin Fresh => IsThere(p)
  BY DEF RowsGrow, Present
<1>8. IdsSeen(k)'
  <2>1. MovesPerm(k) <=> MovesPerm(h)
    BY <1>1 DEF MovesPerm
  <2>2. \A p : p \notin Fresh => p \notin Fresh'
    BY DEF RowsGrow
  <2>3. k.pc \in {"check", "write"} /\ k.op = "update" => k.on \notin Fresh'
    BY <1>1, <2>2 DEF Seen, IdsSeen
  <2>4. k.pc = "write" /\ k.op = "update" /\ MovesPerm(k) => k.row.parent \notin Fresh'
    BY <1>1, <2>1, <2>2 DEF Seen, IdsSeen
  <2>5. k.pc = "write" /\ k.op = "register" => DOMAIN k.snap \cap Fresh' = {}
    BY <1>1, <2>2 DEF Seen, IdsSeen
  <2> QED BY <2>3, <2>4, <2>5 DEF IdsSeen, MovesPerm
<1>9. TreeSeen(k)'
  <2> SUFFICES ASSUME "move" \notin k.crossed PROVE TreeSeen(k)'
    BY DEF TreeSeen
  <2>1. CASE h.op = "update"
    <3>1. "move" \notin kinds /\ "move" \notin h.crossed
      BY <1>1, <2>1 DEF CrossedBy
    <3> SUFFICES ASSUME h.pc \in {"check", "write"}, IsThere(h.on)'
                 PROVE  /\ h.old.parent = perm'[h.on].parent
                        /\ h.pc = "write" /\ MovesPerm(h) /\ h.row.parent # None =>
                             h.row.parent \notin Subtree(h.on)'
      BY <1>1, <2>1 DEF TreeSeen, MovesPerm
    <3>2. h.on \in Perms /\ h.on \notin Fresh
      BY <2>1 DEF Proper, About, Seen, IdsSeen
    <3>3. IsThere(h.on) /\ h.on \in Present /\ h.on \in Present'
      BY <1>7, <3>2 DEF Present
    <3>4. /\ h.old.parent = perm[h.on].parent
          /\ h.pc = "write" /\ MovesPerm(h) /\ h.row.parent # None =>
               h.row.parent \notin Subtree(h.on) /\ h.row.parent \notin Fresh
      BY <2>1, <3>1, <3>3 DEF Seen, TreeSeen, IdsSeen
    <3>5. perm'[h.on].parent = perm[h.on].parent
      BY <1>3, <3>1, <3>3
    <3>6. Subtree(h.on)' \subseteq Subtree(h.on) \cup Fresh
      BY <1>3, <3>1, <3>2
    <3> QED BY <3>4, <3>5, <3>6
  <2>2. CASE h.op = "register"
    <3>1. "move" \notin kinds /\ "move" \notin h.crossed
      BY <1>1, <2>2 DEF CrossedBy
    <3> SUFFICES ASSUME h.pc = "write", NEW p \in DOMAIN h.snap, IsThere(p)'
                 PROVE  h.snap[p].parent = perm'[p].parent
      BY <1>1, <2>2 DEF TreeSeen
    <3>2. p \in Perms /\ p \notin Fresh
      BY <2>2 DEF Calls, Snaps, Seen, IdsSeen
    <3>3. IsThere(p) /\ p \in Present /\ p \in Present'
      BY <1>7, <3>2 DEF Present
    <3>4. h.snap[p].parent = perm[p].parent
      BY <2>2, <3>1, <3>3 DEF Seen, TreeSeen
    <3> QED BY <1>3, <3>1, <3>3, <3>4
  <2> QED BY <1>1, <2>1, <2>2 DEF TreeSeen
<1>10. RightsSeen(k)'
  <2>1. h.pc \in {"check", "write"} /\ h.op = "update" /\ "status" \notin k.crossed /\ IsThere(h.on)' =>
          h.old.status = perm'[h.on].status
    <3> SUFFICES ASSUME h.pc \in {"check", "write"}, h.op = "update", "status" \notin k.crossed, IsThere(h.on)'
                 PROVE  h.old.status = perm'[h.on].status
      OBVIOUS
    <3>1. "status" \notin kinds /\ "status" \notin h.crossed
      BY <1>1 DEF CrossedBy
    <3>2. h.on \in Perms /\ h.on \notin Fresh
      BY DEF Proper, About, Seen, IdsSeen
    <3>3. IsThere(h.on) /\ h.on \in Present
      BY <1>7, <3>2 DEF Present
    <3> QED BY <1>5, <3>1, <3>3 DEF Seen, RightsSeen
  <2>2. k.pc = "write" /\ k.op = "update" /\ "bind" \notin k.crossed /\ k.on \in Reserved =>
          k.row.status = k.old.status \/ Administers(k.by)'
    <3> SUFFICES ASSUME k.pc = "write", k.op = "update", "bind" \notin k.crossed, k.on \in Reserved
                 PROVE  k.row.status = k.old.status \/ Administers(k.by)'
      OBVIOUS
    <3>1. "bind" \notin kinds /\ "bind" \notin h.crossed
      BY <1>1 DEF CrossedBy
    <3>2. h.row.status = h.old.status \/ Administers(h.by)
      BY <1>1, <3>1 DEF Seen, RightsSeen
    <3> QED BY <1>1, <1>4, <3>1, <3>2
  <2>3. k.pc = "write" /\ k.op = "grant" /\ k.crossed \subseteq {"move"} =>
          Administers(k.by)' \/ k.set \subseteq UNION {grants'[r] : r \in bound'[k.by]}
    <3> SUFFICES ASSUME k.pc = "write", k.op = "grant", k.crossed \subseteq {"move"}
                 PROVE  Administers(k.by)' \/ k.set \subseteq UNION {grants'[r] : r \in bound'[k.by]}
      OBVIOUS
    <3>1. h.crossed \subseteq {"move"} /\ "grants" \notin kinds /\ "bind" \notin kinds
      BY <1>1 DEF CrossedBy
    <3>2. Administers(h.by) \/ h.set \subseteq UNION {grants[r] : r \in bound[h.by]}
      BY <1>1, <3>1 DEF Seen, RightsSeen
    <3> QED BY <1>1, <1>4, <1>6, <3>1, <3>2
  <2>4. k.pc = "write" /\ k.op = "bind" /\ k.crossed \subseteq {"move"} =>
          \/ Administers(k.by)'
          \/ Active' \cap UNION {grants'[r] : r \in k.set} \subseteq Effective(k.by)'
    <3> SUFFICES ASSUME k.pc = "write", k.op = "bind", k.crossed \subseteq {"move"}
                 PROVE  \/ Administers(k.by)'
                        \/ Active' \cap UNION {grants'[r] : r \in k.set} \subseteq Effective(k.by)'
      OBVIOUS
    <3>1. /\ h.crossed \subseteq {"move"} /\ "status" \notin kinds
          /\ "grants" \notin kinds /\ "bind" \notin kinds
      BY <1>1 DEF CrossedBy
    <3>2. \/ Administers(h.by)
          \/ Active \cap UNION {grants[r] : r \in h.set} \subseteq Effective(h.by)
      BY <1>1, <3>1 DEF Seen, RightsSeen
    <3>3. h.set \subseteq Roles
      BY <1>1 DEF Proper, About
    <3>4. grants' = grants /\ bound' = bound
      BY <1>4, <1>6, <3>1
    <3>5. \A p \in Present : p \in Active' <=> p \in Active
      BY <1>5, <3>1 DEF Active, Present
    <3>6. \A r \in Roles : grants[r] \subseteq Present
      BY DEF RowsKept
    <3>7. Active' \cap UNION {grants'[r] : r \in k.set} \subseteq Active \cap UNION {grants[r] : r \in h.set}
      BY <1>1, <3>3, <3>4, <3>5, <3>6
    <3>8. Effective(h.by) \subseteq Effective(h.by)'
      <4>1. Active \subseteq Present
        BY DEF Active, Present, IsThere
      <4> QED BY <3>4, <3>5, <4>1 DEF Effective
    <3> QED BY <1>1, <1>4, <3>1, <3>2, <3>7, <3>8
  <2> QED BY <1>1, <2>1, <2>2, <2>3, <2>4 DEF RightsSeen
<1>11. DueSeen(k)'
  <2>1. k.pc = "write" /\ k.op = "grant" /\ "bind" \notin k.crossed => Holders({k.on})' \subseteq k.due
    <3> SUFFICES ASSUME k.pc = "write", k.op = "grant", "bind" \notin k.crossed
                 PROVE  Holders({k.on})' \subseteq k.due
      OBVIOUS
    <3>1. "bind" \notin kinds /\ "bind" \notin h.crossed
      BY <1>1 DEF CrossedBy
    <3>2. bound' = bound
      BY <1>4, <3>1
    <3>3. Holders({k.on})' = Holders({k.on})
      BY <3>2 DEF Holders
    <3> QED BY <1>1, <3>1, <3>3 DEF Seen, DueSeen
  <2>2. k.pc = "write" /\ k.op = "delete" /\ k.crossed = {} => Losing(k)' \subseteq k.due
    <3> SUFFICES ASSUME k.pc = "write", k.op = "delete", k.crossed = {} PROVE Losing(k)' \subseteq k.due
      OBVIOUS
    <3>1. h.crossed = {} /\ "move" \notin kinds /\ "grants" \notin kinds /\ "bind" \notin kinds
      BY <1>1 DEF CrossedBy
    <3>2. bound' = bound /\ grants' = grants
      BY <1>4, <1>6, <3>1
    <3>3. Subtree(k.on)' \subseteq Subtree(k.on) \cup Fresh
      BY <1>1, <1>3, <3>1 DEF Proper, About
    <3>4. \A r \in Roles : grants[r] \cap Fresh = {}
      BY DEF RowsKept, Present, IsThere, Fresh
    <3>5. {r \in Roles : grants'[r] \cap (k.seen \cup Subtree(k.on)') # {}} \subseteq
          {r \in Roles : grants[r] \cap (k.seen \cup Subtree(k.on)) # {}}
      BY <3>2, <3>3, <3>4
    <3>6. Losing(k)' \subseteq Losing(k)
      BY <3>2, <3>5 DEF Losing, Holders
    <3>7. Losing(h) \subseteq h.due
      BY <1>1, <3>1 DEF Seen, DueSeen
    <3>8. Losing(h) = Losing(k)
      BY <1>1 DEF Losing
    <3> QED BY <1>1, <3>6, <3>7, <3>8
  <2>3. k.pc = "write" /\ k.op = "bind" => k.on \in k.due
    BY <1>1 DEF Seen, DueSeen
  <2> QED BY <2>1, <2>2, <2>3 DEF DueSeen
<1> QED BY <1>2, <1>8, <1>9, <1>10, <1>11 DEF Seen

LEMMA CommitCalls ==
  ASSUME PermInv, NEW w \in Workers, RowsGrow, RowsKept',
         NEW k \in Calls, Proper(k), k.pc \notin {"check", "write"}, CommitRequest(w, k),
         perm' \in [Perms -> CodeRows], grants' \in [Roles -> SUBSET Perms],
         bound' \in [Users -> SUBSET Roles]
  PROVE  PermInv'
<1> PICK kinds : kinds = Changed
  OBVIOUS
<1>1. call' = [v \in Workers |->
                IF v = w THEN k
                ELSE [call[v] EXCEPT !.crossed = @ \cup (kinds \cap CrossedBy(call[v]))]]
      /\ context' = context
  BY DEF CommitRequest
<1>2. ASSUME NEW v \in Workers PROVE call'[v] \in Calls /\ Proper(call'[v]) /\ Seen(call[v])'
  <2>1. CASE v = w
    <3>1. call'[v] = k
      BY <1>1, <2>1
    <3>2. Seen(k)'
      BY DEF Seen, IdsSeen, TreeSeen, RightsSeen, DueSeen
    <3> QED BY <3>1, <3>2
  <2>2. CASE v # w
    <3>1. PICK h \in Calls : h = call[v] /\ Proper(h) /\ Seen(h)
      BY DEF PermInv, PermType
    <3> DEFINE g == [h EXCEPT !.crossed = @ \cup (kinds \cap CrossedBy(h))]
    <3>2. call'[v] = g
      BY <1>1, <2>2, <3>1
    <3>3. g \in Calls
      <4>1. kinds \subseteq Kinds
        BY ChangedIs
      <4>2. h.crossed \cup (kinds \cap CrossedBy(h)) \in SUBSET Kinds
        BY <4>1 DEF Calls
      <4> QED BY <4>2 DEF Calls
    <3> HIDE DEF g
    <3>4. PICK n \in Calls : n = g
      BY <3>3
    <3>5. n = [h EXCEPT !.crossed = @ \cup (kinds \cap CrossedBy(h))]
      BY <3>4 DEF g
    <3>6. Proper(n) /\ Seen(n)'
      BY <3>1, <3>5, CrossingKeeps DEF PermInv
    <3>7. call'[v] = n
      BY <3>2, <3>4
    <3> QED BY <3>6, <3>7
  <2> QED BY <2>1, <2>2
<1>3. call' \in [Workers -> Calls]
  BY <1>1, <1>2
<1>4. PermType'
  <2>1. \A v \in Workers : Proper(call'[v])
    BY <1>2
  <2> QED BY <1>1, <1>3, <2>1 DEF PermInv, PermType
<1> QED BY <1>2, <1>4 DEF PermInv


LEMMA CallIs ==
  ASSUME PermInv, NEW w \in Workers
  PROVE  \E h \in Calls : /\ h = call[w] /\ Proper(h) /\ Seen(h)
                          /\ h.row \in CodeRows /\ h.due \in SUBSET Users
BY DEF PermInv, PermType, Calls

LEMMA WriteCreateIs ==
  ASSUME PermInv, NEW w \in Workers, WriteCreate(w)
  PROVE  RowsGrow /\ perm' \in [Perms -> CodeRows] /\ RowsKept'
<1>1. PICK h \in Calls : h = call[w] /\ Proper(h) /\ h.row \in CodeRows
  BY CallIs
<1>2. /\ h.pc = "write" /\ h.op = "create" /\ h.on \notin {p \in Perms : perm[p].status # "fresh"}
      /\ h.row.parent \in Present \cup {None}
      /\ perm' = [perm EXCEPT ![h.on] = h.row] /\ grants' = grants /\ bound' = bound
  BY <1>1 DEF WriteCreate, AtWrite, AtStep, CreateFails
<1>3. h.on \in Perms \ Reserved /\ h.row.status \in {"ACTIVE", "DISABLED"} /\ h.on \in Fresh
  BY <1>1, <1>2 DEF Proper, About, Fresh
<1>4. /\ perm' \in [Perms -> CodeRows] /\ perm'[h.on] = h.row
      /\ \A p \in Perms : p # h.on => perm'[p] = perm[p]
  BY <1>1, <1>2, <1>3 DEF PermInv, PermType
<1>5. Present' = Present \cup {h.on} /\ Fresh' = Fresh \ {h.on}
  BY <1>3, <1>4 DEF Present, IsThere, Fresh
<1>6. RowsKept'
  <2>1. \A r \in Roles : grants'[r] \subseteq Present'
    BY <1>2, <1>5 DEF PermInv, RowsKept
  <2>2. ASSUME NEW p \in Present' PROVE perm'[p].parent \notin Fresh'
    <3>1. None \notin Fresh /\ Present \cap Fresh = {} /\ Present \subseteq Perms
      BY PermissionsAssumption DEF Present, IsThere, Fresh
    <3>2. CASE p = h.on
      BY <1>2, <1>4, <1>5, <3>1, <3>2
    <3>3. CASE p # h.on
      BY <1>4, <1>5, <3>1, <3>3 DEF PermInv, RowsKept
    <3> QED BY <3>2, <3>3
  <2>3. \A p \in Reserved : p # h.on /\ p \in Perms
    BY <1>3, PermissionsAssumption
  <2> QED BY <1>4, <1>5, <2>1, <2>2, <2>3 DEF PermInv, RowsKept
<1> QED BY <1>3, <1>4, <1>5, <1>6 DEF RowsGrow

LEMMA WriteUpdateIs ==
  ASSUME PermInv, NEW w \in Workers, WriteUpdate(w)
  PROVE  Present' = Present /\ Fresh' = Fresh /\ perm' \in [Perms -> CodeRows] /\ RowsKept'
<1>1. PICK h \in Calls : h = call[w] /\ Proper(h) /\ h.row \in CodeRows
  BY CallIs
<1>2. /\ h.pc = "write" /\ h.op = "update"
      /\ IsThere(h.on) => h.row.parent \in Present \cup {None}
      /\ perm' = IF IsThere(h.on) THEN [perm EXCEPT ![h.on] = h.row] ELSE perm
      /\ grants' = grants /\ bound' = bound
  BY <1>1 DEF WriteUpdate, AtWrite, AtStep
<1>3. h.on \in Perms /\ h.row.status \in {"ACTIVE", "DISABLED"}
  BY <1>1, <1>2 DEF Proper, About
<1>4. /\ perm' \in [Perms -> CodeRows]
      /\ perm'[h.on] = IF IsThere(h.on) THEN h.row ELSE perm[h.on]
      /\ \A p \in Perms : p # h.on => perm'[p] = perm[p]
  BY <1>1, <1>2, <1>3 DEF PermInv, PermType
<1>5. Present' = Present /\ Fresh' = Fresh
  BY <1>3, <1>4 DEF Present, IsThere, Fresh
<1>6. RowsKept'
  <2>1. \A r \in Roles : grants'[r] \subseteq Present'
    BY <1>2, <1>5 DEF PermInv, RowsKept
  <2>2. ASSUME NEW p \in Present' PROVE perm'[p].parent \notin Fresh'
    <3>1. None \notin Fresh /\ Present \cap Fresh = {} /\ p \in Perms /\ p \in Present /\ IsThere(p)
      BY <1>5, PermissionsAssumption DEF Present, IsThere, Fresh
    <3>2. perm[p].parent \notin Fresh
      BY <3>1 DEF PermInv, RowsKept
    <3>3. CASE p = h.on
      BY <1>2, <1>4, <1>5, <3>1, <3>3
    <3>4. CASE p # h.on
      BY <1>4, <1>5, <3>1, <3>2, <3>4
    <3> QED BY <3>3, <3>4
  <2>3. ASSUME NEW p \in Reserved PROVE p \notin Fresh' /\ perm'[p].owner # App
    <3>1. p \in Perms /\ p \notin Fresh /\ perm[p].owner # App
      BY PermissionsAssumption DEF PermInv, RowsKept
    <3>2. CASE p = h.on
      <4>1. h.row.owner = h.old.owner /\ h.old.owner # App
        BY <1>1, <1>2, <3>2 DEF Proper, About
      <4> QED BY <1>4, <1>5, <3>1, <3>2, <4>1
    <3>3. CASE p # h.on
      BY <1>4, <1>5, <3>1, <3>3
    <3> QED BY <3>2, <3>3
  <2> QED BY <2>1, <2>2, <2>3 DEF RowsKept
<1> QED BY <1>4, <1>5, <1>6

LEMMA WriteDeleteIs ==
  ASSUME PermInv, NEW w \in Workers, WriteDelete(w)
  PROVE  /\ RowsGrow /\ perm' \in [Perms -> CodeRows]
         /\ grants' \in [Roles -> SUBSET Perms] /\ RowsKept'
<1>1. PICK h \in Calls : h = call[w] /\ Proper(h)
  BY CallIs
<1> DEFINE below == Subtree(h.on)
<1>2. /\ perm' = [p \in Perms |-> IF p \in below THEN GonePerm ELSE perm[p]]
      /\ grants' = [r \in Roles |-> grants[r] \ (below \cup h.seen)] /\ bound' = bound
  BY <1>1 DEF WriteDelete
<1> HIDE DEF below
<1>3. /\ GonePerm \in CodeRows /\ GonePerm.status = "gone"
      /\ GonePerm.owner = None /\ GonePerm.parent = None
  BY DEF GonePerm, NoPerm, CodeRows
<1>4. perm' \in [Perms -> CodeRows] /\ grants' \in [Roles -> SUBSET Perms]
  BY <1>2, <1>3 DEF PermInv, PermType
<1>5. Present' = Present \ below /\ Fresh' = Fresh \ below
  BY <1>2, <1>3 DEF Present, IsThere, Fresh
<1>6. \A r \in Roles : grants'[r] \subseteq Present'
  BY <1>2, <1>5 DEF PermInv, RowsKept
<1>7. \A p \in Present' : perm'[p].parent \notin Fresh'
  <2> SUFFICES ASSUME NEW p \in Present' PROVE perm'[p].parent \notin Fresh'
    OBVIOUS
  <2>1. p \in Present /\ p \in Perms /\ perm'[p] = perm[p]
    BY <1>2, <1>5 DEF Present
  <2> QED BY <1>5, <2>1 DEF PermInv, RowsKept
<1>8. \A p \in Reserved : p \notin Fresh' /\ perm'[p].owner # App
  BY <1>2, <1>3, <1>5, PermissionsAssumption DEF PermInv, RowsKept
<1> QED BY <1>4, <1>5, <1>6, <1>7, <1>8 DEF RowsKept, RowsGrow

LEMMA WriteGrantIs ==
  ASSUME PermInv, NEW w \in Workers, WriteGrant(w)
  PROVE  RowsGrow /\ grants' \in [Roles -> SUBSET Perms] /\ RowsKept'
<1>1. PICK h \in Calls : h = call[w] /\ Proper(h)
  BY CallIs
<1>2. h.pc = "write" /\ h.op = "grant" /\ perm' = perm /\ bound' = bound
  BY <1>1 DEF WriteGrant, AtWrite, AtStep
<1>3. PICK seen : /\ \A p \in h.set : IsThere(p)
                  /\ grants' = [grants EXCEPT ![h.on] = (@ \ seen) \cup h.set]
  BY <1>1 DEF WriteGrant
<1>4. h.on \in Roles /\ h.set \subseteq Perms
  BY <1>1, <1>2 DEF Proper, About
<1>5. /\ grants' \in [Roles -> SUBSET Perms]
      /\ \A r \in Roles : grants'[r] = IF r = h.on THEN (grants[r] \ seen) \cup h.set ELSE grants[r]
  BY <1>3, <1>4 DEF PermInv, PermType
<1>6. Present' = Present /\ Fresh' = Fresh
  BY <1>2 DEF Present, IsThere, Fresh
<1>7. RowsKept'
  <2>1. h.set \subseteq Present
    BY <1>3, <1>4 DEF Present
  <2>2. \A r \in Roles : grants'[r] \subseteq Present
    BY <1>5, <2>1 DEF PermInv, RowsKept
  <2> QED BY <1>2, <1>6, <2>2 DEF PermInv, RowsKept
<1> QED BY <1>5, <1>6, <1>7 DEF RowsGrow

LEMMA WriteBindIs ==
  ASSUME PermInv, NEW w \in Workers, WriteBind(w)
  PROVE  RowsGrow /\ bound' \in [Users -> SUBSET Roles] /\ RowsKept'
<1>1. PICK h \in Calls : h = call[w] /\ Proper(h)
  BY CallIs
<1>2. /\ h.pc = "write" /\ h.op = "bind" /\ perm' = perm /\ grants' = grants
      /\ bound' = [bound EXCEPT ![h.on] = h.set]
  BY <1>1 DEF WriteBind, AtWrite, AtStep
<1>3. h.set \subseteq Roles
  BY <1>1, <1>2 DEF Proper, About
<1>4. bound' \in [Users -> SUBSET Roles]
  BY <1>2, <1>3 DEF PermInv, PermType
<1>5. Present' = Present /\ Fresh' = Fresh
  BY <1>2 DEF Present, IsThere, Fresh
<1> QED BY <1>2, <1>4, <1>5 DEF PermInv, RowsKept, RowsGrow

\* A registration makes no row disappear, takes no other's, and makes new ones
\* of its codes alone.
LEMMA SyncedIs ==
  ASSUME PermInv, NEW h \in Calls, Proper(h), h.pc = "write", h.op = "register", ~SyncFails(h),
         NEW p \in Perms
  PROVE  /\ Synced(h, p) \in CodeRows
         /\ p \notin DOMAIN h.tree =>
              /\ Synced(h, p).parent = perm[p].parent /\ Synced(h, p).owner = perm[p].owner
              /\ Synced(h, p).status = "ACTIVE" => perm[p].status = "ACTIVE"
         /\ Synced(h, p).parent \in {perm[p].parent} \cup DOMAIN h.tree \cup {None}
         /\ p \in Fresh \/ (Synced(h, p).status \in {"ACTIVE", "DISABLED"} <=> IsThere(p))
         /\ p \in Fresh \/ Synced(h, p).status # "fresh"
         /\ p \in DOMAIN h.tree \ DOMAIN h.snap => p \in Fresh /\ Synced(h, p).status = "ACTIVE"
         /\ p \notin DOMAIN h.tree /\ p \in Fresh => Synced(h, p) = perm[p] \/ p \in DOMAIN h.snap
<1>1. h.tree \in Trees
  BY DEF Proper, About
<1>2. p \in DOMAIN h.tree => h.tree[p] \in DOMAIN h.tree \cup {None} /\ h.tree[p] \in Perms \cup {None}
  BY <1>1, TreesAssumption DEF Forest
<1>3. perm[p] \in CodeRows
  BY DEF PermInv, PermType
<1>4. p \in DOMAIN h.tree \ DOMAIN h.snap => p \in Fresh
  BY DEF SyncFails, Fresh
<1> DEFINE new == h.tree[p]
           both == p \in DOMAIN h.tree \cap DOMAIN h.snap /\ IsThere(p)
           off == p \in DOMAIN h.snap \ DOMAIN h.tree /\ IsThere(p)
<1>5. CASE p \in DOMAIN h.tree \ DOMAIN h.snap
  <2>1. Synced(h, p) = [parent |-> new, status |-> "ACTIVE", owner |-> App]
    BY <1>5 DEF Synced
  <2> QED BY <1>2, <1>4, <1>5, <2>1 DEF CodeRows
<1>6. CASE both
  <2>1. PICK status, up : /\ Synced(h, p) = [perm[p] EXCEPT !.status = status, !.parent = up]
                          /\ status \in {"ACTIVE", perm[p].status}
                          /\ up \in {perm[p].parent, new}
    BY <1>6 DEF Synced
  <2>2. /\ Synced(h, p).status = status /\ Synced(h, p).parent = up /\ Synced(h, p).owner = perm[p].owner
        /\ Synced(h, p) \in CodeRows
    BY <1>2, <1>3, <1>6, <2>1 DEF CodeRows
  <2> QED BY <1>2, <1>4, <1>6, <2>1, <2>2 DEF IsThere
<1>7. CASE off
  <2>1. Synced(h, p) = [perm[p] EXCEPT !.status = "DISABLED"]
    BY <1>7 DEF Synced
  <2> QED BY <1>3, <1>4, <1>7, <2>1 DEF CodeRows
<1>8. CASE p \notin DOMAIN h.tree \ DOMAIN h.snap /\ ~both /\ ~off
  <2>1. Synced(h, p) = perm[p]
    BY <1>8 DEF Synced
  <2> QED BY <1>3, <1>4, <1>8, <2>1 DEF IsThere, Fresh
<1> QED BY <1>5, <1>6, <1>7, <1>8

LEMMA WriteRegisterIs ==
  ASSUME PermInv, NEW w \in Workers, WriteRegister(w)
  PROVE  RowsGrow /\ Present \subseteq Present' /\ perm' \in [Perms -> CodeRows] /\ RowsKept'
<1>1. PICK h \in Calls : h = call[w] /\ Proper(h) /\ Seen(h)
  BY CallIs
<1>2. /\ h.pc = "write" /\ h.op = "register" /\ ~SyncFails(h)
      /\ perm' = [p \in Perms |-> Synced(h, p)] /\ grants' = grants /\ bound' = bound
  BY <1>1 DEF WriteRegister, AtWrite, AtStep
<1>3. perm' \in [Perms -> CodeRows] /\ \A p \in Perms : perm'[p] = Synced(h, p)
  BY <1>1, <1>2, SyncedIs
<1>4. Present \cap Fresh = {} /\ Present \subseteq Perms /\ Fresh \subseteq Perms
  BY DEF Present, IsThere, Fresh
<1>5. /\ Present' \subseteq Present \cup Fresh /\ Present \subseteq Present' /\ Fresh' \subseteq Fresh
  <2>1. ASSUME NEW p \in Present' PROVE p \in Present \cup Fresh
    <3>1. p \in Perms /\ Synced(h, p).status \in {"ACTIVE", "DISABLED"}
      BY <1>3 DEF Present, IsThere
    <3> QED BY <1>1, <1>2, <3>1, SyncedIs DEF Present
  <2>2. ASSUME NEW p \in Present PROVE p \in Present'
    <3>1. p \in Perms /\ IsThere(p) /\ p \notin Fresh
      BY <1>4 DEF Present
    <3>2. Synced(h, p).status \in {"ACTIVE", "DISABLED"}
      BY <1>1, <1>2, <3>1, SyncedIs
    <3> QED BY <1>3, <3>1, <3>2 DEF Present, IsThere
  <2>3. ASSUME NEW p \in Fresh' PROVE p \in Fresh
    <3>1. p \in Perms /\ Synced(h, p).status = "fresh"
      BY <1>3 DEF Fresh
    <3> QED BY <1>1, <1>2, <3>1, SyncedIs
  <2> QED BY <2>1, <2>2, <2>3
<1>6. \A r \in Roles : grants'[r] \subseteq Present'
  BY <1>2, <1>5 DEF PermInv, RowsKept
<1>7. \A c \in DOMAIN h.tree : c \notin Fresh'
  <2> SUFFICES ASSUME NEW c \in DOMAIN h.tree, c \in Fresh' PROVE FALSE
    OBVIOUS
  <2>1. c \in Perms /\ c \in Fresh /\ Synced(h, c).status = "fresh"
    BY <1>3, <1>5 DEF Fresh
  <2>2. c \in DOMAIN h.snap
    BY <1>1, <1>2, <2>1, SyncedIs
  <2> QED BY <1>1, <1>2, <2>1, <2>2 DEF Seen, IdsSeen
<1>8. ASSUME NEW p \in Present' PROVE perm'[p].parent \notin Fresh'
  <2>1. p \in Perms
    BY DEF Present
  <2>2. perm'[p].parent \in {perm[p].parent} \cup DOMAIN h.tree \cup {None}
    BY <1>1, <1>2, <1>3, <2>1, SyncedIs
  <2>3. None \notin Fresh'
    BY PermissionsAssumption DEF Fresh
  <2>4. CASE p \in Present
    <3>1. perm[p].parent \notin Fresh
      BY <2>4 DEF PermInv, RowsKept
    <3> QED BY <1>5, <1>7, <2>2, <2>3, <3>1
  <2>5. CASE p \notin Present
    <3>1. p \in Fresh /\ ~IsThere(p)
      BY <1>5, <2>1, <2>5 DEF Present
    <3>2. p \notin DOMAIN h.snap
      BY <1>1, <1>2, <3>1 DEF Seen, IdsSeen
    <3>3. p \in DOMAIN h.tree
      <4> SUFFICES ASSUME p \notin DOMAIN h.tree PROVE FALSE
        OBVIOUS
      <4>1. perm'[p] = perm[p]
        BY <1>1, <1>2, <1>3, <2>1, <3>1, <3>2, SyncedIs
      <4> QED BY <3>1, <4>1 DEF Present, IsThere
    <3>4. perm'[p] = [parent |-> h.tree[p], status |-> "ACTIVE", owner |-> App]
      BY <1>3, <2>1, <3>2, <3>3 DEF Synced
    <3>5. h.tree[p] \in DOMAIN h.tree \cup {None}
      BY <1>1, <1>2, <3>3, TreesAssumption DEF Proper, About, Forest
    <3> QED BY <1>7, <2>3, <3>4, <3>5
  <2> QED BY <2>4, <2>5
<1>9. ASSUME NEW p \in Reserved PROVE p \notin Fresh' /\ perm'[p].owner # App
  <2>1. p \in Perms /\ p \notin DOMAIN h.tree
    BY <1>1, <1>2, PermissionsAssumption DEF Proper, About
  <2>2. p \notin Fresh /\ perm[p].owner # App
    BY DEF PermInv, RowsKept
  <2> QED BY <1>1, <1>2, <1>3, <1>5, <2>1, <2>2, SyncedIs
<1> QED BY <1>3, <1>5, <1>6, <1>8, <1>9 DEF RowsKept, RowsGrow


-----------------------------------------------------------------------------
(* Every step keeps the rows, and what uncrossed requests know *)

LEMMA PermInitHolds == ASSUME PermInit PROVE PermInv
<1>1. perm = Start.perm /\ grants = Start.grants /\ bound = Start.holds
  BY DEF PermInit
<1>2. Present = {p \in Perms : Start.perm[p].status \in {"ACTIVE", "DISABLED"}}
  BY <1>1 DEF Present, IsThere
<1>3. /\ perm \in [Perms -> CodeRows] /\ bound \in [Users -> SUBSET Roles]
      /\ grants \in [Roles -> SUBSET Present]
      /\ \A p \in Reserved : p \in Present /\ perm[p].owner # App
  BY <1>1, <1>2, StartAssumption
<1>4. RowsKept
  <2>1. Present \cap Fresh = {} /\ None \notin Fresh
    BY PermissionsAssumption DEF Present, IsThere, Fresh
  <2>2. \A p \in Present : perm[p].parent \in Present \cup {None}
    <3> DEFINE up == [p \in Present |-> Start.perm[p].parent]
    <3>1. Forest(up)
      BY <1>2, StartAssumption
    <3>2. DOMAIN up = Present /\ \A p \in Present : up[p] = perm[p].parent
      BY <1>1
    <3> HIDE DEF up
    <3> QED BY <3>1, <3>2 DEF Forest
  <2> QED BY <1>3, <2>1, <2>2 DEF RowsKept
<1>5. grants \in [Roles -> SUBSET Perms]
  BY <1>3 DEF Present
<1>6. context \in [Users -> SUBSET Perms]
  BY DEF PermInit, Effective, Active
<1>7. call \in [Workers -> Calls] /\ \A w \in Workers : Proper(call[w]) /\ Seen(call[w])
  BY NoRequestType DEF PermInit
<1> QED BY <1>3, <1>4, <1>5, <1>6, <1>7 DEF PermInv, PermType

LEMMA CommitsKeep ==
  ASSUME PermInv, NEW w \in Workers,
         \/ WriteCreate(w) \/ WriteUpdate(w) \/ WriteDelete(w)
         \/ WriteGrant(w) \/ WriteBind(w) \/ WriteRegister(w)
  PROVE  PermInv'
<1>1. PICK h \in Calls : h = call[w] /\ Proper(h) /\ h.due \in SUBSET Users
  BY CallIs
<1>2. PICK kRefresh \in Calls : kRefresh = Refreshing(h, h.due) /\ kRefresh.pc \in {"idle", "refresh"}
  BY <1>1, RefreshingIs
<1>3. Proper(kRefresh)
  BY <1>2 DEF Proper
<1>4. /\ perm \in [Perms -> CodeRows] /\ grants \in [Roles -> SUBSET Perms]
      /\ bound \in [Users -> SUBSET Roles]
  BY DEF PermInv, PermType
<1>5. CASE WriteCreate(w)
  <2>1. CommitRequest(w, NoRequest) /\ grants' = grants /\ bound' = bound
    BY <1>5 DEF WriteCreate
  <2> QED BY <1>4, <1>5, <2>1, NoRequestType, WriteCreateIs, CommitCalls
<1>6. CASE WriteUpdate(w)
  <2> DEFINE k == [NoRequest EXCEPT !.pc = "affected", !.on = h.on]
  <2>1. CommitRequest(w, k) /\ grants' = grants /\ bound' = bound
    BY <1>1, <1>6 DEF WriteUpdate
  <2>2. h.pc = "write" /\ h.op = "update"
    BY <1>1, <1>6 DEF WriteUpdate, AtWrite, AtStep
  <2>3. h.on \in Perms
    BY <1>1, <2>2 DEF Proper, About
  <2>4. k \in Calls /\ k.pc = "affected" /\ k.on = h.on
    BY <2>3, NoRequestType DEF Calls
  <2>5. RowsGrow /\ perm' \in [Perms -> CodeRows] /\ RowsKept'
    BY <1>6, WriteUpdateIs DEF RowsGrow
  <2> HIDE DEF k
  <2>6. Proper(k)
    BY <2>3, <2>4 DEF Proper
  <2> QED BY <1>4, <2>1, <2>4, <2>5, <2>6, CommitCalls
<1>7. CASE WriteDelete(w)
  <2>1. CommitRequest(w, kRefresh) /\ bound' = bound
    BY <1>1, <1>2, <1>7 DEF WriteDelete
  <2> QED BY <1>2, <1>3, <1>4, <1>7, <2>1, WriteDeleteIs, CommitCalls
<1>8. CASE WriteGrant(w)
  <2>1. CommitRequest(w, kRefresh) /\ perm' = perm /\ bound' = bound
    BY <1>1, <1>2, <1>8 DEF WriteGrant
  <2> QED BY <1>2, <1>3, <1>4, <1>8, <2>1, WriteGrantIs, CommitCalls
<1>9. CASE WriteBind(w)
  <2>1. CommitRequest(w, kRefresh) /\ perm' = perm /\ grants' = grants
    BY <1>1, <1>2, <1>9 DEF WriteBind
  <2> QED BY <1>2, <1>3, <1>4, <1>9, <2>1, WriteBindIs, CommitCalls
<1>10. CASE WriteRegister(w)
  <2>1. CommitRequest(w, NoRequest) /\ grants' = grants /\ bound' = bound
    BY <1>10 DEF WriteRegister
  <2> QED BY <1>4, <1>10, <2>1, NoRequestType, WriteRegisterIs, CommitCalls
<1> QED BY <1>5, <1>6, <1>7, <1>8, <1>9, <1>10

LEMMA PermRests == ASSUME PermInv, UNCHANGED permVars PROVE PermInv'
BY DEF permVars, PermInv, PermType, RowsKept, Fresh, Seen, IdsSeen, TreeSeen, RightsSeen,
   DueSeen, Losing, MovesPerm,
   Present, IsThere, Active, Effective, Administers, Holders, Subtree

LEMMA PermStepKeeps == ASSUME PermInv, [PermNext]_permVars PROVE PermInv'
<1>1. CASE UNCHANGED permVars
  BY <1>1, PermRests
<1>2. ASSUME NEW w \in Workers, Arrive(w) PROVE PermInv'
  <2>1. CASE Register(w)
    BY <2>1, RegisterKeeps
  <2>2. ASSUME NEW o \in Users, Create(w, o) \/ Update(w, o) \/ Delete(w, o) \/ Grant(w, o) \/ Bind(w, o)
        PROVE  PermInv'
    BY <2>2, CreateKeeps, UpdateKeeps, DeleteKeeps, GrantKeeps, BindKeeps
  <2> QED BY <1>2, <2>1, <2>2 DEF Arrive
<1>3. ASSUME NEW w \in Workers, CheckRequest(w) \/ RefuseRequest(w) PROVE PermInv'
  BY <1>3, CheckRequestKeeps, GivesUpKeeps
<1>4. ASSUME NEW w \in Workers, WriteRequest(w) PROVE PermInv'
  BY <1>4, CommitsKeep, AskAffectedKeeps, GivesUpKeeps, RefreshKeeps DEF WriteRequest
<1> QED BY <1>1, <1>2, <1>3, <1>4 DEF PermNext


-----------------------------------------------------------------------------
(* The tree of the permissions *)

Tree == [p \in Present |-> perm[p].parent]
ForestInv == "move" \notin pardoned => Forest(Tree)

\* The state form of a forest, so that a step can be compared with it.
LEMMA TreeIs ==
  Forest(Tree) <=>
    /\ \A p \in Present : perm[p].parent \in Present \cup {None}
    /\ \A S \in (SUBSET Present) \ {{}} : \E p \in S : perm[p].parent \notin S
<1>1. DOMAIN Tree = Present /\ \A p \in Present : Tree[p] = perm[p].parent
  BY DEF Tree
<1> HIDE DEF Tree
<1> QED BY <1>1 DEF Forest

LEMMA TreeIsNext ==
  Forest(Tree)' <=>
    /\ \A p \in Present' : perm'[p].parent \in Present' \cup {None}
    /\ \A S \in (SUBSET (Present')) \ {{}} : \E p \in S : perm'[p].parent \notin S
<1>1. DOMAIN Tree' = Present' /\ \A p \in Present' : Tree'[p] = perm'[p].parent
  BY DEF Tree
<1> HIDE DEF Tree
<1> QED BY <1>1 DEF Forest

\* A new row hangs below one that is there, and nothing hangs below it.
LEMMA CreateKeepsForest ==
  ASSUME PermInv, Forest(Tree), NEW w \in Workers, WriteCreate(w) PROVE Forest(Tree)'
<1>1. PICK h \in Calls : h = call[w] /\ Proper(h) /\ h.row \in CodeRows
  BY CallIs
<1>2. /\ h.pc = "write" /\ h.op = "create" /\ perm[h.on].status = "fresh"
      /\ perm' = [perm EXCEPT ![h.on] = h.row] /\ h.row.parent \in Present \cup {None}
  BY <1>1 DEF WriteCreate, AtWrite, AtStep, CreateFails
<1>3. h.on \in Perms /\ h.row.status \in {"ACTIVE", "DISABLED"} /\ h.on # None /\ h.on \notin Present
  BY <1>1, <1>2, PermissionsAssumption DEF Proper, About, Present, IsThere
<1>4. perm'[h.on] = h.row /\ \A p \in Perms : p # h.on => perm'[p] = perm[p]
  BY <1>2, <1>3 DEF PermInv, PermType
<1>5. Present' = Present \cup {h.on}
  BY <1>3, <1>4 DEF Present, IsThere
<1>6. Present \subseteq Perms
  BY DEF Present
<1>7. \A p \in Present : perm'[p].parent = perm[p].parent /\ perm[p].parent \in Present \cup {None}
  BY <1>3, <1>4, <1>6, TreeIs
<1>8. \A p \in Present' : perm'[p].parent \in Present' \cup {None}
  BY <1>2, <1>4, <1>5, <1>7
<1>9. ASSUME NEW S \in (SUBSET (Present')) \ {{}} PROVE \E p \in S : perm'[p].parent \notin S
  <2>1. CASE S \ {h.on} = {}
    <3>1. S = {h.on}
      BY <2>1
    <3> QED BY <1>2, <1>3, <1>4, <3>1
  <2>2. CASE S \ {h.on} # {}
    <3>1. S \ {h.on} \in (SUBSET Present) \ {{}}
      BY <1>5, <2>2
    <3>2. PICK p \in S \ {h.on} : perm[p].parent \notin S \ {h.on}
      BY <3>1, TreeIs
    <3>3. p \in Present
      BY <3>1
    <3>4. perm[p].parent # h.on
      BY <1>3, <1>7, <3>3
    <3> QED BY <1>7, <3>2, <3>3, <3>4
  <2> QED BY <2>1, <2>2
<1> QED BY <1>8, <1>9, TreeIsNext

\* Who hangs below what is deleted is deleted with it.
LEMMA DeleteKeepsForest ==
  ASSUME PermInv, Forest(Tree), NEW w \in Workers, WriteDelete(w) PROVE Forest(Tree)'
<1>1. PICK h \in Calls : h = call[w] /\ Proper(h)
  BY CallIs
<1> DEFINE below == Subtree(h.on)
<1>2. /\ h.pc = "write" /\ h.op = "delete"
      /\ perm' = [p \in Perms |-> IF p \in below THEN GonePerm ELSE perm[p]]
  BY <1>1 DEF WriteDelete, AtWrite, AtStep
<1>3. h.on \in Perms
  BY <1>1, <1>2 DEF Proper, About
<1>4. \A x \in Present : perm[x].parent \in below => x \in below
  BY <1>3, SubtreeIs
<1> HIDE DEF below
<1>5. GonePerm.status = "gone"
  BY DEF GonePerm, NoPerm
<1>6. Present \subseteq Perms
  BY DEF Present
<1>7. Present' = Present \ below
  BY <1>2, <1>5 DEF Present, IsThere
<1>8. \A p \in Present' : perm'[p] = perm[p]
  BY <1>2, <1>6, <1>7
<1>9. \A p \in Present' : perm'[p].parent \in Present' \cup {None}
  BY <1>4, <1>7, <1>8, TreeIs
<1>10. ASSUME NEW S \in (SUBSET (Present')) \ {{}} PROVE \E p \in S : perm'[p].parent \notin S
  <2>1. S \in (SUBSET Present) \ {{}}
    BY <1>7
  <2>2. PICK p \in S : perm[p].parent \notin S
    BY <2>1, TreeIs
  <2> QED BY <1>8, <2>2
<1> QED BY <1>9, <1>10, TreeIsNext

\* An uncrossed move goes to a permission that is not below the one that moves:
\* a new circle would leave an old one outside that subtree.
LEMMA UpdateKeepsForest ==
  ASSUME PermInv, Forest(Tree), NEW w \in Workers, WriteUpdate(w), "move" \notin call[w].crossed
  PROVE  Forest(Tree)'
<1>1. PICK h \in Calls : h = call[w] /\ Proper(h) /\ Seen(h) /\ h.row \in CodeRows
  BY CallIs
<1> DEFINE on == h.on
           up == h.row.parent
           below == Subtree(h.on)
<1> SUFFICES ASSUME IsThere(on) PROVE Forest(Tree)'
  BY <1>1, TreeIs, TreeIsNext DEF WriteUpdate, Present, IsThere
<1>2. /\ h.pc = "write" /\ h.op = "update" /\ up \in Present \cup {None}
      /\ perm' = IF IsThere(on) THEN [perm EXCEPT ![on] = h.row] ELSE perm
  BY <1>1 DEF WriteUpdate, AtWrite, AtStep
<1>3. /\ IsThere(on) /\ h.old.parent = perm[on].parent
      /\ MovesPerm(h) /\ up # None => up \notin below
  BY <1>1, <1>2 DEF Seen, TreeSeen
<1>4. on \in Perms /\ h.row.status \in {"ACTIVE", "DISABLED"}
  BY <1>1, <1>2 DEF Proper, About
<1>5. perm'[on] = h.row /\ \A p \in Perms : p # on => perm'[p] = perm[p]
  BY <1>2, <1>3, <1>4 DEF PermInv, PermType
<1>6. Present' = Present /\ Present \subseteq Perms /\ None \notin Present
  BY <1>3, <1>4, <1>5, PermissionsAssumption DEF Present, IsThere
<1>7. on \in below /\ \A x \in Present : perm[x].parent \in below => x \in below
  BY <1>4, SubtreeIs
<1>8. up = perm[on].parent \/ up = None \/ up \notin below
  BY <1>3 DEF MovesPerm
<1>9. perm'[on].parent = up
  BY <1>5
<1> HIDE DEF below, on, up
<1>10. \A p \in Present : p # on => perm'[p].parent = perm[p].parent
  BY <1>5, <1>6
<1>11. \A p \in Present' : perm'[p].parent \in Present' \cup {None}
  BY <1>2, <1>6, <1>9, <1>10, TreeIs
<1>12. ASSUME NEW S \in (SUBSET Present) \ {{}}, \A p \in S : perm'[p].parent \in S PROVE FALSE
  <2>1. on \in S
    <3> SUFFICES ASSUME on \notin S PROVE FALSE
      OBVIOUS
    <3>1. PICK p \in S : perm[p].parent \notin S
      BY TreeIs
    <3> QED BY <1>10, <1>12, <3>1
  <2>2. up \in S /\ up # None
    BY <1>6, <1>9, <1>12, <2>1
  <2>3. CASE up = perm[on].parent
    <3>1. PICK p \in S : perm[p].parent \notin S
      BY TreeIs
    <3> QED BY <1>9, <1>10, <1>12, <2>2, <2>3, <3>1
  <2>4. CASE up \notin below
    <3>1. S \ below \in (SUBSET Present) \ {{}}
      BY <2>2, <2>4
    <3>2. PICK p \in S \ below : perm[p].parent \notin S \ below
      BY <3>1, TreeIs
    <3>3. p \in Present /\ p # on /\ p \notin below
      BY <1>7, <3>1
    <3>4. perm[p].parent \in S
      BY <1>10, <1>12, <3>2, <3>3
    <3> QED BY <1>7, <3>2, <3>3, <3>4
  <2> QED BY <1>8, <2>2, <2>3, <2>4
<1>13. \A S \in (SUBSET Present) \ {{}} : \E p \in S : perm'[p].parent \notin S
  BY <1>12
<1> QED BY <1>6, <1>11, <1>13, TreeIsNext

\* After an uncrossed registration its codes hang as reported, the others as before.
LEMMA RegisterKeepsForest ==
  ASSUME PermInv, Forest(Tree), NEW w \in Workers, WriteRegister(w), "move" \notin call[w].crossed
  PROVE  Forest(Tree)'
<1>1. PICK h \in Calls : h = call[w] /\ Proper(h) /\ Seen(h)
  BY CallIs
<1>2. /\ h.pc = "write" /\ h.op = "register" /\ ~SyncFails(h)
      /\ perm' = [p \in Perms |-> Synced(h, p)]
  BY <1>1 DEF WriteRegister, AtWrite, AtStep
<1> DEFINE codes == DOMAIN h.tree
<1>3. codes \subseteq Perms /\ Forest(h.tree)
  BY <1>1, <1>2, TreesAssumption DEF Proper, About
<1>4. \A p \in DOMAIN h.snap : p \notin Fresh /\ (IsThere(p) => h.snap[p].parent = perm[p].parent)
  BY <1>1, <1>2 DEF Seen, TreeSeen, IdsSeen
<1>5. \A p \in Perms : perm[p] \in CodeRows
  BY DEF PermInv, PermType
<1>6. Present \subseteq Present' /\ Present' \subseteq Perms /\ None \notin Perms
  BY WriteRegisterIs, PermissionsAssumption DEF Present
<1>7. ASSUME NEW p \in codes, p \in Present' PROVE perm'[p].parent = h.tree[p]
  <2>1. p \in Perms /\ perm'[p] = Synced(h, p)
    BY <1>2, <1>3
  <2>2. CASE p \notin DOMAIN h.snap
    <3>1. perm'[p] = [parent |-> h.tree[p], status |-> "ACTIVE", owner |-> App]
      BY <2>1, <2>2 DEF Synced
    <3> QED BY <3>1
  <2>3. CASE p \in DOMAIN h.snap
    <3>1. IsThere(p)
      <4>1. p \notin Fresh /\ Synced(h, p).status \in {"ACTIVE", "DISABLED"}
        BY <1>4, <1>7, <2>1, <2>3 DEF Present, IsThere
      <4> QED BY <1>1, <1>2, <2>1, <4>1, SyncedIs
    <3>2. h.snap[p].parent = perm[p].parent
      BY <1>4, <2>3, <3>1
    <3>3. PICK status : perm'[p] = [perm[p] EXCEPT !.status = status,
                                      !.parent = IF h.snap[p].parent = h.tree[p] THEN @ ELSE h.tree[p]]
      BY <2>1, <2>3, <3>1 DEF Synced
    <3> QED BY <1>5, <2>1, <3>2, <3>3 DEF CodeRows
  <2> QED BY <2>2, <2>3
<1>8. ASSUME NEW p \in Present', p \notin codes PROVE p \in Present /\ perm'[p].parent = perm[p].parent
  <2>1. p \in Perms /\ perm'[p] = Synced(h, p)
    BY <1>2, <1>6
  <2>2. perm'[p].parent = perm[p].parent
    BY <1>1, <1>2, <1>8, <2>1, SyncedIs
  <2>3. p \in Present
    <3>1. Synced(h, p).status \in {"ACTIVE", "DISABLED"}
      BY <2>1 DEF Present, IsThere
    <3>2. p \in Fresh => perm'[p] = perm[p]
      BY <1>1, <1>2, <1>4, <1>8, <2>1, SyncedIs
    <3> QED BY <1>1, <1>2, <2>1, <3>1, <3>2, SyncedIs DEF Present, Fresh
  <2> QED BY <2>2, <2>3
<1>9. ASSUME NEW p \in codes, p \in Present', h.tree[p] # None PROVE h.tree[p] \in Present'
  <2>1. h.tree[p] \in codes
    BY <1>3, <1>9 DEF Forest
  <2> PICK c \in codes : c = h.tree[p]
    BY <2>1
  <2>2. CASE c \notin DOMAIN h.snap
    <3>1. c \in Perms /\ perm'[c] = Synced(h, c)
      BY <1>2, <1>3
    <3>2. Synced(h, c).status = "ACTIVE"
      BY <1>1, <1>2, <2>2, <3>1, SyncedIs
    <3> QED BY <3>1, <3>2 DEF Present, IsThere
  <2>3. CASE c \in DOMAIN h.snap /\ ~IsThere(c)
    <3>1. perm[c].status = "gone"
      BY <1>3, <1>4, <1>5, <2>3 DEF CodeRows, IsThere, Fresh
    <3>2. p \in DOMAIN h.snap /\ (IsThere(p) => h.snap[p].parent = c)
      BY <1>2, <1>9, <3>1 DEF SyncFails
    <3>3. p \in Perms /\ p \notin Fresh /\ Synced(h, p).status \in {"ACTIVE", "DISABLED"}
      BY <1>2, <1>3, <1>4, <1>9, <3>2 DEF Present, IsThere
    <3>4. IsThere(p)
      BY <1>1, <1>2, <3>3, SyncedIs
    <3>5. perm[p].parent = c /\ p \in Present
      BY <1>4, <3>2, <3>3, <3>4 DEF Present
    <3>6. c \in Present \cup {None}
      BY <3>5, TreeIs
    <3> QED BY <1>9, <2>3, <3>6 DEF Present
  <2>4. CASE IsThere(c)
    BY <1>3, <1>6, <2>4 DEF Present
  <2> QED BY <2>2, <2>3, <2>4
<1>10. ASSUME NEW p \in Present' PROVE perm'[p].parent \in Present' \cup {None}
  <2>1. CASE p \in codes
    BY <1>7, <1>9, <2>1
  <2>2. CASE p \notin codes
    BY <1>6, <1>8, <2>2, TreeIs
  <2> QED BY <2>1, <2>2
<1>11. ASSUME NEW S \in (SUBSET (Present')) \ {{}} PROVE \E p \in S : perm'[p].parent \notin S
  <2>1. CASE S \cap codes # {}
    <3>1. S \cap codes \in (SUBSET codes) \ {{}}
      BY <2>1
    <3>2. PICK p \in S \cap codes : h.tree[p] \notin S \cap codes
      BY <1>3, <3>1 DEF Forest
    <3>3. h.tree[p] \in codes \cup {None}
      BY <1>3, <3>2 DEF Forest
    <3>4. None \notin S
      BY <1>6
    <3> QED BY <1>7, <3>2, <3>3, <3>4
  <2>2. CASE S \cap codes = {}
    <3>1. \A p \in S : p \in Present /\ perm'[p].parent = perm[p].parent
      BY <1>8, <2>2
    <3>2. S \in (SUBSET Present) \ {{}}
      BY <3>1
    <3>3. PICK p \in S : perm[p].parent \notin S
      BY <3>2, TreeIs
    <3> QED BY <3>1, <3>3
  <2> QED BY <2>1, <2>2
<1> QED BY <1>10, <1>11, TreeIsNext

LEMMA ForestStep == ASSUME PermInv, ForestInv, [PermNext]_permVars PROVE ForestInv'
<1>1. ASSUME perm' = perm, pardoned \subseteq pardoned' PROVE ForestInv'
  <2>1. Tree' = Tree
    BY <1>1 DEF Tree, Present, IsThere
  <2> QED BY <1>1, <2>1 DEF ForestInv, Forest
<1>2. CASE UNCHANGED permVars
  BY <1>1, <1>2 DEF permVars
<1>3. ASSUME NEW w \in Workers, Arrive(w) \/ CheckRequest(w) \/ RefuseRequest(w) \/ AbortRequest(w)
                                 \/ AskAffected(w) \/ Refresh(w)
      PROVE  ForestInv'
  <2>1. perm' = perm /\ pardoned' = pardoned
    BY <1>3 DEF Arrive, Create, Update, Delete, Grant, Bind, Register, Begin, LoadRequest,
       CheckRequest, RefuseRequest, AbortRequest, AskAffected, Refresh, PermRows
  <2> QED BY <1>1, <2>1
<1>4. ASSUME NEW w \in Workers, WriteGrant(w) \/ WriteBind(w) PROVE ForestInv'
  <2>1. perm' = perm /\ pardoned' = pardoned \cup Explained(w)
    BY <1>4 DEF WriteGrant, WriteBind, CommitRequest
  <2> QED BY <1>1, <2>1
<1>5. ASSUME NEW w \in Workers, WriteCreate(w) \/ WriteDelete(w) \/ WriteUpdate(w) \/ WriteRegister(w)
      PROVE  ForestInv'
  <2> SUFFICES ASSUME "move" \notin pardoned' PROVE Forest(Tree)'
    BY DEF ForestInv
  <2>1. pardoned' = pardoned \cup Explained(w)
    BY <1>5 DEF WriteCreate, WriteDelete, WriteUpdate, WriteRegister, CommitRequest
  <2>2. Forest(Tree)
    BY <2>1 DEF ForestInv
  <2>3. WriteUpdate(w) \/ WriteRegister(w) => "move" \notin call[w].crossed
    BY <2>1 DEF WriteUpdate, WriteRegister, AtWrite, Explained
  <2> QED BY <1>5, <2>2, <2>3, CreateKeepsForest, DeleteKeepsForest, UpdateKeepsForest,
             RegisterKeepsForest
<1> QED BY <1>2, <1>3, <1>4, <1>5 DEF PermNext, WriteRequest

LEMMA ForestInit == ASSUME PermInit PROVE ForestInv
<1>1. Present = {p \in Perms : Start.perm[p].status \in {"ACTIVE", "DISABLED"}} /\ perm = Start.perm
  BY DEF PermInit, Present, IsThere
<1>2. Tree = [p \in Present |-> Start.perm[p].parent]
  BY <1>1 DEF Tree
<1> QED BY <1>1, <1>2, StartAssumption DEF ForestInv


-----------------------------------------------------------------------------
(* Codes are handed down *)

LEMMA CommittedIs ==
  ASSUME PermInv, NEW w \in Workers, NEW v \in Workers, RequestCommits(w), NEW next,
         CommitRequest(v, next)
  PROVE  v = w
<1> SUFFICES ASSUME v # w PROVE FALSE
  OBVIOUS
<1>1. PICK h \in Calls : h = call[w]
  BY CallIs
<1> PICK kinds : kinds = Changed
  OBVIOUS
<1>2. call'[w] = [h EXCEPT !.crossed = @ \cup (kinds \cap CrossedBy(h))]
  BY <1>1 DEF CommitRequest
<1>3. call'[w].pc = h.pc
  BY <1>2 DEF Calls
<1> QED BY <1>1, <1>3 DEF RequestCommits, AtStep

LEMMA HandsDown ==
  ASSUME PermInv, NEW w \in Workers, NEW u \in Users, call[w].crossed \subseteq {"move"},
         \/ WriteCreate(w) \/ WriteUpdate(w) \/ WriteDelete(w)
         \/ WriteGrant(w) \/ WriteBind(w) \/ WriteRegister(w),
         NEW p, p \in Effective(u)', p \notin Effective(u)
  PROVE  \/ call[w].by \in Users /\ (Administers(call[w].by) \/ p \in Effective(call[w].by))
         \/ p \notin Reserved /\ call[w].op \in {"update", "register"}
<1>1. PICK h \in Calls : h = call[w] /\ Proper(h) /\ Seen(h)
  BY CallIs
<1>2. PICK r \in bound'[u] : p \in grants'[r]
  BY EffectiveIs DEF Effective
<1>3. p \in Perms /\ perm'[p].status = "ACTIVE"
  BY DEF Effective, Active
<1>4. ~(perm[p].status = "ACTIVE" /\ r \in bound[u] /\ p \in grants[r])
  BY <1>3 DEF Effective, Active
<1>5. /\ bound \in [Users -> SUBSET Roles] /\ grants \in [Roles -> SUBSET Perms]
      /\ perm \in [Perms -> CodeRows]
  BY DEF PermInv, PermType
<1>6. ASSUME grants' = grants, bound' = bound
      PROVE  p \in Present /\ perm[p].status # "ACTIVE"
  <2>1. p \in grants[r] /\ r \in bound[u] /\ r \in Roles
    BY <1>2, <1>5, <1>6
  <2> QED BY <1>4, <2>1 DEF PermInv, RowsKept
<1>7. CASE WriteCreate(w)
  <2>1. /\ h.pc = "write" /\ h.op = "create" /\ perm[h.on].status = "fresh"
        /\ perm' = [perm EXCEPT ![h.on] = h.row] /\ grants' = grants /\ bound' = bound
    BY <1>1, <1>7 DEF WriteCreate, AtWrite, AtStep, CreateFails
  <2>2. p \in Present /\ perm[p].status # "ACTIVE"
    BY <1>6, <2>1
  <2>3. p # h.on
    BY <2>1, <2>2 DEF Present, IsThere
  <2>4. perm'[p] = perm[p]
    BY <1>3, <1>5, <2>1, <2>3
  <2> QED BY <1>3, <2>2, <2>4
<1>8. CASE WriteUpdate(w)
  <2>1. /\ h.pc = "write" /\ h.op = "update"
        /\ perm' = IF IsThere(h.on) THEN [perm EXCEPT ![h.on] = h.row] ELSE perm
        /\ grants' = grants /\ bound' = bound
    BY <1>1, <1>8 DEF WriteUpdate, AtWrite, AtStep
  <2>2. perm[p].status # "ACTIVE"
    BY <1>6, <2>1
  <2>3. IsThere(h.on) /\ p = h.on /\ h.row.status = "ACTIVE"
    BY <1>3, <1>5, <2>1, <2>2
  <2>4. CASE p \in Reserved
    <3>1. h.old.status = perm[h.on].status /\ (h.row.status = h.old.status \/ Administers(h.by))
      BY <1>1, <2>1, <2>3, <2>4 DEF Seen, RightsSeen
    <3>2. h.by \in Users
      BY <1>1, <2>1 DEF Proper, About
    <3> QED BY <1>1, <2>2, <2>3, <3>1, <3>2
  <2> QED BY <1>1, <2>1, <2>4
<1>9. CASE WriteDelete(w)
  <2>1. /\ perm' = [x \in Perms |-> IF x \in Subtree(h.on) THEN GonePerm ELSE perm[x]]
        /\ grants' = [x \in Roles |-> grants[x] \ (Subtree(h.on) \cup h.seen)] /\ bound' = bound
    BY <1>1, <1>9 DEF WriteDelete
  <2>2. r \in Roles /\ r \in bound[u] /\ p \in grants[r]
    BY <1>2, <1>5, <2>1
  <2>3. perm'[p] = GonePerm \/ perm'[p] = perm[p]
    BY <1>3, <2>1
  <2> QED BY <1>3, <1>4, <2>2, <2>3 DEF GonePerm, NoPerm
<1>10. CASE WriteGrant(w)
  <2>1. h.pc = "write" /\ h.op = "grant" /\ perm' = perm /\ bound' = bound
    BY <1>1, <1>10 DEF WriteGrant, AtWrite, AtStep
  <2>2. PICK seen : grants' = [grants EXCEPT ![h.on] = (@ \ seen) \cup h.set]
    BY <1>1, <1>10 DEF WriteGrant
  <2>3. r \in bound[u] /\ r \in Roles /\ p \notin grants[r]
    BY <1>2, <1>3, <1>4, <1>5, <2>1
  <2>4. p \in h.set
    BY <1>2, <1>5, <2>2, <2>3
  <2>5. Administers(h.by) \/ h.set \subseteq UNION {grants[x] : x \in bound[h.by]}
    BY <1>1, <2>1 DEF Seen, RightsSeen
  <2>6. h.by \in Users
    BY <1>1, <2>1 DEF Proper, About
  <2>7. p \in Active
    BY <1>3, <2>1 DEF Active
  <2>8. Administers(h.by) \/ p \in Effective(h.by)
    BY <2>4, <2>5, <2>7 DEF Effective
  <2> QED BY <1>1, <2>6, <2>8
<1>11. CASE WriteBind(w)
  <2>1. /\ h.pc = "write" /\ h.op = "bind" /\ perm' = perm /\ grants' = grants
        /\ bound' = [bound EXCEPT ![h.on] = h.set]
    BY <1>1, <1>11 DEF WriteBind, AtWrite, AtStep
  <2>2. r \in h.set
    BY <1>2, <1>3, <1>4, <1>5, <2>1
  <2>3. p \in Active /\ p \in grants[r]
    BY <1>2, <1>3, <2>1 DEF Active
  <2>4. Administers(h.by) \/ Active \cap UNION {grants[x] : x \in h.set} \subseteq Effective(h.by)
    BY <1>1, <2>1 DEF Seen, RightsSeen
  <2>5. h.by \in Users
    BY <1>1, <2>1 DEF Proper, About
  <2> QED BY <1>1, <2>2, <2>3, <2>4, <2>5
<1>12. CASE WriteRegister(w)
  <2>1. /\ h.pc = "write" /\ h.op = "register" /\ ~SyncFails(h) /\ perm' = [x \in Perms |-> Synced(h, x)]
        /\ grants' = grants /\ bound' = bound
    BY <1>1, <1>12 DEF WriteRegister, AtWrite, AtStep
  <2>2. perm[p].status # "ACTIVE"
    BY <1>6, <2>1
  <2>3. Synced(h, p).status = "ACTIVE"
    BY <1>3, <2>1
  <2>4. p \in DOMAIN h.tree
    BY <1>1, <1>3, <2>1, <2>2, <2>3, SyncedIs
  <2>5. p \notin Reserved
    BY <1>1, <2>1, <2>4 DEF Proper, About
  <2> QED BY <1>1, <2>1, <2>5
<1> QED BY <1>7, <1>8, <1>9, <1>10, <1>11, <1>12

LEMMA CodesStep == ASSUME PermInv, [PermNext]_permVars PROVE [HandsCodesDown]_permVars
<1> SUFFICES ASSUME PermNext, NEW w \in Workers, NEW u \in Users, RequestCommits(w),
                    call[w].crossed \subseteq {"move"}, NEW p \in Effective(u)' \ Effective(u)
             PROVE  \/ call[w].by \in Users /\ (Administers(call[w].by) \/ p \in Effective(call[w].by))
                    \/ p \notin Reserved /\ call[w].op \in {"update", "register"}
  BY DEF HandsCodesDown
<1>1. PICK v \in Workers : \/ MayArrive(v) /\ Arrive(v)
                           \/ CheckRequest(v) \/ RefuseRequest(v) \/ WriteRequest(v)
  BY DEF PermNext
<1>2. commits' # commits
  BY DEF RequestCommits
<1>3. \/ WriteCreate(v) \/ WriteUpdate(v) \/ WriteDelete(v)
      \/ WriteGrant(v) \/ WriteBind(v) \/ WriteRegister(v)
  BY <1>1, <1>2
     DEF Arrive, Create, Update, Delete, Grant, Bind, Register, Begin, LoadRequest,
         CheckRequest, RefuseRequest, WriteRequest, AbortRequest, AskAffected, Refresh
<1>4. \E next : CommitRequest(v, next)
  BY <1>3 DEF WriteCreate, WriteUpdate, WriteDelete, WriteGrant, WriteBind, WriteRegister
<1>5. v = w
  BY <1>4, CommittedIs
<1> QED BY <1>3, <1>5, HandsDown

-----------------------------------------------------------------------------
(* Contexts *)

\* A context that is outdated is about to be refreshed.
WillReach(w, u) ==
  \/ AtStep(w, "refresh") /\ u \in call[w].due
  \/ AtStep(w, "affected") /\ u \in Holders({r \in Roles : call[w].on \in grants[r]})

ReachInv ==
  "reach" \notin pardoned =>
    \A u \in Users : context[u] = Effective(u) \/ \E w \in Workers : WillReach(w, u)

\* Steps of w that write no rows: the refresh in course goes on.
LEMMA CallKeepsReach ==
  ASSUME PermInv, ReachInv, NEW w \in Workers, NEW k, SetRequest(w, k),
         UNCHANGED <<PermRows, context, pardoned>>,
         \A u \in Users : WillReach(w, u) => k.pc = "refresh" /\ u \in k.due
  PROVE  ReachInv'
<1>1. call' = [call EXCEPT ![w] = k] /\ call \in [Workers -> Calls]
  BY DEF SetRequest, PermInv, PermType
<1>2. perm' = perm /\ grants' = grants /\ bound' = bound /\ context' = context /\ pardoned' = pardoned
  BY DEF PermRows
<1>3. \A u : Effective(u)' = Effective(u)
  BY <1>2 DEF Effective, Active
<1>4. ASSUME NEW u \in Users, NEW v \in Workers, WillReach(v, u) PROVE WillReach(v, u)'
  <2>1. CASE v = w
    <3>1. k.pc = "refresh" /\ u \in k.due
      BY <1>4, <2>1
    <3>2. call'[v] = k
      BY <1>1, <2>1
    <3> QED BY <3>1, <3>2 DEF WillReach, AtStep
  <2>2. CASE v # w
    <3>1. call'[v] = call[v]
      BY <1>1, <2>2
    <3> QED BY <1>2, <1>4, <3>1 DEF WillReach, AtStep, Holders
  <2> QED BY <2>1, <2>2
<1> QED BY <1>2, <1>3, <1>4 DEF ReachInv

LEMMA AskAffectedKeepsReach ==
  ASSUME PermInv, ReachInv, NEW w \in Workers, AskAffected(w) PROVE ReachInv'
<1>1. PICK due \in SUBSET Users : due = Holders({r \in Roles : call[w].on \in grants[r]})
  BY DEF Holders
<1>2. PICK k \in Calls : /\ k = Refreshing(call[w], due) /\ (k.pc = "refresh" <=> due # {})
                         /\ due # {} => k.due = due
  BY RefreshingIs
<1>3. AtStep(w, "affected") /\ SetRequest(w, k) /\ UNCHANGED <<PermRows, context, pardoned>>
  BY <1>1, <1>2 DEF AskAffected
<1>4. \A u \in Users : WillReach(w, u) => u \in due
  BY <1>1, <1>3 DEF WillReach, AtStep
<1>5. \A u \in Users : WillReach(w, u) => k.pc = "refresh" /\ u \in k.due
  BY <1>2, <1>4
<1> QED BY <1>3, <1>5, CallKeepsReach

LEMMA RefreshKeepsReach ==
  ASSUME PermInv, ReachInv, NEW w \in Workers, Refresh(w) PROVE ReachInv'
<1>1. PICK h \in Calls : h = call[w] /\ h.due \in SUBSET Users
  BY CallIs
<1>2. PICK u0 \in h.due :
        /\ h.pc = "refresh" /\ context' = [context EXCEPT ![u0] = Effective(u0)]
        /\ SetRequest(w, Refreshing(h, h.due \ {u0})) /\ UNCHANGED <<PermRows, pardoned>>
  BY <1>1 DEF Refresh, AtStep
<1>3. PICK due \in SUBSET Users : due = h.due \ {u0}
  BY <1>1
<1>4. PICK k \in Calls : /\ k = Refreshing(h, due) /\ (k.pc = "refresh" <=> due # {})
                         /\ due # {} => k.due = due
  BY RefreshingIs
<1>5. call' = [call EXCEPT ![w] = k] /\ call \in [Workers -> Calls] /\ context \in [Users -> SUBSET Perms]
  BY <1>2, <1>3, <1>4 DEF SetRequest, PermInv, PermType
<1>6. perm' = perm /\ grants' = grants /\ bound' = bound /\ pardoned' = pardoned
  BY <1>2 DEF PermRows
<1>7. \A u : Effective(u)' = Effective(u)
  BY <1>6 DEF Effective, Active
<1>8. context'[u0] = Effective(u0) /\ \A u \in Users : u # u0 => context'[u] = context[u]
  BY <1>1, <1>2, <1>5
<1>9. ASSUME NEW u \in Users, u # u0, NEW v \in Workers, WillReach(v, u) PROVE WillReach(v, u)'
  <2>1. CASE v = w
    <3>1. u \in due
      BY <1>1, <1>2, <1>3, <1>9, <2>1 DEF WillReach, AtStep
    <3>2. call'[v] = k
      BY <1>5, <2>1
    <3> QED BY <1>4, <3>1, <3>2 DEF WillReach, AtStep
  <2>2. CASE v # w
    <3>1. call'[v] = call[v]
      BY <1>5, <2>2
    <3> QED BY <1>6, <1>9, <3>1 DEF WillReach, AtStep, Holders
  <2> QED BY <2>1, <2>2
<1> QED BY <1>6, <1>7, <1>8, <1>9 DEF ReachInv

\* A commit refreshes, or asks for, the users it concerns.
LEMMA CommitKeepsReach ==
  ASSUME PermInv, ReachInv, NEW w \in Workers, NEW k, CommitRequest(w, k),
         AtStep(w, "write"),
         "reach" \notin pardoned' =>
           \A u \in Users :
             \/ WillReach(w, u)'
             \/ /\ Effective(u)' = Effective(u)
                /\ \A p \in Perms : u \in Holders({r \in Roles : p \in grants[r]}) =>
                                    u \in Holders({r \in Roles : p \in grants[r]})'
  PROVE  ReachInv'
<1> SUFFICES ASSUME "reach" \notin pardoned', NEW u \in Users, ~WillReach(w, u)', context'[u] # Effective(u)'
             PROVE  \E v \in Workers : WillReach(v, u)'
  BY DEF ReachInv
<1>1. "reach" \notin pardoned /\ context' = context
  BY DEF CommitRequest
<1>2. /\ Effective(u)' = Effective(u)
      /\ \A p \in Perms : u \in Holders({r \in Roles : p \in grants[r]}) =>
                          u \in Holders({r \in Roles : p \in grants[r]})'
  OBVIOUS
<1>3. PICK v \in Workers : WillReach(v, u)
  BY <1>1, <1>2 DEF ReachInv
<1>4. v # w
  BY <1>3 DEF WillReach, AtStep
<1>5. PICK h \in Calls : h = call[v] /\ Proper(h)
  BY CallIs
<1> PICK kinds : kinds = Changed
  OBVIOUS
<1>6. call'[v] = [h EXCEPT !.crossed = @ \cup (kinds \cap CrossedBy(h))]
  BY <1>4, <1>5 DEF CommitRequest
<1>7. call'[v].pc = h.pc /\ call'[v].due = h.due /\ call'[v].on = h.on
  BY <1>6 DEF Calls
<1>8. CASE h.pc = "refresh"
  BY <1>3, <1>5, <1>7, <1>8 DEF WillReach, AtStep
<1>9. CASE h.pc = "affected"
  <2>1. h.on \in Perms /\ u \in Holders({r \in Roles : h.on \in grants[r]})
    BY <1>3, <1>5, <1>9 DEF WillReach, AtStep, Proper
  <2>2. u \in Holders({r \in Roles : h.on \in grants[r]})'
    BY <1>2, <2>1
  <2>3. WillReach(v, u)'
    BY <1>7, <1>9, <2>2 DEF WillReach, AtStep
  <2> QED BY <2>3
<1> QED BY <1>3, <1>5, <1>8, <1>9 DEF WillReach, AtStep


\* The next request of a worker that goes on to refresh.
LEMMA DueIsReached ==
  ASSUME PermInv, NEW w \in Workers, NEW due \in SUBSET Users, NEW h,
         CommitRequest(w, Refreshing(h, due)), NEW u \in due
  PROVE  WillReach(w, u)'
<1>1. PICK k \in Calls : /\ k = Refreshing(h, due) /\ (k.pc = "refresh" <=> due # {})
                         /\ due # {} => k.due = due
  BY RefreshingIs
<1>2. k.pc = "refresh" /\ u \in k.due
  BY <1>1
<1>3. call'[w] = k
  BY <1>1 DEF CommitRequest
<1> QED BY <1>2, <1>3 DEF WillReach, AtStep

LEMMA CommitsKeepReach ==
  ASSUME PermInv, ReachInv, NEW w \in Workers,
         \/ WriteCreate(w) \/ WriteUpdate(w) \/ WriteDelete(w)
         \/ WriteGrant(w) \/ WriteBind(w) \/ WriteRegister(w)
  PROVE  ReachInv'
<1>1. PICK h \in Calls : h = call[w] /\ Proper(h) /\ Seen(h) /\ h.row \in CodeRows /\ h.due \in SUBSET Users
  BY CallIs
<1>2. AtStep(w, "write") /\ h.pc = "write"
  BY <1>1 DEF WriteCreate, WriteUpdate, WriteDelete, WriteGrant, WriteBind, WriteRegister,
     AtWrite, AtStep
<1>3. /\ bound \in [Users -> SUBSET Roles] /\ grants \in [Roles -> SUBSET Perms]
      /\ perm \in [Perms -> CodeRows]
  BY DEF PermInv, PermType
<1> DEFINE Same(u) ==
      /\ Effective(u)' = Effective(u)
      /\ \A p \in Perms : u \in Holders({r \in Roles : p \in grants[r]}) =>
                          u \in Holders({r \in Roles : p \in grants[r]})'
<1>4. ASSUME NEW u \in Users, grants' = grants, bound' = bound,
             \A p \in Perms, r \in bound[u] : p \in grants[r] => (perm'[p].status = "ACTIVE" <=> perm[p].status = "ACTIVE")
      PROVE  Same(u)
  <2>1. \A p : p \in Effective(u)' <=> p \in Effective(u)
    <3> SUFFICES ASSUME NEW p PROVE p \in Effective(u)' <=> p \in Effective(u)
      OBVIOUS
    <3>1. p \in Effective(u)' <=> p \in Active' /\ \E r \in bound[u] : p \in grants[r]
      BY <1>4 DEF Effective
    <3>2. p \in Effective(u) <=> p \in Active /\ \E r \in bound[u] : p \in grants[r]
      BY EffectiveIs
    <3> QED BY <1>4, <3>1, <3>2 DEF Active
  <2>2. Effective(u)' = Effective(u)
    BY <2>1 DEF Effective
  <2> QED BY <1>4, <2>2 DEF Holders
<1>5. ASSUME NEW u \in Users, perm' = perm, bound'[u] = bound[u], \A r \in bound[u] : grants'[r] = grants[r]
      PROVE  Same(u)
  <2>1. Active' = Active
    BY <1>5 DEF Active
  <2>2. Effective(u)' = Effective(u)
    BY <1>5, <2>1 DEF Effective
  <2>3. ASSUME NEW p \in Perms, u \in Holders({r \in Roles : p \in grants[r]})
        PROVE  u \in Holders({r \in Roles : p \in grants[r]})'
    BY <1>5, <2>3 DEF Holders
  <2> QED BY <2>2, <2>3
<1>6. CASE WriteCreate(w)
  <2>1. /\ h.op = "create" /\ perm[h.on].status = "fresh" /\ perm' = [perm EXCEPT ![h.on] = h.row]
        /\ grants' = grants /\ bound' = bound /\ CommitRequest(w, NoRequest)
    BY <1>1, <1>6 DEF WriteCreate, AtWrite, CreateFails
  <2>2. ASSUME NEW u \in Users PROVE Same(u)
    <3>1. ASSUME NEW p \in Perms, NEW r \in bound[u], p \in grants[r]
          PROVE  perm'[p].status = "ACTIVE" <=> perm[p].status = "ACTIVE"
      <4>1. r \in Roles /\ p \in Present
        BY <1>3, <3>1 DEF PermInv, RowsKept
      <4>2. p # h.on
        BY <2>1, <4>1 DEF Present, IsThere
      <4> QED BY <1>3, <2>1, <4>2
    <3> QED BY <1>4, <2>1, <3>1
  <2> QED BY <1>2, <2>1, <2>2, CommitKeepsReach
<1>7. CASE WriteUpdate(w)
  <2> DEFINE k == [NoRequest EXCEPT !.pc = "affected", !.on = h.on]
  <2>1. /\ h.op = "update" /\ perm' = (IF IsThere(h.on) THEN [perm EXCEPT ![h.on] = h.row] ELSE perm)
        /\ CommitRequest(w, k) /\ grants' = grants /\ bound' = bound
    BY <1>1, <1>7 DEF WriteUpdate, AtWrite
  <2>2. k.pc = "affected" /\ k.on = h.on
    BY NoRequestType DEF Calls
  <2> HIDE DEF k
  <2>3. call'[w] = k
    BY <2>1 DEF CommitRequest
  <2>4. \A p \in Perms : p # h.on => perm'[p] = perm[p]
    BY <1>3, <2>1
  <2>5. ASSUME NEW u \in Users PROVE WillReach(w, u)' \/ Same(u)
    <3>1. CASE \E r \in bound[u] : h.on \in grants[r]
      <4>1. u \in Holders({r \in Roles : h.on \in grants[r]})'
        BY <1>3, <2>1, <3>1 DEF Holders
      <4> QED BY <2>2, <2>3, <4>1 DEF WillReach, AtStep
    <3>2. CASE \A r \in bound[u] : h.on \notin grants[r]
      BY <1>4, <2>1, <2>4, <3>2
    <3> QED BY <3>1, <3>2
  <2> QED BY <1>2, <2>1, <2>5, CommitKeepsReach
<1>8. CASE WriteDelete(w)
  <2> DEFINE below == Subtree(h.on)
  <2>1. /\ h.op = "delete" /\ perm' = [p \in Perms |-> IF p \in below THEN GonePerm ELSE perm[p]]
        /\ grants' = [r \in Roles |-> grants[r] \ (below \cup h.seen)]
        /\ CommitRequest(w, Refreshing(h, h.due)) /\ bound' = bound
    BY <1>1, <1>8 DEF WriteDelete, AtWrite
  <2> SUFFICES ASSUME "reach" \notin pardoned' PROVE \A u \in Users : WillReach(w, u)' \/ Same(u)
    BY <1>2, <2>1, CommitKeepsReach
  <2>2. h.crossed = {}
    <3>1. pardoned' = pardoned \cup Explained(w)
      BY <2>1 DEF CommitRequest
    <3> QED BY <1>1, <2>1, <3>1 DEF Explained
  <2>3. Holders({r \in Roles : grants[r] \cap (h.seen \cup below) # {}}) \subseteq h.due
    BY <1>1, <1>2, <2>1, <2>2 DEF Seen, DueSeen, Losing
  <2>4. \A u \in h.due : WillReach(w, u)'
    BY <1>1, <2>1, DueIsReached
  <2> HIDE DEF below
  <2>5. ASSUME NEW u \in Users, u \notin h.due PROVE Same(u)
    <3>1. \A r \in bound[u] : r \in Roles /\ grants[r] \cap (h.seen \cup below) = {}
      BY <1>3, <2>3, <2>5 DEF Holders
    <3>2. \A r \in bound[u] : grants'[r] = grants[r]
      BY <1>3, <2>1, <3>1
    <3>3. \A p \in Perms : p \notin below => perm'[p] = perm[p]
      BY <2>1
    <3>4. \A p : p \in Effective(u)' <=> p \in Effective(u)
      <4> SUFFICES ASSUME NEW p PROVE p \in Effective(u)' <=> p \in Effective(u)
        OBVIOUS
      <4>1. p \in Effective(u)' <=> p \in Active' /\ \E r \in bound[u] : p \in grants[r]
        BY <2>1, <3>2 DEF Effective
      <4>2. p \in Effective(u) <=> p \in Active /\ \E r \in bound[u] : p \in grants[r]
        BY EffectiveIs
      <4>3. ASSUME NEW r \in bound[u], p \in grants[r] PROVE p \in Active' <=> p \in Active
        BY <3>1, <3>3, <4>3 DEF Active
      <4> QED BY <4>1, <4>2, <4>3
    <3>5. Effective(u)' = Effective(u)
      BY <3>4 DEF Effective
    <3>6. ASSUME NEW p \in Perms, u \in Holders({r \in Roles : p \in grants[r]})
          PROVE  u \in Holders({r \in Roles : p \in grants[r]})'
      BY <2>1, <3>2, <3>6 DEF Holders
    <3> QED BY <3>5, <3>6
  <2> QED BY <2>4, <2>5
<1>9. CASE WriteGrant(w)
  <2>1. /\ h.op = "grant" /\ perm' = perm /\ bound' = bound
        /\ CommitRequest(w, Refreshing(h, h.due))
    BY <1>1, <1>9 DEF WriteGrant, AtWrite
  <2>2. PICK seen : grants' = [grants EXCEPT ![h.on] = (@ \ seen) \cup h.set]
    BY <1>1, <1>9 DEF WriteGrant
  <2> SUFFICES ASSUME "reach" \notin pardoned' PROVE \A u \in Users : WillReach(w, u)' \/ Same(u)
    BY <1>2, <2>1, CommitKeepsReach
  <2>3. "bind" \notin h.crossed
    <3>1. pardoned' = pardoned \cup Explained(w)
      BY <2>1 DEF CommitRequest
    <3> QED BY <1>1, <2>1, <3>1 DEF Explained
  <2>4. Holders({h.on}) \subseteq h.due
    BY <1>1, <1>2, <2>1, <2>3 DEF Seen, DueSeen
  <2>5. \A u \in h.due : WillReach(w, u)'
    BY <1>1, <2>1, DueIsReached
  <2>6. ASSUME NEW u \in Users, u \notin h.due PROVE Same(u)
    <3>1. h.on \notin bound[u]
      BY <2>4, <2>6 DEF Holders
    <3>2. \A r \in bound[u] : grants'[r] = grants[r]
      BY <1>3, <2>2, <3>1
    <3> QED BY <1>5, <2>1, <3>2
  <2> QED BY <2>5, <2>6
<1>10. CASE WriteBind(w)
  <2>1. /\ h.op = "bind" /\ perm' = perm /\ grants' = grants /\ bound' = [bound EXCEPT ![h.on] = h.set]
        /\ CommitRequest(w, Refreshing(h, h.due))
    BY <1>1, <1>10 DEF WriteBind, AtWrite
  <2>2. h.on \in h.due
    BY <1>1, <1>2, <2>1 DEF Seen, DueSeen
  <2>3. \A u \in h.due : WillReach(w, u)'
    BY <1>1, <2>1, DueIsReached
  <2>4. ASSUME NEW u \in Users, u \notin h.due PROVE Same(u)
    <3>1. bound'[u] = bound[u]
      BY <1>3, <2>1, <2>2, <2>4
    <3> QED BY <1>5, <2>1, <3>1
  <2> QED BY <1>2, <2>1, <2>3, <2>4, CommitKeepsReach
<1>11. CASE WriteRegister(w)
  <2>1. /\ h.op = "register" /\ CommitRequest(w, NoRequest)
        /\ grants' = grants /\ bound' = bound
    BY <1>1, <1>11 DEF WriteRegister, AtWrite
  <2> SUFFICES ASSUME "reach" \notin pardoned' PROVE \A u \in Users : Same(u)
    BY <1>2, <2>1, CommitKeepsReach
  <2>2. "status" \notin Changed
    BY <1>1, <2>1 DEF CommitRequest, Explained
  <2>3. \A p \in Present : perm'[p].status = perm[p].status
    BY <2>2, ChangedIs
  <2>4. \A u \in Users : \A r \in bound[u] : grants[r] \subseteq Present
    BY <1>3 DEF PermInv, RowsKept
  <2> QED BY <1>4, <2>1, <2>3, <2>4
<1> HIDE DEF Same
<1> QED BY <1>1, <1>6, <1>7, <1>8, <1>9, <1>10, <1>11

LEMMA ReachStep == ASSUME PermInv, ReachInv, [PermNext]_permVars PROVE ReachInv'
<1>1. CASE UNCHANGED permVars
  BY <1>1 DEF permVars, ReachInv, WillReach, AtStep, Effective, Active, Holders
<1>2. ASSUME NEW w \in Workers, ~AtStep(w, "refresh"), ~AtStep(w, "affected"), NEW k, SetRequest(w, k),
             UNCHANGED <<PermRows, context, pardoned>>
      PROVE  ReachInv'
  <2>1. \A u \in Users : ~WillReach(w, u)
    BY <1>2 DEF WillReach
  <2> QED BY <1>2, <2>1, CallKeepsReach
<1>3. ASSUME NEW w \in Workers, MayArrive(w), Arrive(w) PROVE ReachInv'
  <2>1. PICK k : SetRequest(w, k) /\ UNCHANGED <<PermRows, context, pardoned>>
    BY <1>3 DEF Arrive, Create, Update, Delete, Grant, Bind, Register, Begin, LoadRequest
  <2> QED BY <1>2, <1>3, <2>1 DEF MayArrive, AtStep
<1>4. ASSUME NEW w \in Workers, CheckRequest(w) \/ RefuseRequest(w) \/ AbortRequest(w) PROVE ReachInv'
  <2>1. PICK k : SetRequest(w, k) /\ UNCHANGED <<PermRows, context, pardoned>>
    BY <1>4 DEF CheckRequest, RefuseRequest, AbortRequest
  <2>2. ~AtStep(w, "refresh") /\ ~AtStep(w, "affected")
    BY <1>4 DEF CheckRequest, RefuseRequest, AbortRequest, AtStep
  <2> QED BY <1>2, <2>1, <2>2
<1>5. ASSUME NEW w \in Workers, WriteRequest(w) PROVE ReachInv'
  BY <1>4, <1>5, CommitsKeepReach, AskAffectedKeepsReach, RefreshKeepsReach DEF WriteRequest
<1> QED BY <1>1, <1>3, <1>4, <1>5 DEF PermNext

LEMMA ReachIsConvergence == ASSUME PermInv, ReachInv PROVE ContextsConverge
<1> SUFFICES ASSUME UnderWay = {}, "reach" \notin pardoned, NEW u \in Users PROVE context[u] = Effective(u)
  BY DEF ContextsConverge
<1>1. \A w \in Workers : AtStep(w, "idle")
  BY DEF UnderWay
<1>2. \A w \in Workers : ~WillReach(w, u)
  BY <1>1 DEF WillReach, AtStep
<1> QED BY <1>2 DEF ReachInv

-----------------------------------------------------------------------------
(* Theorems about permissions *)

LEMMA PermInductive == Spec => [](PermInv /\ ForestInv /\ ReachInv)
<1>1. Init => PermInv /\ ForestInv /\ ReachInv
  <2>1. PermInit => ReachInv
    BY DEF PermInit, ReachInv
  <2> QED BY <2>1, PermInitHolds, ForestInit DEF Init
<1>2. PermInv /\ ForestInv /\ ReachInv /\ [Next]_vars => (PermInv /\ ForestInv /\ ReachInv)'
  <2>1. [Next]_vars => [PermNext]_permVars
    BY DEF Next, DirStep, PermStep, vars
  <2> QED BY <2>1, PermStepKeeps, ForestStep, ReachStep
<1> QED BY <1>1, <1>2, PTL DEF Spec

\* As long as no update or registration was crossed by a move, permissions hang
\* in trees whose roots hang nowhere (TreeIsAForest): the search below the
\* permission that is moved, the cascade of a deletion, the parents of a
\* registration (updatePermission, deletePermission, flattenPermissions).
THEOREM PermissionsStayAForest == Spec => []TreeIsAForest
<1>1. ForestInv => TreeIsAForest
  BY DEF ForestInv, TreeIsAForest, Tree
<1> QED BY <1>1, PermInductive, PTL

\* Unless excused, once the refreshes have run every cached context is what the
\* rows say (ContextsConverge): each commit refreshes the users it concerns, or
\* asks for them afterwards, before or after what others commit meanwhile.
THEOREM ContextsAreRefreshed == Spec => []ContextsConverge
<1>1. PermInv /\ ReachInv => ContextsConverge
  BY ReachIsConvergence
<1> QED BY <1>1, PermInductive, PTL

\* No commit gives a user a code that its author lacks, unless crossed by
\* another change than a move (CodesAreHandedDown): assignRolePermissions,
\* setUserRoles, and the enabling of a permission that is not reserved.
THEOREM CodesComeFromAbove == Spec => CodesAreHandedDown
<1>1. PermInv /\ [Next]_vars => [HandsCodesDown]_permVars
  <2>1. [Next]_vars => [PermNext]_permVars
    BY DEF Next, DirStep, PermStep, vars
  <2> QED BY <2>1, CodesStep
<1> QED BY <1>1, PermInductive, PTL DEF Spec, CodesAreHandedDown
=============================================================================

--------------------------- MODULE UserAccessProofs ---------------------------
(* Proofs about UserAccess, for any number of handlers and of changes. *)
EXTENDS UserAccess, TLAPS

LEMMA IdleType == Idle \in Request
BY MaxPermsAssumption DEF Idle, Request, Phase, Status, Context, NoContext, Row, NoRow

\* The local state of one handler is replaced by a well-typed one.
LEMMA BecomeType ==
  ASSUME req \in [Workers -> Request], NEW w \in Workers, NEW r \in Request, Become(w, r)
  PROVE  req' \in [Workers -> Request]
BY DEF Become

LEMMA CurrentType == ASSUME TypeOK PROVE Current \in Context
BY DEF TypeOK, Current, Context, Row

LEMMA ResolvedType ==
  ASSUME TypeOK, NEW w \in Workers, NEW c \in Context \cup {NoContext}, Resolved(w, c)
  PROVE  req' \in [Workers -> Request]
<1>1. req[w] \in Request
  BY DEF TypeOK
<1>2. [req[w] EXCEPT !.pc = "prefill", !.ctx = c] \in Request
  BY <1>1 DEF Request, Phase
<1> QED
  BY <1>2, IdleType, BecomeType DEF Resolved, TypeOK

LEMMA UnavailableType ==
  ASSUME TypeOK, NEW w \in Workers, Unavailable(w)
  PROVE  req' \in [Workers -> Request]
<1>1. req[w] \in Request
  BY DEF TypeOK
<1>2. [req[w] EXCEPT !.pc = "sign"] \in Request
  BY <1>1 DEF Request, Phase
<1> QED
  BY <1>2, IdleType, BecomeType DEF Unavailable, TypeOK

\* An administrator's transaction holds a row it has read.
LoadedRow ==
  \A w \in Workers : req[w].pc = "loaded" =>
    /\ req[w].loaded \in Row
    /\ req[w].for = "status" => req[w].ask \in Status

LEMMA TypeInductive == TypeOK /\ LoadedRow /\ [Next]_vars => TypeOK'
<1> SUFFICES ASSUME TypeOK, LoadedRow, [Next]_vars PROVE TypeOK'
  OBVIOUS
<1> USE MaxPermsAssumption
<1>1. ASSUME NEW w \in Workers, Read(w) PROVE TypeOK'
  <2>1. req[w] \in Request
    BY DEF TypeOK
  <2>2. CASE CheckPermission(w)
    <3>1. [Idle EXCEPT !.pc = "mark", !.for = "check"] \in Request
      BY IdleType DEF Request, Phase
    <3> QED BY <2>2, <3>1, BecomeType DEF CheckPermission, TypeOK
  <2>3. CASE StartIssuance(w)
    <3>1. (row.status # "ACTIVE" /\ ~Converging) \in BOOLEAN
      OBVIOUS
    <3>2. [Idle EXCEPT !.pc = "mark", !.for = "issue",
              !.barred = row.status # "ACTIVE" /\ ~Converging] \in Request
      BY IdleType, <3>1 DEF Request, Phase
    <3> QED BY <2>3, <3>2, BecomeType DEF StartIssuance, TypeOK
  <2>4. CASE MarkFound(w)
    BY <2>4, UnavailableType DEF MarkFound, TypeOK
  <2>5. CASE MarkAbsent(w)
    <3>1. [req[w] EXCEPT !.pc = "lookup"] \in Request
      BY <2>1 DEF Request, Phase
    <3> QED BY <2>5, <3>1, BecomeType DEF MarkAbsent, TypeOK
  <2>6. CASE CacheHit(w)
    BY <2>6, ResolvedType DEF CacheHit, TypeOK
  <2>7. CASE CacheMiss(w) \/ ReadFails(w)
    <3>1. [req[w] EXCEPT !.pc = "query"] \in Request
      BY <2>1 DEF Request, Phase
    <3> QED BY <2>7, <3>1, BecomeType DEF CacheMiss, ReadFails, TypeOK
  <2>8. CASE QueryContext(w)
    <3>1. [req[w] EXCEPT !.pc = "fill", !.ctx = Current] \in Request
      BY <2>1, CurrentType DEF Request, Phase
    <3> QED BY <2>8, <3>1, BecomeType DEF QueryContext, TypeOK
  <2>9. CASE QueryDenied(w)
    BY <2>9, IdleType, BecomeType DEF QueryDenied, TypeOK
  <2>10. CASE QueryFails(w)
    <3>1. mark' \in BOOLEAN
      BY <2>10 DEF QueryFails, TypeOK
    <3> QED BY <2>10, <3>1, UnavailableType DEF QueryFails, TypeOK
  <2>11. CASE FillCache(w) \/ FillFails(w)
    <3>1. req[w].ctx \in Context \cup {NoContext}
      BY <2>1 DEF Request
    <3>2. Resolved(w, req[w].ctx)
      BY <2>11 DEF FillCache, FillFails
    <3>3. req' \in [Workers -> Request]
      BY <3>1, <3>2, ResolvedType
    <3> QED BY <2>11, <3>1, <3>3 DEF FillCache, FillFails, TypeOK
  <2>13. CASE Prefill(w) \/ PrefillFails(w)
    <3>1. [req[w] EXCEPT !.pc = "sign"] \in Request
      BY <2>1 DEF Request, Phase
    <3>2. req[w].ctx \in Context \cup {NoContext}
      BY <2>1 DEF Request
    <3>3. req' \in [Workers -> Request]
      BY <2>13, <3>1, BecomeType DEF Prefill, PrefillFails, TypeOK
    <3> QED BY <2>13, <3>2, <3>3 DEF Prefill, PrefillFails, TypeOK
  <2>15. CASE IssueToken(w)
    BY <2>15, IdleType, BecomeType DEF IssueToken, TypeOK
  <2> QED
    BY <1>1, <2>2, <2>3, <2>4, <2>5, <2>6, <2>7, <2>8, <2>9, <2>10, <2>11,
       <2>13, <2>15 DEF Read
<1>2. ASSUME NEW w \in Workers, Write(w) PROVE TypeOK'
  <2>1. /\ req[w] \in Request
        /\ req[w].loaded \in Row \cup {NoRow}
        /\ req[w].ask \in Status \cup {"keep"}
    BY DEF TypeOK, Request
  <2>2. CASE \E new \in Status : LoadForStatus(w, new)
    <3>1. PICK new \in Status : LoadForStatus(w, new)
      BY <2>2
    <3>2. [Idle EXCEPT !.pc = "loaded", !.for = "status", !.loaded = row, !.ask = new]
             \in Request
      BY IdleType DEF Request, Phase, TypeOK
    <3> QED BY <3>1, <3>2, BecomeType DEF LoadForStatus, TypeOK
  <2>3. CASE \E ask \in Status \cup {"keep"} : LoadForEdit(w, ask)
    <3>1. PICK ask \in Status \cup {"keep"} : LoadForEdit(w, ask)
      BY <2>3
    <3>2. [Idle EXCEPT !.pc = "loaded", !.for = "edit", !.loaded = row, !.ask = ask]
             \in Request
      BY IdleType DEF Request, Phase, TypeOK
    <3> QED BY <3>1, <3>2, BecomeType DEF LoadForEdit, TypeOK
  <2>4. CASE CommitStatus(w)
    <3>1. req[w].ask \in Status
      BY <2>4 DEF CommitStatus, LoadedRow
    <3>2. row' \in Row
      BY <2>4, <3>1 DEF CommitStatus, TypeOK, Row
    <3> QED BY <2>4, <3>2, IdleType, BecomeType DEF CommitStatus, TypeOK
  <2>5. CASE CommitEdit(w)
    <3>1. req[w].loaded \in Row
      BY <2>5 DEF CommitEdit, LoadedRow
    <3>2. row' \in Row
      BY <2>1, <2>5, <3>1 DEF CommitEdit, Row
    <3>3. [Idle EXCEPT !.pc = "converge"] \in Request
      BY IdleType DEF Request, Phase, TypeOK
    <3> QED BY <2>5, <3>2, <3>3, BecomeType DEF CommitEdit, TypeOK
  <2>6. CASE \E new \in Password : SetPassword(w, new)
    <3>1. PICK new \in Password : SetPassword(w, new)
      BY <2>6
    <3>2. row' \in Row
      BY <3>1 DEF SetPassword, TypeOK, Row
    <3>3. [Idle EXCEPT !.pc = "converge"] \in Request
      BY IdleType DEF Request, Phase, TypeOK
    <3> QED BY <3>1, <3>2, <3>3, BecomeType DEF SetPassword, TypeOK
  <2>7. CASE ChangePermissions(w)
    <3>1. perms' \in 0 .. MaxPerms
      BY <2>7 DEF ChangePermissions, TypeOK
    <3>2. [Idle EXCEPT !.pc = "converge"] \in Request
      BY IdleType DEF Request, Phase
    <3> QED BY <2>7, <3>1, <3>2, BecomeType DEF ChangePermissions, TypeOK
  <2>8. StaleCarried \in BOOLEAN
    BY DEF StaleCarried
  <2>9. CASE DropEntry(w)
    <3>1. [req[w] EXCEPT !.pc = "mark", !.for = "refresh"] \in Request
      BY <2>1 DEF Request, Phase
    <3>2. req' \in [Workers -> Request]
      BY <2>9, <3>1, BecomeType DEF DropEntry, TypeOK
    <3> QED BY <2>8, <2>9, <3>2 DEF DropEntry, TypeOK
  <2>10. CASE DropFails(w)
    BY <2>10, IdleType, BecomeType DEF DropFails, TypeOK
  <2>11. CASE ClearCache(w)
    BY <2>8, <2>11 DEF ClearCache, TypeOK
  <2>12. CASE Crash(w)
    <3>1. req' \in [Workers -> Request]
      BY <2>12, IdleType, BecomeType DEF Crash, TypeOK
    <3> QED BY <2>12, <3>1 DEF Crash, TypeOK
  <2> QED
    BY <1>2, <2>2, <2>3, <2>4, <2>5, <2>6, <2>7, <2>9, <2>10, <2>11, <2>12 DEF Write
<1>3. CASE EntryExpires \/ MarkExpires
  BY <1>3 DEF EntryExpires, MarkExpires, TypeOK
<1>4. CASE UNCHANGED vars
  BY <1>4 DEF vars, TypeOK
<1> QED BY <1>1, <1>2, <1>3, <1>4 DEF Next

\* Loading a row is the only way to hold one.
LEMMA Unloaded ==
  ASSUME TypeOK, NEW w \in Workers, Read(w) \/ Write(w),
         ~ \E new \in Status : LoadForStatus(w, new),
         ~ \E ask \in Status \cup {"keep"} : LoadForEdit(w, ask)
  PROVE  /\ \A v \in Workers : v # w => req'[v] = req[v]
         /\ req'[w] = req[w] \/ req'[w].pc # "loaded"
<1>0. req \in [Workers -> Request] /\ req[w] \in Request
  BY DEF TypeOK
<1> USE <1>0 DEF Become, Idle, Request
<1>1. CASE CheckPermission(w)
  BY <1>1 DEF CheckPermission
<1>2. CASE StartIssuance(w)
  BY <1>2 DEF StartIssuance
<1>3. CASE MarkFound(w)
  BY <1>3 DEF MarkFound, Unavailable
<1>4. CASE MarkAbsent(w)
  BY <1>4 DEF MarkAbsent
<1>5. CASE CacheHit(w)
  BY <1>5 DEF CacheHit, Resolved
<1>6. CASE CacheMiss(w)
  BY <1>6 DEF CacheMiss
<1>7. CASE ReadFails(w)
  BY <1>7 DEF ReadFails
<1>8. CASE QueryContext(w)
  BY <1>8 DEF QueryContext
<1>9. CASE QueryDenied(w)
  BY <1>9 DEF QueryDenied
<1>10. CASE QueryFails(w)
  BY <1>10 DEF QueryFails, Unavailable
<1>11. CASE FillCache(w)
  BY <1>11 DEF FillCache, Resolved
<1>12. CASE FillFails(w)
  BY <1>12 DEF FillFails, Resolved
<1>13. CASE Prefill(w)
  BY <1>13 DEF Prefill
<1>14. CASE PrefillFails(w)
  BY <1>14 DEF PrefillFails
<1>15. CASE IssueToken(w)
  BY <1>15 DEF IssueToken
<1>16. CASE CommitStatus(w)
  BY <1>16 DEF CommitStatus
<1>17. CASE CommitEdit(w)
  BY <1>17 DEF CommitEdit
<1>18. CASE ChangePermissions(w)
  BY <1>18 DEF ChangePermissions
<1>19. CASE DropEntry(w)
  BY <1>19 DEF DropEntry
<1>20. CASE DropFails(w)
  BY <1>20 DEF DropFails
<1>21. CASE Crash(w)
  BY <1>21 DEF Crash
<1>22. CASE \E new \in Password : SetPassword(w, new)
  BY <1>22 DEF SetPassword
<1>23. CASE ClearCache(w)
  BY <1>23 DEF ClearCache
<1> QED
  BY <1>1, <1>2, <1>3, <1>4, <1>5, <1>6, <1>7, <1>8, <1>9, <1>10, <1>11,
     <1>12, <1>13, <1>14, <1>15, <1>16, <1>17, <1>18, <1>19, <1>20, <1>21,
     <1>22, <1>23
     DEF Read, Write

LEMMA LoadedInductive == TypeOK /\ LoadedRow /\ [Next]_vars => LoadedRow'
<1> SUFFICES ASSUME TypeOK, LoadedRow, [Next]_vars,
                    NEW v \in Workers, req'[v].pc = "loaded"
             PROVE  /\ req'[v].loaded \in Row
                    /\ req'[v].for = "status" => req'[v].ask \in Status
  BY DEF LoadedRow
<1>1. CASE req'[v] = req[v]
  BY <1>1 DEF LoadedRow
<1>2. CASE \E new \in Status : LoadForStatus(v, new)
  BY <1>2 DEF LoadForStatus, Become, Idle, TypeOK
<1>3. CASE \E ask \in Status \cup {"keep"} : LoadForEdit(v, ask)
  BY <1>3 DEF LoadForEdit, Become, Idle, TypeOK
<1>4. ASSUME NEW w \in Workers, Read(w) \/ Write(w), w # v
      PROVE  req'[v] = req[v]
  <2>1. CASE \E new \in Status : LoadForStatus(w, new)
    BY <1>4, <2>1 DEF LoadForStatus, Become, TypeOK
  <2>2. CASE \E ask \in Status \cup {"keep"} : LoadForEdit(w, ask)
    BY <1>4, <2>2 DEF LoadForEdit, Become, TypeOK
  <2> QED BY <1>4, <2>1, <2>2, Unloaded
<1>5. CASE Read(v) \/ Write(v)
  BY <1>1, <1>2, <1>3, <1>5, Unloaded
<1>6. CASE UNCHANGED req
  BY <1>1, <1>6
<1>7. \/ \E w \in Workers : Read(w) \/ Write(w)
      \/ UNCHANGED req
  BY DEF Next, vars, EntryExpires, MarkExpires
<1>8. ASSUME NEW w \in Workers, Read(w) \/ Write(w), w # v
      PROVE  /\ req'[v].loaded \in Row
             /\ req'[v].for = "status" => req'[v].ask \in Status
  BY <1>1, <1>4, <1>8
<1> QED
  BY <1>5, <1>6, <1>7, <1>8

LEMMA InitType == Init => TypeOK /\ LoadedRow
<1> SUFFICES ASSUME Init PROVE TypeOK /\ LoadedRow
  OBVIOUS
<1>1. req \in [Workers -> Request]
  BY IdleType DEF Init
<1>2. row \in Row /\ perms \in 0 .. MaxPerms
  BY MaxPermsAssumption DEF Init, Row, Status, Password
<1>3. LoadedRow
  BY DEF Init, LoadedRow, Idle
<1> QED
  BY <1>1, <1>2, <1>3 DEF Init, TypeOK

\* The row, the tables, the cache and every handler keep their types: an
\* edit that names no status never writes one that is not a status.
THEOREM TypeCorrect == Spec => []TypeOK
<1>1. TypeOK /\ LoadedRow /\ [Next]_vars => (TypeOK /\ LoadedRow)'
  BY TypeInductive, LoadedInductive
<1> QED
  BY <1>1, InitType, PTL DEF Spec

-----------------------------------------------------------------------------
\* A step of one handler that changes neither the row nor the permissions, and
\* after which it carries nothing outdated that was not there before.
LEMMA NothingNewCarried ==
  ASSUME NEW w \in Workers,
         UNCHANGED <<row, perms>>,
         \A v \in Workers : v # w => req'[v] = req[v],
         \/ req'[w].pc \notin {"fill", "prefill"}
         \/ ~ Stale(req'[w].ctx)
         \/ req'[w].ctx = cache
         \/ req[w].pc \in {"fill", "prefill"} /\ req'[w].ctx = req[w].ctx
  PROVE  /\ StaleCarried' => StaleCarried \/ Stale(cache)
         /\ Converging /\ req[w].pc # "converge" => Converging'
<1>1. ASSUME StaleCarried' PROVE StaleCarried \/ Stale(cache)
  <2>1. PICK v \in Workers : req'[v].pc \in {"fill", "prefill"} /\ Stale(req[v].ctx)'
    BY <1>1 DEF StaleCarried
  <2>2. Stale(req'[v].ctx)
    BY <2>1 DEF Stale, Current
  <2>3. CASE v # w
    BY <2>1, <2>2, <2>3 DEF StaleCarried
  <2>4. CASE v = w
    BY <2>1, <2>2, <2>4 DEF StaleCarried
  <2> QED BY <2>3, <2>4
<1>2. ASSUME Converging, req[w].pc # "converge" PROVE Converging'
  BY <1>2 DEF Converging
<1> QED BY <1>1, <1>2

LEMMA ReadStep ==
  ASSUME TypeOK, StaleOnlyAfterOverlap, NEW w \in Workers, Read(w)
  PROVE  StaleOnlyAfterOverlap'
<1>1. /\ UNCHANGED <<row, perms, tainted>>
      /\ req[w].pc # "converge"
      /\ \A v \in Workers : v # w => req'[v] = req[v]
      /\ \/ req'[w].pc \notin {"fill", "prefill"}
         \/ ~ Stale(req'[w].ctx)
         \/ req'[w].ctx = cache
         \/ req[w].pc \in {"fill", "prefill"} /\ req'[w].ctx = req[w].ctx
      /\ \/ cache' = cache
         \/ req[w].pc \in {"fill", "prefill"} /\ cache' = req[w].ctx
  <2> USE DEF Become, Idle, TypeOK, Request
  <2>0. req[w] \in Request
    OBVIOUS
  <2>1. CASE CheckPermission(w)
    BY <2>0, <2>1 DEF CheckPermission
  <2>1a. CASE StartIssuance(w)
    BY <2>0, <2>1a DEF StartIssuance
  <2>2. CASE MarkFound(w) \/ MarkAbsent(w)
    BY <2>0, <2>2 DEF MarkFound, MarkAbsent, Unavailable
  <2>3. CASE CacheHit(w)
    BY <2>0, <2>3 DEF CacheHit, Resolved
  <2>4. CASE CacheMiss(w) \/ ReadFails(w)
    BY <2>0, <2>4 DEF CacheMiss, ReadFails
  <2>5. CASE QueryContext(w)
    <3>1. ~ Stale(Current)
      BY <2>5 DEF QueryContext, Stale
    <3>2. req'[w].ctx = Current
      BY <2>0, <2>5 DEF QueryContext
    <3> QED BY <2>0, <2>5, <3>1, <3>2 DEF QueryContext
  <2>6. CASE QueryDenied(w)
    BY <2>0, <2>6 DEF QueryDenied
  <2>6a. CASE QueryFails(w)
    BY <2>0, <2>6a DEF QueryFails, Unavailable
  <2>7. CASE FillCache(w)
    BY <2>0, <2>7 DEF FillCache, Resolved
  <2>7a. CASE FillFails(w)
    BY <2>0, <2>7a DEF FillFails, Resolved
  <2>8. CASE Prefill(w) \/ PrefillFails(w)
    BY <2>0, <2>8 DEF Prefill, PrefillFails
  <2>9. CASE IssueToken(w)
    BY <2>0, <2>9 DEF IssueToken
  <2> QED
    BY <2>1, <2>1a, <2>2, <2>3, <2>4, <2>5, <2>6, <2>6a, <2>7, <2>7a, <2>8, <2>9 DEF Read
<1>2. /\ StaleCarried' => StaleCarried \/ Stale(cache)
      /\ Converging => Converging'
  BY <1>1, NothingNewCarried
<1>3. Stale(cache)' => Stale(cache) \/ StaleCarried
  BY <1>1 DEF Stale, Current, StaleCarried
<1> QED
  BY <1>1, <1>2, <1>3 DEF StaleOnlyAfterOverlap

LEMMA WriteStep ==
  ASSUME TypeOK, StaleOnlyAfterOverlap, NEW w \in Workers, Write(w)
  PROVE  StaleOnlyAfterOverlap'
<1> USE DEF Become
<1>0. req \in [Workers -> Request] /\ req[w] \in Request
  BY DEF TypeOK
<1>1. CASE \/ \E new \in Status : LoadForStatus(w, new)
           \/ \E ask \in Status \cup {"keep"} : LoadForEdit(w, ask)
  <2>1. /\ UNCHANGED <<row, perms, cache, tainted>>
        /\ req[w].pc # "converge"
        /\ \A v \in Workers : v # w => req'[v] = req[v]
        /\ req'[w].pc \notin {"fill", "prefill"}
    <3>1. CASE \E new \in Status : LoadForStatus(w, new)
      BY <1>0, <3>1 DEF LoadForStatus, Idle, Request
    <3>2. CASE \E ask \in Status \cup {"keep"} : LoadForEdit(w, ask)
      BY <1>0, <3>2 DEF LoadForEdit, Idle, Request
    <3> QED BY <1>1, <3>1, <3>2
  <2>2. /\ StaleCarried' => StaleCarried \/ Stale(cache)
        /\ Converging => Converging'
    BY <2>1, NothingNewCarried
  <2>3. Stale(cache)' <=> Stale(cache)
    BY <2>1 DEF Stale, Current
  <2> QED BY <2>1, <2>2, <2>3 DEF StaleOnlyAfterOverlap
<1>2. CASE CommitStatus(w) \/ DropFails(w)
  BY <1>2 DEF CommitStatus, DropFails, StaleOnlyAfterOverlap
<1>3. CASE \/ CommitEdit(w) \/ ChangePermissions(w)
           \/ \E new \in Password : SetPassword(w, new)
  <2>1. req'[w].pc = "converge"
    <3>1. CASE CommitEdit(w)
      BY <1>0, <3>1 DEF CommitEdit, Idle
    <3>2. CASE ChangePermissions(w)
      BY <1>0, <3>2 DEF ChangePermissions, Idle
    <3>3. CASE \E new \in Password : SetPassword(w, new)
      BY <1>0, <3>3 DEF SetPassword, Idle
    <3> QED BY <1>3, <3>1, <3>2, <3>3
  <2> QED BY <2>1 DEF StaleOnlyAfterOverlap, Converging
<1>4. CASE DropEntry(w) \/ ClearCache(w)
  <2>1. /\ UNCHANGED <<row, perms>>
        /\ cache' = NoContext
        /\ tainted' = StaleCarried
        /\ \A v \in Workers : v # w => req'[v] = req[v]
        /\ req'[w].pc \notin {"fill", "prefill"} \/ req'[w] = req[w]
    BY <1>0, <1>4 DEF DropEntry, ClearCache, Idle, Request
  <2>2. ASSUME StaleCarried' PROVE StaleCarried
    <3>1. PICK v \in Workers : req'[v].pc \in {"fill", "prefill"} /\ Stale(req[v].ctx)'
      BY <2>2 DEF StaleCarried
    <3>2. Stale(req'[v].ctx)
      BY <2>1, <3>1 DEF Stale, Current
    <3>3. req'[v] = req[v]
      BY <2>1, <3>1
    <3> QED BY <3>1, <3>2, <3>3 DEF StaleCarried
  <2>3. ~ Stale(cache)'
    BY <2>1 DEF Stale
  <2> QED BY <2>1, <2>2, <2>3 DEF StaleOnlyAfterOverlap
<1>5. CASE Crash(w)
  <2>1. /\ UNCHANGED <<row, perms, cache>>
        /\ tainted' = (tainted \/ req[w].pc = "converge")
        /\ \A v \in Workers : v # w => req'[v] = req[v]
        /\ req'[w].pc = "idle"
    BY <1>0, <1>5 DEF Crash, Idle, Request
  <2>2. /\ StaleCarried' => StaleCarried \/ Stale(cache)
        /\ Converging /\ req[w].pc # "converge" => Converging'
    BY <2>1, NothingNewCarried
  <2>3. Stale(cache)' <=> Stale(cache)
    BY <2>1 DEF Stale, Current
  <2> QED BY <2>1, <2>2, <2>3 DEF StaleOnlyAfterOverlap
<1> QED
  BY <1>1, <1>2, <1>3, <1>4, <1>5 DEF Write

\* An outdated permission context, cached or about to be cached, is always
\* due to a change still converging, to a change without convergence, or to
\* a fill that overlapped one; the convergence that follows removes it.
THEOREM StaleHasCause == Spec => []StaleOnlyAfterOverlap
<1>1. Init => StaleOnlyAfterOverlap
  BY DEF Init, StaleOnlyAfterOverlap, Stale, StaleCarried, Idle
<1>2. TypeOK /\ StaleOnlyAfterOverlap /\ [Next]_vars => StaleOnlyAfterOverlap'
  <2> SUFFICES ASSUME TypeOK, StaleOnlyAfterOverlap, [Next]_vars
               PROVE  StaleOnlyAfterOverlap'
    OBVIOUS
  <2>1. CASE \E w \in Workers : Read(w) \/ Write(w)
    BY <2>1, ReadStep, WriteStep
  <2>2. CASE EntryExpires
    BY <2>2 DEF EntryExpires, StaleOnlyAfterOverlap, Stale, Current, StaleCarried, Converging
  <2>3. CASE MarkExpires
    BY <2>3 DEF MarkExpires, StaleOnlyAfterOverlap, Stale, Current, StaleCarried, Converging
  <2>4. CASE UNCHANGED vars
    BY <2>4 DEF vars, StaleOnlyAfterOverlap, Stale, Current, StaleCarried, Converging
  <2> QED BY <2>1, <2>2, <2>3, <2>4 DEF Next
<1> QED
  BY <1>1, <1>2, TypeCorrect, PTL DEF Spec
=============================================================================

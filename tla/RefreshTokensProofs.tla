------------------------ MODULE RefreshTokensProofs ------------------------
(***************************************************************************)
(* Proofs about RefreshTokens, for every set of tokens, codes, users,      *)
(* clients and handlers.                                                   *)
(*                                                                         *)
(* Well-formedness (TypeOK with RowsExist) is inductive by itself: rows    *)
(* are never deleted, so whatever a handler or a lock refers to exists.    *)
(* The single-use invariants come on top: a claimed code has no row yet    *)
(* and one claimant (ClaimExclusive), and a rotation that has not committed*)
(* holds the lock of a live row and reserves an absent one                 *)
(* (RotationHoldsLive, ReservedOnce).  They give OneLivePerGrant.          *)
(* Last come the bulk revocations: a handler has locks only on rows of its *)
(* own statement (SweepsOwnRows), and those of a replay are of one family  *)
(* (ReplaysSweepFamily).                                                   *)
(***************************************************************************)
EXTENDS RefreshTokens, TLAPS

\* Whatever a lock, a snapshot, a client or a handler names is in the table.
RowsExist ==
  /\ \A t \in delivered : Present(t)
  /\ \A t \in Tokens : lock[t] # None => Present(t)
  /\ \A w \in Workers : \A t \in req[w].snap : Present(t)
  /\ \A w \in Workers :
       req[w].pc \in {"issuing", "compensating", "replying"} =>
         req[w].new \in Tokens /\ Present(req[w].new)
  /\ \A w \in Workers : req[w].pc = "claimed" => req[w].code \in Codes
  /\ \A w \in Workers : req[w].pc = "rotating" =>
       /\ req[w].tok \in Tokens /\ Present(req[w].tok)
       /\ req[w].new \in Tokens

WellFormed == TypeOK /\ RowsExist

\* No two handlers have reserved the same new row.
ReservedOnce ==
  \A v, w \in Workers : req[v].new = req[w].new /\ req[w].new # None => v = w

\* An uncommitted rotation owns the lock of a live row; its new row is absent.
RotationHoldsLive ==
  \A w \in Workers : req[w].pc = "rotating" =>
    /\ lock[req[w].tok] = w
    /\ Live(req[w].tok)
    /\ ~Present(req[w].new)

\* Only used codes have rows.
RowsComeFromUsedCodes ==
  \A t \in Tokens : Present(t) => codeState[rt[t].grant] = "used"

\* A claimed code has one claimant and no row yet.
ClaimExclusive ==
  \A w \in Workers : req[w].pc = "claimed" =>
    /\ codeState[req[w].code] = "used"
    /\ \A t \in Tokens : Present(t) => rt[t].grant # req[w].code
    /\ \A v \in Workers :
         req[v].pc = "claimed" /\ req[v].code = req[w].code => v = w

SingleUse ==
  /\ ReservedOnce
  /\ RotationHoldsLive
  /\ RowsComeFromUsedCodes
  /\ ClaimExclusive
  /\ OneLivePerGrant

IInv == WellFormed /\ SingleUse

-----------------------------------------------------------------------------
(* Lemmas about rows and handler records *)

LEMMA NoneIsNoElement ==
  /\ None \notin Tokens
  /\ None \notin Codes
  /\ None \notin Users
  /\ None \notin Clients
  /\ None \notin Workers
BY ConstantsAssumption

LEMMA IdleIsARequest == Idle \in Request
BY DEF Idle, Request, Phase, NoScope, Scope

\* Revoking rows of the table keeps the type, the identity of each row and
\* the set of rows, and makes exactly the chosen rows revoked.
LEMMA RevokeRowsType ==
  ASSUME rt \in [Tokens -> Row \cup {NoRow}],
         NEW S \in SUBSET Tokens, \A t \in S : Present(t)
  PROVE  /\ RevokeRows(S) \in [Tokens -> Row \cup {NoRow}]
         /\ \A t \in Tokens :
              /\ RevokeRows(S)[t].user = rt[t].user
              /\ RevokeRows(S)[t].client = rt[t].client
              /\ RevokeRows(S)[t].grant = rt[t].grant
              /\ RevokeRows(S)[t].status = IF t \in S THEN "revoked" ELSE rt[t].status
<1> SUFFICES ASSUME NEW t \in Tokens
             PROVE  /\ RevokeRows(S)[t] \in Row \cup {NoRow}
                    /\ RevokeRows(S)[t].user = rt[t].user
                    /\ RevokeRows(S)[t].client = rt[t].client
                    /\ RevokeRows(S)[t].grant = rt[t].grant
                    /\ RevokeRows(S)[t].status = IF t \in S THEN "revoked" ELSE rt[t].status
  BY DEF RevokeRows
<1>1. CASE t \in S
  <2>1. rt[t] \in Row
    BY <1>1 DEF Present, NoRow
  <2>2. RevokeRows(S)[t] = [rt[t] EXCEPT !.status = "revoked"]
    BY <1>1 DEF RevokeRows
  <2>3. QED
    BY <1>1, <2>1, <2>2 DEF Row
<1>2. CASE t \notin S
  BY <1>2 DEF RevokeRows
<1>3. QED
  BY <1>1, <1>2

LEMMA SweepRequestType ==
  ASSUME TypeOK, NEW t \in Tokens \cup {None}, NEW s \in Scope,
         NEW ids \in SUBSET Tokens
  PROVE  [Idle EXCEPT !.pc = "sweep", !.tok = t, !.scope = s,
                      !.snap = {x \in ids : Matches(x, s)}] \in Request
BY DEF Idle, Request, Phase, NoScope, Scope

-----------------------------------------------------------------------------
(* Well-formedness *)

LEMMA InitWellFormed == Init => WellFormed
BY NoneIsNoElement, IdleIsARequest
   DEF Init, WellFormed, TypeOK, RowsExist, Row, NoRow, Idle, NoScope

\* The step of a handler that leaves the tables and the locks alone and moves
\* to a request whose row, if it names one, exists.
LEMMA LocalStepWellFormed ==
  ASSUME WellFormed, NEW w \in Workers, NEW r \in Request, Become(w, r),
         r.pc \notin {"rotating", "claimed"} \/ r = req[w],
         \A t \in r.snap : Present(t),
         r.pc \in {"issuing", "compensating", "replying"} =>
           r.new \in Tokens /\ Present(r.new),
         UNCHANGED <<rt, lock, codeState, expired, codeExpired>>,
         delivered' \subseteq Tokens, \A t \in delivered' : Present(t),
         lost' \subseteq Tokens
  PROVE  WellFormed'
BY DEF WellFormed, TypeOK, RowsExist, Become, Present

\* Revoking rows that are in the table, with a handler returning to idle and
\* locks only released, keeps well-formedness.
LEMMA RevokeStepWellFormed ==
  ASSUME WellFormed, NEW S \in SUBSET Tokens, \A t \in S : Present(t),
         rt' = RevokeRows(S),
         lock' \in [Tokens -> Workers \cup {None}],
         \A t \in Tokens : lock'[t] \in {lock[t], None},
         req' \in [Workers -> Request],
         \A w \in Workers : req'[w] \in {req[w], Idle},
         UNCHANGED <<expired, codeState, codeExpired, delivered, lost>>
  PROVE  WellFormed'
<1>1. /\ RevokeRows(S) \in [Tokens -> Row \cup {NoRow}]
      /\ \A t \in Tokens : Present(t) <=> RevokeRows(S)[t].status # "absent"
  BY RevokeRowsType DEF WellFormed, TypeOK, Present
<1>2. TypeOK'
  BY <1>1 DEF WellFormed, TypeOK
<1>3. \A t \in Tokens : Present(t)' <=> Present(t)
  BY <1>1 DEF Present
<1>4. ASSUME NEW w \in Workers
      PROVE  /\ \A t \in req'[w].snap : Present(t)'
             /\ req'[w].pc \in {"issuing", "compensating", "replying"} =>
                  req'[w].new \in Tokens /\ Present(req[w].new)' /\ req'[w].new = req[w].new
             /\ req'[w].pc = "claimed" => req'[w].code \in Codes
             /\ req'[w].pc = "rotating" =>
                  /\ req'[w].tok \in Tokens /\ Present(req[w].tok)' /\ req'[w].tok = req[w].tok
                  /\ req'[w].new \in Tokens
  <2>1. CASE req'[w] = req[w]
    <3>1. req[w].snap \subseteq Tokens
      BY DEF WellFormed, TypeOK, Request
    <3>2. QED
      BY <2>1, <3>1, <1>3 DEF WellFormed, RowsExist
  <2>2. CASE req'[w] = Idle
    BY <2>2 DEF Idle
  <2>3. QED
    BY <2>1, <2>2
<1>5. /\ \A t \in delivered' : Present(t)'
      /\ \A t \in Tokens : lock'[t] # None => Present(t)'
  BY <1>3 DEF WellFormed, TypeOK, RowsExist
<1>6. RowsExist'
  BY <1>4, <1>5 DEF RowsExist, Present
<1>7. QED
  BY <1>2, <1>6 DEF WellFormed

\* A new live row t, for a handler that goes on with it, keeps
\* well-formedness; base is the table before the row is put in.
LEMMA InsertStepWellFormed ==
  ASSUME WellFormed, NEW w \in Workers, NEW n \in Tokens, NEW row \in Row,
         NEW base \in [Tokens -> Row \cup {NoRow}],
         \A t \in Tokens : Present(t) => base[t].status # "absent",
         rt' = [base EXCEPT ![n] = row],
         lock' \in [Tokens -> Workers \cup {None}],
         \A t \in Tokens : lock'[t] \in {lock[t], None},
         NEW pc \in {"issuing", "replying"},
         Become(w, [Idle EXCEPT !.pc = pc, !.new = n]),
         UNCHANGED <<expired, codeState, codeExpired, delivered, lost>>
  PROVE  WellFormed'
<1>1. [Idle EXCEPT !.pc = pc, !.new = n] \in Request
  BY DEF Idle, NoScope, Request, Phase, Scope
<1>2. TypeOK'
  BY <1>1 DEF WellFormed, TypeOK, Become
<1>3. \A t \in Tokens : Present(t) => Present(t)'
  BY DEF Present, Row
<1>4. Present(n)'
  BY DEF Present, Row
<1>5. ASSUME NEW v \in Workers
      PROVE  /\ \A t \in req'[v].snap : Present(t)'
             /\ req'[v].pc \in {"issuing", "compensating", "replying"} =>
                  req'[v].new \in Tokens /\ rt'[req'[v].new].status # "absent"
             /\ req'[v].pc = "claimed" => req'[v].code \in Codes
             /\ req'[v].pc = "rotating" =>
                  /\ req'[v].tok \in Tokens /\ rt'[req'[v].tok].status # "absent"
                  /\ req'[v].new \in Tokens
  <2>1. CASE v = w
    <3>1. req'[v] = [Idle EXCEPT !.pc = pc, !.new = n]
      BY <2>1 DEF Become, WellFormed, TypeOK
    <3>2. QED
      BY <3>1, <1>4 DEF Idle, Present
  <2>2. CASE v # w
    <3>1. req'[v] = req[v]
      BY <2>2 DEF Become, WellFormed, TypeOK
    <3>2. req[v].snap \subseteq Tokens
      BY DEF WellFormed, TypeOK, Request
    <3>3. QED
      BY <3>1, <3>2, <1>3 DEF WellFormed, RowsExist, Present
  <2>3. QED
    BY <2>1, <2>2
<1>6. /\ \A t \in delivered' : Present(t)'
      /\ \A t \in Tokens : lock'[t] # None => Present(t)'
  BY <1>3 DEF WellFormed, TypeOK, RowsExist
<1>7. RowsExist'
  BY <1>5, <1>6 DEF RowsExist, Present
<1>8. QED
  BY <1>2, <1>7 DEF WellFormed

\* Starting a bulk revocation keeps well-formedness, whether or not the
\* handler has locked an existing row first.
LEMMA StartSweepWellFormed ==
  ASSUME WellFormed, NEW w \in Workers, NEW t \in Tokens \cup {None},
         NEW s \in Scope, NEW ids \in SUBSET Tokens,
         StartSweep(w, t, s, ids),
         lock' \in [Tokens -> Workers \cup {None}],
         \A x \in Tokens : lock'[x] # None => lock[x] # None \/ Present(x),
         UNCHANGED <<rt, expired, codeState, codeExpired, delivered, lost>>
  PROVE  WellFormed'
<1> DEFINE r == [Idle EXCEPT !.pc = "sweep", !.tok = t, !.scope = s,
                             !.snap = {x \in ids : Matches(x, s)}]
<1>1. r \in Request
  BY SweepRequestType DEF WellFormed
<1>2. r.pc = "sweep" /\ \A x \in r.snap : Present(x)
  BY DEF Idle, Matches
<1>3. req' = [req EXCEPT ![w] = r]
  BY DEF StartSweep, Become
<1> HIDE DEF r
<1>4. QED
  BY <1>1, <1>2, <1>3 DEF WellFormed, TypeOK, RowsExist, Present

LEMMA WellFormedStep == WellFormed /\ [Next]_vars => WellFormed'
<1> SUFFICES ASSUME WellFormed, [Next]_vars PROVE WellFormed'
  OBVIOUS
<1> USE NoneIsNoElement, IdleIsARequest
<1>1. ASSUME NEW w \in Workers, NEW c \in Codes, ClaimCode(w, c)
      PROVE  WellFormed'
  <2>1. [Idle EXCEPT !.pc = "claimed", !.code = c] \in Request
    BY DEF Idle, NoScope, Request, Phase, Scope
  <2>2. QED
    BY <1>1, <2>1 DEF ClaimCode, WellFormed, TypeOK, RowsExist, Become, Idle, Present
<1>2. ASSUME NEW w \in Workers, NEW c \in Codes, RedeemReplay(w, c)
      PROVE  WellFormed'
  <2> DEFINE s == [user |-> CodeUser[c], client |-> CodeClient[c]]
  <2>1. s \in Scope
    BY ConstantsAssumption DEF Scope
  <2>2. QED
    BY <1>2, <2>1, StartSweepWellFormed DEF RedeemReplay, WellFormed, TypeOK
<1>3. ASSUME NEW w \in Workers, RedeemWithoutToken(w)
      PROVE  WellFormed'
  BY <1>3, LocalStepWellFormed DEF RedeemWithoutToken, WellFormed, TypeOK, RowsExist, Idle
<1>4. ASSUME NEW w \in Workers, NEW n \in Tokens, IssueRefreshToken(w, n)
      PROVE  WellFormed'
  <2> DEFINE c == req[w].code
             row == [status |-> "live", user |-> CodeUser[c],
                     client |-> CodeClient[c], grant |-> c]
  <2>1. row \in Row
    BY <1>4, ConstantsAssumption DEF IssueRefreshToken, WellFormed, RowsExist, Row
  <2>2. QED
    BY <1>4, <2>1, InsertStepWellFormed
       DEF IssueRefreshToken, WellFormed, TypeOK, Present
<1>5. ASSUME NEW w \in Workers, RedeemReply(w)
      PROVE  WellFormed'
  BY <1>5 DEF RedeemReply, WellFormed, TypeOK, RowsExist, Idle, Become, Present
<1>6. ASSUME NEW w \in Workers, RedeemReplyLost(w)
      PROVE  WellFormed'
  BY <1>6 DEF RedeemReplyLost, WellFormed, TypeOK, RowsExist, Idle, Become, Present
<1>7. ASSUME NEW w \in Workers, NEW u \in Users, RevokeUser(w, u)
      PROVE  WellFormed'
  <2> DEFINE s == [user |-> u, client |-> None]
  <2>1. s \in Scope
    BY DEF Scope
  <2>2. QED
    BY <1>7, <2>1, StartSweepWellFormed DEF RevokeUser, WellFormed, TypeOK
<1>8. ASSUME NEW w \in Workers, NEW cl \in Clients, NEW ids \in SUBSET Tokens,
             RevokeClient(w, cl, ids)
      PROVE  WellFormed'
  <2> DEFINE s == [user |-> None, client |-> cl]
  <2>1. s \in Scope
    BY DEF Scope
  <2>2. QED
    BY <1>8, <2>1, StartSweepWellFormed DEF RevokeClient, WellFormed, TypeOK
<1>9. ASSUME NEW w \in Workers, NEW t \in Tokens, SweepRow(w, t)
      PROVE  WellFormed'
  BY <1>9 DEF SweepRow, WellFormed, TypeOK, RowsExist, Present
<1>10. ASSUME NEW w \in Workers, SweepCommit(w)
       PROVE  WellFormed'
  BY <1>10, RevokeStepWellFormed
     DEF SweepCommit, LockedBy, Unlock, Become, WellFormed, TypeOK, RowsExist
<1>11. ASSUME NEW w \in Workers, TxAbort(w)
       PROVE  WellFormed'
  BY <1>11 DEF TxAbort, Unlock, Become, WellFormed, TypeOK, RowsExist, Idle, Present
<1>12. ASSUME NEW t \in Tokens, RevokeOne(t)
       PROVE  WellFormed'
  <2>1. {t} \in SUBSET Tokens /\ Present(t)
    BY <1>12 DEF RevokeOne, Live, Present
  <2>2. /\ lock' \in [Tokens -> Workers \cup {None}] /\ lock' = lock
        /\ req' \in [Workers -> Request] /\ req' = req
    BY <1>12 DEF RevokeOne, WellFormed, TypeOK
  <2>3. QED
    BY <1>12, <2>1, <2>2, RevokeStepWellFormed DEF RevokeOne
<1>13. ASSUME NEW w \in Workers, NEW t \in Tokens, NEW cl \in Clients,
              RotateReuse(w, t, cl)
       PROVE  WellFormed'
  <2>1. FamilyOf(t) \in Scope
    BY <1>13 DEF FamilyOf, Scope, WellFormed, TypeOK, Row, NoRow
  <2>2. QED
    BY <1>13, <2>1, StartSweepWellFormed DEF RotateReuse, WellFormed, TypeOK, RowsExist
<1>14. ASSUME NEW w \in Workers, NEW t \in Tokens, NEW n \in Tokens,
              RotateReplace(w, t, n)
       PROVE  WellFormed'
  <2>1. [Idle EXCEPT !.pc = "rotating", !.tok = t, !.new = n] \in Request
    BY DEF Idle, NoScope, Request, Phase, Scope
  <2>2. QED
    BY <1>14, <2>1
       DEF RotateReplace, WellFormed, TypeOK, RowsExist, Become, Idle, Present, Live
<1>15. ASSUME NEW w \in Workers, RotateCommit(w)
       PROVE  WellFormed'
  <2> DEFINE old == req[w].tok
             row == [rt[old] EXCEPT !.status = "live"]
  <2>1. old \in Tokens /\ Present(old) /\ req[w].new \in Tokens
    BY <1>15 DEF RotateCommit, WellFormed, RowsExist
  <2>2. /\ RevokeRows({old}) \in [Tokens -> Row \cup {NoRow}]
        /\ \A t \in Tokens : Present(t) => RevokeRows({old})[t].status # "absent"
    BY <2>1, RevokeRowsType DEF WellFormed, TypeOK, Present
  <2>3. row \in Row
    BY <2>1 DEF WellFormed, TypeOK, Present, Row, NoRow
  <2>4. /\ Unlock(w) \in [Tokens -> Workers \cup {None}]
        /\ \A t \in Tokens : Unlock(w)[t] \in {lock[t], None}
    BY DEF Unlock, WellFormed, TypeOK
  <2>5. QED
    BY <1>15, <2>1, <2>2, <2>3, <2>4, InsertStepWellFormed DEF RotateCommit
<1>16. ASSUME NEW w \in Workers, RotateReply(w)
       PROVE  WellFormed'
  BY <1>16 DEF RotateReply, WellFormed, TypeOK, RowsExist, Idle, Become, Present
<1>17. ASSUME NEW w \in Workers, RotateReplyLost(w)
       PROVE  WellFormed'
  BY <1>17 DEF RotateReplyLost, WellFormed, TypeOK, RowsExist, Idle, Become, Present
<1>18. ASSUME NEW w \in Workers, IssuanceFails(w)
       PROVE  WellFormed'
  <2>1. [req[w] EXCEPT !.pc = "compensating"] \in Request
    BY DEF WellFormed, TypeOK, Request, Phase
  <2>2. QED
    BY <1>18, <2>1 DEF IssuanceFails, WellFormed, TypeOK, RowsExist, Become, Present, Request
<1>19. ASSUME NEW w \in Workers, Compensate(w)
       PROVE  WellFormed'
  <2> DEFINE n == req[w].new
  <2>1. {n} \in SUBSET Tokens /\ Present(n)
    BY <1>19 DEF Compensate, WellFormed, RowsExist
  <2>2. /\ lock' \in [Tokens -> Workers \cup {None}] /\ lock' = lock
        /\ req' \in [Workers -> Request]
        /\ \A v \in Workers : req'[v] \in {req[v], Idle}
    BY <1>19 DEF Compensate, Become, WellFormed, TypeOK
  <2>3. QED
    BY <1>19, <2>1, <2>2, RevokeStepWellFormed DEF Compensate
<1>20. ASSUME NEW w \in Workers, CompensateFails(w)
       PROVE  WellFormed'
  BY <1>20 DEF CompensateFails, WellFormed, TypeOK, RowsExist, Idle, Become, Present
<1>21. ASSUME NEW t \in Tokens, TokenExpires(t)
       PROVE  WellFormed'
  BY <1>21 DEF TokenExpires, WellFormed, TypeOK, RowsExist, Present
<1>22. ASSUME NEW c \in Codes, CodeExpires(c)
       PROVE  WellFormed'
  BY <1>22 DEF CodeExpires, WellFormed, TypeOK, RowsExist, Present
<1>23. CASE UNCHANGED vars
  BY <1>23 DEF vars, WellFormed, TypeOK, RowsExist, Present
<1>24. QED
  BY <1>1, <1>2, <1>3, <1>4, <1>5, <1>6, <1>7, <1>8, <1>9, <1>10, <1>11, <1>12,
     <1>13, <1>14, <1>15, <1>16, <1>17, <1>18, <1>19, <1>20, <1>21, <1>22, <1>23
     DEF Next, Redemption, Revocation, Rotation

\* The tables, the locks and the handlers keep their types, and nothing
\* refers to a row that does not exist.
THEOREM TypeCorrect == Spec => []TypeOK
<1>1. Spec => []WellFormed
  BY InitWellFormed, WellFormedStep, PTL DEF Spec
<1>2. WellFormed => TypeOK
  BY DEF WellFormed
<1>3. QED
  BY <1>1, <1>2, PTL

-----------------------------------------------------------------------------
(* One live token per grant *)

LEMMA InitSingleUse == Init => SingleUse
BY NoneIsNoElement
   DEF Init, SingleUse, ReservedOnce, RotationHoldsLive, RowsComeFromUsedCodes,
       ClaimExclusive, OneLivePerGrant, LiveOf, Live, Present, Idle, NoRow

\* A step that neither inserts a row nor moves a handler into "rotating" or
\* "claimed", that revokes only rows no rotation holds, and that takes a row
\* from no rotation, keeps the single-use invariants.
LEMMA QuietStepSingleUse ==
  ASSUME IInv, WellFormed',
         \A t \in Tokens :
           /\ rt'[t].grant = rt[t].grant
           /\ rt'[t].status \in {rt[t].status, "revoked"}
           /\ Present(t)' => Present(t),
         \A c \in Codes : codeState[c] = "used" => codeState'[c] = "used",
         \A v \in Workers :
           /\ req'[v].new \in {req[v].new, None}
           /\ req'[v].pc = "rotating" =>
                /\ req'[v] = req[v]
                /\ lock'[req[v].tok] = lock[req[v].tok]
                /\ rt'[req[v].tok] = rt[req[v].tok]
           /\ req'[v].pc = "claimed" => req'[v] = req[v]
  PROVE  SingleUse'
<1>1. ReservedOnce'
  BY DEF IInv, SingleUse, ReservedOnce
<1>2. RotationHoldsLive'
  BY DEF IInv, SingleUse, RotationHoldsLive, WellFormed, RowsExist, Live, Present
<1>3. RowsComeFromUsedCodes'
  <2> SUFFICES ASSUME NEW t \in Tokens, Present(t)'
               PROVE  codeState'[rt'[t].grant] = "used"
    BY DEF RowsComeFromUsedCodes
  <2>1. codeState[rt[t].grant] = "used"
    BY DEF IInv, SingleUse, RowsComeFromUsedCodes
  <2>2. rt[t].grant \in Codes
    BY DEF IInv, WellFormed, TypeOK, Row, NoRow, Present
  <2>3. QED
    BY <2>1, <2>2
<1>4. ClaimExclusive'
  BY DEF IInv, SingleUse, ClaimExclusive, WellFormed, RowsExist
<1>5. OneLivePerGrant'
  BY DEF IInv, SingleUse, OneLivePerGrant, LiveOf, Live
<1>6. QED
  BY <1>1, <1>2, <1>3, <1>4, <1>5 DEF SingleUse

\* Claiming a fresh code.
LEMMA ClaimCodeSingleUse ==
  ASSUME IInv, NEW w \in Workers, NEW c \in Codes, ClaimCode(w, c)
  PROVE  SingleUse'
<1>1. /\ req'[w] = [Idle EXCEPT !.pc = "claimed", !.code = c]
      /\ \A v \in Workers : v # w => req'[v] = req[v]
      /\ rt' = rt /\ lock' = lock
      /\ codeState[c] = "fresh"
      /\ codeState' = [codeState EXCEPT ![c] = "used"]
  BY DEF ClaimCode, Become, IInv, WellFormed, TypeOK
<1>2. req'[w].pc = "claimed" /\ req'[w].code = c /\ req'[w].new = None
  BY <1>1 DEF Idle
<1>3. ReservedOnce'
  <2>1. \A v \in Workers : req'[v].new \in {req[v].new, None}
    BY <1>1, <1>2
  <2>2. QED
    BY <1>1, <2>1 DEF IInv, SingleUse, ReservedOnce
<1>4. RotationHoldsLive'
  <2>1. \A v \in Workers : req'[v].pc = "rotating" => req'[v] = req[v]
    BY <1>1, <1>2
  <2>2. QED
    BY <1>1, <2>1 DEF IInv, SingleUse, RotationHoldsLive, Live, Present
<1>5. RowsComeFromUsedCodes'
  BY <1>1 DEF IInv, SingleUse, RowsComeFromUsedCodes, Present, WellFormed, TypeOK, Row, NoRow
<1>6. \A t \in Tokens : Present(t) => rt[t].grant # c
  BY <1>1 DEF IInv, SingleUse, RowsComeFromUsedCodes
<1>7. \A v \in Workers : v # w /\ req[v].pc = "claimed" => req[v].code # c
  BY <1>1 DEF IInv, SingleUse, ClaimExclusive
<1>8. ASSUME NEW v \in Workers, req'[v].pc = "claimed"
      PROVE  /\ codeState'[req'[v].code] = "used"
             /\ \A t \in Tokens : Present(t)' => rt'[t].grant # req'[v].code
             /\ \A u \in Workers :
                  req'[u].pc = "claimed" /\ req'[u].code = req'[v].code => u = v
  <2>1. CASE v = w
    BY <2>1, <1>1, <1>2, <1>6, <1>7 DEF Present, IInv, WellFormed, TypeOK
  <2>2. CASE v # w
    <3>1. req'[v] = req[v] /\ req[v].code \in Codes /\ req[v].code # c
      BY <2>2, <1>1, <1>7, <1>8 DEF IInv, WellFormed, RowsExist
    <3>2. codeState'[req'[v].code] = "used"
      BY <3>1, <1>1, <1>8 DEF IInv, SingleUse, ClaimExclusive, WellFormed, TypeOK
    <3>3. \A t \in Tokens : Present(t)' => rt'[t].grant # req'[v].code
      BY <3>1, <1>1, <1>8 DEF IInv, SingleUse, ClaimExclusive, Present
    <3>4. \A u \in Workers :
            req'[u].pc = "claimed" /\ req'[u].code = req'[v].code => u = v
      <4>1. req[v].pc = "claimed" /\ req'[w].code # req'[v].code
        BY <3>1, <1>2, <1>8
      <4>2. \A u \in Workers :
              req[u].pc = "claimed" /\ req[u].code = req[v].code => u = v
        BY <4>1 DEF IInv, SingleUse, ClaimExclusive
      <4>3. QED
        BY <4>1, <4>2, <3>1, <1>1
    <3>5. QED
      BY <3>2, <3>3, <3>4
  <2>3. QED
    BY <2>1, <2>2
<1>9. ClaimExclusive'
  BY <1>8 DEF ClaimExclusive
<1>10. OneLivePerGrant'
  BY <1>1 DEF IInv, SingleUse, OneLivePerGrant, LiveOf, Live
<1>11. QED
  BY <1>3, <1>4, <1>5, <1>9, <1>10 DEF SingleUse

\* The first row of a grant: the code was claimed, so it has no other row.
LEMMA IssueSingleUse ==
  ASSUME IInv, NEW w \in Workers, NEW n \in Tokens, IssueRefreshToken(w, n)
  PROVE  SingleUse'
<1> DEFINE c == req[w].code
<1>1. /\ req[w].pc = "claimed" /\ c \in Codes
      /\ codeState[c] = "used"
      /\ \A t \in Tokens : Present(t) => rt[t].grant # c
      /\ \A v \in Workers : req[v].pc = "claimed" /\ req[v].code = c => v = w
  BY DEF IssueRefreshToken, IInv, SingleUse, ClaimExclusive, WellFormed, RowsExist
<1>2. /\ rt'[n].status = "live" /\ rt'[n].grant = c
      /\ \A t \in Tokens : t # n => rt'[t] = rt[t]
      /\ req'[w].pc = "replying" /\ req'[w].new = n
      /\ \A v \in Workers : v # w => req'[v] = req[v]
      /\ lock' = lock /\ codeState' = codeState
      /\ ~Present(n) /\ \A v \in Workers : req[v].new # n
  BY DEF IssueRefreshToken, Become, Idle, Fresh, Reserved, IInv, WellFormed, TypeOK
<1> HIDE DEF c
<1>3. ReservedOnce'
  BY <1>2 DEF IInv, SingleUse, ReservedOnce
<1>4. RotationHoldsLive'
  <2> SUFFICES ASSUME NEW v \in Workers, req'[v].pc = "rotating"
               PROVE  /\ lock'[req'[v].tok] = v
                      /\ rt'[req'[v].tok].status = "live"
                      /\ rt'[req'[v].new].status = "absent"
    BY DEF RotationHoldsLive, Live, Present
  <2>1. v # w /\ req'[v] = req[v] /\ req[v].pc = "rotating"
    BY <1>2
  <2>2. /\ lock[req[v].tok] = v /\ Live(req[v].tok) /\ ~Present(req[v].new)
        /\ req[v].tok \in Tokens /\ req[v].new \in Tokens
    BY <2>1 DEF IInv, SingleUse, RotationHoldsLive, WellFormed, RowsExist
  <2>3. req[v].tok # n /\ req[v].new # n
    BY <2>2, <1>2 DEF Live, Present
  <2>4. QED
    BY <2>1, <2>2, <2>3, <1>2 DEF Live, Present
<1>5. RowsComeFromUsedCodes'
  BY <1>1, <1>2 DEF IInv, SingleUse, RowsComeFromUsedCodes, Present
<1>6. ClaimExclusive'
  BY <1>1, <1>2 DEF IInv, SingleUse, ClaimExclusive, Present
<1>7. OneLivePerGrant'
  BY <1>1, <1>2 DEF IInv, SingleUse, OneLivePerGrant, LiveOf, Live, Present
<1>8. QED
  BY <1>3, <1>4, <1>5, <1>6, <1>7 DEF SingleUse

\* Locking a live row for rotation.
LEMMA ReplaceSingleUse ==
  ASSUME IInv, NEW w \in Workers, NEW t \in Tokens, NEW n \in Tokens,
         RotateReplace(w, t, n)
  PROVE  SingleUse'
<1>1. /\ req'[w].pc = "rotating" /\ req'[w].tok = t /\ req'[w].new = n
      /\ \A v \in Workers : v # w => req'[v] = req[v]
      /\ lock' = [lock EXCEPT ![t] = w] /\ lock[t] = None
      /\ rt' = rt /\ codeState' = codeState
      /\ Live(t) /\ ~Present(n) /\ \A v \in Workers : req[v].new # n
  BY DEF RotateReplace, Become, Idle, Fresh, Reserved, Unlocked, IInv, WellFormed, TypeOK
<1>2. ReservedOnce'
  BY <1>1 DEF IInv, SingleUse, ReservedOnce
<1>3. RotationHoldsLive'
  <2> SUFFICES ASSUME NEW v \in Workers, req'[v].pc = "rotating"
               PROVE  /\ lock'[req'[v].tok] = v
                      /\ Live(req'[v].tok)
                      /\ ~Present(req'[v].new)
    BY <1>1 DEF RotationHoldsLive, Live, Present
  <2>1. CASE v = w
    BY <2>1, <1>1 DEF IInv, WellFormed, TypeOK
  <2>2. CASE v # w
    <3>1. /\ req'[v] = req[v]
          /\ lock[req[v].tok] = v /\ Live(req[v].tok) /\ ~Present(req[v].new)
      BY <2>2, <1>1 DEF IInv, SingleUse, RotationHoldsLive
    <3>2. req[v].tok # t
      BY <3>1, <1>1, NoneIsNoElement
    <3>3. QED
      BY <3>1, <3>2, <1>1 DEF IInv, WellFormed, TypeOK
  <2>3. QED
    BY <2>1, <2>2
<1>4. RowsComeFromUsedCodes'
  BY <1>1 DEF IInv, SingleUse, RowsComeFromUsedCodes, Present
<1>5. ClaimExclusive'
  BY <1>1 DEF IInv, SingleUse, ClaimExclusive, Present
<1>6. OneLivePerGrant'
  BY <1>1 DEF IInv, SingleUse, OneLivePerGrant, LiveOf, Live
<1>7. QED
  BY <1>2, <1>3, <1>4, <1>5, <1>6 DEF SingleUse

\* What the commit of a rotation does to the table: the only live row of the
\* grant goes, the reserved row takes its place.
LEMMA RotateCommitEffect ==
  ASSUME IInv, NEW w \in Workers, RotateCommit(w),
         NEW old, old = req[w].tok, NEW new, new = req[w].new
  PROVE  /\ old \in Tokens /\ new \in Tokens /\ old # new
         /\ Live(old) /\ ~Present(new) /\ rt[old].grant \in Codes
         /\ rt'[old].status = "revoked" /\ rt'[old].grant = rt[old].grant
         /\ rt'[new].status = "live" /\ rt'[new].grant = rt[old].grant
         /\ \A t \in Tokens : t \notin {old, new} => rt'[t] = rt[t]
<1>1. /\ old \in Tokens /\ new \in Tokens /\ Present(old) /\ Live(old) /\ ~Present(new)
  BY DEF RotateCommit, IInv, WellFormed, RowsExist, SingleUse, RotationHoldsLive
<1>2. rt[old] \in Row /\ rt[old].grant \in Codes
  BY <1>1 DEF IInv, WellFormed, TypeOK, Present, Row, NoRow
<1>3. rt'[new] = [rt[old] EXCEPT !.status = "live"]
  BY <1>1 DEF RotateCommit, RevokeRows
<1>4. old # new
  BY <1>1
<1>5. rt'[old] = [rt[old] EXCEPT !.status = "revoked"]
  BY <1>1, <1>4 DEF RotateCommit, RevokeRows
<1>6. \A t \in Tokens : t \notin {old, new} => rt'[t] = rt[t]
  BY <1>1 DEF RotateCommit, RevokeRows
<1>7. QED
  BY <1>1, <1>2, <1>3, <1>4, <1>5, <1>6 DEF Row

LEMMA RotateCommitSingleUse ==
  ASSUME IInv, NEW w \in Workers, RotateCommit(w)
  PROVE  SingleUse'
<1> DEFINE old == req[w].tok
           new == req[w].new
<1>1. /\ old \in Tokens /\ new \in Tokens /\ old # new
      /\ Live(old) /\ ~Present(new) /\ rt[old].grant \in Codes
      /\ rt'[old].status = "revoked" /\ rt'[old].grant = rt[old].grant
      /\ rt'[new].status = "live" /\ rt'[new].grant = rt[old].grant
      /\ \A t \in Tokens : t \notin {old, new} => rt'[t] = rt[t]
  BY RotateCommitEffect
<1>2. /\ req[w].pc = "rotating" /\ lock[old] = w
      /\ req'[w].pc = "issuing" /\ req'[w].new = new
      /\ \A v \in Workers : v # w => req'[v] = req[v]
      /\ lock' = Unlock(w) /\ codeState' = codeState
  BY DEF RotateCommit, Become, Idle, IInv, WellFormed, TypeOK, SingleUse, RotationHoldsLive
<1>3. ReservedOnce'
  BY <1>2 DEF IInv, SingleUse, ReservedOnce
<1> HIDE DEF old, new
<1>4. RotationHoldsLive'
  <2> SUFFICES ASSUME NEW v \in Workers, req'[v].pc = "rotating"
               PROVE  /\ lock'[req'[v].tok] = v
                      /\ rt'[req'[v].tok].status = "live"
                      /\ rt'[req'[v].new].status = "absent"
    BY DEF RotationHoldsLive, Live, Present
  <2>1. v # w /\ req'[v] = req[v] /\ req[v].pc = "rotating"
    BY <1>2
  <2>2. /\ lock[req[v].tok] = v /\ Live(req[v].tok) /\ ~Present(req[v].new)
        /\ req[v].tok \in Tokens /\ req[v].new \in Tokens
    BY <2>1 DEF IInv, SingleUse, RotationHoldsLive, WellFormed, RowsExist
  <2>3. req[v].tok # old /\ req[v].tok # new
    BY <2>1, <2>2, <1>1, <1>2 DEF Live, Present
  <2>4. req[v].new # new
    <3>1. req[w].new = new /\ new # None
      BY <1>1, NoneIsNoElement DEF new
    <3>2. QED
      BY <3>1, <2>1 DEF IInv, SingleUse, ReservedOnce
  <2>5. req[v].new # old
    BY <2>2, <1>1 DEF Live, Present
  <2>6. lock'[req[v].tok] = v
    BY <2>1, <2>2, <1>2 DEF Unlock
  <2>7. QED
    BY <2>1, <2>2, <2>3, <2>4, <2>5, <2>6, <1>1 DEF Live, Present
<1>5. codeState[rt[old].grant] = "used"
  BY <1>1 DEF IInv, SingleUse, RowsComeFromUsedCodes, Live, Present
<1>6. RowsComeFromUsedCodes'
  BY <1>1, <1>2, <1>5 DEF IInv, SingleUse, RowsComeFromUsedCodes, Present
<1>7. ClaimExclusive'
  BY <1>1, <1>2 DEF IInv, SingleUse, ClaimExclusive, Present, Live
<1>8. OneLivePerGrant'
  BY <1>1 DEF IInv, SingleUse, OneLivePerGrant, LiveOf, Live
<1>9. QED
  BY <1>3, <1>4, <1>6, <1>7, <1>8 DEF SingleUse

\* Steps on which a handler ends or changes phase without touching a row.
LEMMA LocalStepSingleUse ==
  ASSUME IInv, WellFormed', UNCHANGED <<rt, codeState>>,
         NEW w \in Workers, req[w].pc # "rotating",
         \A t \in Tokens : lock[t] # None => lock'[t] = lock[t],
         req' \in [Workers -> Request],
         \A v \in Workers : v # w => req'[v] = req[v],
         req'[w].pc \notin {"rotating", "claimed"},
         req'[w].new \in {req[w].new, None}
  PROVE  SingleUse'
<1>1. \A t \in Tokens :
        /\ rt'[t].grant = rt[t].grant
        /\ rt'[t].status \in {rt[t].status, "revoked"}
        /\ Present(t)' => Present(t)
  BY DEF Present
<1>2. \A v \in Workers : req[v].pc = "rotating" =>
        lock[req[v].tok] = v /\ req[v].tok \in Tokens
  BY DEF IInv, SingleUse, RotationHoldsLive, WellFormed, RowsExist
<1>3. ASSUME NEW v \in Workers
      PROVE  /\ req'[v].new \in {req[v].new, None}
             /\ req'[v].pc = "rotating" =>
                  /\ req'[v] = req[v]
                  /\ lock'[req[v].tok] = lock[req[v].tok]
                  /\ rt'[req[v].tok] = rt[req[v].tok]
             /\ req'[v].pc = "claimed" => req'[v] = req[v]
  <2>1. CASE v = w
    BY <2>1
  <2>2. CASE v # w
    <3>1. req[v].pc = "rotating" => lock'[req[v].tok] = lock[req[v].tok]
      BY <1>2, NoneIsNoElement
    <3>2. QED
      BY <2>2, <3>1
  <2>3. QED
    BY <2>1, <2>2
<1>4. QED
  BY <1>1, <1>3, QuietStepSingleUse

\* Steps that revoke rows no rotation holds and end the handler w, if any.
LEMMA RevokeStepSingleUse ==
  ASSUME IInv, WellFormed', UNCHANGED codeState,
         NEW S \in SUBSET Tokens, rt' = RevokeRows(S), \A t \in S : Present(t),
         \A v \in Workers : req[v].pc = "rotating" /\ req'[v] = req[v] =>
           /\ req[v].tok \notin S
           /\ lock'[req[v].tok] = lock[req[v].tok],
         \A v \in Workers : req'[v] \in {req[v], Idle}
  PROVE  SingleUse'
<1>1. \A t \in Tokens :
        /\ rt'[t].grant = rt[t].grant
        /\ rt'[t].status \in {rt[t].status, "revoked"}
        /\ Present(t)' => Present(t)
  BY RevokeRowsType DEF IInv, WellFormed, TypeOK, Present
<1>2. ASSUME NEW v \in Workers
      PROVE  /\ req'[v].new \in {req[v].new, None}
             /\ req'[v].pc = "rotating" =>
                  /\ req'[v] = req[v]
                  /\ lock'[req[v].tok] = lock[req[v].tok]
                  /\ rt'[req[v].tok] = rt[req[v].tok]
             /\ req'[v].pc = "claimed" => req'[v] = req[v]
  <2>1. CASE req'[v] = Idle
    BY <2>1 DEF Idle
  <2>2. CASE req'[v] = req[v]
    <3>1. req[v].pc = "rotating" => req[v].tok \in Tokens
      BY DEF IInv, WellFormed, RowsExist
    <3>2. req[v].pc = "rotating" => rt'[req[v].tok] = rt[req[v].tok]
      BY <2>2, <3>1 DEF RevokeRows
    <3>3. QED
      BY <2>2, <3>2
  <2>3. QED
    BY <2>1, <2>2
<1>3. QED
  BY <1>1, <1>2, QuietStepSingleUse

\* Each step keeps the single-use invariants.
LEMMA SingleUseStep == IInv /\ [Next]_vars => SingleUse'
<1> SUFFICES ASSUME IInv, [Next]_vars
             PROVE  SingleUse'
  OBVIOUS
<1>0. /\ WellFormed /\ WellFormed'
      /\ req \in [Workers -> Request] /\ req' \in [Workers -> Request]
      /\ lock \in [Tokens -> Workers \cup {None}]
  BY WellFormedStep DEF IInv, WellFormed, TypeOK
<1>1. ASSUME NEW w \in Workers, NEW c \in Codes, ClaimCode(w, c)
      PROVE  SingleUse'
  BY <1>1, ClaimCodeSingleUse
<1>2. ASSUME NEW w \in Workers, NEW n \in Tokens, IssueRefreshToken(w, n)
      PROVE  SingleUse'
  BY <1>2, IssueSingleUse
<1>3. ASSUME NEW w \in Workers, NEW t \in Tokens, NEW n \in Tokens, RotateReplace(w, t, n)
      PROVE  SingleUse'
  BY <1>3, ReplaceSingleUse
<1>4. ASSUME NEW w \in Workers, RotateCommit(w)
      PROVE  SingleUse'
  BY <1>4, RotateCommitSingleUse
<1>5. ASSUME NEW w \in Workers, RedeemWithoutToken(w)
      PROVE  SingleUse'
  BY <1>0, <1>5, LocalStepSingleUse DEF RedeemWithoutToken, Become, Idle
<1>6. ASSUME NEW w \in Workers, RedeemReply(w)
      PROVE  SingleUse'
  BY <1>0, <1>6, LocalStepSingleUse DEF RedeemReply, Become, Idle
<1>7. ASSUME NEW w \in Workers, RedeemReplyLost(w)
      PROVE  SingleUse'
  BY <1>0, <1>7, LocalStepSingleUse DEF RedeemReplyLost, Become, Idle
<1>8. ASSUME NEW w \in Workers, NEW c \in Codes, RedeemReplay(w, c)
      PROVE  SingleUse'
  BY <1>0, <1>8, LocalStepSingleUse DEF RedeemReplay, StartSweep, Become, Idle
<1>9. ASSUME NEW w \in Workers, NEW u \in Users, RevokeUser(w, u)
      PROVE  SingleUse'
  BY <1>0, <1>9, LocalStepSingleUse DEF RevokeUser, StartSweep, Become, Idle
<1>10. ASSUME NEW w \in Workers, NEW cl \in Clients, NEW ids \in SUBSET Tokens, RevokeClient(w, cl, ids)
      PROVE  SingleUse'
  BY <1>0, <1>10, LocalStepSingleUse DEF RevokeClient, StartSweep, Become, Idle
<1>11. ASSUME NEW w \in Workers, NEW t \in Tokens, SweepRow(w, t)
      PROVE  SingleUse'
  BY <1>0, <1>11, LocalStepSingleUse DEF SweepRow, Unlocked, Become, Idle
<1>12. ASSUME NEW w \in Workers, NEW t \in Tokens, NEW cl \in Clients, RotateReuse(w, t, cl)
      PROVE  SingleUse'
  BY <1>0, <1>12, LocalStepSingleUse DEF RotateReuse, StartSweep, Unlocked, Become, Idle
<1>13. ASSUME NEW w \in Workers, RotateReply(w)
      PROVE  SingleUse'
  BY <1>0, <1>13, LocalStepSingleUse DEF RotateReply, Become, Idle
<1>14. ASSUME NEW w \in Workers, RotateReplyLost(w)
      PROVE  SingleUse'
  BY <1>0, <1>14, LocalStepSingleUse DEF RotateReplyLost, Become, Idle
<1>15. ASSUME NEW w \in Workers, IssuanceFails(w)
      PROVE  SingleUse'
  BY <1>0, <1>15, LocalStepSingleUse DEF IssuanceFails, Become, Idle
<1>16. ASSUME NEW w \in Workers, CompensateFails(w)
      PROVE  SingleUse'
  BY <1>0, <1>16, LocalStepSingleUse DEF CompensateFails, Become, Idle
<1>17. ASSUME NEW w \in Workers, SweepCommit(w)
      PROVE  SingleUse'
  <2>1. LockedBy(w) \in SUBSET Tokens /\ \A t \in LockedBy(w) : Present(t)
    BY <1>0, NoneIsNoElement DEF LockedBy, WellFormed, RowsExist
  <2>2. \A v \in Workers : req'[v] \in {req[v], Idle} /\ (v # w => req'[v] = req[v])
    BY <1>0, <1>17 DEF SweepCommit, Become
  <2>3. ASSUME NEW v \in Workers, req[v].pc = "rotating"
        PROVE  req[v].tok \notin LockedBy(w) /\ lock'[req[v].tok] = lock[req[v].tok]
    BY <1>0, <1>17, <2>3
       DEF SweepCommit, LockedBy, Unlock, IInv, SingleUse, RotationHoldsLive, WellFormed, RowsExist
  <2>4. QED
    BY <1>0, <1>17, <2>1, <2>2, <2>3, RevokeStepSingleUse DEF SweepCommit
<1>18. ASSUME NEW w \in Workers, TxAbort(w)
      PROVE  SingleUse'
  <2>1. /\ req'[w] = Idle
        /\ \A v \in Workers : v # w => req'[v] = req[v]
        /\ rt' = rt /\ codeState' = codeState /\ lock' = Unlock(w)
    BY <1>0, <1>18 DEF TxAbort, Become
  <2>2. ASSUME NEW v \in Workers, v # w, req[v].pc = "rotating"
        PROVE  lock'[req[v].tok] = lock[req[v].tok]
    BY <2>1, <2>2 DEF Unlock, IInv, SingleUse, RotationHoldsLive, WellFormed, RowsExist
  <2>3. ASSUME NEW v \in Workers
        PROVE  /\ req'[v].new \in {req[v].new, None}
               /\ req'[v].pc = "rotating" =>
                    /\ req'[v] = req[v]
                    /\ lock'[req[v].tok] = lock[req[v].tok]
                    /\ rt'[req[v].tok] = rt[req[v].tok]
               /\ req'[v].pc = "claimed" => req'[v] = req[v]
    <3>1. CASE v = w
      BY <2>1, <3>1 DEF Idle
    <3>2. CASE v # w
      BY <2>1, <2>2, <3>2
    <3>3. QED
      BY <3>1, <3>2
  <2>4. QED
    BY <1>0, <2>1, <2>3, QuietStepSingleUse DEF Present
<1>19. ASSUME NEW t \in Tokens, RevokeOne(t)
      PROVE  SingleUse'
  <2>1. {t} \in SUBSET Tokens /\ Present(t)
    BY <1>19 DEF RevokeOne, Live, Present
  <2>2. \A v \in Workers : req[v].pc = "rotating" => req[v].tok # t
    BY <1>19, NoneIsNoElement DEF RevokeOne, Unlocked, IInv, SingleUse, RotationHoldsLive
  <2>3. QED
    BY <1>0, <1>19, <2>1, <2>2, RevokeStepSingleUse DEF RevokeOne
<1>20. ASSUME NEW w \in Workers, Compensate(w)
      PROVE  SingleUse'
  <2>1. {req[w].new} \in SUBSET Tokens /\ Present(req[w].new)
    BY <1>20 DEF Compensate, IInv, WellFormed, RowsExist
  <2>2. \A v \in Workers : req[v].pc = "rotating" => req[v].tok # req[w].new
    BY <1>20, NoneIsNoElement DEF Compensate, Unlocked, IInv, SingleUse, RotationHoldsLive
  <2>3. \A v \in Workers : req'[v] \in {req[v], Idle}
    BY <1>0, <1>20 DEF Compensate, Become
  <2>4. QED
    BY <1>0, <1>20, <2>1, <2>2, <2>3, RevokeStepSingleUse DEF Compensate
<1>21. CASE UNCHANGED <<rt, codeState, lock, req>>
  BY <1>0, <1>21, QuietStepSingleUse DEF Present
<1>22. ASSUME NEW t \in Tokens, TokenExpires(t)
      PROVE  SingleUse'
  BY <1>22, <1>21 DEF TokenExpires
<1>23. ASSUME NEW c \in Codes, CodeExpires(c)
      PROVE  SingleUse'
  BY <1>23, <1>21 DEF CodeExpires
<1>24. CASE UNCHANGED vars
  BY <1>24, <1>21 DEF vars
<1>25. QED
  BY <1>1, <1>2, <1>3, <1>4, <1>5, <1>6, <1>7, <1>8, <1>9, <1>10, <1>11,
     <1>12, <1>13, <1>14, <1>15, <1>16, <1>17, <1>18, <1>19, <1>20, <1>21,
     <1>22, <1>23, <1>24
     DEF Next, Redemption, Revocation, Rotation

LEMMA InductiveInvariant == Spec => []IInv
<1>1. Init => IInv
  BY InitWellFormed, InitSingleUse DEF IInv
<1>2. IInv /\ [Next]_vars => IInv'
  BY WellFormedStep, SingleUseStep DEF IInv
<1>3. QED
  BY <1>1, <1>2, PTL DEF Spec

\* However many handlers redeem, rotate and revoke at once, no authorization
\* ever has two live refresh tokens.
THEOREM OneLiveToken == Spec => []OneLivePerGrant
<1>1. IInv => OneLivePerGrant
  BY DEF IInv, SingleUse
<1>2. QED
  BY <1>1, InductiveInvariant, PTL

-----------------------------------------------------------------------------
(* Live rows are accounted for *)

Working(w, t) ==
  /\ req[w].new = t
  /\ req[w].pc \in {"issuing", "compensating", "replying"}

\* A row that was live already stays accounted for, unless the handler that
\* worked on it leaves without recording what became of it.
LEMMA StillAccountedFor ==
  ASSUME LiveRowsAccountedFor,
         NEW t \in Tokens, Live(t),
         delivered \subseteq delivered', lost \subseteq lost',
         \A w \in Workers : Working(w, t) =>
            Working(w, t)' \/ t \in delivered' \cup lost'
  PROVE  t \in delivered' \cup lost' \/ \E w \in Workers : Working(w, t)'
BY DEF LiveRowsAccountedFor, Working

LEMMA LiveRowsStep ==
  WellFormed /\ LiveRowsAccountedFor /\ [Next]_vars => LiveRowsAccountedFor'
<1> SUFFICES ASSUME WellFormed, LiveRowsAccountedFor, [Next]_vars,
                    NEW t \in Tokens, Live(t)'
             PROVE  t \in delivered' \cup lost' \/ \E w \in Workers : Working(w, t)'
  BY DEF LiveRowsAccountedFor, Working
<1>0. /\ rt \in [Tokens -> Row \cup {NoRow}]
      /\ req \in [Workers -> Request]
      /\ delivered \subseteq Tokens /\ lost \subseteq Tokens
  BY DEF WellFormed, TypeOK
<1> DEFINE Goal == t \in delivered' \cup lost' \/ \E w \in Workers : Working(w, t)'
<1>1. ASSUME NEW w \in Workers, NEW n \in Tokens, IssueRefreshToken(w, n)
      PROVE  Goal
  <2>1. CASE t = n
    <3>1. Working(w, t)'
      BY <1>0, <1>1, <2>1 DEF IssueRefreshToken, Become, Idle, Working
    <3>2. QED
      BY <3>1
  <2>2. CASE t # n
    <3>1. Live(t)
      BY <1>0, <1>1, <2>2 DEF IssueRefreshToken, Live
    <3>2. \A v \in Workers : Working(v, t) => Working(v, t)'
      BY <1>0, <1>1 DEF IssueRefreshToken, Become, Working
    <3>3. QED
      BY <1>1, <3>1, <3>2, StillAccountedFor DEF IssueRefreshToken
  <2>3. QED
    BY <2>1, <2>2
<1>2. ASSUME NEW w \in Workers, RotateCommit(w)
      PROVE  Goal
  <2>1. CASE t = req[w].new
    <3>1. Working(w, t)'
      BY <1>0, <1>2, <2>1 DEF RotateCommit, Become, Idle, Working
    <3>2. QED
      BY <3>1
  <2>2. CASE t # req[w].new
    <3>0. req[w].new \in Tokens
      BY <1>2 DEF RotateCommit, WellFormed, RowsExist
    <3>1. Live(t)
      <4>1. rt'[t] = RevokeRows({req[w].tok})[t]
        BY <1>2, <2>2, <3>0 DEF RotateCommit, RevokeRows
      <4>2. {req[w].tok} \in SUBSET Tokens /\ \A u \in {req[w].tok} : Present(u)
        BY <1>2 DEF RotateCommit, WellFormed, RowsExist
      <4>3. QED
        BY <1>0, <4>1, <4>2, RevokeRowsType DEF Live
    <3>2. \A v \in Workers : Working(v, t) => Working(v, t)'
      BY <1>0, <1>2 DEF RotateCommit, Become, Working
    <3>3. QED
      BY <1>2, <3>1, <3>2, StillAccountedFor DEF RotateCommit
  <2>3. QED
    BY <2>1, <2>2
<1>3. ASSUME NEW w \in Workers, SweepCommit(w)
      PROVE  Goal
  <2>1. Live(t)
    BY <1>0, <1>3 DEF SweepCommit, RevokeRows, Live
  <2>2. \A v \in Workers : Working(v, t) => Working(v, t)'
    BY <1>0, <1>3, <2>1 DEF SweepCommit, Become, Working
  <2>3. QED
    BY <1>3, <2>1, <2>2, StillAccountedFor DEF SweepCommit
<1>4. ASSUME NEW u \in Tokens, RevokeOne(u)
      PROVE  Goal
  <2>1. Live(t)
    BY <1>0, <1>4 DEF RevokeOne, RevokeRows, Live
  <2>2. \A v \in Workers : Working(v, t) => Working(v, t)'
    BY <1>0, <1>4, <2>1 DEF RevokeOne, Become, Working
  <2>3. QED
    BY <1>4, <2>1, <2>2, StillAccountedFor DEF RevokeOne
<1>5. ASSUME NEW w \in Workers, Compensate(w)
      PROVE  Goal
  <2>1. Live(t) /\ t # req[w].new
    BY <1>0, <1>5 DEF Compensate, RevokeRows, Live
  <2>2. \A v \in Workers : Working(v, t) => Working(v, t)'
    BY <1>0, <1>5, <2>1 DEF Compensate, Become, Working
  <2>3. QED
    BY <1>5, <2>1, <2>2, StillAccountedFor DEF Compensate
<1>6. ASSUME NEW w \in Workers, NEW c \in Codes, ClaimCode(w, c)
      PROVE  Goal
  <2>1. Live(t)
    BY <1>6 DEF ClaimCode, Live
  <2>2. \A v \in Workers : Working(v, t) => Working(v, t)' \/ t \in delivered' \cup lost'
    BY <1>0, <1>6 DEF ClaimCode, Become, Working
  <2>3. QED
    BY <1>6, <2>1, <2>2, StillAccountedFor DEF ClaimCode
<1>7. ASSUME NEW w \in Workers, RedeemWithoutToken(w)
      PROVE  Goal
  <2>1. Live(t)
    BY <1>7 DEF RedeemWithoutToken, Live
  <2>2. \A v \in Workers : Working(v, t) => Working(v, t)' \/ t \in delivered' \cup lost'
    BY <1>0, <1>7 DEF RedeemWithoutToken, Become, Working
  <2>3. QED
    BY <1>7, <2>1, <2>2, StillAccountedFor DEF RedeemWithoutToken
<1>8. ASSUME NEW w \in Workers, RedeemReply(w)
      PROVE  Goal
  <2>1. Live(t)
    BY <1>8 DEF RedeemReply, Live
  <2>2. \A v \in Workers : Working(v, t) => Working(v, t)' \/ t \in delivered' \cup lost'
    BY <1>0, <1>8 DEF RedeemReply, Become, Working
  <2>3. QED
    BY <1>8, <2>1, <2>2, StillAccountedFor DEF RedeemReply
<1>9. ASSUME NEW w \in Workers, RedeemReplyLost(w)
      PROVE  Goal
  <2>1. Live(t)
    BY <1>9 DEF RedeemReplyLost, Live
  <2>2. \A v \in Workers : Working(v, t) => Working(v, t)' \/ t \in delivered' \cup lost'
    BY <1>0, <1>9 DEF RedeemReplyLost, Become, Working
  <2>3. QED
    BY <1>9, <2>1, <2>2, StillAccountedFor DEF RedeemReplyLost
<1>10. ASSUME NEW w \in Workers, NEW c \in Codes, RedeemReplay(w, c)
      PROVE  Goal
  <2>1. Live(t)
    BY <1>10 DEF RedeemReplay, StartSweep, Live
  <2>2. \A v \in Workers : Working(v, t) => Working(v, t)' \/ t \in delivered' \cup lost'
    BY <1>0, <1>10 DEF RedeemReplay, StartSweep, Become, Working
  <2>3. QED
    BY <1>10, <2>1, <2>2, StillAccountedFor DEF RedeemReplay, StartSweep
<1>11. ASSUME NEW w \in Workers, NEW u \in Users, RevokeUser(w, u)
      PROVE  Goal
  <2>1. Live(t)
    BY <1>11 DEF RevokeUser, StartSweep, Live
  <2>2. \A v \in Workers : Working(v, t) => Working(v, t)' \/ t \in delivered' \cup lost'
    BY <1>0, <1>11 DEF RevokeUser, StartSweep, Become, Working
  <2>3. QED
    BY <1>11, <2>1, <2>2, StillAccountedFor DEF RevokeUser, StartSweep
<1>12. ASSUME NEW w \in Workers, NEW cl \in Clients, NEW ids \in SUBSET Tokens, RevokeClient(w, cl, ids)
      PROVE  Goal
  <2>1. Live(t)
    BY <1>12 DEF RevokeClient, StartSweep, Live
  <2>2. \A v \in Workers : Working(v, t) => Working(v, t)' \/ t \in delivered' \cup lost'
    BY <1>0, <1>12 DEF RevokeClient, StartSweep, Become, Working
  <2>3. QED
    BY <1>12, <2>1, <2>2, StillAccountedFor DEF RevokeClient, StartSweep
<1>13. ASSUME NEW w \in Workers, NEW u \in Tokens, SweepRow(w, u)
      PROVE  Goal
  <2>1. Live(t)
    BY <1>13 DEF SweepRow, Live
  <2>2. \A v \in Workers : Working(v, t) => Working(v, t)' \/ t \in delivered' \cup lost'
    BY <1>0, <1>13 DEF SweepRow, Become, Working
  <2>3. QED
    BY <1>13, <2>1, <2>2, StillAccountedFor DEF SweepRow
<1>14. ASSUME NEW w \in Workers, TxAbort(w)
      PROVE  Goal
  <2>1. Live(t)
    BY <1>14 DEF TxAbort, Live
  <2>2. \A v \in Workers : Working(v, t) => Working(v, t)' \/ t \in delivered' \cup lost'
    BY <1>0, <1>14 DEF TxAbort, Become, Working
  <2>3. QED
    BY <1>14, <2>1, <2>2, StillAccountedFor DEF TxAbort
<1>15. ASSUME NEW w \in Workers, NEW u \in Tokens, NEW cl \in Clients, RotateReuse(w, u, cl)
      PROVE  Goal
  <2>1. Live(t)
    BY <1>15 DEF RotateReuse, StartSweep, Live
  <2>2. \A v \in Workers : Working(v, t) => Working(v, t)' \/ t \in delivered' \cup lost'
    BY <1>0, <1>15 DEF RotateReuse, StartSweep, Become, Working
  <2>3. QED
    BY <1>15, <2>1, <2>2, StillAccountedFor DEF RotateReuse, StartSweep
<1>16. ASSUME NEW w \in Workers, NEW u \in Tokens, NEW m \in Tokens, RotateReplace(w, u, m)
      PROVE  Goal
  <2>1. Live(t)
    BY <1>16 DEF RotateReplace, Live
  <2>2. \A v \in Workers : Working(v, t) => Working(v, t)' \/ t \in delivered' \cup lost'
    BY <1>0, <1>16 DEF RotateReplace, Become, Working
  <2>3. QED
    BY <1>16, <2>1, <2>2, StillAccountedFor DEF RotateReplace
<1>17. ASSUME NEW w \in Workers, RotateReply(w)
      PROVE  Goal
  <2>1. Live(t)
    BY <1>17 DEF RotateReply, Live
  <2>2. \A v \in Workers : Working(v, t) => Working(v, t)' \/ t \in delivered' \cup lost'
    BY <1>0, <1>17 DEF RotateReply, Become, Working
  <2>3. QED
    BY <1>17, <2>1, <2>2, StillAccountedFor DEF RotateReply
<1>18. ASSUME NEW w \in Workers, RotateReplyLost(w)
      PROVE  Goal
  <2>1. Live(t)
    BY <1>18 DEF RotateReplyLost, Live
  <2>2. \A v \in Workers : Working(v, t) => Working(v, t)' \/ t \in delivered' \cup lost'
    BY <1>0, <1>18 DEF RotateReplyLost, Become, Working
  <2>3. QED
    BY <1>18, <2>1, <2>2, StillAccountedFor DEF RotateReplyLost
<1>19. ASSUME NEW w \in Workers, IssuanceFails(w)
      PROVE  Goal
  <2>1. Live(t)
    BY <1>19 DEF IssuanceFails, Live
  <2>2. \A v \in Workers : Working(v, t) => Working(v, t)' \/ t \in delivered' \cup lost'
    BY <1>0, <1>19 DEF IssuanceFails, Become, Working
  <2>3. QED
    BY <1>19, <2>1, <2>2, StillAccountedFor DEF IssuanceFails
<1>20. ASSUME NEW w \in Workers, CompensateFails(w)
      PROVE  Goal
  <2>1. Live(t)
    BY <1>20 DEF CompensateFails, Live
  <2>2. \A v \in Workers : Working(v, t) => Working(v, t)' \/ t \in delivered' \cup lost'
    BY <1>0, <1>20 DEF CompensateFails, Become, Working
  <2>3. QED
    BY <1>20, <2>1, <2>2, StillAccountedFor DEF CompensateFails
<1>21. ASSUME NEW u \in Tokens, TokenExpires(u)
      PROVE  Goal
  <2>1. Live(t)
    BY <1>21 DEF TokenExpires, Live
  <2>2. \A v \in Workers : Working(v, t) => Working(v, t)' \/ t \in delivered' \cup lost'
    BY <1>0, <1>21 DEF TokenExpires, Become, Working
  <2>3. QED
    BY <1>21, <2>1, <2>2, StillAccountedFor DEF TokenExpires
<1>22. ASSUME NEW c \in Codes, CodeExpires(c)
      PROVE  Goal
  <2>1. Live(t)
    BY <1>22 DEF CodeExpires, Live
  <2>2. \A v \in Workers : Working(v, t) => Working(v, t)' \/ t \in delivered' \cup lost'
    BY <1>0, <1>22 DEF CodeExpires, Become, Working
  <2>3. QED
    BY <1>22, <2>1, <2>2, StillAccountedFor DEF CodeExpires
<1>23. CASE UNCHANGED vars
  BY <1>23 DEF vars, Live, Working, LiveRowsAccountedFor
<1>24. QED
  BY <1>1, <1>2, <1>3, <1>4, <1>5, <1>6, <1>7, <1>8, <1>9, <1>10, <1>11,
     <1>12, <1>13, <1>14, <1>15, <1>16, <1>17, <1>18, <1>19, <1>20, <1>21,
     <1>22, <1>23
     DEF Next, Redemption, Revocation, Rotation

\* A rotation that could not issue never leaves a usable row behind unless its
\* compensation failed too, and no revocation path forgets a row a handler is
\* still answering with.
THEOREM NoOrphanTokens == Spec => []LiveRowsAccountedFor
<1>1. Init => LiveRowsAccountedFor
  BY DEF Init, LiveRowsAccountedFor, Live, NoRow
<1>2. Spec => []WellFormed
  BY InitWellFormed, WellFormedStep, PTL DEF Spec
<1>3. QED
  BY <1>1, <1>2, LiveRowsStep, PTL DEF Spec

-----------------------------------------------------------------------------
(* Bulk revocations *)

\* A handler has only locks of its transaction, and what a replay is about to
\* revoke is of the family of the token that was presented.
SweepsOwnRows ==
  \A w \in Workers : \A t \in Tokens : lock[t] = w =>
    \/ req[w].pc = "sweep" /\ t \in req[w].snap \cup {req[w].tok}
    \/ req[w].pc = "rotating" /\ t = req[w].tok

ReplaysSweepFamily ==
  \A w \in Workers : req[w].pc = "sweep" /\ req[w].tok # None =>
    /\ Present(req[w].tok)
    /\ \A t \in req[w].snap :
         rt[t].user = rt[req[w].tok].user /\ rt[t].client = rt[req[w].tok].client

SweepInv == SweepsOwnRows /\ ReplaysSweepFamily

\* A row keeps its user and its client.
LEMMA RowsKept ==
  ASSUME IInv, [Next]_vars, NEW t \in Tokens, Present(t)
  PROVE  Present(t)' /\ rt'[t].user = rt[t].user /\ rt'[t].client = rt[t].client
<1>0. rt \in [Tokens -> Row \cup {NoRow}] /\ WellFormed
  BY DEF IInv, WellFormed, TypeOK
<1>1. ASSUME NEW S \in SUBSET Tokens, \A u \in S : Present(u), rt'[t] = RevokeRows(S)[t]
      PROVE  Present(t)' /\ rt'[t].user = rt[t].user /\ rt'[t].client = rt[t].client
  BY <1>0, <1>1, RevokeRowsType DEF Present
<1>2. ASSUME NEW w \in Workers, NEW n \in Tokens, IssueRefreshToken(w, n) PROVE rt'[t] = rt[t]
  BY <1>0, <1>2 DEF IssueRefreshToken, Fresh
<1>3. ASSUME NEW w \in Workers, SweepCommit(w)
      PROVE  LockedBy(w) \in SUBSET Tokens /\ (\A u \in LockedBy(w) : Present(u)) /\ rt' = RevokeRows(LockedBy(w))
  BY <1>0, <1>3, NoneIsNoElement DEF SweepCommit, LockedBy, WellFormed, RowsExist
<1>4. ASSUME NEW w \in Workers, RotateCommit(w)
      PROVE  /\ {req[w].tok} \in SUBSET Tokens /\ (\A u \in {req[w].tok} : Present(u))
             /\ rt'[t] = RevokeRows({req[w].tok})[t]
  <2>1. req[w].pc = "rotating" /\ ~Present(req[w].new) /\ t # req[w].new
    BY <1>4 DEF RotateCommit, IInv, SingleUse, RotationHoldsLive
  <2> QED BY <1>0, <1>4, <2>1 DEF RotateCommit, RevokeRows, WellFormed, RowsExist
<1>5. ASSUME NEW u \in Tokens, RevokeOne(u)
      PROVE  {u} \in SUBSET Tokens /\ (\A x \in {u} : Present(x)) /\ rt' = RevokeRows({u})
  BY <1>5 DEF RevokeOne, Live, Present
<1>6. ASSUME NEW w \in Workers, Compensate(w)
      PROVE  /\ {req[w].new} \in SUBSET Tokens /\ (\A u \in {req[w].new} : Present(u))
             /\ rt' = RevokeRows({req[w].new})
  BY <1>0, <1>6 DEF Compensate, WellFormed, RowsExist
<1>7. \/ \E w \in Workers : \/ \E n \in Tokens : IssueRefreshToken(w, n)
                            \/ SweepCommit(w) \/ RotateCommit(w) \/ Compensate(w)
      \/ \E u \in Tokens : RevokeOne(u)
      \/ rt' = rt
  BY DEF Next, vars, Redemption, Revocation, Rotation, ClaimCode, RedeemReplay, RedeemWithoutToken,
         RedeemReply, RedeemReplyLost, RevokeUser, RevokeClient, SweepRow, TxAbort, RotateReuse,
         RotateReplace, RotateReply, RotateReplyLost, IssuanceFails, CompensateFails, TokenExpires,
         CodeExpires
<1> QED BY <1>1, <1>2, <1>3, <1>4, <1>5, <1>6, <1>7 DEF Present

\* What a handler may have of the rows when it goes on with request r.
Owns(w, r) ==
  /\ \A t \in Tokens : lock'[t] = w =>
       \/ r.pc = "sweep" /\ t \in r.snap \cup {r.tok}
       \/ r.pc = "rotating" /\ t = r.tok
  /\ r.pc = "sweep" /\ r.tok # None =>
       /\ Present(r.tok)
       /\ \A t \in r.snap :
            Present(t) /\ rt[t].user = rt[r.tok].user /\ rt[t].client = rt[r.tok].client

LEMMA SweepKept ==
  ASSUME IInv, [Next]_vars, \A w \in Workers : Owns(w, req'[w])
  PROVE  SweepInv'
<1>1. IInv' /\ req' \in [Workers -> Request]
  BY WellFormedStep, SingleUseStep DEF IInv, WellFormed, TypeOK
<1>2. SweepsOwnRows'
  BY DEF SweepsOwnRows, Owns
<1>3. ASSUME NEW w \in Workers, NEW r \in Request, r = req'[w], r.pc = "sweep", r.tok # None
      PROVE  /\ Present(r.tok)'
             /\ \A t \in r.snap : rt'[t].user = rt'[r.tok].user /\ rt'[t].client = rt'[r.tok].client
  <2>1. r.tok \in Tokens /\ r.snap \in SUBSET Tokens /\ Owns(w, r)
    BY <1>3 DEF Request
  <2>2. Present(r.tok)' /\ rt'[r.tok].user = rt[r.tok].user /\ rt'[r.tok].client = rt[r.tok].client
    BY <1>3, <2>1, RowsKept DEF Owns
  <2>3. ASSUME NEW t \in r.snap
        PROVE  rt'[t].user = rt'[r.tok].user /\ rt'[t].client = rt'[r.tok].client
    <3>1. t \in Tokens /\ Present(t) /\ rt[t].user = rt[r.tok].user /\ rt[t].client = rt[r.tok].client
      BY <1>3, <2>1 DEF Owns
    <3> QED BY <2>2, <3>1, RowsKept
  <2> QED BY <2>2, <2>3
<1>4. ReplaysSweepFamily'
  <2> SUFFICES ASSUME NEW w \in Workers, req'[w].pc = "sweep", req'[w].tok # None
               PROVE  /\ Present(req[w].tok)'
                      /\ \A t \in req'[w].snap : /\ rt'[t].user = rt'[req'[w].tok].user
                                                 /\ rt'[t].client = rt'[req'[w].tok].client
    BY DEF ReplaysSweepFamily
  <2>1. PICK r \in Request : r = req'[w]
    BY <1>1
  <2> QED BY <1>3, <2>1 DEF Present
<1> QED BY <1>2, <1>4 DEF SweepInv

\* A handler that does not act.
LEMMA OwnsStill ==
  ASSUME IInv, SweepInv, NEW w \in Workers, \A t \in Tokens : lock'[t] = w => lock[t] = w
  PROVE  Owns(w, req[w])
<1>1. req[w] \in Request /\ \A t \in req[w].snap : Present(t)
  BY DEF IInv, WellFormed, TypeOK, RowsExist
<1> QED BY <1>1 DEF SweepInv, SweepsOwnRows, ReplaysSweepFamily, Owns

\* A handler that goes on without locks, not to a bulk revocation.
LEMMA OwnsNothing ==
  ASSUME NEW w \in Workers, NEW r, r.pc # "sweep", \A t \in Tokens : lock'[t] # w
  PROVE  Owns(w, r)
BY DEF Owns

\* A bulk revocation begins, with the lock of the token that was presented.
LEMMA OwnsSnapshot ==
  ASSUME IInv, NEW w \in Workers, NEW t \in Tokens \cup {None}, NEW s \in Scope,
         NEW ids \in SUBSET Tokens, StartSweep(w, t, s, ids),
         \A u \in Tokens : lock'[u] = w => u = t,
         t # None => Present(t) /\ s = FamilyOf(t)
  PROVE  Owns(w, req'[w])
<1>1. TypeOK /\ req \in [Workers -> Request]
  BY DEF IInv, WellFormed, TypeOK
<1>2. PICK r \in Request :
        r = [Idle EXCEPT !.pc = "sweep", !.tok = t, !.scope = s, !.snap = {x \in ids : Matches(x, s)}]
  BY <1>1, SweepRequestType
<1>3. r.pc = "sweep" /\ r.tok = t /\ r.snap = {x \in ids : Matches(x, s)}
  BY <1>2 DEF Idle
<1>4. req'[w] = r
  BY <1>1, <1>2 DEF StartSweep, Become
<1>5. t # None => s.user = rt[t].user /\ s.client = rt[t].client /\ s.user # None /\ s.client # None
  <2>1. t # None => rt[t] \in Row
    BY <1>1 DEF TypeOK, Present, NoRow
  <2> QED BY <2>1, NoneIsNoElement DEF FamilyOf, Row
<1>6. t # None => \A x \in r.snap : Present(x) /\ rt[x].user = rt[t].user /\ rt[x].client = rt[t].client
  BY <1>3, <1>5 DEF Matches
<1> QED BY <1>3, <1>4, <1>6 DEF Owns

LEMMA SweepStep == IInv /\ SweepInv /\ [Next]_vars => SweepInv'
<1> SUFFICES ASSUME IInv, SweepInv, [Next]_vars PROVE \A w \in Workers : Owns(w, req'[w])
  BY SweepKept
<1> USE NoneIsNoElement
<1>1. TypeOK /\ rt \in [Tokens -> Row \cup {NoRow}] /\ lock \in [Tokens -> Workers \cup {None}]
      /\ req \in [Workers -> Request]
  BY DEF IInv, WellFormed, TypeOK
<1>2. ASSUME NEW w \in Workers, \A v \in Workers \ {w} : req'[v] = req[v],
             \A v \in Workers \ {w} : \A t \in Tokens : lock'[t] = v => lock[t] = v,
             Owns(w, req'[w])
      PROVE  \A v \in Workers : Owns(v, req'[v])
  BY <1>2, OwnsStill
<1>3. ASSUME NEW w \in Workers, NEW r, Become(w, r), r.pc # "sweep",
             (lock' = lock /\ req[w].pc \notin {"sweep", "rotating"}) \/ lock' = Unlock(w)
      PROVE  \A v \in Workers : Owns(v, req'[v])
  <2>1. req'[w] = r /\ \A v \in Workers \ {w} : req'[v] = req[v]
    BY <1>1, <1>3 DEF Become
  <2>2. \A v \in Workers \ {w} : \A t \in Tokens : lock'[t] = v => lock[t] = v
    BY <1>1, <1>3 DEF Unlock
  <2>3. \A t \in Tokens : lock'[t] # w
    BY <1>1, <1>3 DEF Unlock, SweepInv, SweepsOwnRows
  <2>4. Owns(w, req'[w])
    BY <1>3, <2>1, <2>3, OwnsNothing
  <2> QED BY <1>2, <2>1, <2>2, <2>4
<1>4. ASSUME NEW w \in Workers, NEW t \in Tokens \cup {None}, NEW s \in Scope, NEW ids \in SUBSET Tokens,
             req[w].pc = "idle", StartSweep(w, t, s, ids), t # None => Present(t) /\ s = FamilyOf(t),
             lock' = lock \/ (t # None /\ lock' = [lock EXCEPT ![t] = w])
      PROVE  \A v \in Workers : Owns(v, req'[v])
  <2>1. \A v \in Workers \ {w} : req'[v] = req[v]
    BY <1>1, <1>4 DEF StartSweep, Become
  <2>2. \A v \in Workers \ {w} : \A u \in Tokens : lock'[u] = v => lock[u] = v
    BY <1>1, <1>4
  <2>3. \A u \in Tokens : lock'[u] = w => u = t
    BY <1>1, <1>4 DEF SweepInv, SweepsOwnRows
  <2>4. Owns(w, req'[w])
    BY <1>4, <2>3, OwnsSnapshot
  <2> QED BY <1>2, <2>1, <2>2, <2>4
<1>5. ASSUME NEW w \in Workers, Redemption(w) PROVE \A v \in Workers : Owns(v, req'[v])
  <2>1. ASSUME NEW c \in Codes, ClaimCode(w, c) PROVE \A v \in Workers : Owns(v, req'[v])
    <3>1. [Idle EXCEPT !.pc = "claimed", !.code = c].pc # "sweep"
      BY DEF Idle
    <3> QED BY <1>3, <2>1, <3>1 DEF ClaimCode
  <2>2. ASSUME NEW c \in Codes, RedeemReplay(w, c) PROVE \A v \in Workers : Owns(v, req'[v])
    <3>1. [user |-> CodeUser[c], client |-> CodeClient[c]] \in Scope
      BY ConstantsAssumption DEF Scope
    <3> QED BY <1>4, <2>2, <3>1 DEF RedeemReplay
  <2>3. ASSUME RedeemWithoutToken(w) \/ RedeemReply(w) \/ RedeemReplyLost(w)
        PROVE  \A v \in Workers : Owns(v, req'[v])
    <3>1. Idle.pc # "sweep" /\ Become(w, Idle) /\ lock' = lock /\ req[w].pc \notin {"sweep", "rotating"}
      BY <2>3 DEF Idle, RedeemWithoutToken, RedeemReply, RedeemReplyLost
    <3> QED BY <1>3, <3>1
  <2>4. ASSUME NEW n \in Tokens, IssueRefreshToken(w, n) PROVE \A v \in Workers : Owns(v, req'[v])
    <3>1. [Idle EXCEPT !.pc = "replying", !.new = n].pc # "sweep"
      BY DEF Idle
    <3> QED BY <1>3, <2>4, <3>1 DEF IssueRefreshToken
  <2> QED BY <1>5, <2>1, <2>2, <2>3, <2>4 DEF Redemption
<1>6. ASSUME NEW w \in Workers, Revocation(w) PROVE \A v \in Workers : Owns(v, req'[v])
  <2>1. ASSUME NEW u \in Users, RevokeUser(w, u) PROVE \A v \in Workers : Owns(v, req'[v])
    <3>1. [user |-> u, client |-> None] \in Scope
      BY DEF Scope
    <3> QED BY <1>4, <2>1, <3>1 DEF RevokeUser
  <2>2. ASSUME NEW cl \in Clients, NEW ids \in SUBSET Tokens, RevokeClient(w, cl, ids)
        PROVE  \A v \in Workers : Owns(v, req'[v])
    <3>1. [user |-> None, client |-> cl] \in Scope
      BY DEF Scope
    <3> QED BY <1>4, <2>2, <3>1 DEF RevokeClient
  <2>3. ASSUME NEW t \in Tokens, SweepRow(w, t) PROVE \A v \in Workers : Owns(v, req'[v])
    <3>1. /\ req' = req /\ req[w].pc = "sweep" /\ t \in req[w].snap
          /\ lock' = [lock EXCEPT ![t] = w] /\ req[w] \in Request
      BY <1>1, <2>3 DEF SweepRow
    <3>2. \A v \in Workers \ {w} : \A u \in Tokens : lock'[u] = v => lock[u] = v
      BY <1>1, <3>1
    <3>3. \A u \in Tokens : lock'[u] = w => u \in req[w].snap \cup {req[w].tok}
      BY <1>1, <3>1 DEF SweepInv, SweepsOwnRows
    <3>4. \A u \in req[w].snap : Present(u)
      BY DEF IInv, WellFormed, RowsExist
    <3>5. Owns(w, req'[w])
      BY <3>1, <3>3, <3>4 DEF SweepInv, ReplaysSweepFamily, Owns
    <3> QED BY <1>2, <3>1, <3>2, <3>5
  <2>4. ASSUME SweepCommit(w) \/ TxAbort(w) PROVE \A v \in Workers : Owns(v, req'[v])
    <3>1. Idle.pc # "sweep" /\ Become(w, Idle) /\ lock' = Unlock(w)
      BY <2>4 DEF Idle, SweepCommit, TxAbort
    <3> QED BY <1>3, <3>1
  <2> QED BY <1>6, <2>1, <2>2, <2>3, <2>4 DEF Revocation
<1>7. ASSUME NEW w \in Workers, Rotation(w) PROVE \A v \in Workers : Owns(v, req'[v])
  <2>1. ASSUME NEW t \in Tokens, NEW cl \in Clients, RotateReuse(w, t, cl)
        PROVE  \A v \in Workers : Owns(v, req'[v])
    <3>1. Present(t)
      BY <2>1 DEF RotateReuse, IInv, WellFormed, RowsExist
    <3>2. FamilyOf(t) \in Scope
      BY <1>1, <3>1 DEF FamilyOf, Scope, Row, NoRow, Present
    <3> QED BY <1>4, <2>1, <3>1, <3>2 DEF RotateReuse
  <2>2. ASSUME NEW t \in Tokens, NEW n \in Tokens, RotateReplace(w, t, n)
        PROVE  \A v \in Workers : Owns(v, req'[v])
    <3> DEFINE r == [Idle EXCEPT !.pc = "rotating", !.tok = t, !.new = n]
    <3>1. r.pc = "rotating" /\ r.tok = t
      BY DEF Idle
    <3>2. req'[w] = r /\ \A v \in Workers \ {w} : req'[v] = req[v]
      BY <1>1, <2>2, <3>1 DEF RotateReplace, Become
    <3>3. /\ lock' = [lock EXCEPT ![t] = w] /\ req[w].pc = "idle"
      BY <2>2 DEF RotateReplace
    <3>4. \A v \in Workers \ {w} : \A u \in Tokens : lock'[u] = v => lock[u] = v
      BY <1>1, <3>3
    <3>5. \A u \in Tokens : lock'[u] = w => u = t
      BY <1>1, <3>3 DEF SweepInv, SweepsOwnRows
    <3>6. Owns(w, req'[w])
      BY <3>1, <3>2, <3>5 DEF Owns
    <3> QED BY <1>2, <3>2, <3>4, <3>6
  <2>3. ASSUME RotateCommit(w) PROVE \A v \in Workers : Owns(v, req'[v])
    <3>1. [Idle EXCEPT !.pc = "issuing", !.new = req[w].new].pc # "sweep"
      BY DEF Idle
    <3> QED BY <1>3, <2>3, <3>1 DEF RotateCommit
  <2>4. ASSUME RotateReply(w) \/ RotateReplyLost(w) \/ Compensate(w) \/ CompensateFails(w)
        PROVE  \A v \in Workers : Owns(v, req'[v])
    <3>1. Idle.pc # "sweep" /\ Become(w, Idle) /\ lock' = lock /\ req[w].pc \notin {"sweep", "rotating"}
      BY <2>4 DEF Idle, RotateReply, RotateReplyLost, Compensate, CompensateFails
    <3> QED BY <1>3, <3>1
  <2>5. ASSUME IssuanceFails(w) PROVE \A v \in Workers : Owns(v, req'[v])
    <3>1. [req[w] EXCEPT !.pc = "compensating"].pc # "sweep"
      BY <1>1 DEF Request
    <3> QED BY <1>3, <2>5, <3>1 DEF IssuanceFails
  <2> QED BY <1>7, <2>1, <2>2, <2>3, <2>4, <2>5 DEF Rotation
<1>8. ASSUME lock' = lock, req' = req PROVE \A v \in Workers : Owns(v, req'[v])
  BY <1>8, OwnsStill
<1> QED BY <1>5, <1>6, <1>7, <1>8 DEF Next, vars, RevokeOne, TokenExpires, CodeExpires

LEMMA SweepInvHolds == Spec => [](IInv /\ SweepInv)
<1>1. Init => SweepInv
  BY NoneIsNoElement DEF Init, SweepInv, SweepsOwnRows, ReplaysSweepFamily, Idle
<1>2. QED
  BY <1>1, SweepStep, InductiveInvariant, PTL DEF Spec

\* ReplayStaysInFamily (rotateRefreshToken): what the transaction of a replay has
\* locked when it commits is of the user and the client of the token presented,
\* whatever other handlers did to these rows since its statement began.
THEOREM ReplayEndsOneFamily == Spec => ReplayStaysInFamily
<1>1. ASSUME IInv, SweepInv, NEW w \in Workers, SweepCommit(w), req[w].tok # None,
             NEW t \in Tokens, rt'[t] # rt[t]
      PROVE  rt[t].user = rt[req[w].tok].user /\ rt[t].client = rt[req[w].tok].client
  <2>1. lock[t] = w /\ req[w].pc = "sweep"
    BY <1>1 DEF SweepCommit, RevokeRows, LockedBy, IInv, WellFormed, TypeOK
  <2> QED BY <1>1, <2>1 DEF SweepInv, SweepsOwnRows, ReplaysSweepFamily
<1>2. IInv /\ SweepInv =>
        [\A w \in Workers : (SweepCommit(w) /\ req[w].tok # None) =>
           \A t \in Tokens : rt'[t] # rt[t] =>
             /\ rt[t].user = rt[req[w].tok].user
             /\ rt[t].client = rt[req[w].tok].client]_vars
  BY <1>1
<1> QED BY <1>2, SweepInvHolds, PTL DEF ReplayStaysInFamily

\* SweepRevokesSnapshot (revocation.ts): a bulk revocation that commits leaves no
\* row of its snapshot live, whoever held the lock of that row meanwhile.
THEOREM RevocationIsWhole == Spec => SweepRevokesSnapshot
<1>1. ASSUME IInv, [Next]_vars, NEW w \in Workers, req[w].pc = "sweep", req'[w].pc = "idle"
      PROVE  SweepCommit(w) \/ TxAbort(w)
  <2>1. req \in [Workers -> Request]
    BY <1>1 DEF IInv, WellFormed, TypeOK
  <2>2. ASSUME NEW v \in Workers, Redemption(v) PROVE req'[w] = req[w]
    BY <1>1, <2>1, <2>2 DEF Redemption, ClaimCode, RedeemReplay, RedeemWithoutToken, IssueRefreshToken,
                            RedeemReply, RedeemReplyLost, StartSweep, Become
  <2>3. ASSUME NEW v \in Workers, Revocation(v) PROVE req'[w] = req[w] \/ (v = w /\ (SweepCommit(w) \/ TxAbort(w)))
    BY <1>1, <2>1, <2>3 DEF Revocation, RevokeUser, RevokeClient, SweepRow, SweepCommit, TxAbort,
                            StartSweep, Become
  <2>4. ASSUME NEW v \in Workers, Rotation(v) PROVE req'[w] = req[w]
    BY <1>1, <2>1, <2>4 DEF Rotation, RotateReuse, RotateReplace, RotateCommit, RotateReply, RotateReplyLost,
                            IssuanceFails, Compensate, CompensateFails, StartSweep, Become
  <2> QED BY <1>1, <2>2, <2>3, <2>4 DEF Next, vars, RevokeOne, TokenExpires, CodeExpires
<1>2. ASSUME IInv, [Next]_vars, NEW w \in Workers, req[w].pc = "sweep", req'[w].pc = "idle", ~TxAbort(w),
             NEW t \in req[w].snap
      PROVE  rt'[t].status = "revoked"
  <2>1. SweepCommit(w) /\ t \in Tokens /\ Present(t)
    BY <1>1, <1>2 DEF IInv, WellFormed, RowsExist, TypeOK, Request
  <2>2. t \in LockedBy(w) /\ LockedBy(w) \in SUBSET Tokens /\ \A u \in LockedBy(w) : Present(u)
    BY <1>2, <2>1, NoneIsNoElement DEF SweepCommit, LockedBy, IInv, WellFormed, RowsExist
  <2>3. rt' = RevokeRows(LockedBy(w)) /\ rt \in [Tokens -> Row \cup {NoRow}]
    BY <1>2, <2>1 DEF SweepCommit, IInv, WellFormed, TypeOK
  <2> QED BY <2>1, <2>2, <2>3, RevokeRowsType
<1>3. IInv /\ [Next]_vars =>
        [\A w \in Workers : (req[w].pc = "sweep" /\ req'[w].pc = "idle" /\ ~TxAbort(w)) =>
           \A t \in req[w].snap : rt'[t].status = "revoked"]_vars
  BY <1>2
<1> QED BY <1>3, InductiveInvariant, PTL DEF SweepRevokesSnapshot, Spec


-----------------------------------------------------------------------------
(* The tables implement GrantLifecycle, for every instance: the initial     *)
(* states map to its initial states and every step of a handler maps to a   *)
(* Redeem, an Issue, a Rotate, a Revoke or a stutter.                       *)
(*                                                                          *)
(* The argument needs the inductive invariant IInv: that the claimed code   *)
(* has no row makes an insertion an Issue, and that a grant has one live    *)
(* row makes the revocation of that row the death of the grant, and a       *)
(* rotation the exchange of one token for another.                          *)


Spent == {t \in Tokens : rt[t].status = "revoked"}

\* What the abstract variables see of a row.
LEMMA RowsOfGrants ==
  ASSUME IInv
  PROVE  /\ \A t \in Tokens : Present(t) =>
              /\ rt[t].grant \in Codes
              /\ codeState[rt[t].grant] = "used"
              /\ rt[t].status \in {"live", "revoked"}
         /\ \A c \in Codes : codeState[c] \in {"fresh", "used"}
         /\ \A c \in Codes : \A t \in LiveOf(c) : LiveOf(c) = {t}
<1>1. \A t \in Tokens : Present(t) =>
        /\ rt[t].grant \in Codes
        /\ codeState[rt[t].grant] = "used"
        /\ rt[t].status \in {"live", "revoked"}
  BY DEF IInv, WellFormed, TypeOK, SingleUse, RowsComeFromUsedCodes, Present, Row, NoRow
<1>2. \A c \in Codes : \A t \in LiveOf(c) : LiveOf(c) = {t}
  BY DEF IInv, SingleUse, OneLivePerGrant
<1>3. \A c \in Codes : codeState[c] \in {"fresh", "used"}
  BY DEF IInv, WellFormed, TypeOK
<1>4. QED
  BY <1>1, <1>2, <1>3

LEMMA InitRefines == Init => Lifecycle!Init
<1> SUFFICES ASSUME Init
             PROVE  Lifecycle!Init
  OBVIOUS
<1>1. \A c \in Codes : LiveOf(c) = {} /\ codeState[c] = "fresh"
  BY DEF Init, LiveOf, Live, NoRow
<1>2. GrantStage = [c \in Codes |-> "unused"]
  BY <1>1 DEF GrantStage
<1>3. Spent = {}
  BY DEF Init, Spent, NoRow
<1>4. QED
  BY <1>1, <1>2, <1>3 DEF Lifecycle!Init, Spent

\* A step that touches neither table is invisible.
LEMMA LocalStepRefines ==
  ASSUME UNCHANGED <<rt, codeState>>
  PROVE  UNCHANGED Lifecycle!vars
BY DEF Lifecycle!vars, GrantStage, LiveOf, PresentOf, Live, Present

\* The conditional UPDATE of a code is the one redemption of its grant.
LEMMA ClaimCodeRefines ==
  ASSUME IInv, NEW w \in Workers, NEW c \in Codes, ClaimCode(w, c)
  PROVE  Lifecycle!Redeem(c)
<1>1. /\ rt' = rt /\ codeState[c] = "fresh"
      /\ codeState' = [codeState EXCEPT ![c] = "used"]
      /\ codeState \in [Codes -> {"fresh", "used"}]
  BY DEF ClaimCode, IInv, WellFormed, TypeOK
<1>2. PresentOf(c) = {} /\ PresentOf(c)' = {}
  BY <1>1, RowsOfGrants DEF PresentOf, Present
<1>3. /\ \A d \in Codes : LiveOf(d)' = LiveOf(d) /\ PresentOf(d)' = PresentOf(d)
      /\ Spent' = Spent
  BY <1>1 DEF LiveOf, Live, PresentOf, Present, Spent
<1>4. GrantStage[c] = "unused"
  BY <1>1 DEF GrantStage
<1>5. GrantStage' = [GrantStage EXCEPT ![c] = "redeemed"]
  <2>1. \A d \in Codes : GrantStage'[d] =
          IF d = c THEN "redeemed" ELSE GrantStage[d]
    BY <1>1, <1>2, <1>3 DEF GrantStage
  <2>2. QED
    BY <2>1 DEF GrantStage
<1>6. QED
  BY <1>3, <1>4, <1>5 DEF Lifecycle!Redeem, Spent

\* The INSERT for a claimed code gives the grant its first token.
LEMMA IssueRefines ==
  ASSUME IInv, NEW w \in Workers, NEW n \in Tokens, IssueRefreshToken(w, n)
  PROVE  \E c \in Codes : Lifecycle!Issue(c, n)
<1>0. PICK c \in Codes : c = req[w].code
  BY DEF IssueRefreshToken, IInv, WellFormed, RowsExist
<1>1. /\ codeState[c] = "used"
      /\ \A t \in Tokens : Present(t) => rt[t].grant # c
  BY <1>0 DEF IssueRefreshToken, IInv, SingleUse, ClaimExclusive, WellFormed, RowsExist
<1>2. /\ rt'[n].status = "live" /\ rt'[n].grant = c
      /\ \A t \in Tokens : t # n => rt'[t] = rt[t]
      /\ codeState' = codeState /\ ~Present(n)
  BY <1>0 DEF IssueRefreshToken, Fresh, IInv, WellFormed, TypeOK
<1>3. LiveOf(c) = {} /\ PresentOf(c) = {}
  BY <1>1 DEF LiveOf, Live, PresentOf, Present
<1>4. LiveOf(c)' = {n} /\ PresentOf(c)' = {n}
  BY <1>1, <1>2 DEF LiveOf, Live, PresentOf, Present
<1>5. \A d \in Codes : d # c => LiveOf(d)' = LiveOf(d) /\ PresentOf(d)' = PresentOf(d)
  BY <1>2 DEF LiveOf, Live, PresentOf, Present
<1>6. Spent' = Spent
  BY <1>2 DEF Spent, Present
<1>7. n \notin Spent /\ \A d \in Codes : n \notin LiveOf(d)
  BY <1>2 DEF Spent, Present, LiveOf, Live
<1>8. GrantStage[c] = "redeemed"
  BY <1>1, <1>3 DEF GrantStage
<1>9. GrantStage' = [GrantStage EXCEPT ![c] = "active"]
  <2>1. \A d \in Codes : GrantStage'[d] = IF d = c THEN "active" ELSE GrantStage[d]
    BY <1>1, <1>2, <1>4, <1>5 DEF GrantStage
  <2>2. QED
    BY <2>1 DEF GrantStage
<1>10. [d \in Codes |-> LiveOf(d)]' = [[d \in Codes |-> LiveOf(d)] EXCEPT ![c] = {n}]
  BY <1>4, <1>5
<1>11. Lifecycle!Issue(c, n)
  BY <1>6, <1>7, <1>8, <1>9, <1>10 DEF Lifecycle!Issue, Lifecycle!NeverUsed, Spent
<1>12. QED
  BY <1>1, <1>11

\* The commit of a rotation swaps the live token of the grant for a new one.
LEMMA RotateCommitRefines ==
  ASSUME IInv, NEW w \in Workers, RotateCommit(w)
  PROVE  \E c \in Codes, n \in Tokens : Lifecycle!Rotate(c, n)
<1>0. PICK old \in Tokens, new \in Tokens : old = req[w].tok /\ new = req[w].new
  BY DEF RotateCommit, IInv, WellFormed, RowsExist
<1>1. /\ old # new /\ Live(old) /\ ~Present(new) /\ rt[old].grant \in Codes
      /\ rt'[old].status = "revoked" /\ rt'[old].grant = rt[old].grant
      /\ rt'[new].status = "live" /\ rt'[new].grant = rt[old].grant
      /\ \A t \in Tokens : t \notin {old, new} => rt'[t] = rt[t]
  BY <1>0, RotateCommitEffect
<1>2. PICK c \in Codes : c = rt[old].grant
  BY <1>1
<1>3. codeState' = codeState /\ codeState[c] = "used"
  BY <1>1, <1>2, RowsOfGrants DEF RotateCommit, Live, Present
<1>4. LiveOf(c) = {old} /\ old \in PresentOf(c)
  BY <1>1, <1>2, RowsOfGrants DEF LiveOf, Live, PresentOf, Present
<1>5. new \in LiveOf(c)' /\ new \in PresentOf(c)'
  BY <1>1, <1>2 DEF LiveOf, Live, PresentOf, Present
<1>6. LiveOf(c)' = {new}
  <2>1. \A t \in LiveOf(c)' : t = new
    BY <1>1, <1>4 DEF LiveOf, Live
  <2>2. QED
    BY <2>1, <1>5
<1>7. \A d \in Codes : d # c => LiveOf(d)' = LiveOf(d) /\ PresentOf(d)' = PresentOf(d)
  BY <1>1, <1>2 DEF LiveOf, Live, PresentOf, Present
<1>8. Spent' = Spent \cup {old}
  BY <1>1 DEF Spent, Live, Present
<1>9. new \notin Spent /\ \A d \in Codes : new \notin LiveOf(d)
  BY <1>1 DEF Spent, Present, LiveOf, Live
<1>10. GrantStage[c] = "active"
  BY <1>3, <1>4 DEF GrantStage
<1>11. GrantStage' = GrantStage
  <2>1. \A d \in Codes : GrantStage'[d] = GrantStage[d]
    BY <1>3, <1>4, <1>5, <1>6, <1>7 DEF GrantStage
  <2>2. QED
    BY <2>1 DEF GrantStage
<1>12. [d \in Codes |-> LiveOf(d)]' = [[d \in Codes |-> LiveOf(d)] EXCEPT ![c] = {new}]
  BY <1>6, <1>7
<1>13. Lifecycle!Rotate(c, new)
  BY <1>4, <1>8, <1>9, <1>10, <1>11, <1>12
     DEF Lifecycle!Rotate, Lifecycle!NeverUsed, Spent
<1>14. QED
  BY <1>13

\* Revoking rows ends the grants whose live row is among them.
LEMMA RevokeRowsRefines ==
  ASSUME IInv, NEW S \in SUBSET Tokens, \A t \in S : Present(t),
         rt' = RevokeRows(S), codeState' = codeState
  PROVE  Lifecycle!Next \/ UNCHANGED Lifecycle!vars
<1>1. \A t \in Tokens :
        /\ rt'[t].grant = rt[t].grant
        /\ rt'[t].status = IF t \in S THEN "revoked" ELSE rt[t].status
  BY RevokeRowsType DEF IInv, WellFormed, TypeOK
<1>2. PICK G \in SUBSET Codes : G = {c \in Codes : LiveOf(c) \cap S # {}}
  OBVIOUS
<1>3. \A c \in Codes : PresentOf(c)' = PresentOf(c)
  BY <1>1 DEF PresentOf, Present
<1>4. \A c \in G : LiveOf(c)' = {} /\ LiveOf(c) \subseteq S
  BY <1>1, <1>2, RowsOfGrants DEF LiveOf, Live
<1>5. \A c \in Codes \ G : LiveOf(c)' = LiveOf(c)
  BY <1>1, <1>2 DEF LiveOf, Live
<1>6. \A c \in G : GrantStage[c] = "active" /\ PresentOf(c) # {}
  <2> SUFFICES ASSUME NEW c \in G
               PROVE  GrantStage[c] = "active" /\ PresentOf(c) # {}
    OBVIOUS
  <2>1. PICK t \in Tokens : t \in LiveOf(c) /\ t \in PresentOf(c)
    BY <1>2 DEF LiveOf, PresentOf, Live, Present
  <2>2. codeState[c] = "used"
    BY <2>1, RowsOfGrants DEF PresentOf
  <2>3. QED
    BY <1>2, <2>1, <2>2 DEF GrantStage
<1>7. GrantStage' = [c \in Codes |-> IF c \in G THEN "dead" ELSE GrantStage[c]]
  <2>1. \A c \in Codes : GrantStage'[c] = IF c \in G THEN "dead" ELSE GrantStage[c]
    BY <1>3, <1>4, <1>5, <1>6 DEF GrantStage
  <2>2. QED
    BY <2>1 DEF GrantStage
<1>8. [c \in Codes |-> LiveOf(c)]' = [c \in Codes |-> IF c \in G THEN {} ELSE LiveOf(c)]
  BY <1>4, <1>5
<1>9. Spent' = Spent \cup UNION {LiveOf(c) : c \in G}
  <2>1. \A t \in Spent' : t \in Spent \/ \E c \in G : t \in LiveOf(c)
    BY <1>1, <1>2, RowsOfGrants DEF Spent, LiveOf, Live
  <2>2. Spent \subseteq Spent'
    BY <1>1 DEF Spent
  <2>3. \A c \in G : LiveOf(c) \subseteq Spent'
    BY <1>1, <1>4 DEF Spent, LiveOf
  <2>4. QED
    BY <2>1, <2>2, <2>3
<1>10. CASE G = {}
  <2>1. Spent' = Spent
    BY <1>9, <1>10
  <2>2. GrantStage' = GrantStage
    BY <1>7, <1>10 DEF GrantStage
  <2>3. QED
    BY <1>8, <1>10, <2>1, <2>2 DEF Lifecycle!vars, Spent
<1>11. CASE G # {}
  <2>1. Lifecycle!Revoke(G)
    BY <1>6, <1>7, <1>8, <1>9, <1>11, <1>2 DEF Lifecycle!Revoke, Spent
  <2>2. QED
    BY <2>1 DEF Lifecycle!Next
<1>12. QED
  BY <1>10, <1>11

LEMMA StepRefines ==
  IInv /\ [Next]_vars => [Lifecycle!Next]_(Lifecycle!vars)
<1> SUFFICES ASSUME IInv, [Next]_vars
             PROVE  Lifecycle!Next \/ UNCHANGED Lifecycle!vars
  OBVIOUS
<1>1. ASSUME NEW w \in Workers, NEW c \in Codes, ClaimCode(w, c)
      PROVE  Lifecycle!Next
  BY <1>1, ClaimCodeRefines DEF Lifecycle!Next
<1>2. ASSUME NEW w \in Workers, NEW n \in Tokens, IssueRefreshToken(w, n)
      PROVE  Lifecycle!Next
  BY <1>2, IssueRefines DEF Lifecycle!Next
<1>3. ASSUME NEW w \in Workers, RotateCommit(w)
      PROVE  Lifecycle!Next
  BY <1>3, RotateCommitRefines DEF Lifecycle!Next
<1>4. ASSUME NEW w \in Workers, SweepCommit(w)
      PROVE  Lifecycle!Next \/ UNCHANGED Lifecycle!vars
  <2>1. LockedBy(w) \in SUBSET Tokens /\ \A t \in LockedBy(w) : Present(t)
    BY NoneIsNoElement DEF LockedBy, IInv, WellFormed, RowsExist
  <2>2. QED
    BY <1>4, <2>1, RevokeRowsRefines DEF SweepCommit
<1>5. ASSUME NEW t \in Tokens, RevokeOne(t)
      PROVE  Lifecycle!Next \/ UNCHANGED Lifecycle!vars
  <2>1. {t} \in SUBSET Tokens /\ \A u \in {t} : Present(u)
    BY <1>5 DEF RevokeOne, Live, Present
  <2>2. QED
    BY <1>5, <2>1, RevokeRowsRefines DEF RevokeOne
<1>6. ASSUME NEW w \in Workers, Compensate(w)
      PROVE  Lifecycle!Next \/ UNCHANGED Lifecycle!vars
  <2>1. {req[w].new} \in SUBSET Tokens /\ \A u \in {req[w].new} : Present(u)
    BY <1>6 DEF Compensate, IInv, WellFormed, RowsExist
  <2>2. QED
    BY <1>6, <2>1, RevokeRowsRefines DEF Compensate
<1>7. CASE UNCHANGED <<rt, codeState>>
  BY <1>7, LocalStepRefines
<1>8. ASSUME NEW w \in Workers,
             \/ \E c \in Codes : RedeemReplay(w, c)
             \/ RedeemWithoutToken(w) \/ RedeemReply(w) \/ RedeemReplyLost(w)
      PROVE  UNCHANGED <<rt, codeState>>
  BY <1>8 DEF RedeemReplay, RedeemWithoutToken, RedeemReply, RedeemReplyLost
<1>9. ASSUME NEW w \in Workers,
             \/ \E u \in Users : RevokeUser(w, u)
             \/ \E cl \in Clients, ids \in SUBSET Tokens : RevokeClient(w, cl, ids)
             \/ \E t \in Tokens : SweepRow(w, t)
             \/ TxAbort(w)
      PROVE  UNCHANGED <<rt, codeState>>
  BY <1>9 DEF RevokeUser, RevokeClient, SweepRow, TxAbort
<1>10. ASSUME NEW w \in Workers,
              \/ \E t \in Tokens, cl \in Clients : RotateReuse(w, t, cl)
              \/ \E t, n \in Tokens : RotateReplace(w, t, n)
              \/ RotateReply(w) \/ RotateReplyLost(w)
              \/ IssuanceFails(w) \/ CompensateFails(w)
       PROVE  UNCHANGED <<rt, codeState>>
  BY <1>10 DEF RotateReuse, RotateReplace, RotateReply, RotateReplyLost,
               IssuanceFails, CompensateFails
<1>11. ASSUME \/ \E t \in Tokens : TokenExpires(t)
              \/ \E c \in Codes : CodeExpires(c)
              \/ UNCHANGED vars
       PROVE  UNCHANGED <<rt, codeState>>
  BY <1>11 DEF TokenExpires, CodeExpires, vars
<1>12. QED
  BY <1>1, <1>2, <1>3, <1>4, <1>5, <1>6, <1>7, <1>8, <1>9, <1>10, <1>11
     DEF Next, Redemption, Revocation, Rotation

\* The handlers that redeem, rotate and revoke keep the promise GrantLifecycle
\* makes to a client and its user.
THEOREM Refinement == Spec => ImplementsGrantLifecycle
<1>1. QED
  BY InitRefines, StepRefines, InductiveInvariant, PTL
     DEF Spec, ImplementsGrantLifecycle, Lifecycle!Spec
=============================================================================

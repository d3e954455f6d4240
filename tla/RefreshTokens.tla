---------------------------- MODULE RefreshTokens ----------------------------
(***************************************************************************)
(* The refresh_tokens and authorization_codes tables of the Portal and     *)
(* every handler that writes them: rotation with replay detection          *)
(* (lib/auth/token.ts), redemption of an authorization code                *)
(* (lib/auth/oauth-grant.ts) and the revocations of                        *)
(* lib/auth/token/revocation.ts with their callers.                        *)
(*                                                                         *)
(* Handlers run concurrently, in one Portal process or in several; they    *)
(* meet only in PostgreSQL at READ COMMITTED.  SELECT ... FOR UPDATE and   *)
(* UPDATE lock the rows they touch until the transaction ends; a bulk      *)
(* UPDATE works on the rows that were committed when the statement began   *)
(* and waits, row by row, for the locks of others.  What a transaction has *)
(* written is seen by others only when it commits, so an action of this    *)
(* module is a lock, a commit or an autocommitted statement.               *)
(***************************************************************************)
EXTENDS Naturals, FiniteSets

CONSTANTS
  Tokens,       \* ids of refresh_tokens rows (each row has its own secret)
  Codes,        \* authorization codes
  Users, Clients,
  Workers,      \* handlers in flight
  CodeUser,     \* CodeUser[c]: the user who authorized code c
  CodeClient,   \* CodeClient[c]: the client code c was issued to
  None          \* no token, no code, no user, no client, no lock owner

ASSUME ConstantsAssumption ==
  /\ None \notin Tokens \cup Codes \cup Users \cup Clients \cup Workers
  /\ CodeUser \in [Codes -> Users]
  /\ CodeClient \in [Codes -> Clients]

VARIABLES
  rt,           \* rt[t]: the committed row of token t
  expired,      \* the tokens past their expiresAt
  codeState,    \* codeState[c]: "fresh" (used = false) or "used"
  codeExpired,  \* the codes past their expiresAt
  lock,         \* lock[t]: the handler that holds the lock on row t, or None
  req,          \* req[w]: local state of handler w
  delivered,    \* history: tokens whose secret reached the client
  lost          \* history: tokens whose secret was dropped by a fault

vars == <<rt, expired, codeState, codeExpired, lock, req, delivered, lost>>

-----------------------------------------------------------------------------
(* Rows, scopes and handler state *)

\* grant is a history field: the code from which the token descends.
Row == [status : {"live", "revoked"}, user : Users, client : Clients, grant : Codes]
NoRow == [status |-> "absent", user |-> None, client |-> None, grant |-> None]

\* The WHERE clause of a bulk revocation; None leaves a column out.
Scope == [user : Users \cup {None}, client : Clients \cup {None}]

Phase == {"idle", "sweep", "rotating", "issuing", "compensating", "claimed", "replying"}

Request == [pc : Phase, tok : Tokens \cup {None}, new : Tokens \cup {None},
            code : Codes \cup {None}, scope : Scope, snap : SUBSET Tokens]

NoScope == [user |-> None, client |-> None]
Idle == [pc |-> "idle", tok |-> None, new |-> None, code |-> None,
         scope |-> NoScope, snap |-> {}]

Present(t) == rt[t].status # "absent"
Live(t) == rt[t].status = "live"
Reserved(t) == \E w \in Workers : req[w].new = t
Fresh(t) == ~Present(t) /\ ~Reserved(t)

\* The rows a bulk revocation matches.  Only the per-client one, which
\* reports how many rows it turned, leaves out the rows already revoked.
Matches(t, s) ==
  /\ Present(t)
  /\ s.user # None => rt[t].user = s.user
  /\ s.client # None => rt[t].client = s.client
  /\ s.user = None => Live(t)

RevokeRows(S) ==
  [t \in Tokens |-> IF t \in S THEN [rt[t] EXCEPT !.status = "revoked"] ELSE rt[t]]

LockedBy(w) == {t \in Tokens : lock[t] = w}
Unlock(w) == [t \in Tokens |-> IF lock[t] = w THEN None ELSE lock[t]]

Unlocked(t) == lock[t] = None

Become(w, r) == req' = [req EXCEPT ![w] = r]

-----------------------------------------------------------------------------
Init ==
  /\ rt = [t \in Tokens |-> NoRow]
  /\ expired = {}
  /\ codeState = [c \in Codes |-> "fresh"]
  /\ codeExpired = {}
  /\ lock = [t \in Tokens |-> None]
  /\ req = [w \in Workers |-> Idle]
  /\ delivered = {}
  /\ lost = {}

-----------------------------------------------------------------------------
(* Redemption of an authorization code *)

\* Reading used = false first and writing it afterwards: two requests may both see it.
ClaimCodeUnguarded(w, c) ==
  /\ req[w].pc = "idle"
  /\ c \notin codeExpired
  /\ codeState' = [codeState EXCEPT ![c] = "used"]
  /\ Become(w, [Idle EXCEPT !.pc = "claimed", !.code = c])
  /\ UNCHANGED <<rt, expired, codeExpired, lock, delivered, lost>>

\* The conditional UPDATE ... RETURNING that makes a code single-use.  The
\* client presenting it is the one it was issued to, with its redirect_uri.
ClaimCode(w, c) ==
  /\ req[w].pc = "idle"
  /\ codeState[c] = "fresh"
  /\ c \notin codeExpired
  /\ codeState' = [codeState EXCEPT ![c] = "used"]
  /\ Become(w, [Idle EXCEPT !.pc = "claimed", !.code = c])
  /\ UNCHANGED <<rt, expired, codeExpired, lock, delivered, lost>>

\* PKCE fails, the user is refused, signing fails, the process dies, or the
\* granted scope lacks offline_access: no refresh token, the code stays used.
RedeemWithoutToken(w) ==
  /\ req[w].pc = "claimed"
  /\ Become(w, Idle)
  /\ UNCHANGED <<rt, expired, codeState, codeExpired, lock, delivered, lost>>

\* issueRefreshToken: one autocommitted INSERT.
IssueRefreshToken(w, n) ==
  /\ req[w].pc = "claimed"
  /\ Fresh(n)
  /\ LET c == req[w].code IN
     rt' = [rt EXCEPT ![n] = [status |-> "live", user |-> CodeUser[c],
                              client |-> CodeClient[c], grant |-> c]]
  /\ Become(w, [Idle EXCEPT !.pc = "replying", !.new = n])
  /\ UNCHANGED <<expired, codeState, codeExpired, lock, delivered, lost>>

RedeemReply(w) ==
  /\ req[w].pc = "replying"
  /\ delivered' = delivered \cup {req[w].new}
  /\ Become(w, Idle)
  /\ UNCHANGED <<rt, expired, codeState, codeExpired, lock, lost>>

\* The ID Token cannot be signed, the process dies or the reply is lost:
\* the row stays live, nothing takes it back.
RedeemReplyLost(w) ==
  /\ req[w].pc = "replying"
  /\ lost' = lost \cup {req[w].new}
  /\ Become(w, Idle)
  /\ UNCHANGED <<rt, expired, codeState, codeExpired, lock, delivered>>

-----------------------------------------------------------------------------
(* Bulk revocation *)

\* A bulk UPDATE begins: its snapshot is the matching rows committed now.
StartSweep(w, t, s, ids) ==
  Become(w, [Idle EXCEPT !.pc = "sweep", !.tok = t, !.scope = s,
                         !.snap = {x \in ids : Matches(x, s)}])

\* The cascade forgets the client column.
FamilyOfUserWide(t) == [user |-> rt[t].user, client |-> None]

FamilyOf(t) == [user |-> rt[t].user, client |-> rt[t].client]

\* A code that is already used is presented again by its client: the whole
\* family of the code is revoked.
RedeemReplay(w, c) ==
  /\ req[w].pc = "idle"
  /\ codeState[c] = "used"
  /\ StartSweep(w, None, [user |-> CodeUser[c], client |-> CodeClient[c]], Tokens)
  /\ UNCHANGED <<rt, expired, codeState, codeExpired, lock, delivered, lost>>

\* Log-out, force log-out, password change and reset: all rows of a user.
RevokeUser(w, u) ==
  /\ req[w].pc = "idle"
  /\ StartSweep(w, None, [user |-> u, client |-> None], Tokens)
  /\ UNCHANGED <<rt, expired, codeState, codeExpired, lock, delivered, lost>>

\* The administrator revokes the live rows of a client: all, or those chosen.
RevokeClient(w, cl, ids) ==
  /\ req[w].pc = "idle"
  /\ StartSweep(w, None, [user |-> None, client |-> cl], ids)
  /\ UNCHANGED <<rt, expired, codeState, codeExpired, lock, delivered, lost>>

\* The UPDATE reaches row t, waiting for its lock if another handler has it.
SweepRow(w, t) ==
  /\ req[w].pc = "sweep"
  /\ t \in req[w].snap
  /\ Unlocked(t)
  /\ lock' = [lock EXCEPT ![t] = w]
  /\ UNCHANGED <<rt, expired, codeState, codeExpired, req, delivered, lost>>

\* UPDATE ... SKIP LOCKED.
SweepCommitSkipLocked(w) ==
  /\ req[w].pc = "sweep"
  /\ \A t \in req[w].snap : ~Unlocked(t)
  /\ rt' = RevokeRows(LockedBy(w))
  /\ lock' = Unlock(w)
  /\ Become(w, Idle)
  /\ UNCHANGED <<expired, codeState, codeExpired, delivered, lost>>

\* The transaction ends, but the connection keeps its row locks.
SweepCommitKeepsLocks(w) ==
  /\ req[w].pc = "sweep"
  /\ \A t \in req[w].snap : lock[t] = w
  /\ rt' = RevokeRows(LockedBy(w))
  /\ Become(w, Idle)
  /\ UNCHANGED <<expired, codeState, codeExpired, lock, delivered, lost>>

\* The statement has every row of its snapshot and its transaction commits.
SweepCommit(w) ==
  /\ req[w].pc = "sweep"
  /\ \A t \in req[w].snap : lock[t] = w
  /\ rt' = RevokeRows(LockedBy(w))
  /\ lock' = Unlock(w)
  /\ Become(w, Idle)
  /\ UNCHANGED <<expired, codeState, codeExpired, delivered, lost>>

\* Revocation of one row, autocommitted: log-out of the current session,
\* RFC 7009 revocation, revoking one's own session.
RevokeOne(t) ==
  /\ Live(t)
  /\ Unlocked(t)
  /\ rt' = RevokeRows({t})
  /\ UNCHANGED <<expired, codeState, codeExpired, lock, req, delivered, lost>>

-----------------------------------------------------------------------------
(* Rotation of a refresh token *)

\* SELECT ... FOR UPDATE finds a revoked row, or the row of another client:
\* both count as a leak and revoke the family of the row, in the transaction
\* that holds its lock.  (An expired live row is answered with null and
\* changes nothing, so it has no action.)
RotateReuse(w, t, cl) ==
  /\ req[w].pc = "idle"
  /\ t \in delivered
  /\ Unlocked(t)
  /\ \/ ~Live(t)
     \/ t \notin expired /\ cl # rt[t].client
  /\ StartSweep(w, t, FamilyOf(t), Tokens)
  /\ lock' = [lock EXCEPT ![t] = w]
  /\ UNCHANGED <<rt, expired, codeState, codeExpired, delivered, lost>>

\* SELECT without FOR UPDATE.
RotateReplaceNoLock(w, t, n) ==
  /\ req[w].pc = "idle"
  /\ t \in delivered
  /\ Live(t)
  /\ t \notin expired
  /\ Fresh(n)
  /\ UNCHANGED lock
  /\ Become(w, [Idle EXCEPT !.pc = "rotating", !.tok = t, !.new = n])
  /\ UNCHANGED <<rt, expired, codeState, codeExpired, delivered, lost>>

\* The row is live and its own client asks: inside the transaction the old
\* row is revoked and row n inserted; nobody sees either before the commit.
RotateReplace(w, t, n) ==
  /\ req[w].pc = "idle"
  /\ t \in delivered
  /\ Unlocked(t)
  /\ Live(t)
  /\ t \notin expired
  /\ Fresh(n)
  /\ lock' = [lock EXCEPT ![t] = w]
  /\ Become(w, [Idle EXCEPT !.pc = "rotating", !.tok = t, !.new = n])
  /\ UNCHANGED <<rt, expired, codeState, codeExpired, delivered, lost>>

\* The INSERT takes neither user nor client from the old row.
RotateCommitBlankRow(w) ==
  /\ req[w].pc = "rotating"
  /\ rt' = [RevokeRows({req[w].tok}) EXCEPT ![req[w].new].status = "live"]
  /\ lock' = Unlock(w)
  /\ Become(w, [Idle EXCEPT !.pc = "issuing", !.new = req[w].new])
  /\ UNCHANGED <<expired, codeState, codeExpired, delivered, lost>>

RotateCommit(w) ==
  /\ req[w].pc = "rotating"
  /\ rt' = [RevokeRows({req[w].tok}) EXCEPT
              ![req[w].new] = [rt[req[w].tok] EXCEPT !.status = "live"]]
  /\ lock' = Unlock(w)
  /\ Become(w, [Idle EXCEPT !.pc = "issuing", !.new = req[w].new])
  /\ UNCHANGED <<expired, codeState, codeExpired, delivered, lost>>

\* A statement fails, the connection is lost, the process dies, or PostgreSQL
\* picks this transaction as the victim of a deadlock: rollback.
TxAbort(w) ==
  /\ req[w].pc \in {"sweep", "rotating"}
  /\ lock' = Unlock(w)
  /\ Become(w, Idle)
  /\ UNCHANGED <<rt, expired, codeState, codeExpired, delivered, lost>>

\* The permission check passes, the access token is signed, the reply arrives.
RotateReply(w) ==
  /\ req[w].pc = "issuing"
  /\ delivered' = delivered \cup {req[w].new}
  /\ Become(w, Idle)
  /\ UNCHANGED <<rt, expired, codeState, codeExpired, lock, lost>>

\* The process dies after the commit, or the reply is lost on its way.
RotateReplyLost(w) ==
  /\ req[w].pc = "issuing"
  /\ lost' = lost \cup {req[w].new}
  /\ Become(w, Idle)
  /\ UNCHANGED <<rt, expired, codeState, codeExpired, lock, delivered>>

\* The catch rethrows without taking the new row back.
IssuanceFailsSilently(w) ==
  /\ req[w].pc = "issuing"
  /\ Become(w, Idle)
  /\ UNCHANGED <<rt, expired, codeState, codeExpired, lock, delivered, lost>>

\* The user is refused or signing fails: the catch takes the new row back.
IssuanceFails(w) ==
  /\ req[w].pc = "issuing"
  /\ Become(w, [req[w] EXCEPT !.pc = "compensating"])
  /\ UNCHANGED <<rt, expired, codeState, codeExpired, lock, delivered, lost>>

Compensate(w) ==
  /\ req[w].pc = "compensating"
  /\ Unlocked(req[w].new)
  /\ rt' = RevokeRows({req[w].new})
  /\ Become(w, Idle)
  /\ UNCHANGED <<expired, codeState, codeExpired, lock, delivered, lost>>

\* The compensation fails as well: logged, the row stays live.
CompensateFails(w) ==
  /\ req[w].pc = "compensating"
  /\ lost' = lost \cup {req[w].new}
  /\ Become(w, Idle)
  /\ UNCHANGED <<rt, expired, codeState, codeExpired, lock, delivered>>

-----------------------------------------------------------------------------
(* Time *)

TokenExpires(t) ==
  /\ Live(t) /\ t \notin expired
  /\ expired' = expired \cup {t}
  /\ UNCHANGED <<rt, codeState, codeExpired, lock, req, delivered, lost>>

CodeExpires(c) ==
  /\ codeState[c] = "fresh" /\ c \notin codeExpired
  /\ codeExpired' = codeExpired \cup {c}
  /\ UNCHANGED <<rt, expired, codeState, lock, req, delivered, lost>>

-----------------------------------------------------------------------------
Redemption(w) ==
  \/ \E c \in Codes : ClaimCode(w, c) \/ RedeemReplay(w, c)
  \/ RedeemWithoutToken(w)
  \/ \E n \in Tokens : IssueRefreshToken(w, n)
  \/ RedeemReply(w)
  \/ RedeemReplyLost(w)

Revocation(w) ==
  \/ \E u \in Users : RevokeUser(w, u)
  \/ \E cl \in Clients, ids \in SUBSET Tokens : RevokeClient(w, cl, ids)
  \/ \E t \in Tokens : SweepRow(w, t)
  \/ SweepCommit(w)
  \/ TxAbort(w)

Rotation(w) ==
  \/ \E t \in Tokens, cl \in Clients : RotateReuse(w, t, cl)
  \/ \E t, n \in Tokens : RotateReplace(w, t, n)
  \/ RotateCommit(w)
  \/ RotateReply(w)
  \/ RotateReplyLost(w)
  \/ IssuanceFails(w)
  \/ Compensate(w)
  \/ CompensateFails(w)

Next ==
  \/ \E w \in Workers : Redemption(w) \/ Revocation(w) \/ Rotation(w)
  \/ \E t \in Tokens : RevokeOne(t) \/ TokenExpires(t)
  \/ \E c \in Codes : CodeExpires(c)

Spec == Init /\ [][Next]_vars

-----------------------------------------------------------------------------
(* Properties *)

TypeOK ==
  /\ rt \in [Tokens -> Row \cup {NoRow}]
  /\ expired \subseteq Tokens
  /\ codeState \in [Codes -> {"fresh", "used"}]
  /\ codeExpired \subseteq Codes
  /\ lock \in [Tokens -> Workers \cup {None}]
  /\ req \in [Workers -> Request]
  /\ delivered \subseteq Tokens
  /\ lost \subseteq Tokens

\* The live rows that descend from one authorization code.
LiveOf(c) == {t \in Tokens : Live(t) /\ rt[t].grant = c}

\* However requests for the same code or token race, retry, fail half-way or
\* meet a bulk revocation, one authorization never has two usable refresh
\* tokens (conditional UPDATE of the code, FOR UPDATE in the rotation).
OneLivePerGrant ==
  \A c \in Codes : \A t, u \in LiveOf(c) : t = u

\* A live row whose secret nobody holds is one a handler is still working on,
\* or one left by a fault the code does not compensate: a lost reply, a dead
\* process, a failed compensation.  In particular a rotation that could not
\* issue leaves no row behind (the catch of rotateRefreshToken).
LiveRowsAccountedFor ==
  \A t \in Tokens : Live(t) =>
    \/ t \in delivered \cup lost
    \/ \E w \in Workers :
         /\ req[w].new = t
         /\ req[w].pc \in {"issuing", "compensating", "replying"}

\* A presented token drags down its own (user, client) family only: a replay
\* at one client never ends the user's sessions at another.
ReplayStaysInFamily ==
  [][\A w \in Workers :
       (SweepCommit(w) /\ req[w].tok # None) =>
         \A t \in Tokens : rt'[t] # rt[t] =>
           /\ rt[t].user = rt[req[w].tok].user
           /\ rt[t].client = rt[req[w].tok].client]_vars

\* When a bulk revocation commits, no row that was visible when its statement
\* began is live, even if another handler was rotating it meanwhile.
SweepRevokesSnapshot ==
  [][\A w \in Workers :
       (req[w].pc = "sweep" /\ req'[w].pc = "idle" /\ ~TxAbort(w)) =>
         \A t \in req[w].snap : rt'[t].status = "revoked"]_vars

\* The tables implement the promise of GrantLifecycle: one redemption per
\* code, one live token per grant, no token ever live again, no grant revived.
PresentOf(c) == {t \in Tokens : Present(t) /\ rt[t].grant = c}

GrantStage ==
  [c \in Codes |-> IF codeState[c] = "fresh" THEN "unused"
                   ELSE IF PresentOf(c) = {} THEN "redeemed"
                   ELSE IF LiveOf(c) # {} THEN "active" ELSE "dead"]

Lifecycle == INSTANCE GrantLifecycle WITH
  Grants <- Codes,
  stage <- GrantStage,
  live <- [c \in Codes |-> LiveOf(c)],
  spent <- {t \in Tokens : rt[t].status = "revoked"}

ImplementsGrantLifecycle == Lifecycle!Spec

\* The answer of a password reset says that all sessions of the user ended.  A
\* rotation that commits while the UPDATE waits for its lock inserts a row that
\* the statement's snapshot does not hold; a replay's family has the same gap.
UserSweepIsTotal ==
  [][\A w \in Workers :
       (SweepCommit(w) /\ req[w].scope.client = None) =>
         \A t \in Tokens : Matches(t, req[w].scope) => rt'[t].status = "revoked"]_vars

-----------------------------------------------------------------------------
(* Progress *)

\* w waits for a lock that v holds.
WaitsFor(w, v) ==
  /\ w # v
  /\ \E t \in Tokens :
       /\ lock[t] = v
       /\ \/ req[w].pc = "sweep" /\ t \in req[w].snap
          \/ req[w].pc = "compensating" /\ t = req[w].new

\* w is on a cycle of waiting transactions and PostgreSQL aborts it.
DeadlockVictim(w) ==
  /\ \E S \in SUBSET Workers :
       /\ w \in S
       /\ \A v \in S : \E u \in S : WaitsFor(v, u)
       /\ \E u \in S : WaitsFor(u, w)
  /\ TxAbort(w)

\* What a handler does once it has begun, faults aside.
Proceed(w) ==
  \/ RedeemWithoutToken(w) \/ RedeemReply(w)
  \/ SweepCommit(w)
  \/ RotateCommit(w) \/ RotateReply(w)
  \/ DeadlockVictim(w)

\* Node runs every handler that can run (weak fairness); PostgreSQL queues
\* those that wait for a row, so that none is overtaken for ever (strong).
FairSpec ==
  /\ Spec
  /\ \A w \in Workers :
       /\ WF_vars(Proceed(w))
       /\ SF_vars(\E t \in Tokens : SweepRow(w, t))
       /\ SF_vars(Compensate(w))

\* Every request is answered: no handler waits for ever on the rows of others.
EveryRequestEnds ==
  \A w \in Workers : req[w].pc # "idle" ~> req[w].pc = "idle"
=============================================================================

----------------------------- MODULE UserAccess -----------------------------
(***************************************************************************)
(* The row of one user, the permission tables behind it and its cached     *)
(* permission context in Redis (lib/permissions.ts): the read-through fill *)
(* of every permission check, the fill of every token issuance, and the    *)
(* administrative writes with the convergence that follows them.           *)
(*                                                                         *)
(* Users do not share keys or rows, so one user is enough.  A handler is a *)
(* chain of Redis calls and statements; between two of them any other      *)
(* handler may run.  The answers of Redis and PostgreSQL may be errors.    *)
(* What the convergence does to access tokens is in AccessTokens.          *)
(***************************************************************************)
EXTENDS Naturals

CONSTANTS
  Workers,      \* handlers in flight
  MaxPerms      \* bound: changes of the user's roles and their permissions

ASSUME MaxPermsAssumption == MaxPerms \in Nat

VARIABLES
  row,      \* the users row: status, and whether the password must be changed
  perms,    \* version of the user's roles, their permissions and departments
  cache,    \* the entry portal:user_perms:{user}, or NoContext
  mark,     \* the entry ...:unavailable
  req,      \* req[w]: local state of handler w
  tainted   \* history: an outdated context may have outlived the last DEL

vars == <<row, perms, cache, mark, req, tainted>>

-----------------------------------------------------------------------------
Status == {"ACTIVE", "DISABLED", "LOCKED", "DELETED"}
\* password: the user's own, or reset and to be changed (passwordChangedAt is null).
Password == {"own", "reset"}
Row == [status : Status, password : Password]
NoRow == [status |-> "none", password |-> "none"]

\* A UserPermissionContext: what the JSON value in Redis says.
Context == [perms : 0 .. MaxPerms, password : Password]
NoContext == [perms |-> 0, password |-> "none"]

\* "mark", "lookup", "query", "fill": the steps of getUserPermissionContext,
\* run for a permission check, an issuance or the refresh of a convergence.
Phase == {"idle", "mark", "lookup", "query", "fill", "prefill", "sign",
          "loaded", "converge"}

\* ask: the status an administrator asks for.  barred is history: whether the
\* user was already refused when the handler began.
Request == [pc : Phase, for : {"check", "issue", "refresh", "status", "edit", "none"},
            ctx : Context \cup {NoContext}, loaded : Row \cup {NoRow},
            ask : Status \cup {"keep"}, barred : BOOLEAN]

Idle == [pc |-> "idle", for |-> "none", ctx |-> NoContext, loaded |-> NoRow,
         ask |-> "keep", barred |-> FALSE]

Current == [perms |-> perms, password |-> row.password]
Stale(c) == c # NoContext /\ (row.status # "ACTIVE" \/ c # Current)
Converging == \E w \in Workers : req[w].pc = "converge"

\* Some handler has read an outdated context and will write it back.
StaleCarried ==
  \E w \in Workers : req[w].pc \in {"fill", "prefill"} /\ Stale(req[w].ctx)

Become(w, r) == req' = [req EXCEPT ![w] = r]

Init ==
  /\ row = [status |-> "ACTIVE", password |-> "own"]
  /\ perms = 0
  /\ cache = NoContext
  /\ mark = FALSE
  /\ req = [w \in Workers |-> Idle]
  /\ tainted = FALSE

-----------------------------------------------------------------------------
(* getUserPermissionContext *)

CheckPermission(w) ==
  /\ req[w].pc = "idle"
  /\ Become(w, [Idle EXCEPT !.pc = "mark", !.for = "check"])
  /\ UNCHANGED <<row, perms, cache, mark, tainted>>

\* Redemption of a code, or a rotation that has just committed.
StartIssuance(w) ==
  /\ req[w].pc = "idle"
  /\ Become(w, [Idle EXCEPT !.pc = "mark", !.for = "issue",
                  !.barred = row.status # "ACTIVE" /\ ~Converging])
  /\ UNCHANGED <<row, perms, cache, mark, tainted>>

\* "unavailable": an issuance goes on without a context, the others end.
Unavailable(w) ==
  Become(w, IF req[w].for = "issue" THEN [req[w] EXCEPT !.pc = "sign"] ELSE Idle)

\* "ok": an issuance writes the context once more, the others end.
Resolved(w, c) ==
  Become(w, IF req[w].for = "issue"
            THEN [req[w] EXCEPT !.pc = "prefill", !.ctx = c] ELSE Idle)

MarkFound(w) ==
  /\ req[w].pc = "mark"
  /\ mark
  /\ Unavailable(w)
  /\ UNCHANGED <<row, perms, cache, mark, tainted>>

MarkAbsent(w) ==
  /\ req[w].pc = "mark"
  /\ ~mark
  /\ Become(w, [req[w] EXCEPT !.pc = "lookup"])
  /\ UNCHANGED <<row, perms, cache, mark, tainted>>

CacheHit(w) ==
  /\ req[w].pc = "lookup"
  /\ cache # NoContext
  /\ Resolved(w, cache)
  /\ UNCHANGED <<row, perms, cache, mark, tainted>>

CacheMiss(w) ==
  /\ req[w].pc = "lookup"
  /\ cache = NoContext
  /\ Become(w, [req[w] EXCEPT !.pc = "query"])
  /\ UNCHANGED <<row, perms, cache, mark, tainted>>

\* A GET fails: fall back to the database.
ReadFails(w) ==
  /\ req[w].pc \in {"mark", "lookup"}
  /\ Become(w, [req[w] EXCEPT !.pc = "query"])
  /\ UNCHANGED <<row, perms, cache, mark, tainted>>

QueryContext(w) ==
  /\ req[w].pc = "query"
  /\ row.status = "ACTIVE"
  /\ Become(w, [req[w] EXCEPT !.pc = "fill", !.ctx = Current])
  /\ UNCHANGED <<row, perms, cache, mark, tainted>>

\* "denied": no context, no token, a refresh that did not happen.
QueryDenied(w) ==
  /\ req[w].pc = "query"
  /\ row.status # "ACTIVE"
  /\ Become(w, Idle)
  /\ UNCHANGED <<row, perms, cache, mark, tainted>>

\* The database fails; the mark is set, unless Redis fails as well.
QueryFails(w) ==
  /\ req[w].pc = "query"
  /\ mark' \in {mark, TRUE}
  /\ Unavailable(w)
  /\ UNCHANGED <<row, perms, cache, tainted>>

FillCache(w) ==
  /\ req[w].pc = "fill"
  /\ cache' = req[w].ctx
  /\ Resolved(w, req[w].ctx)
  /\ UNCHANGED <<row, perms, mark, tainted>>

\* safeSetCache swallows the error.
FillFails(w) ==
  /\ req[w].pc = "fill"
  /\ Resolved(w, req[w].ctx)
  /\ UNCHANGED <<row, perms, cache, mark, tainted>>

-----------------------------------------------------------------------------
(* Issuance: resolveIssuancePermission, then the signature *)

Prefill(w) ==
  /\ req[w].pc = "prefill"
  /\ cache' = req[w].ctx
  /\ Become(w, [req[w] EXCEPT !.pc = "sign"])
  /\ UNCHANGED <<row, perms, mark, tainted>>

PrefillFails(w) ==
  /\ req[w].pc = "prefill"
  /\ Become(w, [req[w] EXCEPT !.pc = "sign"])
  /\ UNCHANGED <<row, perms, cache, mark, tainted>>

IssueToken(w) ==
  /\ req[w].pc = "sign"
  /\ Become(w, Idle)
  /\ UNCHANGED <<row, perms, cache, mark, tainted>>

-----------------------------------------------------------------------------
(* Administrative writes *)

\* Toggle (ACTIVE and DISABLED), unlock (LOCKED to ACTIVE) and the bulk
\* action, which asks nothing of a row that is not locked.
StatusChangeAllowed(old, new) ==
  /\ new \in {"ACTIVE", "DISABLED"}
  /\ new # old
  /\ ~(old = "LOCKED" /\ new = "DISABLED")

\* The transaction reads the row, without a lock, and judges what it read.
LoadForStatus(w, new) ==
  /\ req[w].pc = "idle"
  /\ StatusChangeAllowed(row.status, new)
  /\ Become(w, [Idle EXCEPT !.pc = "loaded", !.for = "status",
                            !.loaded = row, !.ask = new])
  /\ UNCHANGED <<row, perms, cache, mark, tainted>>

\* updateUserAction and deleteUserAction (ask = "DELETED").
LoadForEdit(w, ask) ==
  /\ req[w].pc = "idle"
  /\ row.status # "DELETED"
  /\ row.status = "LOCKED" => ask \in {"keep", "LOCKED", "DELETED"}
  /\ Become(w, [Idle EXCEPT !.pc = "loaded", !.for = "edit",
                            !.loaded = row, !.ask = ask])
  /\ UNCHANGED <<row, perms, cache, mark, tainted>>

\* Only the status column is written.  Access tokens are revoked, the cached
\* context is not touched.
CommitStatus(w) ==
  /\ req[w].pc = "loaded" /\ req[w].for = "status"
  /\ row' = [row EXCEPT !.status = req[w].ask]
  /\ tainted' = TRUE
  /\ Become(w, Idle)
  /\ UNCHANGED <<perms, cache, mark>>

\* Every mutable column is written, changed or not, as it was loaded.
CommitEdit(w) ==
  /\ req[w].pc = "loaded" /\ req[w].for = "edit"
  /\ row' = [req[w].loaded EXCEPT
               !.status = IF req[w].ask = "keep" THEN @ ELSE req[w].ask]
  /\ Become(w, [Idle EXCEPT !.pc = "converge"])
  /\ UNCHANGED <<perms, cache, mark, tainted>>

\* A reset (by the page: the password must be changed; by the REST route: the
\* column is left alone) or a change by the user.
SetPassword(w, new) ==
  /\ req[w].pc = "idle"
  /\ row' = [row EXCEPT !.password = new]
  /\ Become(w, [Idle EXCEPT !.pc = "converge"])
  /\ UNCHANGED <<perms, cache, mark, tainted>>

\* Roles assigned or removed, permissions of a role replaced, a role or a
\* permission changed or deleted: committed, the convergence follows.
ChangePermissions(w) ==
  /\ req[w].pc = "idle"
  /\ perms < MaxPerms
  /\ perms' = perms + 1
  /\ Become(w, [Idle EXCEPT !.pc = "converge"])
  /\ UNCHANGED <<row, cache, mark, tainted>>

-----------------------------------------------------------------------------
(* refreshUserPermissionCache: DEL, then a read-through *)

\* Only the mark of an unknown user is deleted.
DropEntryNot(w) ==
  /\ req[w].pc = "converge"
  /\ tainted' = StaleCarried
  /\ Become(w, [req[w] EXCEPT !.pc = "mark", !.for = "refresh"])
  /\ UNCHANGED <<row, perms, cache, mark>>

DropEntry(w) ==
  /\ req[w].pc = "converge"
  /\ cache' = NoContext
  /\ tainted' = StaleCarried
  /\ Become(w, [req[w] EXCEPT !.pc = "mark", !.for = "refresh"])
  /\ UNCHANGED <<row, perms, mark>>

\* The DEL fails: logged and counted, nothing else happens.
DropFails(w) ==
  /\ req[w].pc = "converge"
  /\ tainted' = TRUE
  /\ Become(w, Idle)
  /\ UNCHANGED <<row, perms, cache, mark>>

\* Forced log-out deletes the entry and reads nothing.
ClearCache(w) ==
  /\ req[w].pc = "idle"
  /\ cache' = NoContext
  /\ tainted' = StaleCarried
  /\ UNCHANGED <<row, perms, mark, req>>

\* The process dies or the transaction is rolled back.
Crash(w) ==
  /\ req[w].pc # "idle"
  /\ tainted' = (tainted \/ req[w].pc = "converge")
  /\ Become(w, Idle)
  /\ UNCHANGED <<row, perms, cache, mark>>

EntryExpires ==
  /\ cache # NoContext
  /\ cache' = NoContext
  /\ UNCHANGED <<row, perms, mark, req, tainted>>

MarkExpires ==
  /\ mark
  /\ mark' = FALSE
  /\ UNCHANGED <<row, perms, cache, req, tainted>>

-----------------------------------------------------------------------------
Read(w) ==
  \/ CheckPermission(w) \/ StartIssuance(w)
  \/ MarkFound(w) \/ MarkAbsent(w)
  \/ CacheHit(w) \/ CacheMiss(w) \/ ReadFails(w)
  \/ QueryContext(w) \/ QueryDenied(w) \/ QueryFails(w)
  \/ FillCache(w) \/ FillFails(w)
  \/ Prefill(w) \/ PrefillFails(w) \/ IssueToken(w)

Write(w) ==
  \/ \E new \in Status : LoadForStatus(w, new)
  \/ \E ask \in Status \cup {"keep"} : LoadForEdit(w, ask)
  \/ CommitStatus(w) \/ CommitEdit(w)
  \/ \E new \in Password : SetPassword(w, new)
  \/ ChangePermissions(w)
  \/ DropEntry(w) \/ DropFails(w) \/ ClearCache(w)
  \/ Crash(w)

Next ==
  \/ \E w \in Workers : Read(w) \/ Write(w)
  \/ EntryExpires
  \/ MarkExpires

Spec == Init /\ [][Next]_vars

-----------------------------------------------------------------------------
(* Properties *)

TypeOK ==
  /\ row \in Row
  /\ perms \in 0 .. MaxPerms
  /\ cache \in Context \cup {NoContext}
  /\ mark \in BOOLEAN
  /\ req \in [Workers -> Request]
  /\ tainted \in BOOLEAN

\* A context in Redis, or in the hands of a handler that will write it there,
\* is out of date only while a change is on its way to its DEL, or if one of
\* these happened and no DEL came after it: a status change that converges
\* nothing, a failed DEL, a crash before the DEL, or a DEL that fell between
\* the read and the write of another handler.
StaleOnlyAfterOverlap ==
  (Stale(cache) \/ StaleCarried) => (Converging \/ tainted)

\* resolveIssuancePermission says that a user disabled after the code was
\* issued must not get new tokens.  Here: a token is issued, with a context,
\* by a handler that began with the user already refused.
RefusedUserGetsNoToken ==
  [][\A w \in Workers :
       (IssueToken(w) /\ req[w].ctx # NoContext /\ req[w].barred)
         => row.status = "ACTIVE"]_vars
=============================================================================

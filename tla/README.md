# Verification of auth-sso

auth-sso is a single sign-on platform: a Gateway (Rust, Pingora) in front of
applications, and a Portal (Next.js) that is both the OIDC provider and the
administration of users, roles, permissions and clients. The two share no
state. They meet in HTTP calls, in Redis and in signed tokens.

The modules of this directory are TLA+ translations of the code, checked by TLC
on small instances and, where "theorem" is written below, proved by TLAPS for
every value of the constants. `PROJECT.json` says, for each definition of code, which
lines of the code it models.

Paths are relative to `src/apps/portal/src` unless they begin with `gateway/`,
which stands for `src/apps/gateway/src`.

1. [The system](#1-the-system)
2. [Modules and the code](#2-modules-and-the-code)
3. [Runs](#3-runs)
4. [Proofs](#4-proofs)
5. [Where code and documents disagree](#5-where-code-and-documents-disagree)
6. [What is not modelled](#6-what-is-not-modelled)
7. [Plan](#7-plan)

## 1. The system

### Processes and stores

| | what it is | what it keeps |
|---|---|---|
| Portal | Node processes running Next.js route handlers and server actions; one in the documented deployment (docs/operations.md section 9), several where all they share is a database | almost nothing: a cached signing key, a lock around key creation in one process, the cache of read models |
| Browser | tabs of users and administrators | cookies, URLs, forms, history |
| Gateway | Rust processes, likewise | JWKS cache, rate limiter table, certificate store |
| PostgreSQL | READ COMMITTED transactions of the Portal | users, roles, permissions, departments, clients, authorization_codes, refresh_tokens, jwks, auth_requests, logs |
| Redis | single commands and pipelines, no transactions | `portal:user_perms:*` (cached permission contexts), `portal:user_jti:*` (hash of access tokens of a user), `portal:jti_blocklist:*`, brute-force counters, the Gateway's refresh locks |

A Node process interleaves its handlers at every `await`, and several processes
interleave at every statement. So in the models a handler is a chain of steps,
one per statement, transaction or Redis call, and any other handler may run
between two of them. PageCache alone stands for a single Portal process: its cache
lives in memory and all handlers share it, which is the documented deployment. A
second process would keep lists that no invalidation of the first reaches.

### Components

| Component | State | Operations | What is hard | What makes it correct | Module |
|---|---|---|---|---|---|
| **Refresh tokens and codes** (`lib/auth/token.ts`, `lib/auth/oauth-grant.ts`, `lib/auth/token/revocation.ts`) | rows with `revokedAt`, `expiresAt`; codes with `used` | redeem, rotate, detect replays, revoke one / a family / a user / a client | row locks and statement snapshots, replies lost after a commit, issuance that fails after the rotation committed | a code is redeemed once; one authorization has one live token; no dead token comes back; a replay hits its family and no other | RefreshTokens, GrantLifecycle |
| **Permission cache and user status** (`lib/permissions.ts`, `lib/auth/authorization-effects.ts`, `users/actions.ts`) | users row, roles and permissions, cached context, `:unavailable` mark | check, issue, edit, toggle, bulk, converge, force log-out | read-through fill against DEL, failed DEL, columns read without a lock and written back | an outdated context goes away; a refused user gets no token | UserAccess |
| **Access tokens** (`lib/session/revoke.ts`, `lib/auth/verify-jwt.ts`, `gateway/auth/verify.rs`) | hash of tokens per user, blocklist keys, exp | sign and track, block, revoke all, verify | HSET and EXPIRE apart, HGETALL and DEL apart, TTLs of several clients in one hash, errors of one command | a stopped token stays refused; revoking a user finds its tokens | AccessTokens |
| **Gateway refresh** (`gateway/auth/refresh.rs`, `authenticate.rs`) | lock per user in Redis (SET NX EX) | acquire, try endpoints one by one, deliver cookies, release | a lost reply followed by a retry with the token just rotated; the lock expiring or being released by another request | at most one rotation in flight; a browser is not logged out by a refresh that succeeded | GatewayRefresh |
| **Passwords and the end of sessions** (`lib/account/*.ts`, `lib/auth/force-logout.ts`, `logout/route.ts`, `profile/session-actions.ts`) | password, its history, sessions | change, reset, force log-out, log out, end one session | several revocations, one transaction or none; sign-ins on their way; two writers of a password | old sessions end; no recent password returns | AccountSecurity |
| **Departments, users, roles, bindings** (`departments/`, `users/`, `roles/actions.ts`, `lib/user-role-assignment.ts`, `lib/authz/`) | tree with materialized paths, department of users and roles, join table | create, edit, move, delete, assign, remove | checks on rows nobody locks: concurrent moves, write skew | the tree agrees with its paths; roles are of the user's department; a role stays | Directory |
| **Permissions, grants, registration** (`permissions/actions.ts`, `api/permissions/register/route.ts`, `lib/role-permission-assignment.ts`) | tree of codes, grants, contexts | create, edit, delete, register, grant, bind | concurrent moves, cascades, who is affected by a change | no circle; contexts converge; codes are handed down | Permissions |
| **Pages of the console** (`app/(dashboard)`, `components/shared`, `hooks`, `lib/cache-invalidation.ts`) | read-model cache, URL and box, status buttons, forms, ticks, browser history | type, choose, click, save, leave | closures over old renders, answers that come late, whole rows and whole sets sent back | what is shown is what is done | Console and its parts |
| **Sign-in** (`gateway/oauth_flow.rs`, `oauth2/authorize/route.ts`, `app/login`, `login/route.ts`, `auth-request-store.ts`) | cookies of the browser, stored requests, codes | visit, store, log in, resume, issue code, callback, exchange | tabs that overwrite each other's cookies, old URLs, several nodes tried with one code | a session is of who signed in here; errors have a cause | AuthorizeFlow |
| **Login limits** (`lib/auth/brute-force.ts`) | counters in Redis, log rows in the database | check, increment, clear | check and count apart; INCR without EXPIRE; Redis down | attempts are bounded, and no lock-out is for ever | LoginAttempts |
| **Signing keys** (`lib/auth/token/signing-keys.ts`) and the **Gateway's JWKS cache** (`gateway/jwks.rs`) | jwks rows; key map, time of last refresh | create, renew, publish; look up, refresh on demand, loop with backoff | several processes create at once; throttle and single flight against a key made a moment ago | an unexpired token can be verified; an unknown key is known soon | SigningKeys, JwksCache |
| **Gateway certificate** (`gateway/acme.rs`, `tls.rs`) | served certificate, file, challenge | check, order, save, install | a crash between issue and storage, failures of the CA | the Gateway never goes back or runs out | Certificates |
| **Gateway requests** (`gateway/gateway.rs`, `path_matcher.rs`, `rate_limiter.rs`, `authenticate.rs`, `cookie.rs`) | context of a request, counters | classify, limit, authenticate, rewrite, answer | many branches that each may answer, refreshes that half succeed | an upstream sees an identity that was verified | GatewayRequests |
| **OAuth clients** (`clients/actions.ts`, `clients/` pages, `oauth2/` routes) | client rows, secrets, codes and tokens | register, edit, disable, rotate, delete; authorize, redeem, introspect, revoke | rows read without a lock and written back, answers lost, cascades | a secret in force was shown; who is shut out stays out | OAuthClients |
| **Logs** (`lib/audit.ts`, `app/audit/data.ts`, `api/audit/export/route.ts`) | three tables rows are only added to; partitions of one expire | log, retry, list, export | pages read one after another from a log that grows; total and rows on different snapshots | an export has what was there when it began | AuditLog |
| **Reads** (`api/*/route.ts` GET, `app/(dashboard)` pages, `data.ts` files, `lib/authz`, `lib/auth/guard.ts`) | the request's scope and rows; cached lists and contexts | identify, guard, resolve the scope, query, log, answer | several queries per page, beside writes; a cache all readers share; tokens and contexts that outlive the account | no row beyond the scope, no own row and no whole page for who is gone | Reads |
| Router, discovery, configuration | - | stateless reads | - | - | (section 6) |

### How they interact

* A request to an application reaches the Gateway, which verifies the access
  token by signature (JWKS), `exp` and blocklist. If the token is about to
  expire, or gone, it calls the Portal's refresh route with the refresh token
  and puts the cookies of the answer on the response.
* The Portal rotates the refresh token (**refresh tokens**), resolves the
  user's permission context (**permission cache**) and signs and tracks an
  access token (**access tokens**), in this order, in three stores, with no
  transaction around them.
* An administrative change commits in PostgreSQL and then *converges*: drop and
  refill the cached context, then revoke access tokens by way of the hash. A
  reset, a forced log-out and a log-out also revoke refresh tokens.

So the same question comes up three times, once per store: does a revocation
reach what is issued beside it? RefreshTokens, UserAccess and AccessTokens answer
it for refresh tokens, contexts and access tokens, and AccountSecurity for the
handlers that revoke in all three. GatewayRefresh puts the Gateway in front of
the first: does a refresh that the Portal has carried out ever log the user out?

The other modules are three groups. Administration is what administrators do to
the rows that decide who may do what. Console is what lies between them and
those rows: pages, lists, forms. FrontDoor is what a request meets first: the
sign-in through Gateway and Portal, limits on passwords, keys, certificate, filters,
and the applications that may ask for tokens. Reads stands by itself: what any
request that only reads is answered with.

## 2. Modules and the code

### GrantLifecycle: the promise

One authorization grant is `unused`, `redeemed` (code spent, no token yet),
`active` (exactly one live token) or `dead`. Actions: redeem, give the first
token, rotate, end. A spent token is never live again and a dead grant never
active. It knows no rows, locks or handlers.

### RefreshTokens: tables, locks and handlers

| State | Code |
|---|---|
| `rt[t]` | a row of refresh_tokens: `live` is revokedAt null, with user and client; `grant` (history) is the code it descends from |
| `codeState[c]` | authorization_codes.used |
| `expired`, `codeExpired` | rows whose expiresAt has passed |
| `lock[t]` | the transaction that holds the row lock |
| `req[w]` | local variables and program counter of handler w |
| `delivered`, `lost` | history: did the secret reach the client, or did a fault drop it |

| Actions | Code |
|---|---|
| `ClaimCode`, `RedeemWithoutToken`, `IssueRefreshToken`, `RedeemReply`, `RedeemReplyLost` | redemption: the conditional UPDATE on `used`, then the INSERT, then the rest of the answer |
| `RedeemReplay` | the UPDATE matched nothing and the code exists: its family is revoked |
| `RotateReplace`, `RotateCommit`, `RotateReply`, `RotateReplyLost` | rotateRefreshToken: SELECT FOR UPDATE, UPDATE, INSERT, commit, answer |
| `RotateReuse` | the row is revoked, or belongs to another client: the family is revoked in the same transaction |
| `IssuanceFails`, `Compensate`, `CompensateFails` | the catch that revokes the new row when issuing fails after the commit |
| `RevokeUser`, `RevokeClient`, `SweepRow`, `SweepCommit`, `TxAbort` | a bulk UPDATE: a snapshot of the rows it matches, their locks one by one, commit; or rollback |
| `RevokeOne` | log-out of one session, RFC 7009, "my sessions" |
| `TokenExpires`, `CodeExpires` | time |

The model of READ COMMITTED: what a transaction wrote is visible when it
commits, so the UPDATE and INSERT of a rotation are one step, `RotateCommit`,
while its lock is taken in `RotateReplace`. A bulk UPDATE sees the rows that
were committed when the statement began. That snapshot is the point of the
module: it is what a sweep guarantees and what it misses.

### UserAccess: one user's row, context and mark

`row` is status and password of the users row; `perms` a version number of
everything the context is computed from (roles, their permissions,
departments); `cache` the context in Redis, `mark` the `:unavailable` key.
Contexts are told apart by their version and by whether they say that the
password must be changed, which is what the properties are about.

| Actions | Code |
|---|---|
| `CheckPermission`, `MarkFound`, `MarkAbsent`, `CacheHit`, `CacheMiss`, `ReadFails`, `QueryContext`, `QueryDenied`, `QueryFails`, `FillCache`, `FillFails` | getUserPermissionContext, step by step |
| `StartIssuance`, `Prefill`, `PrefillFails`, `IssueToken` | resolveIssuancePermission: the read-through, then a second write of what was read, then the signature |
| `LoadForStatus`, `CommitStatus` | toggle, unlock, bulk action: only the status column is written, the cache is not touched |
| `LoadForEdit`, `CommitEdit` | updateUserAction and deleteUserAction: every mutable column is written as it was loaded |
| `SetPassword`, `ChangePermissions` | password change and reset; roles, permissions, departments |
| `DropEntry`, `DropFails` | refreshUserPermissionCache: DEL, then the read-through above with `for = "refresh"` |
| `ClearCache` | forced log-out |
| `Crash`, `EntryExpires`, `MarkExpires` | process and Redis |

Two ways of resetting a password differ: the page's action sets
passwordChangedAt to null, so that the user has to choose a new one; the REST
route leaves the column alone. `SetPassword` covers both.

### AccessTokens: hash, blocklist, two verifiers

`now` is a clock; `tok[j]` the exp claim; `index` and `indexEnd` the hash
`portal:user_jti:{user}` and its time to live; `blocked[j]` the end of the
blocklist key. `stopped` and `excused` are history.

| Actions | Code |
|---|---|
| `Sign`, `Hset`, `ExpireIndex`, `TrackFails`, `Deliver` | signAccessToken, trackUserJti; tracking is best effort |
| `RevokeToken`, `LogOut` | revokeJti, by the revocation endpoint and by log-out |
| `RevokeUser`, `ReadIndex`, `ReadEmptyIndex`, `RunPipeline`, `RevokeFails` | revokeUserAccessByUserId: HGETALL, then SETEX per field and DEL |
| `PortalAccepts`, `GatewayAccepts` | verifyAccessToken of the Portal; the Gateway's check with its leeway |
| `Crash`, `Tick` | processes, time and the expiry of the hash |

### GatewayRefresh: silent refresh against the rotation

Several browsers of one user share a lock and, at the Portal, a family of
refresh tokens. The Portal is an instance of GrantLifecycle with the browsers'
sessions as grants (`Portal!Rotate`, `Portal!Revoke`), which RefreshTokens
implements: the composition rests on the promise and not on rows and locks.

| State | Code |
|---|---|
| `lock` | `portal:refresh_dedup:{sub}`; who set it matters for the proof only, the code's DEL does not ask |
| `req[w]` | a request in a Gateway process: browser, token of its cookie, endpoint it is at, token it was given |
| `calls` | HTTP calls on their way to the Portal; a call outlives the request that gave up on it |
| `cookie[s]`, `due` | what the browser holds; tokens whose access token is nearly or fully expired |
| `adrift`, `raced` | history: sessions whose newest token reached nobody; sessions for which the lock may have failed |

| Actions | Code |
|---|---|
| `Arrive` | check() of authenticate.rs: NearlyExpired or Expired |
| `Acquire`, `AcquireDegraded`, `Deduped`, `LockExpires`, `Unlock`, `UnlockFails` | SET NX EX and DEL; Redis away means go on |
| `Send`, `TryNext`, `Timeout` | attempt_endpoint, once per endpoint of try_refresh, always with the same token |
| `Deliver`, `UpstreamFails`, `RequestDies` | the cookies go out with the response, or with no response at all |
| `PortalRotates`, `PortalSeesReplay`, `PortalIssuanceFails`, `PortalErrs` | the refresh route and rotateRefreshToken |
| `RevokeOwnSession`, `BecomesDue` | the session list of the profile; time |

The Gateway sends no access token along, so the route's "skipped" is never the
answer here. A request that has the lock and dies leaves it until it expires.
`UpstreamFails` relies on Pingora's own error page, which does not run
response_filter; the Gateway installs no handler of its own for it.

### AccountSecurity: a password and everything that ends sessions

One user, some browsers. A handler is the chain of its transactions and Redis
calls; a sweep of refresh tokens is one UPDATE here (what its snapshot misses
is RefreshTokens' subject), a revocation of access tokens one call (what that
misses is AccessTokens').

| State | Code |
|---|---|
| `row` | password hash and history of the users row |
| `signin[b]` | how far a browser is: out, password verified (the login cookie), code, in |
| `rt[b]`, `at[b]` | its refresh token and access token |
| `req[w]` | a handler: the row it read, the new password, the rows it revokes |
| `past`, `raced`, `old`, `underway`, `byToken`, `failed` | history |

| Actions | Code |
|---|---|
| `LoginReads`, `LoginSigns` (`SignIn`) | login/route.ts: the row is read before bcrypt runs, the cookie signed after it |
| `IssueCode`, `Reauthorize`, `RedeemCode`, `Rotate` | authorize for a login cookie, or for an access token; redemption; rotation |
| `ChangeReads`, `ChangeWrites`, `ChangeSweeps` (`Change`) | changeOwnPassword: read, bcrypt, UPDATE, then sweeps with no transaction whose errors are logged |
| `ResetReads`, `ResetCommits`, `ResetRefused`, `ResetAborts` (`Reset`) | both resets: password and refresh tokens in one transaction |
| `ForceRevokes`, `ForceCommits`, `ForceAborts` (`ForceLogout`) | forced log-out: the page's runs the revocation of access tokens inside the transaction |
| `LogoutStarts` ... `LogoutClears` (`Logout`) | log-out: own access token, own refresh token, all refresh tokens, all access tokens, cookies |
| `Blocks` | revokeUserAccessByUserId after the commit; it may fail |
| `RevokeOwnSession` | the list of sessions in the profile |

### Administration: Directory and Permissions

`PortalRows` declares what both share. **Directory** is departments, users,
roles and bindings of users to roles; a role's codes are fixed there.
**Permissions** is the tree of codes, the grants of roles, the contexts of users;
departments are fixed there. Administration runs one or the other: they are two
halves of one database that no handler crosses in a way the properties are about.

A request is a READ COMMITTED transaction in three steps. `LoadAny` or `Arrive`
reads the row and the operator's authorization and makes the checks on them;
`Check` or `CheckRequest` makes those on other rows; `WriteAny` or `WriteRequest`
writes. Each of these is one disjunct per operation, named for it:
`LoadUpdateDept`, `MayUpdateDept`, `WriteUpdateDept` are updateDepartmentAction.
An assignment deletes and inserts in two steps (`AssignDeletes`, `AssignInserts`),
as its two statements see different snapshots. Another transaction may commit
between any two. Nothing in the code locks what a check has read, so the
properties hold of transactions that no relevant commit fell into; such a
transaction is `crossed`, and `excused` (`pardoned`) records what a crossed one may
have broken. Permissions tells four kinds of change apart, read off the rows
that a commit changed (`Changed`): a move, a change of status, of grants, of
bindings; `CrossedBy` says which of them undo what a request has checked, and a
request remembers which fell into it. That is the precise statement of what these unlocked checks are
worth, and a change that breaks it for uncrossed ones is found.

| State of Directory | Code |
|---|---|
| `dept[d]` | parent link, materialized path (`anc`), status |
| `user[u]`, `role[r]`, `holds[u]` | department and status; user_roles |
| `req[w]` | a transaction: operation, operator, target, the rows it loaded, whether crossed |

| State of Permissions | Code |
|---|---|
| `perm[p]` | parent, status, owner |
| `grants[r]`, `bound[u]` | role_permissions, user_roles |
| `context[u]` | the codes in the cached context |
| `call[w]` | a request, with the users it will refresh |

`WriteRegister` is the registration of an application: the advisory lock
(`LockFree`), the conflict check before it, upserts and disablings (`Synced`).
`Refresh` refreshes the users taken to be affected, one after another, after the
commit.

### Console: pages between an administrator and the rows

Seven parts that share only the database, each seeing it through what it shows.
A behaviour works in one of them (`section`).

* **PageCache** is the read models ('use cache' in the data.ts files). What a
  read model depends on is a set of tables (`Reads`), what a write changes
  another (`Ops`), and `Invalidation` the resources' tags. `Commit`, then
  `Invalidate`, or `Throw` if the convergence in between fails. `Gaps` names the
  combinations for which the code invalidates nothing; section 5 lists them.
* **ListControls** is box, filters and page size of five lists. A search waits
  for its timer, whose callback closed over an old render; a navigation takes
  time, and a list is mounted anew when it arrives, as every parameter is in its key
  (`KeyChanges`; the users' box has a shorter key but stands in the table). Filters
  are locked while a navigation of the controls' own is under way, the links of the
  page size never. A page that was left is gone, or hidden with its state and
  without its effects (`cacheComponents`), and comes back (`Leave`).
* **UserTable** is status buttons, dialogs, bulk actions, and the flip the server
  makes of the row as it is. While a flip runs and until its refresh is there the
  table shows placeholders (`RowsAreShown`), so no flip is started from a row another
  one waits for; what is left is a dialog that keeps its row while the list is
  refreshed under it, a bulk action that runs beside the buttons, an answer that is
  lost (`Lose`) and a list that a search or a page mounts anew while its actions run
  on (`Navigate`, `adrift`).
* **EditForms** is the forms of a user, a client, a permission, and the dialogs of
  roles, departments and the own profile. A form is filled once and sends every
  field; `Patch` is what of it is written, per form. Buttons beside it (unlock,
  enable) change the row under it.
* **SetEditors** is the permissions of a role and the roles of a user: the whole
  set is sent (`ToSend`) and replaced.
* **LeaveGuard** is the sentinel in the browser's history of a page with unsaved
  changes.
* **AuditLog** is one of the three logs, its writers, and an export of it. A row
  gets `created_at` when its transaction begins and is seen when that commits;
  `InsertFails` also stands for the lost answer, after which the background writer
  of the login and the access log writes the row again. `QueryRows` and
  `QueryTotal` are the two halves of a page, in either order; `SendPage` decides
  as `createCsvStream` does whether there is another. `DropPartition` is the
  maintenance script. Rows are those that match the export's filter; their text
  and the CSV format are left out.

### Reads: what a request that reads is answered with

Every GET route and every page of the dashboard is one record: the gate in the
layout of its section (`layout`), its own gates (`gates`) and the queries it makes
(`reads`). A page is loaded as a whole, entered from another section, or come to from
within its own (`Visits`): a layout that is in place is not rendered again, so that
only a load has the shell and only a load or an entry the section's gate (`PartsOf`,
`GatesOf`). A request goes through gates and queries in the order the code leaves open:
routes ask for the code before they read, pages render layouts and gates beside their
queries; what hangs on a row is read after the row (`Follows`).

| State | Code |
|---|---|
| `person[u]`, `holds[u]`, `post[r]` | users (department, condition), user_roles, roles (department, ACTIVE) |
| `had[u]` | every permission context of u since the start, as any of them may be cached (how long, is UserAccess) |
| `memo` | the lists of 'use cache', by what they are known by (`Entry`): which list, scope, filter, and the reader where it is a parameter |
| `request[w]` | reader, route, how the page is come to (`visit`), id asked for, gates and queries to go, the scope once resolved, the rows found, whether the reader's own row is among the answer (`told`); `scopes` and `lived` are history: the scopes the reader had since the request began, and whether the reader was active at any time |

| Actions | Code |
|---|---|
| `ArriveToRead` | resolveIdentity: the Gateway's headers if their signature holds, else the token; userinfo takes the token only |
| `PassGate` | withPermission, PermissionGate, the layouts' requirePermission, by a context of any age or none |
| `ResolveScope` | resolveScope, outside the cache and once |
| `ReadCached`, `ReadList` | the lists of users, roles, departments: from the cache, or from the rows into it |
| `ReadDetail` | one row by id, or the rows that hang on it; not found and out of scope are one answer |
| `ReadGlobal` | clients, permissions, logs: rows of no department |
| `ReadOwn` | getOwnUser, getUserProfile; the shell of a page that is loaded, which sends on who has a password to change; the profile, which is shown with or without the row |
| `LogRead`, `AnswerRead`, `LeaveRead` | logServerDataRead where it is called; the answer |
| `WritePerson`, `WriteHolds`, `WritePost`, `Forget` | any committed change of the rows; expiry and invalidation of lists |

Writes are any change of the rows, with no regard to what Administration's checks
allow, as a read may rely on none of them.

### FrontDoor: what a request meets first

Seven parts without shared state; a behaviour works in one of them.

**AuthorizeFlow** follows the tabs of one or two browsers through Gateway, Portal
and login page.

| State | Code |
|---|---|
| `tab[t]` | where the tab is, and the reply on its way |
| `jar[b]` | the browser's cookies: state (with verifier and nonce), binding, login, session |
| `request`, `codes` | auth_request:<session_id> in Redis, authorization_codes |
| `entered`, `excused`, `shared`, `settled`, `replayed` | history |

`Visit`, `Reload`, `Revisit`, `LogIn`, `LogOut` are the user's; `ServeApp`,
`HandleFullParams`, `HandleSessionId`, `LoginContent`, `HandleOAuthCallback` and
`Denied` the servers'; `Arrive` delivers a reply and sets its cookies, `LoseReply`
and `Lapse` are the mishaps. Abstractions: a request is served with the cookies
its browser has when it is served; a navigation the user gives up is not
followed; the refused users are a fixed set; the state, verifier and nonce
cookies are set and cleared together and compared as one; a session cookie
counts until it is cleared, replaced or lapses (revocation on the server is
AccountSecurity's).

**LoginAttempts**: `CheckIpRateLimit`, `CheckBruteForce`, `VerifyFails`,
`Increment`, `Expire`, `ClearBruteForceCounter` are the steps of a log-in;
`key[k]` counters with or without TTL; `rows`, `unwritten` the log rows counted when
Redis is away, and those not yet written. `WindowOver`, `RedisSwitches`,
`LoginDies`.

**SigningKeys** and **JwksCache** are the two ends of the key life cycle; `KeyTimes`
holds the times both are parameterised by. SigningKeys has every step of a
handler that needs a key: the read, the per-process lock (its queue in any
order), the second look, the insert. The lock is released before the insert, as
in the code. JwksCache has the Gateway's half; the Portal signs or publishes
in one step there. The Portal's cache of an imported key is left out, as rows
are never changed or deleted.

**Certificates**: one day per tick; `task` is the renewal task, `stored` the file,
`served` the snapshot of the TLS store. `WriteAtomic` and `SaveCertificate` are
the temporary file and the rename. One process per state directory, as the
code asks of its operator.

**GatewayRequests** is one request after another through the filters, with
everything the code tells apart about it (`Inbound`): the start of its path, dot
segments, kind of request, state of its tokens, headers of its own. `Blocks` is
refresh_effect. The steps of a refresh are GatewayRefresh's, and the callback is
AuthorizeFlow's.

**OAuthClients**: `screen` and `admin` are consoles and their actions, `caller` a
request of an application, each in the code's steps: read the client's row,
check it (`CheckCaller`), work (`InsertCode`, `ExchangeCode`, `RotateToken`,
`Introspect`, `RevokeToken`), answer. `UpdateClient` writes the whole row read by
`LoadClient`. Abstractions: the Portal's own client, which guardPortalSelfClient
refuses, is left out; one code and one refresh token per application
(RefreshTokens follows them one by one); a deletion is atomic with its cascade;
one page and one action per console at a time; whether a user may use the
application is a nondeterministic answer; the access-token half of introspection
and revocation is AccessTokens'.

## 3. Runs

"Violation" runs state what a comment or an answer of the code says; TLC finds
the behaviour that contradicts it (section 5).

| Run | Asks |
|---|---|
| `refresh_tokens` | Two handlers, three tokens, two authorizations of one user at two clients. `OneLivePerGrant`, `LiveRowsAccountedFor`, `ReplayStaysInFamily`, `SweepRevokesSnapshot`, and `ImplementsGrantLifecycle`: the tables refine the promise |
| `refresh_tokens_live` | `EveryRequestEnds` under `FairSpec`: handlers that wait for rows of each other end |
| `user_sweep` | violation: a sweep leaves no row of its user live |
| `user_access` | Two handlers, two changes of permissions, all faults. `StaleOnlyAfterOverlap` lists every cause an outdated context may have |
| `refused_user` | violation: a refused user gets no token |
| `tokens_and_reads` | Two handlers, two tokens with lives 1 and 2, a leeway of 1, all faults. `RevokedUntilExpiry`, `IndexCoversTokensInUse`. A behaviour of the run is one of AccessTokens or one of Reads, which share no state. Reads: one request after another, two users, two roles, two departments, one cached list, one write. `ShownWithinReach`: all rows of an answer lie in one scope its reader had meanwhile. `OwnRowNeedsALiveReader`: no own row, and no page loaded as a whole, for who was not active meanwhile |
| `gateway_refresh` | Two requests, two browsers, four tokens, two endpoints, all faults. `NoStaleCall`, `LiveTokenIsHeld` |
| `account_security` | Two handlers, two browsers, three passwords, all faults. `OldSessionsEnd`: once a handler has ended the sessions of the user, an older one goes on only along the two ways its statement names. `NoRecentPasswordReturns` |
| `administration` | Two transactions at a time. Departments: `TreeIsSound` (paths agree with links), `RolesAreFromHome`, `SomeRoleStays`. Permissions: `TreeIsAForest`, `ContextsConverge`, `CodesAreHandedDown` |
| `console` | Seven parts. `CachedPagesAreCurrent`, `BoxMatchesList`, `PromisedIsDone` (a button does what it says), `SaveChangesWhatWasEdited`, `SaveDoesWhatWasShown`, `LeavesOnlyAsked`, `ExportIsComplete` |
| `front_door` | Seven parts. Sign-in: `SessionIsOfTheBrowser`, `ErrorsHaveCause`, `NoSettledReplay`. Limits: `AttemptsBounded`, `LockoutsEnd`. Keys: `TokensVerifiable`, `UnknownOnlyBriefly`. `CertificateStays`, `UpstreamSeesVerified`. Clients: `SecretsAreKnown`, `ShutOutStaysOut` |
| `sso_loop` | violation: the resumption of a stored request ends (under `FairFlowSpec`) |

Many properties have the form "holds, or history names why not". The exceptions
are the point: each names a cause in the code, and all behaviour without such a
cause is covered. The causes are set by the step that is to blame (a crossed
transaction, a lost answer, a failed Redis call), never by the effect.

### Bounds, and why they are enough

* **RefreshTokens.** Every hazard is a race of two transactions over one or two
  rows. Two handlers give every pair. Three tokens let one lineage be issued,
  rotated and rotated again, or two lineages live side by side while one
  rotates. Two codes of one user at two clients are the smallest instance in
  which "family" and "user" differ. A second user adds rows no action of the
  first touches. `refresh_tokens_live` and `user_sweep` need one lineage: two
  tokens of one code are a row, its successor and a sweep of both.
* **UserAccess.** `MaxPerms = 2` gives a handler that carries version 0 past a
  change to 1 and another to 2. Two handlers give the overlap of a reader and a
  writer; the third party of a race, if any, is time (an entry expires).
* **AccessTokens.** Two tokens of two clients with different lives are the
  smallest instance in which EXPIRE shortens the hash. `MaxTime = 3` is the
  longest life plus the leeway, so that a token issued at the start is followed
  to its end; one issued later has its end beyond the bound, and its early life
  is what the bound keeps.
* **GatewayRefresh.** Two requests give the holder of the lock and the one it
  should keep out; two browsers make a cascade visible and let the second
  request be of the same or of the other one. Two endpoints are the smallest
  number with a retry, and what every deployment has (the one of the discovery
  document, then at least one upstream). Four tokens are one per browser and two
  rotations, so that a browser can be given a token and present an older one.
* **AccountSecurity.** A history of one password needs three passwords: the one
  in force, the remembered one and a third. `MaxWrites = 2` lets a password be
  replaced and replaced again, with a third write under way. Two browsers are
  who is signed in and who is signing in.
* **Administration.** Two transactions at once and three (two in Permissions) in
  all: two that race, before or after one that sets the stage. Four departments,
  one of them not yet there, are the smallest tree in which a move can make a
  cycle with another move or take a subtree along. An administrator, a manager
  and a clerk are the three ranks the checks tell apart; two starts, with and
  without the clerk and the second role, save the transactions that make them.
* **Console.** Two of each thing. `MaxInputs = 4` is a search, a filter, a page
  size and one more.
  Two actions of the list are a bulk action with a flip beside it, or a flip whose
  answer is lost or whose list is gone and another on the same row; one change by
  another administrator comes before, between or after them. `MaxMoves = 9` lets the guard's sentinel be
  pushed, lost and pushed again. A log of two old rows and two new ones, in pages
  of two, has one page or two, full and not; the new rows come before a page,
  between pages and between the two queries of one, in either order of their
  commits, and an export of four rows reaches its cap.
* **FrontDoor.** Two tabs, in one or two browsers; two flows, requests and codes;
  two mishaps (one in a single browser, where tabs overlap already). Two log-ins at
  once against a limit of two. Keys live four ticks, so that in eight ticks two
  generations change; the same with a clock of nine for the Gateway's cache.
  A certificate of 22 days, 42 days, two faults. Limits of one request, and one
  refused. Two consoles and one request of an application; two actions and
  three secrets, the smallest number that has a rotation after a registration.
* **Reads.** Requests share nothing but the cache, so one worker whose requests
  follow each other, by either user, is enough: one fills the cache and the next,
  of the other user or of the same with fewer roles, may hit it. The clerk's role
  reaches the lower department and not the clerk's own row. One write anywhere in a
  request separates any two of its queries, and one before it makes a cached list
  or context out of date. `AnswersStayInReach` covers more.
* The theorems of section 4 hold for all their constants, so that there the bounds
  matter only for what is model-checked alone.

CHECK_DEADLOCK is off where a bound stops the system: RefreshTokens (codes and
tokens used up), Administration, Console and FrontDoor (commits, clicks, time). Token,
handler, browser, password and worker identities are symmetric in the runs that
say so; the liveness runs use no symmetry.

### Fairness

`FairSpec` of RefreshTokens has weak fairness on what a handler does once it
runs: Node's event loop runs every handler that is ready, and one whose
statement is answered is ready. Strong fairness is on taking a row lock
(`SweepRow`) and on the compensation's UPDATE: PostgreSQL queues waiters of a
lock in order, so that a waiter is not overtaken for ever even though others
take and release the lock in between. Two sweeps that each hold a row the other
wants are the deadlock PostgreSQL detects; `DeadlockVictim` aborts one. Nothing
is assumed of requests: no client has to come back.

`FairFlowSpec` of AuthorizeFlow has weak fairness of `Serve(t)` and `Arrive(t)` for
each tab: servers answer what a tab asks for and the answer arrives. Nothing is
assumed of the user, and `sso_loop` has no mishaps, so that its counterexample is
a browser that is answered every time.

## 4. Proofs

The theorems are about the `Spec` of RefreshTokens, UserAccess, AccessTokens,
GatewayRefresh and AccountSecurity, of the three compositions Administration,
FrontDoor and Console, and about `ReadSpec` of Reads: for any number of handlers,
tokens, codes, users, clients, browsers, endpoints, departments, keys, secrets,
rows and pages, and for any limits and times to live, under the assumptions the
modules name. Every invariant and action property that a passing run checks is
proved; liveness is not (below).
Type invariants are proved too, and but for that of RefreshTokens are no property of a
run, as the theorems say more.

| Module | Theorem | Says |
|---|---|---|
| RefreshTokensProofs | `TypeCorrect` | `TypeOK`, and handlers refer only to rows that exist |
| | `OneLiveToken` | `OneLivePerGrant` |
| | `NoOrphanTokens` | `LiveRowsAccountedFor` |
| | `ReplayEndsOneFamily` | `ReplayStaysInFamily` |
| | `RevocationIsWhole` | `SweepRevokesSnapshot` |
| | `Refinement` | `RefreshTokens!Spec` implements `GrantLifecycle!Spec` |
| UserAccessProofs | `TypeCorrect`, `StaleHasCause` | `TypeOK`, `StaleOnlyAfterOverlap` |
| AccessTokensProofs | `TypeCorrect`, `StoppedIsRefused`, `RevocationFindsTokens` | `TypeOK`, `RevokedUntilExpiry`, `IndexCoversTokensInUse` |
| GatewayRefreshProofs | `TypeCorrect`, `LockPreventsReplay`, `RotationIsDelivered` | `TypeOK`, `NoStaleCall`, `LiveTokenIsHeld` |
| AccountSecurityProofs | `OldSessionsDoEnd` | `OldSessionsEnd` |
| | `RecentPasswordsStayAway` | `NoRecentPasswordReturns` |
| AdministrationProofs | `HeldRolesAreFromHome`, `UsersKeepSomeRole` | `RolesAreFromHome`, `SomeRoleStays` |
| | `TreeStaysSound` | `TreeIsSound` |
| | `PermissionsStayAForest` | `TreeIsAForest` |
| | `ContextsAreRefreshed` | `ContextsConverge` |
| | `CodesComeFromAbove` | `CodesAreHandedDown` |
| FrontDoorProofs | `SignedInHere`, `SettledForGood` | `SessionIsOfTheBrowser`, `NoSettledReplay` |
| | `ErrorsAreExcused` | `ErrorsHaveCause` |
| | `UpstreamIsTold` | `UpstreamSeesVerified` |
| | `PublishedLongEnough` | `TokensVerifiable` |
| | `NewKeysAreFetched` | `UnknownOnlyBriefly` |
| | `NeverOutOfDate` | `CertificateStays` |
| | `SecretsStayKnown`, `ShutOutAreRefused` | `SecretsAreKnown`, `ShutOutStaysOut` |
| | `FewPasswordsTried`, `CountsEnd` | `AttemptsBounded`, `LockoutsEnd` |
| ConsoleProofs | `WritesReachPages`, `BoxAgreesWithList` | `CachedPagesAreCurrent`, `BoxMatchesList` |
| | `ButtonsKeepTheirWord` | `PromisedIsDone` |
| | `FormsSaveTheirEdits`, `SetsAreSavedAsShown` | `SaveChangesWhatWasEdited`, `SaveDoesWhatWasShown` |
| | `NobodyLeavesUnasked` | `LeavesOnlyAsked` |
| | `ExportsAreComplete` | `ExportIsComplete` |
| | `ReadsAreTyped`, `AnswersStayInReach` | `ReadTypeOK`, `ShownWithinReach` |
| | `NoOwnRowForTheDead` | `OwnRowNeedsALiveReader` |

### Assumptions

Most say of what kind a constant is, or that `None` is no element of a set. Those
that say more:

* `TtlAssumption`, `TriesAssumption`: times to live are positive; there is an
  endpoint.
* `KeyTimesAssumption`: the life of a token and the length of a request are less than
  `RenewAhead` and `PublishGrace` together. The code has at most 24 hours against
  24 and 2 (`ACCESS_TOKEN_TTL_BOUNDS` in token.ts, `JWKS_RENEW_AHEAD_SECS`,
  `JWKS_PUBLISH_GRACE_SECS`). With one tick less of grace the theorem is false, as
  TLC shows. It is the head start of the renewal that makes up for a grace shorter
  than the tokens' life.
* `LifeAssumption`: the last third of a certificate's life is longer than all
  the retries it may need, by a day. Without that day the last failure and the
  expiry meet. TLC finds this too.
* `HomesAssumption`: the database a behaviour starts with is in order
  (`InOrder`): one root, paths that agree with links, roles held at home. What
  the transactions are shown to keep has to be there at first. `StartAssumption`
  is the same for Permissions: parents exist and no circle, grants of rows that
  are there, the program's own codes among them.
* `TreesAssumption`: what an application reports is nested lists, in which no code
  comes twice (findDuplicateCode refuses the request).
* `JwksAssumption`: intervals and waits are numbers, a first refresh may follow within the
  bound of the clock, and the Gateway keeps a key longer than the Portal
  publishes it after its end.
* `HistoryAssumption`: a password history remembers something.
* `ReadsAssumption`, `PortalsAssumption`: what is below a department are departments, and
  the rows at the start are rows.
* `ConsoleAssumption`: users and items of a set are finitely many, a page has room for
  a row, there is a record to open.

### Arguments

**RefreshTokens.** `OneLivePerGrant` is not inductive: a rotation in flight
could insert a second live row next to one that came from nowhere. The
invariant `IInv` adds what rules that out. `RotationHoldsLive`: a rotation that
has taken its lock still holds it and its row is still live (nobody else can
have changed it). `ClaimExclusive`: a claimed code has no row and no second
claimant. `RowsComeFromUsedCodes`: a fresh code has no rows. `ReservedOnce`: no
two handlers are about to insert the same row. Each action is then one step of
the proof. `NoOrphanTokens` needs `RowsExist` only: a live row appears in the
hands of a handler and leaves them for `delivered`, `lost` or `revoked`.

The two action properties ask of a step what the statement that makes it may
touch. For `ReplayStaysInFamily` the rows a replay's handler revokes have to be
of the family it was started for, from its first lock to its commit. For
`SweepRevokesSnapshot` the rows it has not locked yet and those it has are
together the snapshot, less what others revoked before it had the lock.

**Refinement.** With the same invariant each action is mapped: `ClaimCode` to
the redemption, `IssueRefreshToken` to the first token, `RotateCommit` to the
rotation, a commit of a sweep to the end of all grants whose live row it
revokes (GrantLifecycle lets several end at once), all else to stuttering.

**UserAccess.** An outdated context in the cache or in a handler's hands implies
a converging handler or `tainted`. The step that matters is `DropEntry`: it ends
the convergence and must clear the cache and notice the handlers that still
carry an old context. `LoadedRow` is needed for the type of what an edit writes
back.

**AccessTokens.** `RevokedUntilExpiry` needs that a blocklist key, written
from the hash field and not from the token, reaches the token's exp. `FieldsReach`
says that every field, in the hash or in the copy a revocation carries, is at
least the exp of its token: the field is computed from a later reading of the
clock. `StoppedReach` carries that over to `blocked`. `Issuing` says that a
token being tracked is signed with the life the handler remembers.
`AllTracked` strengthens `IndexCoversTokensInUse`, which is not inductive, in two
ways: it holds of every token whose HSET was sent, answered or not, and it asks
that the hash lives as long as the token, so that its expiry cannot lose a
field that was not excused before.

**GatewayRefresh.** `NoStaleCall` needs all of `IInv`. A call is stale if
another rotation came between the cookie and the call, so the argument follows
the token backwards. `CallsAwaited`: where the lock works, a call on its way has
a handler that waits for it. `HoldsLock`: that handler holds the lock, so there
is one. `CallersFresh`: it has the live token. It got there by `Acquire`, and
`WaitersFresh` is what makes that step go through: a handler that waits with an
outdated token finds the lock taken by the very response that carries the new
one, which does not release it. That holds when it arrives because of
`LiveTokenIsHeld`: if the cookie is old, the live token is in a response. And
`LiveTokenIsHeld` needs `Undelivered`: the token of a response on its way is in
no cookie, call or other handler, so that nothing rotates it before the browser
has it. The theorem says where the lock is needed, and by its exceptions where
it does not suffice.

**AccountSecurity.** `OldSessionsEnd` is about browsers nobody handles any more;
the invariant follows them while somebody does. `LoginAlone`: a browser signs
in once at a time, without a session. `EntriesAreKnown`: whoever may yet get
tokens for an old sign-in is noted. `LocksHold`: the rows a forced log-out has
locked stay as they are until it commits, so that its commit ends what it read.
`HistoryIsPast` and `NewIsNew` carry the passwords: as long as no writer has
overtaken another, the row's history is the last passwords in force, and a handler
about to write holds one that differs from them.

**Administration.** The three invariants have one shape. What a transaction has
read, and what its checks made sure of, holds until it commits or until a commit
crosses it: `HomeFits` for users and roles, `TreeFits` for departments, `Seen`
for permissions.
`HomeEffect` and `TreeEffect` say, for each kind of commit, what it leaves
alone; `Conflicts` says which transactions it crosses; `CommitKeepsHome` and
`CommitKeepsTree` check one against the other, for every pair. `IdsOnce` says
that an id is used by the one transaction that creates its row. The tree needs
two facts more. `NotAbove`: the walk of validateNoCircularReference up the
parents meets the department that moves exactly if the new path begins with its
path; shown by the least counterexample on the length of a path, which stands
in for an induction. `RebasedBelow`: the UPDATE that replaces the beginning of
all paths below the department makes each the path of its parent again.

Permissions have no paths, and `TreeIsAForest` is proved of sets: no nonempty set of
permissions has all its parents inside. A set that a move closes contains the one
that moved; without what hangs below that one it would have been closed before
(`UpdateKeepsForest`). A deletion takes whole subtrees, so that what is left keeps
its parents (`DeleteKeepsForest`); a registration's moves follow the tree reported,
which is a forest (`RegisterKeepsForest`). `ReachInv` carries
`ContextsConverge`: a context that is not what the rows say belongs to a user who is
still due in some request, or will be found by one that has yet to ask
(`WillReach`). For each kind of commit `DueIsReached` shows that the users it
concerns are among those it refreshes: the bindings it read before the commit are those
at the commit, or it was crossed. `HandsDown` does the same for codes: what
the author of a grant or binding had when it was checked is had at the commit.

**The sign-in.** `FlowInv` binds everything with a state, request or code number
to one browser: `TabOk` of what a tab carries and `JarOk` of what the cookies
hold, each begun in that browser; `StateOnce` and `RequestOk`: no two browsers
share a state or a binding; `CodeOk`: a code belongs to the user who logged in where
its state was begun, and a settled code's state is gone. `ErrorsHaveCause` takes a
second invariant, `CauseInv`, on top: in a browser where nothing excuses an
error one tab is at work at a time, and what it carries fits the cookies as they
will be once the reply under way has arrived (`Stage`, `After`).

**The other parts of the front door** have an invariant each. `RequestInv`: before
the check a request has no identity, after it only paths nobody is asked for
lack one. `KeyInv`: a request takes a key that has `RenewAhead` to go
(`KeyOutlastsRequest`) and ends within a tick (`Prompt`), so that nothing is signed
with a key but that far ahead of its end (`SignedBeforeEnd`). `JwksInv`: what was granted to a refused key leads to
a fetch that finds it, the one under way if that began late enough, or the next, whose
permit is there (`OnItsWay`); before that, nothing was granted since the key was refused
(`GrantedOrEarlier`). The number of keys times the time between
two of them is within the clock (`KeysTakeTurns`), so that `CacheKids` has them all. `CertInv`: the certificate served has the days left that the
task, at its place between two checks or retries, may still spend (`InTime`).
`AppInv`: every secret is made once and by one action (`MadeOnce`,
`SecretsApart`), and a request that was late for a client shut out goes by a
row read after it (`Barred`). `AttemptInv`: passwords tried are at most the
count, the logins that still owe theirs and what was lost (`TriedAreTold`), and
those between check and count were at most so many when they passed
(`FewPassTheLimit`); both are sums over the logins, whose changes by one are lemmas
about cardinalities.

**The console.** Its sections share no variables, so each has its invariant and
the steps of the others keep it. `ListInv`: text that differs from the list's keyword
has a timer or a navigation that will bring it there, or its page was left before the
search and came back from hiding (`TextOnItsWay`). `SetInv`: as long as nothing is excused the set held is the set the
dialog counts as kept, or the one just saved. `GuardInv`: the entries of the
history and the guard's flags go together (`Counts`) until one of the named ways to
lose count is taken. `CacheInv`: a table an entry was rendered from before its last
change is explained, or a handler has committed that change and its tags reach the
page (`OldIsDropped`, `TagsCover`); the second is a check of the table of operations against
the table of readers. `FormInv` follows a whole row from form to form: what a
request was sent with, what its action loaded and what an answer makes the form
count as saved are the row's, field by field, except where they were edited, or
left behind by another writer (`stale`).

`TableInv`: at most one flip waits, and only the first action has run (`QueueIs`), as a
flip takes the rows off the screen. A row nobody else has touched (`moved`) is seen as it
is in the database, or flipped once by the flip that ran (`SeenIsStatus`); the flip that
waits and the open dialog promise that row flipped (`GoalsFollow`, `DialogFollows`). A
click makes the promise from the row as seen; a bulk action, a lost answer, an action
whose list is gone and another administrator put the rows they change into `moved`; a
refresh takes out all that nothing is promised for, and shows them as they are
(`RowsKeep`). So the flip that runs finds the row as it was promised for (`SeenBefore`).
`AuditInv`: a row the
export owes has at least as many newer rows as the page's offset (`OwedIsAhead`).
Rows that come add to them and rows that go are not newer. In a page sorted
by time its place is the number of newer rows plus one (`PlaceIsRank`, by a
bijection between places and rows), so that a page that lacks it ends before it, and a
total that makes a page the last one was counted with it (`LastPageReaches`).

**Reads.** `ReadIInv` says of every request (`Told`) that the scope it has resolved is
one of those its reader had since it began, that every row found lies in that scope,
and that a reader whose own row was found was active then. A scope read from the rows
now is one the reader has now, and a write adds the new one to the history of every
request under way (`WriteKeeps`); whatever is selected lies in the scope it is
selected for, for each of the queries (`SelectedInScope`). The cache needs
`ListsInScope`: a list holds rows of the scope it is known by, however old it is, so
that a hit is of the asker's own scope. The permission context does not occur in the
argument, so that it holds for contexts of any age.

### Model-checked only

* Liveness: `EveryRequestEnds` and the violated `ResumptionEnds`. Liveness
  under fairness is out of the prover's reach.
* What a recursive definition computes for every input: the prover has no induction
  over data. Where a proof needs one (paths, the walk up the parents, what hangs
  below a permission) the definition is a least set or the proof takes a least
  counterexample.
* All violations, which are shown by one behaviour each.

### What proving changed in the models

Proofs that did not go through, and what TLC then showed:

* KeyTimes asked for a grace as long as a token's life, which the code's numbers do
  not meet, and not for the head start, without which it was not enough. It has
  what the proof uses now, and what the code has.
* Certificates had a weaker assumption, under which the property is false (above);
  the run had 21 days of life and has 22.
* JwksCache did not say that its constants are numbers, nor that a refresh may happen
  within the bound of the clock.
* In AccountSecurity a write that came after another handler's noted itself as
  overlapping only by its new password; it compares the rows now.
* In Directory the removal of a role was not crossed by a deletion of a department,
  which takes roles along by its cascade. With four writes TLC finds a user who
  loses the last role to a removal that counted the deleted one.
* In Permissions each write listed by hand the kinds of change it made. The list
  missed that an update writes the whole row it loaded, and so moves back a permission
  that another request has moved. `Changed` reads the kinds off the rows now. A
  grant is crossed by a binding made after it asked who is affected, an update by
  one that ends what its author might enable. In return the properties excuse less:
  a registration only if a code came or went with it, an update only for a move.
* A registration also fails if the parent of a row it inserts was deleted, and an
  update of a row that is gone writes nothing and so violates no key. The arms of
  `Synced` overlapped, which TLC reads in order and a prover does not.
* `Above` was a function on the naturals and is the least set closed under parents,
  which says the same of a walk with a set of visited rows; `Subtree` likewise.
* PageCache's table of operations was put together from records with `@@`; it is one
  record now. Console did not say that there is a record, without which no form can
  be open on one.
* `SUBSET X \ Y` and `@@` are parenthesised, or replaced by `Over` and `Patched`:
  the two parsers read the first differently, and no prover knows the second.

## 5. Where code and documents disagree

Each is a run; the counterexample is the trace TLC prints.

1. **`user_sweep`** A reset, forced log-out or log-out waits for the row lock of
   a rotation in flight; the row that rotation inserts is not in the UPDATE's
   snapshot and stays live. The same holds for a code claimed before and
   redeemed after. The family sweep of a replay has the same gap. The reset
   answers that all sessions of the user ended.
2. **`refused_user`** Toggle and bulk action leave the cached context. Until it
   expires, and every issuance writes it back with a new life, the disabled
   user's rotations succeed.
3. **`sso_loop`** Two tabs wait at the login page with a stored request each.
   One signs in; its code uses up the login cookie. The other loads the login page
   only then, or again: the page sees a session and sends it to /authorize?session_id, which finds
   no login cookie and sends it to the login page, for as long as the stored
   request lives and, since /authorize checks the cookie first, after that too.

Seen while modelling, with no run of their own. Those that a property has to
except are marked with its name.

*Tokens and sessions*

* A reader that queried before a change may write after the DEL of its
  refresh, which then finds the old entry and reports ok (`StaleOnlyAfterOverlap`).
  After a failed DEL the next issuance reads the old entry and renews it, where
  the header of authorization-effects.ts expects it to repair it.
* A token of a client with a short life shortens the life of the hash; a token
  of another client outlives it and a revocation of the user does not find it. A
  token tracked between HGETALL and DEL loses its field. The hash may expire
  between the HSET and the EXPIRE of a token. exec() of a pipeline reports errors
  per command and nobody reads them, so that `failed: false` may hide a SETEX
  that failed. (All excuses of `IndexCoversTokensInUse`.)
* The blocklist key ends with exp, while the Gateway accepts a token for its
  leeway of 60 s more.
* A user ends one session from the profile. That browser still has its cookie;
  at its next silent refresh the Portal takes the revoked row for a rotated one,
  and ends all Portal sessions of the user (lib/auth/token.ts:358). A rotation
  whose issuance fails takes its row back, and the next endpoint the Gateway
  tries is a replay with the same effect.
* The log-out dialog of the profile says that other devices are not affected
  (ProfileClient.tsx); the log-out revokes all refresh tokens of the user.
* The login cookie's path does not cover the log-out route, so that a login
  session under way survives a log-out; an access token gets a code between the
  two revocations of a handler (both `OldSessionsEnd`).
* A password change that reads, and a reset that commits before it writes: the
  reset's password and history are overwritten (`NoRecentPasswordReturns`).
* The Gateway's lock is per user, not per browser. A second browser that is due
  within 30 seconds of the first is turned away, and the comment that it heals
  with the winner's cookies (gateway/authenticate.rs) holds for the same browser
  only.
* After a rotation, an upstream that fails takes the new cookies with it
  (`UpstreamFails`); so does a reply read too late, and the retry in the same
  request is then itself the replay.

*Users, roles, permissions*

* An edit of a name, loaded before a disablement and committed after, makes the
  user active again; a role's rename undoes its disabling in the same way.
* The bulk restore makes a deleted user active; deleted_at stays set.
* Two assignments at once give the union of both (the DELETE of the second does
  not see the rows of the first).
* A registration that contains a DIRECTORY or PAGE violates
  permissions_type_fields_chk. A console change of an application's permission
  to PAGE drops its client_id, so that its later registrations answer 409. A
  registration re-activates what an administrator disabled, disables codes it
  does not contain, and refreshes no context (`ContextsConverge`).
* The deletion of a permission collects the users it affects and looks for reserved
  codes in the transaction of the deletion, so that "the same snapshot" has all
  (permissions/actions.ts:239-240: else a binding made in between would be missed). At
  READ COMMITTED each statement has its own snapshot: a binding or a move that commits
  between the two is missed (`ContextsConverge`; the model has it as an overlap).

*Reads*

* The comment of logServerDataRead (lib/auth/server-logger.ts:15-16) says that reads
  are logged in data.ts, for server components and routes alike. Only the routes call
  it, and getPermissionById, which no page uses: a page that shows a user, a user's
  roles, a role's permissions, a client or a permission leaves no row (`IsLogged`).
* The shell refuses to be rendered for a disabled reader whose token is still about
  (layout.tsx:60), users/page.tsx:61 leaves the check of rights to users/layout.tsx, and
  dashboard/page.tsx that of identity to the layout. When one page is left for another
  the layouts in place are not rendered again. A disabled or deleted reader with a live
  token is then shown rows in the scope of the roles still bound, and who has lost
  user:list keeps the list as long as the section is not left. A page that is loaded
  renders beside its layouts, so that what is sent may contain rows the layout then
  does not show. REST routes never ask for the reader's row: they go by the cached
  context and the scope. (What is left is `OwnRowNeedsALiveReader`.)
* The profile come to from another page is shown without the own row, and still with the
  cached roles and permissions and the sessions (`IsProfile`).
* The greeting of the dashboard is meant for an instance without a second user
  (dashboard/page.tsx:95) and counts the users in the reader's scope, which are none
  for an empty scope: whoever reaches at most one user is greeted in a full instance.

*Keys, limits, sign-in, Gateway*

* signing-keys.ts:185-188 returns the promise of generateAndPersistKeyPair
  without awaiting it, so that the lock is released before the insert and two
  requests of one process may both create a key, which the comment of line 29
  excludes. `TokensVerifiable` holds nevertheless: every row is published.
* The comment of JWKS_PUBLISH_GRACE_SECS (contracts, oidc.ts:77-79) asks for a
  grace no shorter than the longest token; clients may have tokens of 24 hours, and
  the grace is 2. `TokensVerifiable` holds by the head start of the renewal
  (section 4).
* Comments of the key cache (signing-keys.ts:49-50, 182) say that rotation
  deletes old rows; nothing deletes them.
* After five failed first fetches the Gateway waits for the full interval with
  an empty cache, unless an unknown kid asks.
* A process that dies between INCR and EXPIRE leaves a counter without an end:
  the account is locked until an administrator unlocks it (`LockoutsEnd`). The
  fallback counts blocked attempts as well, and so slides, where the counter
  does not. A log-in from an unknown address logs the ip 'unknown', while the
  fallback counts rows with `ip IS NULL`.
* The reply that carries one tab's code clears the login and binding cookies
  another tab has set meanwhile (`ErrorsHaveCause`).

*Clients*

* An edit writes back the whole row it read, so that it re-enables a client
  disabled in between (`ShutOutStaysOut`). A rotation or an edit of a client
  deleted meanwhile updates no row and answers with success.
* If the answer of a registration is lost, so is the secret; `saving` stays set, as
  new/page.tsx has no finally, and a second try makes a second client.
* The schema of redirectUris allows 500 characters per entry, the column 255.

*Pages*

* Renaming a department, deleting a role and logging in leave the users' list
  as it was; deleting a permission or a client leaves the roles' counts, issuing a
  token the clients' (`Gaps` in PageCache; the comment in
  cache-invalidation.ts:50 says that the list of roles has no such count).
* Audit log: an end date alone is shown as chosen and not applied
  (audit-logs/page.tsx:158-166). Roles: the controls drop the page size. A
  filter chosen while a search waits is undone by the timer.
* Roles and clients: a page left before its search began, and hidden meanwhile, comes
  back with the text and without the timer: the list is not searched for what the box
  says (`BoxMatchesList`). The other lists search in an effect, which runs again.
* A status button flips the row as it is by then. A bulk action beside it, a dialog
  left open over a refresh, an answer that was lost or a list mounted anew while a flip
  still runs: "disable" restores (`PromisedIsDone`).
* A dialog of a role, department or profile reopened before the list is
  refreshed is filled from the old row, and its save undoes the first. Esc while a
  save runs, then another dialog: the answer closes the second.
  A permission's page that was hidden and not gone comes back with the form it had, and
  saves it over what others wrote meanwhile (all `SaveChangesWhatWasEdited`).
* The set editors read an error as the empty set (`SaveDoesWhatWasShown`). A user
  who holds a disabled role, or one of another department, cannot have roles
  changed in the page. The deletion dialog of PermissionsTable may show the
  effect of another row's deletion.
* An export of a log loses its oldest rows if the log grows between the total and
  the rows of what the total makes the last page, and rows of the same microsecond
  may be sent twice or not at all (the order has no second column). One of
  exactly `EXPORT_MAX_ROWS` rows or more ends there and does not say so
  (`ExportIsComplete`).
* The leave guard loses count after Esc upon Back, "stay" after a save, Forward,
  and an edit before its own back (`LeavesOnlyAsked`). Its header says that
  popstate is out of scope and that it uses router.push; the code handles popstate
  and uses location.assign.

## 6. What is not modelled

* Cryptography: signatures, hashes, PKCE values. A token or code is an
  identifier; what a check of its form would refuse is not presented.
* The `:null` mark of users unknown to the database (UserAccess).
* The Gateway's router: the longest prefix among a list sorted at start-up, with
  no state; what happens around it is in GatewayRequests. The estimate of the
  rate limiter's library, here one window after another.
* Discovery: a stateless reader. The text of the logs' rows, the parsing
  of an export's filters and its CSV format. A control-plane row that is given up
  (audit.ts:162) leaves nothing to check; that a security audit row commits with
  its operation holds by the transaction.
* Configuration, metrics, logging and start-up: read once, or never read back.
* Navigation, menus, the design-system components, the dashboard's tiles of logins and
  audit (what pages read otherwise is in Reads); creation dialogs other than the client's, which
  differ from the edit dialogs only in having no row to be filled from.
* In Reads: filters that only narrow an answer (keyword, status, page); what the rows of
  clients and permissions are, as no scope bounds them; the tree of departments, which
  stands still there and moves in Directory; counts shown beside a row.
* Several Gateway processes that share an ACME state directory, which the code
  excludes by its deployment; a CA whose renewal window begins later than two thirds
  of a certificate's life or whose Retry-After is longer than the interval.
* The Gateway's and the Portal's clocks are one clock. The Gateway's leeway is
  modelled because it is in the code.
* A transaction that loses against the cascade of a client's deletion: the
  deletion is one step, and the deadlock it may run into fails one of the two, which
  is a failure both may have anyway.

## 7. Plan

Done: everything named in section 1 with a module.

What is left, in order of worth:

1. **Liveness of GatewayRefresh**: what a browser that is turned away finds at
   its next request.
2. **A finer Portal for AuthorizeFlow**: composition with RefreshTokens'
   `ClaimCode` in place of the flag `used`.

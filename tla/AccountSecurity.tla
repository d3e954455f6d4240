---------------------------- MODULE AccountSecurity ----------------------------
(* One user's password and sessions, and everything that ends sessions: a       *)
(* change by the user, a reset by an administrator (from the page, or by REST), *)
(* a forced log-out, a log-out, and the revocation of one session from the      *)
(* profile.                                                                     *)
(*                                                                              *)
(* A handler's steps are its transactions and Redis calls.  A sweep of refresh  *)
(* tokens is one UPDATE here; what its snapshot misses while a rotation is      *)
(* under way is the subject of RefreshTokens, and what a revocation of access   *)
(* tokens misses that of AccessTokens.  A password stands for its hash.         *)
EXTENDS Naturals, Sequences

CONSTANTS Workers,     \* handlers
          Browsers,    \* each with at most one session of the user
          Passwords,
          Initial,     \* the password at the start, or None
          None,        \* no password
          HistoryMax,  \* passwords remembered besides the one in force
          MaxWrites,   \* bound: passwords written before the last reset or change starts
          Faults       \* whether transactions and Redis calls fail

ASSUME PasswordAssumption == Initial \in Passwords \cup {None} /\ None \notin Passwords
ASSUME HistoryAssumption == HistoryMax \in Nat \ {0}
ASSUME FaultsAssumption == Faults \in BOOLEAN

VARIABLES
  row,       \* the user's row: hash, history (newest first)
  signin,    \* per browser: "out", "verified" (login session), "code", "in"
  rt, at,    \* per browser: its refresh token, its access token
  req,       \* handlers
  past,      \* history: the passwords that were in force, newest first
  raced,     \* history: a password was written to a row its writer had not read so
  old,       \* history: browsers that signed in before sessions were last ended
  underway,  \* history: those of them that were to get a refresh token later
  byToken,   \* history: those that got a code for their access token in time
  failed     \* history: a revocation of access tokens failed

vars == <<row, signin, rt, at, req, past, raced, old, underway, byToken, failed>>
sessionVars == <<signin, rt, at, old, underway, byToken, failed>>
rowVars == <<row, past, raced>>

--------------------------------------------------------------------------------

NoRow == [hash |-> None, history |-> <<>>]
Idle == [pc |-> "idle", kind |-> "none", seen |-> NoRow, new |-> None, who |-> {}, rows |-> {}]

Become(w, r) == req' = [req EXCEPT ![w] = r]
Advance(w, pc) == Become(w, [req[w] EXCEPT !.pc = pc])

\* The passwords a new one is compared with: the one in force and the remembered.
Reused(new, seen) == new = seen.hash \/ \E i \in DOMAIN seen.history : new = seen.history[i]

Newest(s, n) == SubSeq(s, 1, IF Len(s) < n THEN Len(s) ELSE n)

\* One remembered too few.
NextHistoryOffByOne(seen) ==
  IF seen.hash = None THEN seen.history ELSE Newest(<<seen.hash>> \o seen.history, HistoryMax - 1)

\* The replaced password goes first, the oldest is dropped.
NextHistory(seen) ==
  IF seen.hash = None THEN seen.history ELSE Newest(<<seen.hash>> \o seen.history, HistoryMax)

\* The UPDATE of the row, which names the user and nothing it expects to find.
WritePassword(r) ==
  /\ row' = [hash |-> r.new, history |-> NextHistory(r.seen)]
  /\ past' = <<row.hash>> \o past
  /\ raced' = (raced \/ r.seen # row)

LiveRows == {b \in Browsers : rt[b] = "live"}

\* Browsers for which a password has been read, or accepted, and not signed out.
SigningIn == {b \in Browsers : signin[b] # "out"}
               \cup UNION {req[w].who : w \in {v \in Workers : req[v].pc = "login"}}

\* A forced log-out locks the rows it has updated until its transaction ends.
Unlocked(rows) == \A w \in Workers : req[w].pc = "commit" => req[w].rows \cap rows = {}

\* Who is signed in is old from now on; a browser whose row is not reached, or
\* that holds a code besides, goes on signing in.
Ended(rows, who) ==
  LET reached == {b \in rows : signin[b] = "in"} IN
  /\ old' = old \cup who
  /\ underway' = (underway \ reached) \cup (who \ reached)
  /\ byToken' = byToken \ who

\* Only the rows of browsers whose access token is still good.
SweepRowsInUse(rows, who) ==
  /\ rt' = [b \in Browsers |-> IF b \in rows /\ at[b] = "valid" THEN "revoked" ELSE rt[b]]
  /\ Ended(rows, who)

\* UPDATE refresh_tokens SET revoked WHERE user_id.
SweepRows(rows, who) ==
  /\ rt' = [b \in Browsers |-> IF b \in rows THEN "revoked" ELSE rt[b]]
  /\ Ended(rows, who)

\* Every access token of the user goes on the blocklist; never throws.
BlockAll ==
  \/ /\ at' = [b \in Browsers |-> IF at[b] = "valid" THEN "blocked" ELSE at[b]]
     /\ failed' = failed
  \/ /\ Faults /\ failed' = TRUE /\ UNCHANGED at

--------------------------------------------------------------------------------
(* Signing in, as far as it matters here, and rotation.                         *)

\* The login route reads the row; a bcrypt later the login session is signed.
\* From here on b stands for the new session: a forced log-out under way is about
\* the one before.
LoginReads(w, b) ==
  /\ req[w].pc = "idle" /\ row.hash # None
  /\ b \notin SigningIn
  /\ req' = [v \in Workers |->
               IF v = w THEN [Idle EXCEPT !.pc = "login", !.who = {b}]
               ELSE IF req[v].pc = "commit"
               THEN [req[v] EXCEPT !.who = @ \ {b}, !.rows = @ \ {b}] ELSE req[v]]
  /\ old' = old \ {b} /\ underway' = underway \ {b} /\ byToken' = byToken \ {b}
  /\ rt' = [rt EXCEPT ![b] = "none"] /\ at' = [at EXCEPT ![b] = "none"]
  /\ UNCHANGED <<rowVars, signin, failed>>

LoginSigns(w) ==
  /\ req[w].pc = "login"
  /\ signin' = [b \in Browsers |-> IF b \in req[w].who THEN "verified" ELSE signin[b]]
  /\ Become(w, Idle)
  /\ UNCHANGED <<rowVars, rt, at, old, underway, byToken, failed>>

\* The authorize route trades the login session for a code.
IssueCode(b) ==
  /\ signin[b] = "verified"
  /\ signin' = [signin EXCEPT ![b] = "code"]
  /\ UNCHANGED <<rowVars, rt, at, req, old, underway, byToken, failed>>

\* Or an access token of the Portal, without asking for the password again.
\* That brings a signed-out browser back between the two revocations of a
\* handler (refresh tokens first), or if the second failed.
Reauthorize(b) ==
  /\ signin[b] = "in" /\ at[b] = "valid"
  /\ signin' = [signin EXCEPT ![b] = "code"]
  /\ byToken' = IF b \in old /\ (failed \/ b \in underway \/ \E w \in Workers : req[w].pc = "block")
                  THEN byToken \cup {b} ELSE byToken
  /\ UNCHANGED <<rowVars, rt, at, req, old, underway, failed>>

\* The token route trades the code for tokens, the refresh token in a row of its
\* own that a statement under way does not see.
RedeemCode(b) ==
  /\ signin[b] = "code"
  /\ signin' = [signin EXCEPT ![b] = "in"]
  /\ req' = [v \in Workers |->
               IF req[v].pc = "commit" THEN [req[v] EXCEPT !.rows = @ \ {b}] ELSE req[v]]
  /\ rt' = [rt EXCEPT ![b] = "live"]
  /\ at' = [at EXCEPT ![b] = "valid"]
  /\ UNCHANGED <<rowVars, old, underway, byToken, failed>>

\* A rotation: same session, new access token.  It locks the row it rotates.
Rotate(b) ==
  /\ rt[b] = "live" /\ signin[b] = "in"
  /\ Unlocked({b})
  /\ at' = [at EXCEPT ![b] = "valid"]
  /\ UNCHANGED <<rowVars, signin, rt, req, old, underway, byToken, failed>>

--------------------------------------------------------------------------------
(* Change by the user.                                                          *)

\* The row is read, the old password verified, the new one compared; a refusal
\* changes nothing and is left out.
ChangeReads(w, b, new) ==
  /\ req[w].pc = "idle"
  /\ signin[b] = "in" /\ at[b] = "valid"
  /\ row.hash # None
  /\ Len(past) < MaxWrites
  /\ ~Reused(new, row)
  /\ Become(w, [Idle EXCEPT !.pc = "write", !.kind = "change", !.seen = row, !.new = new])
  /\ UNCHANGED <<rowVars, sessionVars>>

ChangeWrites(w) ==
  /\ req[w].pc = "write" /\ req[w].kind = "change"
  /\ WritePassword(req[w])
  /\ Become(w, [Idle EXCEPT !.pc = "sweep", !.kind = "change"])
  /\ UNCHANGED sessionVars

\* No transaction around them: the error of the sweep is logged and dropped.
ChangeSweeps(w) ==
  /\ req[w].pc = "sweep" /\ req[w].kind = "change"
  /\ \/ Unlocked(LiveRows) /\ SweepRows(LiveRows, SigningIn)
     \/ Faults /\ UNCHANGED <<rt, old, underway, byToken>>
  /\ Advance(w, "block")
  /\ UNCHANGED <<rowVars, signin, at, failed>>

\* The last step of a change, a reset and a log-out.
Blocks(w) ==
  /\ req[w].pc = "block" /\ req[w].kind # "logout"
  /\ BlockAll
  /\ Become(w, Idle)
  /\ UNCHANGED <<rowVars, signin, rt, old, underway, byToken>>

--------------------------------------------------------------------------------
(* Reset by an administrator.                                                   *)

\* The transaction reads the row, without a lock, and compares.
ResetReads(w, new) ==
  /\ req[w].pc = "idle" /\ Len(past) < MaxWrites
  /\ ~Reused(new, row)
  /\ Become(w, [Idle EXCEPT !.pc = "write", !.kind = "reset", !.seen = row, !.new = new])
  /\ UNCHANGED <<rowVars, sessionVars>>

\* A reused password ends the page's action by an exception; the REST handler
\* answers from inside the transaction and then revokes access tokens anyway.
ResetRefused(w, new) ==
  /\ req[w].pc = "idle"
  /\ Reused(new, row)
  /\ Become(w, [Idle EXCEPT !.pc = "block", !.kind = "reset"])
  /\ UNCHANGED <<rowVars, sessionVars>>

\* Password and refresh tokens commit together.  (The page's action also clears
\* passwordChangedAt, the REST route leaves it; nothing here depends on it.)
ResetCommits(w) ==
  /\ req[w].pc = "write" /\ req[w].kind = "reset"
  /\ Unlocked(LiveRows)
  /\ WritePassword(req[w])
  /\ SweepRows(LiveRows, SigningIn)
  /\ Become(w, [Idle EXCEPT !.pc = "block", !.kind = "reset"])
  /\ UNCHANGED <<signin, at, failed>>

ResetAborts(w) ==
  /\ Faults /\ req[w].pc = "write" /\ req[w].kind = "reset"
  /\ Become(w, Idle)
  /\ UNCHANGED <<rowVars, sessionVars>>

--------------------------------------------------------------------------------
(* Forced log-out: refresh tokens and access tokens in one transaction, of      *)
(* which Redis is no part.                                                      *)

ForceRevokes(w) ==
  /\ req[w].pc = "idle"
  /\ Unlocked(LiveRows)
  /\ BlockAll
  /\ Become(w, [Idle EXCEPT !.pc = "commit", !.kind = "force", !.who = SigningIn, !.rows = LiveRows])
  /\ UNCHANGED <<rowVars, signin, rt, old, underway, byToken>>

ForceCommits(w) ==
  /\ req[w].pc = "commit"
  /\ SweepRows(req[w].rows, req[w].who)
  /\ Become(w, Idle)
  /\ UNCHANGED <<rowVars, signin, at, failed>>

ForceAborts(w) ==
  /\ Faults /\ req[w].pc = "commit"
  /\ Become(w, Idle)
  /\ UNCHANGED <<rowVars, sessionVars>>

--------------------------------------------------------------------------------
(* Log-out, and the session list of the profile.                                *)

\* The browser's own access token; the user is known only if it is still good.
LogoutStarts(w, b) ==
  /\ req[w].pc = "idle" /\ signin[b] = "in"
  /\ \A v \in Workers : req[v].kind \in {"logout", "unknown"} => b \notin req[v].who
  /\ \/ at[b] = "valid" /\ at' = [at EXCEPT ![b] = "blocked"]
        /\ Become(w, [Idle EXCEPT !.pc = "own", !.kind = "logout", !.who = {b}])
     \/ at[b] # "valid" /\ UNCHANGED at
        /\ Become(w, [Idle EXCEPT !.pc = "own", !.kind = "unknown", !.who = {b}])
  /\ UNCHANGED <<rowVars, signin, rt, old, underway, byToken, failed>>

\* Its refresh token, by the cookie.
LogoutRevokesOwn(w) ==
  /\ req[w].pc = "own"
  /\ \/ /\ Unlocked(req[w].who)
        /\ rt' = [b \in Browsers |-> IF b \in req[w].who /\ rt[b] = "live" THEN "revoked" ELSE rt[b]]
     \/ Faults /\ UNCHANGED rt
  /\ Advance(w, IF req[w].kind = "logout" THEN "sweep" ELSE "clear")
  /\ UNCHANGED <<rowVars, signin, at, old, underway, byToken, failed>>

\* Then all of the user's, in every browser.
LogoutSweeps(w) ==
  /\ req[w].pc = "sweep" /\ req[w].kind = "logout"
  /\ \/ Unlocked(LiveRows) /\ SweepRows(LiveRows, SigningIn)
     \/ Faults /\ UNCHANGED <<rt, old, underway, byToken>>
  /\ Advance(w, "block")
  /\ UNCHANGED <<rowVars, signin, at, failed>>

LogoutBlocks(w) ==
  /\ req[w].pc = "block" /\ req[w].kind = "logout"
  /\ BlockAll
  /\ Advance(w, "clear")
  /\ UNCHANGED <<rowVars, signin, rt, old, underway, byToken>>

\* The answer clears the cookies, whatever failed before.
LogoutClears(w) ==
  /\ req[w].pc = "clear"
  /\ signin' = [b \in Browsers |-> IF b \in req[w].who THEN "out" ELSE signin[b]]
  /\ Become(w, Idle)
  /\ UNCHANGED <<rowVars, rt, at, old, underway, byToken, failed>>

\* The list shows the rows that are live; the action checks that again.
OwnSessions == LiveRows
RevokeOwnSession(b, s) ==
  /\ signin[b] = "in" /\ at[b] = "valid"
  /\ s \in OwnSessions /\ Unlocked({s})
  /\ rt' = [rt EXCEPT ![s] = "revoked"]
  /\ UNCHANGED <<rowVars, signin, at, req, old, underway, byToken, failed>>

--------------------------------------------------------------------------------

Init ==
  /\ row = [hash |-> Initial, history |-> <<>>]
  /\ signin = [b \in Browsers |-> "out"]
  /\ rt = [b \in Browsers |-> "none"] /\ at = [b \in Browsers |-> "none"]
  /\ req = [w \in Workers |-> Idle]
  /\ past = <<>> /\ raced = FALSE /\ old = {} /\ underway = {} /\ byToken = {} /\ failed = FALSE

SignIn(w) == (\E b \in Browsers : LoginReads(w, b)) \/ LoginSigns(w)
Change(w) ==
  \/ \E b \in Browsers, p \in Passwords : ChangeReads(w, b, p)
  \/ ChangeWrites(w) \/ ChangeSweeps(w) \/ Blocks(w)
Reset(w) ==
  \/ \E p \in Passwords : ResetReads(w, p) \/ ResetRefused(w, p)
  \/ ResetCommits(w) \/ ResetAborts(w)
ForceLogout(w) == ForceRevokes(w) \/ ForceCommits(w) \/ ForceAborts(w)
Logout(w) ==
  \/ \E b \in Browsers : LogoutStarts(w, b)
  \/ LogoutRevokesOwn(w) \/ LogoutSweeps(w) \/ LogoutBlocks(w) \/ LogoutClears(w)

Next ==
  \/ \E w \in Workers : SignIn(w) \/ Change(w) \/ Reset(w) \/ ForceLogout(w) \/ Logout(w)
  \/ \E b \in Browsers : IssueCode(b) \/ Reauthorize(b) \/ RedeemCode(b) \/ Rotate(b)
  \/ \E b, s \in Browsers : RevokeOwnSession(b, s)

Spec == Init /\ [][Next]_vars

--------------------------------------------------------------------------------
(* Properties                                                                   *)

\* When a reset, a change, a forced log-out or a log-out has ended the user's
\* sessions, a browser that signed in before it goes on only if it was to get a
\* refresh token later (its password had been read, or it held a login session
\* or a code, and nothing of that is revoked), or got a code for its access
\* token between the two revocations of the handler.  Nor is its access token
\* of use once the handler is through, unless Redis failed it.
OldSessionsEnd ==
  \A b \in old \ (underway \cup byToken) :
    /\ rt[b] # "live"
    /\ (\A w \in Workers : req[w].pc # "block") /\ ~failed => at[b] # "valid"

\* A password comes in force that was not among the last ones, the one it
\* replaces included.  Two writers that overlap may break that (raced): the
\* second writes the history it computed from the row before the first.
NoRecentPasswordReturns ==
  [][past' # past /\ ~raced' =>
       row'.hash \notin {row.hash} \cup {past[i] : i \in DOMAIN Newest(past, HistoryMax)}]_vars
================================================================================

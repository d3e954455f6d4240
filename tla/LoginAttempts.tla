---------------------------- MODULE LoginAttempts ----------------------------
(***************************************************************************)
(* The limits on wrong passwords (brute-force.ts) under parallel logins of *)
(* one account from one address: checked before the password is verified,  *)
(* counted after, by INCR and, for the first, a separate EXPIRE.  Without  *)
(* Redis the rows of the login log are counted, which are written after    *)
(* the answer.                                                             *)
(***************************************************************************)
EXTENDS Naturals, FiniteSets, SequencesExt

CONSTANTS
  Logins,                       \* logins being handled at once
  AccountMax, IpMax,             \* the two limits
  MaxTries, MaxTrouble           \* bounds: logins begun; windows over, deaths, outages

ASSUME LimitsAssumption ==
  IsFiniteSet(Logins) /\ AccountMax \in Nat \ {0} /\ IpMax \in Nat \ {0}

VARIABLES
  key,        \* the Redis keys: count and whether a TTL is set
  redis,      \* Redis answers
  rows,       \* LOGIN_FAILED rows that count for each key, if Redis is not there
  unwritten,  \* rows handed to the background writer: of the account, of the address only
  work,       \* a login: where it is, the keys to increment, the key to expire, and
              \* the row it then logs
  tried,      \* history: wrong passwords verified since the account's count began
  lag,        \* history: rows of the account not yet written when the log was read
  uncounted,  \* history: of these, those whose login died before they were counted
  switched,   \* history: Redis went or came back
  orphaned,   \* history: keys whose INCR was not followed by the EXPIRE
  tries, trouble   \* bounds

attemptVars == <<key, redis, rows, unwritten, work, tried, lag, uncounted, switched, orphaned,
                 tries, trouble>>

-----------------------------------------------------------------------------
Keys == {"account", "ip"}
Absent == [n |-> 0, ttl |-> FALSE]
NotBegun == [pc |-> "idle", incr |-> << >>, expire |-> "none", row |-> "none"]

AttemptInit ==
  /\ key = [k \in Keys |-> Absent] /\ redis \in BOOLEAN
  /\ rows = [k \in Keys |-> 0] /\ unwritten = [k \in Keys |-> 0]
  /\ work = [w \in Logins |-> NotBegun]
  /\ tried = 0 /\ lag = 0 /\ uncounted = 0 /\ switched = FALSE /\ orphaned = {} /\ tries = 0 /\ trouble = 0

\* Redis counts, or those of the log.
Counted(k) == IF redis THEN key[k].n ELSE rows[k]

\* Mutant: one attempt more than the limit.
ReachedLate(n, max) == n > max

Reached(n, max) == n >= max

Proceed(w, pc) == work' = [work EXCEPT ![w].pc = pc]

Logs(row) ==
  unwritten' = IF row = "none" THEN unwritten ELSE [unwritten EXCEPT ![row] = @ + 1]

\* A login that ends without success: what it increments, and then the row it
\* leaves to the background writer, of the account or of the address only.
Fails(w, incr, row) ==
  IF incr = << >>
    THEN work' = [work EXCEPT ![w] = NotBegun] /\ Logs(row)
    ELSE /\ work' = [work EXCEPT ![w] =
                       [pc |-> "counting", incr |-> incr, expire |-> "none", row |-> row]]
         /\ UNCHANGED unwritten

\* The address, before the account is looked up.
CheckIpRateLimit(w) ==
  /\ work[w].pc = "idle" /\ tries < MaxTries /\ tries' = tries + 1
  /\ IF Reached(Counted("ip"), IpMax)
       THEN Fails(w, << >>, "ip")
       ELSE Proceed(w, "lookup") /\ UNCHANGED unwritten
  /\ UNCHANGED <<key, redis, rows, tried, lag, uncounted, switched, orphaned, trouble>>

\* The account is not known, or both limits are read again.
CheckBruteForce(w) ==
  /\ work[w].pc = "lookup"
  /\ \/ Fails(w, <<"ip">>, "ip") /\ UNCHANGED lag
     \/ IF Reached(Counted("ip"), IpMax) \/ Reached(Counted("account"), AccountMax)
          THEN Fails(w, <<"ip">>, "none") /\ UNCHANGED lag
          ELSE /\ Proceed(w, "verify") /\ UNCHANGED unwritten
               /\ lag' = IF ~redis /\ unwritten["account"] > lag THEN unwritten["account"] ELSE lag
  /\ UNCHANGED <<key, redis, rows, tried, uncounted, switched, orphaned, tries, trouble>>

\* The account may not log in, or the password is wrong.
VerifyFails(w) ==
  /\ work[w].pc = "verify"
  /\ \/ Fails(w, << >>, "account") /\ UNCHANGED tried
     \/ Fails(w, <<"account", "ip">>, "account") /\ tried' = tried + 1
  /\ UNCHANGED <<key, redis, rows, lag, uncounted, switched, orphaned, tries, trouble>>

\* The password is right: the account's count is deleted, last_login_at ends
\* what the log counts.
ClearBruteForceCounter(w) ==
  /\ work[w].pc = "verify"
  /\ work' = [work EXCEPT ![w] = NotBegun]
  /\ key' = IF redis THEN [key EXCEPT !["account"] = Absent] ELSE key
  /\ rows' = [rows EXCEPT !["account"] = 0]
  /\ tried' = 0
  /\ UNCHANGED <<redis, unwritten, lag, uncounted, switched, orphaned, tries, trouble>>

\* Mutant: the window is set for the count that is about to be 1.
FirstLate(n) == n = 0

First(n) == n = 1

\* A login that is counting goes on with the keys it has left, and the one
\* to expire, or is done.
Continue(w, incr, expire) ==
  IF incr = << >> /\ expire = "none"
    THEN work' = [work EXCEPT ![w] = NotBegun] /\ Logs(work[w].row)
    ELSE work' = [work EXCEPT ![w].incr = incr, ![w].expire = expire] /\ UNCHANGED unwritten

\* INCR of the next key; EXPIRE follows if the count is 1.  Without Redis
\* the rest is given up.
Increment(w) ==
  /\ work[w].pc = "counting" /\ work[w].expire = "none"
  /\ LET k == Head(work[w].incr) IN
     IF redis
       THEN /\ key' = [key EXCEPT ![k].n = @ + 1]
            /\ Continue(w, Tail(work[w].incr), IF First(key'[k].n) THEN k ELSE "none")
       ELSE Continue(w, << >>, "none") /\ UNCHANGED key
  /\ UNCHANGED <<redis, rows, tried, lag, uncounted, switched, orphaned, tries, trouble>>

Expire(w) ==
  /\ work[w].pc = "counting" /\ work[w].expire # "none"
  /\ LET k == work[w].expire IN
     IF redis
       THEN /\ key' = [key EXCEPT ![k].ttl = @ \/ key[k].n > 0]
            /\ Continue(w, work[w].incr, "none") /\ UNCHANGED orphaned
       ELSE /\ orphaned' = orphaned \cup {k}
            /\ Continue(w, << >>, "none") /\ UNCHANGED key
  /\ UNCHANGED <<redis, rows, tried, lag, uncounted, switched, tries, trouble>>

\* The background writer; a row of the account counts for the address too.
WriteLoginLog(k) ==
  /\ unwritten[k] > 0 /\ unwritten' = [unwritten EXCEPT ![k] = @ - 1]
  /\ rows' = [rows EXCEPT ![k] = @ + 1, !["ip"] = @ + 1]
  /\ UNCHANGED <<key, redis, work, tried, lag, uncounted, switched, orphaned, tries, trouble>>

Trouble == trouble < MaxTrouble /\ trouble' = trouble + 1

\* The window of a key is over.
WindowOver(k) ==
  /\ Trouble
  /\ key[k].ttl \/ (~redis /\ rows[k] > 0)
  /\ key' = IF key[k].ttl THEN [key EXCEPT ![k] = Absent] ELSE key
  /\ rows' = [rows EXCEPT ![k] = 0]
  /\ tried' = IF k = "account" THEN 0 ELSE tried
  /\ UNCHANGED <<redis, unwritten, work, lag, uncounted, switched, orphaned, tries>>

\* An administrator unlocks the user: the account's keys are scanned and
\* deleted.
ClearUserBruteForceCounters ==
  /\ Trouble /\ redis /\ key["account"].n > 0
  /\ key' = [key EXCEPT !["account"] = Absent] /\ tried' = 0
  /\ orphaned' = orphaned \ {"account"}
  /\ UNCHANGED <<redis, rows, unwritten, work, lag, uncounted, switched, tries>>

\* The process handling a login dies.
LoginDies(w) ==
  /\ Trouble /\ work[w].pc # "idle"
  /\ work' = [work EXCEPT ![w] = NotBegun]
  /\ orphaned' = IF work[w].expire = "none" THEN orphaned ELSE orphaned \cup {work[w].expire}
  /\ uncounted' = IF IF redis THEN "account" \in Range(work[w].incr) ELSE work[w].row = "account"
                    THEN uncounted + 1 ELSE uncounted
  /\ UNCHANGED <<key, redis, rows, unwritten, tried, lag, switched, tries>>

RedisSwitches ==
  /\ Trouble /\ redis' = ~redis /\ switched' = TRUE
  /\ UNCHANGED <<key, rows, unwritten, work, tried, lag, uncounted, orphaned, tries>>

AttemptNext ==
  \/ \E w \in Logins :
       \/ CheckIpRateLimit(w) \/ CheckBruteForce(w) \/ VerifyFails(w)
       \/ ClearBruteForceCounter(w) \/ Increment(w) \/ Expire(w) \/ LoginDies(w)
  \/ \E k \in Keys : WriteLoginLog(k) \/ WindowOver(k)
  \/ ClearUserBruteForceCounters \/ RedisSwitches

AttemptSpec == AttemptInit /\ [][AttemptNext]_attemptVars

-----------------------------------------------------------------------------
\* Parallel logins pass the limit, but by no more than are handled at once
\* (brute-force.ts checks first and counts after), died, or, where the log is
\* counted, are not yet written; a change of Redis begins both counts anew.
AttemptsBounded ==
  ~switched => tried <= AccountMax - 1 + Cardinality(Logins) + uncounted + lag

\* A count has an end: it has a TTL, or the login that made it is about to set
\* it, or died in between (brute-force.ts INCR and EXPIRE are two calls), which
\* only an unlock repairs.
LockoutsEnd ==
  \A k \in Keys : key[k].n > 0 =>
    key[k].ttl \/ k \in orphaned \/ \E w \in Logins : work[w].expire = k
=============================================================================

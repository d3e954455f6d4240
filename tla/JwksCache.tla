------------------------------ MODULE JwksCache ------------------------------
(***************************************************************************)
(* The public keys the Gateway verifies with (jwks.rs): the refresh loop,   *)
(* the refreshes a token with an unknown key asks for, and the cache, over *)
(* rotations at the portal.  Here the portal makes a key and signs, or     *)
(* makes one and publishes, in one step: see SigningKeys for the steps.    *)
(*                                                                         *)
(* Time is counted in ticks; a refresh is over before the second one that  *)
(* follows its start.                                                      *)
(***************************************************************************)
EXTENDS KeyTimes, Sequences

CONSTANTS
  Interval, MinInterval, KeyGrace,    \* of refreshes, of those asked for, of a key in the cache
  InitRetry, MaxAttempts, Backoff,    \* after refreshes that failed
  MaxClock, MaxSetbacks               \* bounds; setbacks: failed refreshes, forged kids

ASSUME JwksAssumption ==
  /\ {Interval, MinInterval, KeyGrace, InitRetry, MaxAttempts, MaxClock, MaxSetbacks} \subseteq Nat
  /\ PublishGrace < KeyGrace /\ 0 < MinInterval /\ MinInterval <= Interval
  /\ MinInterval <= MaxClock
  /\ InitRetry > 0 /\ MaxAttempts > 0 /\ Backoff \in Seq(Nat \ {0}) /\ Backoff # << >>

VARIABLES
  clock,
  table,      \* the table jwks: when each key expires
  lastSigned, \* when a token was last signed with each key
  cache,      \* when each key was cached, 0 if it is not
  loop,       \* the refresh loop
  got,        \* the reply to the refresh under way
  permit,     \* the permit of refresh_notify
  lastAsk,    \* last_refresh_request
  since,      \* history: first refusal of each key since the last refresh that failed
  heard,      \* history: first refresh granted after it
  setbacks    \* bound

jwksVars == <<clock, table, lastSigned, cache, loop, got, permit, lastAsk, since, heard,
              setbacks>>

-----------------------------------------------------------------------------
CacheKids == 1..(MaxClock \div (Life - RenewAhead) + 1)      \* as many as fit
Never == [k \in CacheKids |-> 0]
NoAnswer == {0}

JwksInit ==
  /\ clock = MinInterval       \* so that 0 is long ago
  /\ table = << >> /\ lastSigned = Never /\ cache = Never
  /\ loop = [pc |-> "fetch", ready |-> FALSE, tries |-> 0, due |-> 0, began |-> clock]
  /\ got = NoAnswer /\ permit = FALSE /\ lastAsk = 0 /\ since = Never /\ heard = Never
  /\ setbacks = 0

-----------------------------------------------------------------------------
\* The portal.

KeysWithActive ==
  IF table = << >> \/ table[Len(table)] < clock + RenewAhead THEN Append(table, clock + Life) ELSE table

Sign ==
  /\ table' = KeysWithActive
  /\ lastSigned' = [lastSigned EXCEPT ![Len(table')] = clock]
  /\ UNCHANGED <<clock, cache, loop, got, permit, lastAsk, since, heard, setbacks>>

\* GET /api/auth/jwks, asked by the refresh.
Publish ==
  /\ loop.pc = "fetch" /\ got = NoAnswer
  /\ table' = KeysWithActive
  /\ got' = {k \in DOMAIN table' : table'[k] + PublishGrace > clock}
  /\ UNCHANGED <<clock, lastSigned, cache, loop, permit, lastAsk, since, heard, setbacks>>

-----------------------------------------------------------------------------
\* The Gateway.

Fresh(k) == cache[k] # 0 /\ clock - cache[k] < KeyGrace
Known(k) == k \in CacheKids /\ Fresh(k)

\* Mutant: every request counts as an ask, granted or not.
StampedAlways(granted) == clock

LastAsk(granted) == IF granted THEN clock ELSE lastAsk

\* A token with an unknown kid, a forged one (0) included, asks for a refresh,
\* if the last ask is long enough ago; requests refused at once are one here.
RequestRefreshIfDue(k) ==
  LET granted == clock - lastAsk >= MinInterval
      first == IF k # 0 /\ since[k] = 0 THEN [since EXCEPT ![k] = clock] ELSE since
  IN /\ lastAsk' = LastAsk(granted)
     /\ permit' = (permit \/ granted)
     /\ since' = first
     /\ heard' = [j \in CacheKids |-> IF granted /\ first[j] # 0 /\ heard[j] = 0 THEN clock ELSE heard[j]]

\* A request with an unexpired token, or a forged one.
Verify(k) ==
  /\ loop.ready /\ ~Known(k)
  /\ IF k = 0 THEN setbacks < MaxSetbacks /\ setbacks' = setbacks + 1
              ELSE lastSigned[k] # 0 /\ clock <= lastSigned[k] + TokenTtl /\ UNCHANGED setbacks
  /\ RequestRefreshIfDue(k)
  /\ UNCHANGED <<clock, table, lastSigned, cache, loop, got>>

\* The loop wakes up by the clock, or by the permit.
LoopWakes ==
  /\ loop.pc = "wait"
  /\ \/ permit /\ loop.ready /\ permit' = FALSE
     \/ clock >= loop.due /\ UNCHANGED permit
  /\ loop' = [loop EXCEPT !.pc = "fetch", !.began = clock]
  /\ UNCHANGED <<clock, table, lastSigned, cache, got, lastAsk, since, heard, setbacks>>

\* Keys that are no longer published stay for a while.
MergeKeys == [k \in CacheKids |-> IF k \in got THEN clock ELSE IF Fresh(k) THEN cache[k] ELSE 0]

Refresh ==
  /\ loop.pc = "fetch" /\ got # NoAnswer
  /\ cache' = MergeKeys
  /\ loop' = [loop EXCEPT !.pc = "wait", !.ready = TRUE, !.tries = 0, !.due = clock + Interval]
  /\ got' = NoAnswer
  /\ since' = [k \in CacheKids |-> IF k \in got THEN 0 ELSE since[k]]
  /\ heard' = [k \in CacheKids |-> IF k \in got THEN 0 ELSE heard[k]]
  /\ UNCHANGED <<clock, table, lastSigned, permit, lastAsk, setbacks>>

\* At start-up the refresh is tried a few times, before the Gateway takes
\* requests with an empty cache and waits for the interval.
BackoffDelay ==
  LET wait(tries, delay) == [loop EXCEPT !.pc = "wait", !.tries = tries, !.due = clock + delay]
      next == IF loop.tries < Len(Backoff) THEN loop.tries + 1 ELSE loop.tries
  IN IF ~loop.ready
       THEN IF loop.tries + 1 < MaxAttempts
              THEN wait(loop.tries + 1, InitRetry)
              ELSE [wait(0, Interval) EXCEPT !.ready = TRUE]
       ELSE IF cache = Never THEN wait(loop.tries, InitRetry) ELSE wait(next, Backoff[next])

\* No upstream answers.
RefreshFails ==
  /\ loop.pc = "fetch" /\ setbacks < MaxSetbacks /\ setbacks' = setbacks + 1
  /\ loop' = BackoffDelay
  /\ got' = NoAnswer /\ since' = Never /\ heard' = Never
  /\ UNCHANGED <<clock, table, lastSigned, cache, permit, lastAsk>>

\* Time goes on when nothing is overdue.
ClockTick ==
  /\ clock < MaxClock /\ clock' = clock + 1
  /\ IF loop.pc = "fetch" THEN loop.began = clock ELSE clock < loop.due /\ (permit => ~loop.ready)
  /\ UNCHANGED <<table, lastSigned, cache, loop, got, permit, lastAsk, since, heard, setbacks>>

JwksNext ==
  \/ Sign \/ Publish
  \/ \E k \in 0..Len(table) : Verify(k)
  \/ LoopWakes \/ Refresh \/ RefreshFails \/ ClockTick

JwksSpec == JwksInit /\ [][JwksNext]_jwksVars

-----------------------------------------------------------------------------
\* An unexpired token of a key the Gateway does not know is refused for MinInterval and
\* two refreshes at most, unless a refresh fails: by then a refresh has been
\* granted to it, and the one under way and the next are over (jwks.rs
\* request_refresh_if_due, whose throttle drops asks, and notify_one).
UnknownOnlyBriefly ==
  \A k \in DOMAIN table : since[k] # 0 /\ ~Known(k) /\ clock <= lastSigned[k] + TokenTtl =>
    IF heard[k] = 0 THEN clock >= since[k] + MinInterval => clock - lastAsk >= MinInterval
                    ELSE clock <= heard[k] + 2
=============================================================================

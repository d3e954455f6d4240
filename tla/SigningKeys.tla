----------------------------- MODULE SigningKeys -----------------------------
(***************************************************************************)
(* The signing keys of the portal (signing-keys.ts) under parallel         *)
(* requests of several processes that sign tokens or publish the keys      *)
(* (GET /api/auth/jwks), while keys come of age.                           *)
(*                                                                         *)
(* Time is counted in ticks; a request is over before the second one that  *)
(* follows its start.  Rows of a key are never changed or deleted, so that *)
(* the process's own cache of them shows nothing else than the table and   *)
(* is left out.                                                            *)
(***************************************************************************)
EXTENDS KeyTimes, Sequences

CONSTANTS
  Handlers, Processes,    \* requests, processes of the portal
  MaxTime, MaxKeys        \* bounds

ASSUME KeysAssumption == MaxKeys \in Nat

VARIABLES
  now,
  process,    \* the process of each handler
  lock,       \* keyGenLock of each process: the handler that has it
  handler,    \* a request: where it is, its start, the end of its renewal window, its key
  keys,       \* the table jwks in the order of creation: when each key expires
  signed      \* history: when a token was last signed with each key

keyVars == <<now, process, lock, handler, keys, signed>>

-----------------------------------------------------------------------------
Kids == 1..MaxKeys
Free == "free"
Rest == [pc |-> "idle", before |-> 0, began |-> 0, key |-> 0]

KeyInit ==
  /\ now = 1
  /\ process \in [Handlers -> Processes] /\ lock = [p \in Processes |-> Free]
  /\ handler = [h \in Handlers |-> Rest]
  /\ keys = << >> /\ signed = [k \in Kids |-> 0]

-----------------------------------------------------------------------------
\* Mutant: a key is replaced only after it has expired.
ExpiredBefore(k, before) == keys[k] < before - RenewAhead

ExpiresBefore(k, before) == keys[k] < before

\* The newest row, if it is not yet to be replaced.
Newest == {k \in DOMAIN keys : \A j \in DOMAIN keys : keys[j] <= keys[k]}
Usable(before) == {k \in Newest : ~ExpiresBefore(k, before)}

\* The newest row is read, and the lock is queued for if it will not do.
GetActiveSigningKey(h) ==
  /\ handler[h].pc = "idle"
  /\ LET begun == [Rest EXCEPT !.before = now + RenewAhead, !.began = now]
     IN IF Usable(begun.before) = {}
          THEN handler' = [handler EXCEPT ![h] = [begun EXCEPT !.pc = "queue"]]
          ELSE \E k \in Usable(begun.before) :
                 handler' = [handler EXCEPT ![h] = [begun EXCEPT !.pc = "use", !.key = k]]
  /\ UNCHANGED <<now, process, lock, keys, signed>>

Lock(h) ==
  /\ handler[h].pc = "queue" /\ lock[process[h]] = Free
  /\ lock' = [lock EXCEPT ![process[h]] = h]
  /\ handler' = [handler EXCEPT ![h].pc = "recheck"]
  /\ UNCHANGED <<now, process, keys, signed>>

\* The second look.  The promise of generateAndPersistKeyPair is returned, not
\* awaited, so that the finally releases the lock while the key is being made.
ReuseConcurrentlyCreatedKey(h) ==
  /\ handler[h].pc = "recheck"
  /\ lock' = [lock EXCEPT ![process[h]] = Free]
  /\ IF Usable(handler[h].before) = {}
       THEN handler' = [handler EXCEPT ![h].pc = "insert"]
       ELSE \E k \in Usable(handler[h].before) :
              handler' = [handler EXCEPT ![h].pc = "use", ![h].key = k]
  /\ UNCHANGED <<now, process, keys, signed>>

GenerateAndPersistKeyPair(h) ==
  /\ handler[h].pc = "insert" /\ Len(keys) < MaxKeys
  /\ keys' = Append(keys, now + Life)
  /\ handler' = [handler EXCEPT ![h].pc = "use", ![h].key = Len(keys) + 1]
  /\ UNCHANGED <<now, process, lock, signed>>

\* A token is signed with the key, or it was asked for by GET /api/auth/jwks.
Finish(h) ==
  /\ handler[h].pc = "use"
  /\ handler' = [handler EXCEPT ![h] = Rest]
  /\ signed' \in {signed, [signed EXCEPT ![handler[h].key] = now]}
  /\ UNCHANGED <<now, process, lock, keys>>

\* What GET /api/auth/jwks answers.
Published == {k \in DOMAIN keys : keys[k] + PublishGrace > now}

Tick ==
  /\ now < MaxTime /\ now' = now + 1
  /\ \A h \in Handlers : handler[h].pc # "idle" => handler[h].began = now
  /\ UNCHANGED <<process, lock, handler, keys, signed>>

KeyNext ==
  \/ \E h \in Handlers :
       \/ GetActiveSigningKey(h) \/ Lock(h) \/ ReuseConcurrentlyCreatedKey(h)
       \/ GenerateAndPersistKeyPair(h) \/ Finish(h)
  \/ Tick

KeySpec == KeyInit /\ [][KeyNext]_keyVars

-----------------------------------------------------------------------------
\* The key of every unexpired token is among the published ones, through
\* every rotation, so that a Gateway that starts then can verify it
\* (oidc.ts JWKS_PUBLISH_GRACE_SECS, signing-keys.ts renewBefore).
TokensVerifiable ==
  \A k \in DOMAIN keys : signed[k] # 0 /\ now <= signed[k] + TokenTtl => k \in Published
=============================================================================

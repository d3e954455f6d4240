---------------------------- MODULE AccessTokens ----------------------------
(***************************************************************************)
(* The access tokens of one user and their emergency revocation            *)
(* (lib/session/revoke.ts): the hash portal:user_jti:{user} that lets an   *)
(* administrator find the tokens, the blocklist keys that stop them, and   *)
(* the two verifiers, Portal and Gateway, which hold no other state.       *)
(*                                                                         *)
(* Keys are per user and per token, so one user is enough.  Time is in     *)
(* whole units; a Redis key with a time to live is gone at its end.  One   *)
(* clock is assumed: Leeway is what the Gateway adds for a second one.     *)
(* Revocation of refresh tokens is in RefreshTokens.                       *)
(***************************************************************************)
EXTENDS Naturals

CONSTANTS
  Workers,    \* handlers in flight
  Jtis,       \* token identifiers; those already used are never drawn again
  Clients,    \* OAuth clients
  Ttl,        \* Ttl[c]: access_token_ttl of client c, clamped
  Leeway,     \* JWT_EXP_LEEWAY_SECS of the Gateway
  MaxTime,    \* bound: the clock stops there
  Faults      \* whether Redis may fail and handlers may die

ASSUME TtlAssumption == Ttl \in [Clients -> Nat \ {0}]
ASSUME LeewayAssumption == Leeway \in Nat
ASSUME MaxTimeAssumption == MaxTime \in Nat
ASSUME FaultsAssumption == Faults \in BOOLEAN

VARIABLES
  now,        \* seconds
  tok,        \* tok[j]: the exp claim of token j, 0 if not signed yet
  index,      \* the hash of the user: index[j] is j's field, 0 if absent
  indexEnd,   \* when the whole hash expires, 0 if it has no time to live
  blocked,    \* blocked[j]: end of j's blocklist key, 0 if never written
  held,       \* tokens answered to a client
  req,        \* req[w]: local state of handler w
  stopped,    \* history: tokens whose blocklist key was ever written
  excused     \* history: tokens the hash may have lost, see below

vars == <<now, tok, index, indexEnd, blocked, held, req, stopped, excused>>

-----------------------------------------------------------------------------
NoHash == [j \in Jtis |-> 0]
Fields(h) == {j \in Jtis : h[j] # 0}

Request == [pc : {"idle", "hset", "expire", "reply", "revoke", "pipeline"},
            jti : SUBSET Jtis, ttl : Nat, snap : [Jtis -> Nat]]

Idle == [pc |-> "idle", jti |-> {}, ttl |-> 0, snap |-> NoHash]

Become(w, r) == req' = [req EXCEPT ![w] = r]

Blocked(j) == blocked[j] > now

\* verifyAccessToken: jose has no leeway.
PortalAccepts(j) == tok[j] > now /\ ~Blocked(j)

\* The Gateway lets a valid or nearly expired token pass, whatever comes of
\* the attempt to refresh it.
GatewayAccepts(j) == tok[j] # 0 /\ now <= tok[j] + Leeway /\ ~Blocked(j)

InUse == {j \in held : PortalAccepts(j)}

\* Math.min for Math.max.
TtlLeftMin(e) == IF e > now THEN 1 ELSE 0

TtlLeft(e) == IF e > now THEN e - now ELSE 1

Init ==
  /\ now = 0
  /\ tok = [j \in Jtis |-> 0]
  /\ index = NoHash
  /\ indexEnd = 0
  /\ blocked = [j \in Jtis |-> 0]
  /\ held = {}
  /\ req = [w \in Workers |-> Idle]
  /\ stopped = {}
  /\ excused = {}

-----------------------------------------------------------------------------
(* signAccessToken and trackUserJti *)

Sign(w, j, c) ==
  /\ req[w].pc = "idle"
  /\ tok[j] = 0
  /\ tok' = [tok EXCEPT ![j] = now + Ttl[c]]
  /\ Become(w, [Idle EXCEPT !.pc = "hset", !.jti = {j}, !.ttl = Ttl[c]])
  /\ UNCHANGED <<now, index, indexEnd, blocked, held, stopped, excused>>

\* The field holds an exp of its own, read from the clock after the signature.
\* HSET keeps the time to live of the hash: until the EXPIRE it may be short.
Hset(w) ==
  /\ req[w].pc = "hset"
  /\ \E j \in req[w].jti :
       /\ index' = [index EXCEPT ![j] = now + req[w].ttl]
       /\ excused' = IF indexEnd # 0 /\ indexEnd < tok[j]
                     THEN excused \cup {j} ELSE excused
  /\ Become(w, [req[w] EXCEPT !.pc = "expire"])
  /\ UNCHANGED <<now, tok, indexEnd, blocked, held, stopped>>

\* EXPIRE gives the hash the life of the newest token, longer or shorter.
ExpireIndex(w) ==
  /\ req[w].pc = "expire"
  /\ IF index = NoHash
     THEN UNCHANGED <<indexEnd, excused>>
     ELSE /\ indexEnd' = now + req[w].ttl
          /\ excused' = (excused \ (req[w].jti \cap Fields(index)))
               \cup {j \in Fields(index) : tok[j] > now + req[w].ttl}
  /\ Become(w, [req[w] EXCEPT !.pc = "reply"])
  /\ UNCHANGED <<now, tok, index, blocked, held, stopped>>

\* An error of either command is logged; the token is answered all the same.
TrackFails(w) ==
  /\ Faults
  /\ req[w].pc \in {"hset", "expire"}
  /\ excused' = excused \cup req[w].jti
  /\ Become(w, [req[w] EXCEPT !.pc = "reply"])
  /\ UNCHANGED <<now, tok, index, indexEnd, blocked, held, stopped>>

Deliver(w) ==
  /\ req[w].pc = "reply"
  /\ held' = held \cup req[w].jti
  /\ Become(w, Idle)
  /\ UNCHANGED <<now, tok, index, indexEnd, blocked, stopped, excused>>

-----------------------------------------------------------------------------
(* revokeJti *)

Block(j) ==
  /\ blocked' = [blocked EXCEPT ![j] = now + TtlLeft(tok[j])]
  /\ stopped' = stopped \cup {j}

\* The revocation endpoint verifies the token and stops it.
RevokeToken(w, j) ==
  /\ req[w].pc = "idle"
  /\ j \in InUse
  /\ Block(j)
  /\ UNCHANGED <<now, tok, index, indexEnd, held, req, excused>>

\* Log-out does the same, whether or not the write succeeds, and goes on to
\* all tokens of the user.
LogOut(w, j) ==
  /\ req[w].pc = "idle"
  /\ j \in InUse
  /\ Block(j) \/ (Faults /\ UNCHANGED <<blocked, stopped>>)
  /\ Become(w, [Idle EXCEPT !.pc = "revoke"])
  /\ UNCHANGED <<now, tok, index, indexEnd, held, excused>>

-----------------------------------------------------------------------------
(* revokeUserAccessByUserId *)

\* Forced log-out, a status change, a changed or reset password, a change of
\* roles, permissions or department.
RevokeUser(w) ==
  /\ req[w].pc = "idle"
  /\ Become(w, [Idle EXCEPT !.pc = "revoke"])
  /\ UNCHANGED <<now, tok, index, indexEnd, blocked, held, stopped, excused>>

\* The hash is emptied as it is read.
ReadIndexAndClear(w) ==
  /\ req[w].pc = "revoke"
  /\ index # NoHash
  /\ index' = NoHash
  /\ indexEnd' = 0
  /\ Become(w, [req[w] EXCEPT !.pc = "pipeline", !.snap = index])
  /\ UNCHANGED <<now, tok, blocked, held, stopped, excused>>

ReadIndex(w) ==
  /\ req[w].pc = "revoke"
  /\ index # NoHash
  /\ Become(w, [req[w] EXCEPT !.pc = "pipeline", !.snap = index])
  /\ UNCHANGED <<now, tok, index, indexEnd, blocked, held, stopped, excused>>

\* Nothing in the hash: revoked 0, failed false.
ReadEmptyIndex(w) ==
  /\ req[w].pc = "revoke"
  /\ index = NoHash
  /\ Become(w, Idle)
  /\ UNCHANGED <<now, tok, index, indexEnd, blocked, held, stopped, excused>>

\* One SETEX per field read, then DEL.  The pipeline is no transaction, but it
\* has no other commands between its own that matter here; a command of it may
\* fail alone, and exec reports that to nobody.
Pipeline(w, done, del) ==
  /\ req[w].pc = "pipeline"
  /\ blocked' = [j \in Jtis |-> IF j \in done THEN now + TtlLeft(req[w].snap[j])
                                ELSE blocked[j]]
  /\ stopped' = stopped \cup done
  /\ IF del
     THEN /\ index' = NoHash
          /\ indexEnd' = 0
          /\ excused' = excused \cup (Fields(index) \ done)
     ELSE UNCHANGED <<index, indexEnd, excused>>
  /\ Become(w, Idle)
  /\ UNCHANGED <<now, tok, held>>

RunPipeline(w) ==
  \/ Pipeline(w, Fields(req[w].snap), TRUE)
  \/ /\ Faults
     /\ \E done \in SUBSET Fields(req[w].snap), del \in BOOLEAN : Pipeline(w, done, del)

\* HGETALL or exec throws: failed true.
RevokeFails(w) ==
  /\ Faults
  /\ req[w].pc \in {"revoke", "pipeline"}
  /\ Become(w, Idle)
  /\ UNCHANGED <<now, tok, index, indexEnd, blocked, held, stopped, excused>>

\* The process dies; a token that was being issued is never answered.
Crash(w) ==
  /\ Faults
  /\ req[w].pc # "idle"
  /\ Become(w, Idle)
  /\ UNCHANGED <<now, tok, index, indexEnd, blocked, held, stopped, excused>>

-----------------------------------------------------------------------------
Tick ==
  /\ now < MaxTime
  /\ now' = now + 1
  /\ IF indexEnd # 0 /\ indexEnd <= now + 1
     THEN index' = NoHash /\ indexEnd' = 0
     ELSE UNCHANGED <<index, indexEnd>>
  /\ UNCHANGED <<tok, blocked, held, req, stopped, excused>>

Issue(w) ==
  \/ \E j \in Jtis, c \in Clients : Sign(w, j, c)
  \/ Hset(w) \/ ExpireIndex(w) \/ TrackFails(w) \/ Deliver(w)

Revoke(w) ==
  \/ \E j \in Jtis : RevokeToken(w, j) \/ LogOut(w, j)
  \/ RevokeUser(w) \/ ReadIndex(w) \/ ReadEmptyIndex(w)
  \/ RunPipeline(w) \/ RevokeFails(w)

Next ==
  \/ \E w \in Workers : Issue(w) \/ Revoke(w) \/ Crash(w)
  \/ Tick

Spec == Init /\ [][Next]_vars

-----------------------------------------------------------------------------
(* Properties *)

TypeOK ==
  /\ now \in Nat
  /\ tok \in [Jtis -> Nat]
  /\ index \in [Jtis -> Nat]
  /\ indexEnd \in Nat
  /\ blocked \in [Jtis -> Nat]
  /\ held \subseteq {j \in Jtis : tok[j] # 0}
  /\ req \in [Workers -> Request]
  /\ \A w \in Workers : req[w].pc = "pipeline" => req[w].snap # NoHash
  /\ stopped \subseteq Jtis
  /\ excused \subseteq Jtis

\* A token whose blocklist key was written once is refused by both verifiers
\* until its exp, whoever rewrites or deletes what in Redis meanwhile.  Not
\* beyond: the key ends with exp, and the Gateway accepts for Leeway more.
RevokedUntilExpiry ==
  \A j \in stopped : now < tok[j] => ~GatewayAccepts(j) /\ ~PortalAccepts(j)

\* A revocation of the user finds every token that is in use, except those for
\* which: tracking failed; the EXPIRE of another token gave the hash a shorter
\* life; the hash expires before the EXPIRE that follows their HSET; or a
\* revocation deleted their field without having blocked them.
IndexCoversTokensInUse ==
  \A j \in InUse : j \in excused \/ index[j] # 0
=============================================================================

---------------------------- MODULE GatewayRefresh ----------------------------
(***************************************************************************)
(* Silent refresh by the Gateway (auth/refresh.rs, authenticate.rs) against *)
(* the Portal's rotation.  A request whose access token is about to expire *)
(* takes the user's deduplication lock in Redis, calls one refresh endpoint *)
(* after another with the refresh token of its cookie, and sends the new   *)
(* cookies with its response.                                              *)
(*                                                                         *)
(* The Portal is its promise, GrantLifecycle: a call is handled in one step *)
(* (RefreshTokens shows that its transactions keep the promise).  Sessions *)
(* are browsers of one user, logged in to the Portal: one lock, one family *)
(* of refresh tokens.  The Gateway sends no access token along, so the     *)
(* Portal never answers "skipped".  Whether the request itself passes or   *)
(* is blocked makes no difference to locks and cookies.                    *)
(***************************************************************************)
EXTENDS Naturals

CONSTANTS
  Sessions,   \* browsers of the user
  Tokens,     \* refresh tokens
  Workers,    \* requests in the Gateway's processes
  Tries,      \* endpoints: the one of the discovery document, then upstreams
  Faults,     \* timeouts, lost replies, Redis failures, crashes, slowness
  None        \* no token, no session, no lock

ASSUME TriesAssumption == Tries \in Nat \ {0}
ASSUME FaultsAssumption == Faults \in BOOLEAN
ASSUME NoneAssumption == None \notin Tokens \cup Sessions \cup Workers \cup {"left"}
ASSUME LeftAssumption == "left" \notin Workers

VARIABLES
  stage, live, spent,   \* the Portal: see GrantLifecycle
  cookie,   \* cookie[s]: the refresh token in the browser
  due,      \* tokens whose access token is nearly or fully expired
  lock,     \* the key: None, the handler that set it, "left" by one that is gone
  req,      \* req[w]: local state of handler w
  calls,    \* HTTP calls the Portal has not handled yet
  adrift,   \* history: sessions whose newest token reached nobody
  raced     \* history: sessions the lock may have failed, see below

portalVars == <<stage, live, spent>>
historyVars == <<adrift, raced>>
vars == <<stage, live, spent, cookie, due, lock, req, calls, adrift, raced>>

Portal == INSTANCE GrantLifecycle WITH Grants <- Sessions

-----------------------------------------------------------------------------
Request == [pc : {"idle", "lock", "call", "wait", "unlock", "respond"},
            sess : Sessions \cup {None}, tok : Tokens \cup {None},
            try : 0 .. Tries, new : Tokens \cup {None}]

Call == [by : Workers, try : 1 .. Tries, sess : Sessions, tok : Tokens]

Idle == [pc |-> "idle", sess |-> None, tok |-> None, try |-> 0, new |-> None]

Become(w, r) == req' = [req EXCEPT ![w] = r]

\* Sessions with a request in the Gateway or a call on its way to the Portal.
InFlight ==
  {s \in Sessions : \/ \E w \in Workers : req[w].pc # "idle" /\ req[w].sess = s
                    \/ \E c \in calls : c.sess = s}

Active == {s \in Sessions : stage[s] = "active"}

\* Every browser has logged in.
Init ==
  /\ stage = [s \in Sessions |-> "active"]
  /\ cookie \in {f \in [Sessions -> Tokens] : \A s, u \in Sessions : f[s] = f[u] => s = u}
  /\ live = [s \in Sessions |-> {cookie[s]}]
  /\ spent = {}
  /\ due = {}
  /\ lock = None
  /\ req = [w \in Workers |-> Idle]
  /\ calls = {}
  /\ adrift = {}
  /\ raced = {}

-----------------------------------------------------------------------------
(* Request and lock *)

\* NearlyExpired or Expired: the request carries the cookie as it is now.
Arrive(w, s) ==
  /\ req[w].pc = "idle"
  /\ cookie[s] \in due
  /\ \A c \in calls : c.by # w
  /\ Become(w, [pc |-> "lock", sess |-> s, tok |-> cookie[s], try |-> 0, new |-> None])
  /\ lock' = IF lock = w THEN "left" ELSE lock
  /\ raced' = IF s \in InFlight THEN raced ELSE raced \ {s}
  /\ UNCHANGED <<portalVars, cookie, due, calls, adrift>>

\* EXISTS, then SET: two commands.
AcquireUnguarded(w) ==
  /\ req[w].pc = "lock"
  /\ lock' = w
  /\ Become(w, [req[w] EXCEPT !.pc = "call", !.try = 1])
  /\ UNCHANGED <<portalVars, cookie, due, calls, historyVars>>

\* SET NX EX.
Acquire(w) ==
  /\ req[w].pc = "lock"
  /\ lock = None
  /\ lock' = w
  /\ Become(w, [req[w] EXCEPT !.pc = "call", !.try = 1])
  /\ UNCHANGED <<portalVars, cookie, due, calls, historyVars>>

\* Redis is unavailable: fail open.
AcquireDegraded(w) ==
  /\ Faults
  /\ req[w].pc = "lock"
  /\ Become(w, [req[w] EXCEPT !.pc = "call", !.try = 1])
  /\ raced' = raced \cup {req[w].sess}
  /\ UNCHANGED <<portalVars, cookie, due, lock, calls, adrift>>

\* The lock is taken: the request goes on with the old token or is blocked.
Deduped(w) ==
  /\ req[w].pc = "lock"
  /\ lock # None
  /\ Become(w, Idle)
  /\ UNCHANGED <<portalVars, cookie, due, lock, calls, historyVars>>

\* Without faults a request ends before the 30 seconds of the key are over.
LockExpires ==
  /\ lock # None
  /\ Faults \/ InFlight = {}
  /\ lock' = None
  /\ raced' = raced \cup InFlight
  /\ UNCHANGED <<portalVars, cookie, due, req, calls, adrift>>

-----------------------------------------------------------------------------
(* attempt_endpoint *)

Send(w) ==
  /\ req[w].pc = "call"
  /\ calls' = calls \cup {[by |-> w, try |-> req[w].try, sess |-> req[w].sess,
                           tok |-> req[w].tok]}
  /\ Become(w, [req[w] EXCEPT !.pc = "wait"])
  /\ UNCHANGED <<portalVars, cookie, due, lock, historyVars>>

\* Failed: the next endpoint, with the same token, or the end.
TryNext(w) ==
  Become(w, IF req[w].try < Tries
            THEN [req[w] EXCEPT !.pc = "call", !.try = @ + 1]
            ELSE [req[w] EXCEPT !.pc = "unlock"])

\* No reply within 5 seconds, or one that cannot be read.
Timeout(w) ==
  /\ Faults
  /\ req[w].pc = "wait"
  /\ TryNext(w)
  /\ raced' = raced \cup {req[w].sess}
  /\ UNCHANGED <<portalVars, cookie, due, lock, calls, adrift>>

\* DEL, whoever set the key.
Unlock(w) ==
  /\ req[w].pc = "unlock"
  /\ lock' = None
  /\ raced' = IF lock \in {w, None} THEN raced ELSE raced \cup InFlight
  /\ Become(w, Idle)
  /\ UNCHANGED <<portalVars, cookie, due, calls, adrift>>

UnlockFails(w) ==
  /\ Faults
  /\ req[w].pc = "unlock"
  /\ Become(w, Idle)
  /\ UNCHANGED <<portalVars, cookie, due, lock, calls, historyVars>>

\* A blocked request is answered without the cookies.
DeliverUnlessBlocked(w) ==
  /\ req[w].pc = "respond"
  /\ \E blocked \in BOOLEAN :
       cookie' = IF blocked THEN cookie ELSE [cookie EXCEPT ![req[w].sess] = req[w].new]
  /\ Become(w, Idle)
  /\ UNCHANGED <<portalVars, due, lock, calls, historyVars>>

\* Rotated: the cookies go out with the response, passed or blocked.  The
\* lock stays until it expires.
Deliver(w) ==
  /\ req[w].pc = "respond"
  /\ cookie' = [cookie EXCEPT ![req[w].sess] = req[w].new]
  /\ Become(w, Idle)
  /\ UNCHANGED <<portalVars, due, lock, calls, historyVars>>

\* The request has passed but its upstream fails: the proxy answers the error
\* itself, without response_filter and so without the cookies.
UpstreamFails(w) ==
  /\ Faults
  /\ req[w].pc = "respond"
  /\ adrift' = adrift \cup {req[w].sess}
  /\ Become(w, Idle)
  /\ UNCHANGED <<portalVars, cookie, due, lock, calls, raced>>

\* The browser goes away, or the process dies, with or without a call underway.
RequestDies(w) ==
  /\ Faults
  /\ req[w].pc # "idle"
  /\ adrift' = IF req[w].pc = "respond" THEN adrift \cup {req[w].sess} ELSE adrift
  /\ raced' = IF req[w].pc = "wait" THEN raced \cup {req[w].sess} ELSE raced
  /\ Become(w, Idle)
  /\ UNCHANGED <<portalVars, cookie, due, lock, calls>>

-----------------------------------------------------------------------------
(* The Portal handles a call *)

Awaited(c) == req[c.by].pc = "wait" /\ req[c.by].try = c.try

\* The refresh route rotates; nobody may be there any more to hear of it.
PortalRotates(c, n) ==
  /\ c.tok \in live[c.sess]
  /\ Portal!Rotate(c.sess, n)
  /\ calls' = calls \ {c}
  /\ \/ /\ Awaited(c)
        /\ Become(c.by, [req[c.by] EXCEPT !.pc = "respond", !.new = n])
        /\ UNCHANGED adrift
     \/ /\ Faults \/ ~Awaited(c)
        /\ adrift' = adrift \cup {c.sess}
        /\ UNCHANGED req
  /\ UNCHANGED <<cookie, due, lock, raced>>

\* An answer that holds no tokens.
AnswerFailed(c) ==
  /\ calls' = calls \ {c}
  /\ IF Awaited(c) THEN TryNext(c.by) ELSE UNCHANGED req

\* The row is revoked: a replay, which ends every session of the family.
PortalSeesReplay(c) ==
  /\ c.tok \in spent
  /\ IF Active = {} THEN UNCHANGED portalVars ELSE Portal!Revoke(Active)
  /\ AnswerFailed(c)
  /\ UNCHANGED <<cookie, due, lock, historyVars>>

\* The rotation commits, then the permission check or the signature fails: the
\* new row is taken back, the old one is revoked already.  (If that fails too,
\* it stays alive in nobody's hands, like the token of a lost reply.)
PortalIssuanceFails(c) ==
  /\ c.tok \in live[c.sess]
  /\ Portal!Revoke({c.sess})
  /\ AnswerFailed(c)
  /\ UNCHANGED <<cookie, due, lock, historyVars>>

\* Connection refused, an error before the commit, an expired row.
PortalErrs(c) ==
  /\ AnswerFailed(c)
  /\ UNCHANGED <<portalVars, cookie, due, lock, historyVars>>

\* The user ends one session from the list in the profile.
RevokeOwnSession(s) ==
  /\ stage[s] = "active"
  /\ Portal!Revoke({s})
  /\ UNCHANGED <<cookie, due, lock, req, calls, historyVars>>

BecomesDue(s) ==
  /\ cookie[s] \notin due
  /\ due' = due \cup {cookie[s]}
  /\ UNCHANGED <<portalVars, cookie, lock, req, calls, historyVars>>

-----------------------------------------------------------------------------
Handle(w) ==
  \/ \E s \in Sessions : Arrive(w, s)
  \/ Acquire(w) \/ AcquireDegraded(w) \/ Deduped(w)
  \/ Send(w) \/ Timeout(w)
  \/ Unlock(w) \/ UnlockFails(w)
  \/ Deliver(w) \/ UpstreamFails(w) \/ RequestDies(w)

AtPortal(c) ==
  \/ \E n \in Tokens : PortalRotates(c, n)
  \/ PortalSeesReplay(c) \/ PortalIssuanceFails(c) \/ PortalErrs(c)

Next ==
  \/ \E w \in Workers : Handle(w)
  \/ \E c \in calls : AtPortal(c)
  \/ \E s \in Sessions : RevokeOwnSession(s) \/ BecomesDue(s)
  \/ LockExpires

Spec == Init /\ [][Next]_vars

-----------------------------------------------------------------------------
(* Properties *)

TypeOK ==
  /\ Portal!TypeOK
  /\ cookie \in [Sessions -> Tokens]
  /\ due \subseteq Tokens
  /\ lock \in Workers \cup {None, "left"}
  /\ req \in [Workers -> Request]
  /\ calls \subseteq Call
  /\ adrift \subseteq Sessions
  /\ raced \subseteq Sessions

\* What the deduplication is for: no call carries a token that is already
\* rotated (which the Portal would take for a leak), unless the session has
\* ended, its newest token reached nobody, or the lock could not do its work:
\* Redis was away, a call was given up while it was on its way, the key
\* expired under a request in flight, or another request deleted it.
NoStaleCall ==
  \A c \in calls :
    stage[c.sess] = "active" /\ c.sess \notin adrift \cup raced => c.tok \in live[c.sess]

\* authenticate.rs: once the Portal has rotated, the new cookie must reach the
\* browser.  The live token of a session is in its browser or in a response on
\* its way there; else a reply or a response was lost.
LiveTokenIsHeld ==
  \A s \in Sessions : \A t \in live[s] :
    \/ cookie[s] = t
    \/ \E w \in Workers : req[w].pc = "respond" /\ req[w].sess = s /\ req[w].new = t
    \/ s \in adrift
=============================================================================

------------------------ MODULE GatewayRefreshProofs ------------------------
(***************************************************************************)
(* Proofs about GatewayRefresh, for any number of browsers, requests,      *)
(* endpoints and tokens, with and without faults.                          *)
(***************************************************************************)
EXTENDS GatewayRefresh, TLAPS

USE TriesAssumption, FaultsAssumption, NoneAssumption, LeftAssumption

-----------------------------------------------------------------------------
(* The invariant *)

\* A session is alive with one token or has none.
OneTokenEach ==
  \A s \in Sessions : IF stage[s] = "active" THEN \E t \in Tokens : live[s] = {t}
                                             ELSE live[s] = {}

\* Fields that a handler has set.
HandlersReady ==
  \A w \in Workers :
    /\ req[w].pc # "idle" => req[w].sess \in Sessions /\ req[w].tok \in Tokens
    /\ req[w].pc \in {"call", "wait", "unlock"} => req[w].try \in 1 .. Tries
    /\ req[w].pc = "respond" => req[w].new \in Tokens

\* A call belongs to what its handler, if it still runs, is doing.
CallsMatch ==
  \A c \in calls : req[c.by].pc # "idle" =>
    req[c.by].sess = c.sess /\ req[c.by].tok = c.tok

Shape == TypeOK /\ OneTokenEach /\ HandlersReady /\ CallsMatch

\* The tokens the Portal has issued.
Issued == spent \cup UNION {live[s] : s \in Sessions}

AllIssued ==
  /\ \A s \in Sessions : cookie[s] \in Issued
  /\ \A c \in calls : c.tok \in Issued
  /\ \A w \in Workers : req[w].pc # "idle" => req[w].tok \in Issued
  /\ \A w \in Workers : req[w].pc = "respond" => req[w].new \in Issued

\* The token of a response on its way is known to nobody else.
Secret(w) ==
  /\ \A s \in Sessions : cookie[s] # req[w].new
  /\ \A c \in calls : c.tok # req[w].new
  /\ \A v \in Workers : req[v].pc # "idle" => req[v].tok # req[w].new
  /\ \A v \in Workers \ {w} : req[v].pc = "respond" => req[v].new # req[w].new
  /\ stage[req[w].sess] = "active" => req[w].new \in live[req[w].sess]

Undelivered == \A w \in Workers : req[w].pc = "respond" => Secret(w)

TokensInOrder == AllIssued /\ Undelivered /\ LiveTokenIsHeld

\* Past the lock of a session for which it did its work.
PastLock(w) == req[w].pc \in {"call", "wait", "unlock", "respond"}

HoldsLock == \A w \in Workers : PastLock(w) /\ req[w].sess \notin raced => lock = w

NewAtLock == \A w \in Workers : req[w].pc = "lock" => lock # w

CallsAwaited == \A c \in calls : c.sess \notin raced => Awaited(c)

LockWorks == HoldsLock /\ NewAtLock /\ CallsAwaited

InStep(s) == stage[s] = "active" /\ s \notin adrift /\ s \notin raced

\* A handler with the lock has the live token of its session.
CallersFresh ==
  \A w \in Workers :
    req[w].pc \in {"call", "wait"} /\ InStep(req[w].sess) => req[w].tok \in live[req[w].sess]

\* The handler that holds the lock has not rotated yet.
LockBusy == lock \in Workers /\ req[lock].pc \in {"call", "wait", "unlock"}

\* A handler that still waits for the lock has the live token, or the lock is
\* held on behalf of the rotation that replaced it.
WaitersFresh ==
  \A w \in Workers :
    req[w].pc = "lock" /\ InStep(req[w].sess) /\ req[w].tok \notin live[req[w].sess]
      => lock # None /\ ~LockBusy

LockInv == LockWorks /\ CallersFresh /\ WaitersFresh

IInv == Shape /\ TokensInOrder /\ LockInv

-----------------------------------------------------------------------------
(* Handler records *)

ReqType == req \in [Workers -> Request]

LEMMA IdleType == Idle \in Request
BY DEF Idle, Request

LEMMA BecomeType ==
  ASSUME ReqType, NEW w \in Workers, NEW r \in Request, Become(w, r)
  PROVE  /\ ReqType'
         /\ req'[w] = r
         /\ \A v \in Workers \ {w} : req'[v] = req[v]
BY DEF Become, ReqType

LEMMA BecomeIdle ==
  ASSUME ReqType, NEW w \in Workers, Become(w, Idle)
  PROVE  /\ ReqType'
         /\ req'[w].pc = "idle"
         /\ \A v \in Workers \ {w} : req'[v] = req[v]
<1>1. ReqType' /\ req'[w] = Idle /\ \A v \in Workers \ {w} : req'[v] = req[v]
  BY IdleType, BecomeType
<1> QED BY <1>1 DEF Idle

\* The lock is passed.
LEMMA BecomeCaller ==
  ASSUME ReqType, NEW w \in Workers, Become(w, [req[w] EXCEPT !.pc = "call", !.try = 1])
  PROVE  /\ ReqType'
         /\ req'[w].pc = "call" /\ req'[w].try = 1
         /\ req'[w].sess = req[w].sess /\ req'[w].tok = req[w].tok
         /\ \A v \in Workers \ {w} : req'[v] = req[v]
<1>1. req[w] \in Request
  BY DEF ReqType
<1>0. 1 \in 0 .. Tries
  OBVIOUS
<1>2. [req[w] EXCEPT !.pc = "call", !.try = 1] \in Request
  BY <1>0, <1>1 DEF Request
<1>3. /\ ReqType' /\ req'[w] = [req[w] EXCEPT !.pc = "call", !.try = 1]
      /\ \A v \in Workers \ {w} : req'[v] = req[v]
  BY <1>2, BecomeType
<1> QED BY <1>1, <1>3 DEF Request

LEMMA TryNextType ==
  ASSUME ReqType, NEW w \in Workers, req[w].pc = "wait", req[w].try \in 1 .. Tries, TryNext(w)
  PROVE  /\ ReqType'
         /\ req'[w].pc \in {"call", "unlock"} /\ req'[w].try \in 1 .. Tries
         /\ req'[w].sess = req[w].sess /\ req'[w].tok = req[w].tok
         /\ \A v \in Workers \ {w} : req'[v] = req[v]
<1>1. req[w] \in Request
  BY DEF ReqType
<1>2. CASE req[w].try < Tries
  <2> DEFINE r == [req[w] EXCEPT !.pc = "call", !.try = req[w].try + 1]
  <2>1. req[w].try + 1 \in 0 .. Tries /\ req[w].try + 1 \in 1 .. Tries
    BY <1>2
  <2>2. /\ r.pc = "call" /\ r.try = req[w].try + 1
        /\ r.sess = req[w].sess /\ r.tok = req[w].tok
    BY <1>1 DEF Request
  <2>4. r \in Request
    BY <1>1, <2>1 DEF Request
  <2>3. Become(w, r)
    BY <1>2 DEF TryNext
  <2> QED BY <2>1, <2>2, <2>3, <2>4, BecomeType
<1>3. CASE ~(req[w].try < Tries)
  <2> DEFINE r == [req[w] EXCEPT !.pc = "unlock"]
  <2>2. r \in Request /\ r.pc = "unlock" /\ r.try = req[w].try /\ r.sess = req[w].sess
        /\ r.tok = req[w].tok
    BY <1>1 DEF Request
  <2>3. Become(w, r)
    BY <1>3 DEF TryNext
  <2> QED BY <2>2, <2>3, BecomeType
<1> QED BY <1>2, <1>3

-----------------------------------------------------------------------------
(* Shape *)

LEMMA ShapeHasReqType == TypeOK => ReqType
BY DEF TypeOK, ReqType

LEMMA InitShape == Init => Shape
<1> SUFFICES ASSUME Init PROVE Shape
  OBVIOUS
<1>1. ReqType /\ \A w \in Workers : req[w] = Idle
  BY IdleType DEF Init, ReqType
<1>2. Portal!TypeOK /\ OneTokenEach /\ cookie \in [Sessions -> Tokens]
  BY DEF Init, Portal!TypeOK, Portal!Stage, OneTokenEach
<1>3. TypeOK
  BY <1>1, <1>2 DEF Init, TypeOK, ReqType
<1> QED BY <1>1, <1>2, <1>3 DEF Init, Shape, HandlersReady, CallsMatch, Idle

\* A handler goes on and leaves the Portal alone.
LEMMA HandlerKeepsShape ==
  ASSUME Shape, NEW w \in Workers, UNCHANGED <<portalVars, calls>>,
         cookie' = cookie, ReqType',
         \A v \in Workers \ {w} : req'[v] = req[v],
         req'[w].pc # "idle" =>
           /\ req[w].pc # "idle"
           /\ req'[w].sess = req[w].sess /\ req'[w].tok = req[w].tok,
         req'[w].pc \in {"call", "wait", "unlock"} => req'[w].try \in 1 .. Tries,
         req'[w].pc # "respond",
         due' \subseteq Tokens, lock' \in Workers \cup {None, "left"},
         adrift' \subseteq Sessions, raced' \subseteq Sessions
  PROVE  Shape'
<1>1. TypeOK'
  BY DEF Shape, TypeOK, ReqType, portalVars, Portal!TypeOK
<1>2. OneTokenEach'
  BY DEF Shape, OneTokenEach, portalVars
<1>3. HandlersReady'
  BY DEF Shape, HandlersReady
<1>4. CallsMatch'
  BY DEF Shape, CallsMatch, TypeOK, Call
<1> QED BY <1>1, <1>2, <1>3, <1>4 DEF Shape

LEMMA HandlerShape ==
  ASSUME Shape, NEW w \in Workers,
         \/ Acquire(w) \/ AcquireDegraded(w) \/ Deduped(w) \/ Timeout(w)
         \/ Unlock(w) \/ UnlockFails(w) \/ UpstreamFails(w) \/ RequestDies(w)
  PROVE  Shape'
<1>1. ReqType /\ InFlight \subseteq Sessions
  BY ShapeHasReqType DEF Shape, InFlight
<1>2. req[w].pc # "idle" => req[w].sess \in Sessions
  BY DEF Shape, HandlersReady
<1>0. 1 \in 1 .. Tries
  OBVIOUS
<1>3. CASE Acquire(w)
  BY <1>0, <1>1, <1>2, <1>3, BecomeCaller, HandlerKeepsShape DEF Acquire, Shape, TypeOK, historyVars
<1>4. CASE AcquireDegraded(w)
  BY <1>0, <1>1, <1>2, <1>4, BecomeCaller, HandlerKeepsShape DEF AcquireDegraded, Shape, TypeOK, historyVars
<1>5. CASE Deduped(w)
  BY <1>1, <1>2, <1>5, BecomeIdle, HandlerKeepsShape DEF Deduped, Shape, TypeOK, historyVars
<1>6. CASE Timeout(w)
  BY <1>1, <1>2, <1>6, TryNextType, HandlerKeepsShape DEF Timeout, Shape, TypeOK, historyVars, HandlersReady
<1>7. CASE Unlock(w)
  BY <1>1, <1>2, <1>7, BecomeIdle, HandlerKeepsShape DEF Unlock, Shape, TypeOK, historyVars
<1>8. CASE UnlockFails(w)
  BY <1>1, <1>2, <1>8, BecomeIdle, HandlerKeepsShape DEF UnlockFails, Shape, TypeOK, historyVars
<1>9. CASE RequestDies(w)
  BY <1>1, <1>2, <1>9, BecomeIdle, HandlerKeepsShape DEF RequestDies, Shape, TypeOK, historyVars
<1>10. CASE UpstreamFails(w)
  BY <1>1, <1>2, <1>10, BecomeIdle, HandlerKeepsShape DEF UpstreamFails, Shape, TypeOK
<1> QED BY <1>3, <1>4, <1>5, <1>6, <1>7, <1>8, <1>9, <1>10

LEMMA ArriveShape ==
  ASSUME Shape, NEW w \in Workers, NEW s \in Sessions, Arrive(w, s)
  PROVE  /\ Shape'
         /\ req'[w].pc = "lock" /\ req'[w].sess = s /\ req'[w].tok = cookie[s]
         /\ \A v \in Workers \ {w} : req'[v] = req[v]
<1> DEFINE r == [pc |-> "lock", sess |-> s, tok |-> cookie[s], try |-> 0, new |-> None]
<1>1. ReqType /\ cookie[s] \in Tokens
  BY ShapeHasReqType DEF Shape, TypeOK
<1>2. r \in Request /\ r.pc = "lock" /\ r.sess = s /\ r.tok = cookie[s]
  BY <1>1 DEF Request
<1>3. ReqType' /\ req'[w] = r /\ \A v \in Workers \ {w} : req'[v] = req[v]
  BY <1>1, <1>2, BecomeType DEF Arrive
<1>4. TypeOK'
  BY <1>3 DEF Shape, TypeOK, ReqType, Arrive, portalVars, Portal!TypeOK
<1>5. OneTokenEach'
  BY DEF Shape, OneTokenEach, Arrive, portalVars
<1>6. HandlersReady'
  BY <1>1, <1>2, <1>3 DEF Shape, HandlersReady
<1>7. CallsMatch'
  BY <1>3 DEF Shape, CallsMatch, TypeOK, Call, Arrive
<1> QED BY <1>2, <1>3, <1>4, <1>5, <1>6, <1>7 DEF Shape

LEMMA SendShape ==
  ASSUME Shape, NEW w \in Workers, Send(w)
  PROVE  /\ Shape'
         /\ req'[w].pc = "wait" /\ req'[w].sess = req[w].sess /\ req'[w].tok = req[w].tok
         /\ req'[w].try = req[w].try
         /\ \A v \in Workers \ {w} : req'[v] = req[v]
<1> DEFINE r == [req[w] EXCEPT !.pc = "wait"]
           k == [by |-> w, try |-> req[w].try, sess |-> req[w].sess, tok |-> req[w].tok]
<1>1. /\ ReqType /\ req[w] \in Request /\ req[w].sess \in Sessions /\ req[w].tok \in Tokens
      /\ req[w].try \in 1 .. Tries
  BY ShapeHasReqType DEF Shape, ReqType, HandlersReady, Send
<1>2. r \in Request /\ r.pc = "wait" /\ r.sess = req[w].sess /\ r.tok = req[w].tok
      /\ r.try = req[w].try
  BY <1>1 DEF Request
<1>3. ReqType' /\ req'[w] = r /\ \A v \in Workers \ {w} : req'[v] = req[v]
  BY <1>1, <1>2, BecomeType DEF Send
<1>4. k \in Call /\ calls' = calls \cup {k}
  BY <1>1 DEF Call, Send
<1>5. TypeOK'
  BY <1>3, <1>4 DEF Shape, TypeOK, ReqType, Send, portalVars, historyVars, Portal!TypeOK
<1>6. OneTokenEach'
  BY DEF Shape, OneTokenEach, Send, portalVars
<1>7. HandlersReady'
  BY <1>1, <1>2, <1>3 DEF Shape, HandlersReady
<1>8. CallsMatch'
  <2>1. \A c \in calls : c.by \in Workers /\ (req[c.by].pc # "idle" =>
                             req[c.by].sess = c.sess /\ req[c.by].tok = c.tok)
    BY DEF Shape, CallsMatch, TypeOK, Call
  <2>2. \A c \in calls : req'[c.by].pc # "idle" =>
                           req'[c.by].sess = c.sess /\ req'[c.by].tok = c.tok
    BY <1>2, <1>3, <2>1 DEF Send
  <2>3. req'[k.by].sess = k.sess /\ req'[k.by].tok = k.tok
    BY <1>2, <1>3
  <2> QED BY <1>4, <2>2, <2>3 DEF CallsMatch
<1> QED BY <1>2, <1>3, <1>5, <1>6, <1>7, <1>8 DEF Shape

LEMMA DeliverShape ==
  ASSUME Shape, NEW w \in Workers, Deliver(w)
  PROVE  Shape'
<1>1. ReqType /\ req[w].sess \in Sessions /\ req[w].new \in Tokens
  BY ShapeHasReqType DEF Shape, HandlersReady, Deliver
<1>2. ReqType' /\ req'[w].pc = "idle" /\ \A v \in Workers \ {w} : req'[v] = req[v]
  BY <1>1, BecomeIdle DEF Deliver
<1>3. TypeOK'
  BY <1>1, <1>2 DEF Shape, TypeOK, ReqType, Deliver, portalVars, historyVars, Portal!TypeOK
<1>4. OneTokenEach'
  BY DEF Shape, OneTokenEach, Deliver, portalVars
<1>5. HandlersReady'
  BY <1>2 DEF Shape, HandlersReady
<1>6. CallsMatch'
  BY <1>2 DEF Shape, CallsMatch, TypeOK, Call, Deliver
<1> QED BY <1>3, <1>4, <1>5, <1>6 DEF Shape

\* A step that leaves the handlers and the Portal alone.
LEMMA QuietShape ==
  ASSUME Shape, UNCHANGED <<portalVars, cookie, calls, req, adrift>>,
         due' \subseteq Tokens, lock' \in Workers \cup {None, "left"}, raced' \subseteq Sessions
  PROVE  Shape'
<1>1. TypeOK'
  BY DEF Shape, TypeOK, portalVars, Portal!TypeOK
<1> QED BY <1>1 DEF Shape, OneTokenEach, HandlersReady, CallsMatch, portalVars

\* What an answer without tokens does to handlers and calls.
LEMMA AnswerShape ==
  ASSUME Shape, NEW c \in calls, AnswerFailed(c)
  PROVE  /\ ReqType' /\ calls' \subseteq calls
         /\ HandlersReady' /\ CallsMatch'
         /\ \A v \in Workers : req'[v].pc = "respond" \/ req[v].pc = "respond" => req'[v] = req[v]
         /\ \A v \in Workers : req[v].pc \in {"idle", "lock"} \/ req'[v].pc \in {"idle", "lock"}
                                 => req'[v] = req[v]
         /\ \A v \in Workers : req'[v].sess = req[v].sess /\ req'[v].tok = req[v].tok
<1>1. ReqType /\ c.by \in Workers /\ calls' \subseteq calls /\ calls \subseteq Call
  BY ShapeHasReqType DEF Shape, TypeOK, Call, AnswerFailed
<1>2. CASE Awaited(c)
  <2>1. /\ ReqType'
        /\ req'[c.by].pc \in {"call", "unlock"} /\ req'[c.by].try \in 1 .. Tries
        /\ req'[c.by].sess = req[c.by].sess /\ req'[c.by].tok = req[c.by].tok
        /\ \A v \in Workers \ {c.by} : req'[v] = req[v]
    BY <1>1, <1>2, TryNextType DEF Shape, HandlersReady, Awaited, AnswerFailed
  <2>2. req[c.by].pc = "wait"
    BY <1>2 DEF Awaited
  <2>3. HandlersReady'
    BY <2>1, <2>2 DEF Shape, HandlersReady
  <2>4. CallsMatch'
    BY <1>1, <2>1, <2>2 DEF Shape, CallsMatch, Call
  <2> QED BY <1>1, <2>1, <2>2, <2>3, <2>4
<1>3. CASE ~Awaited(c)
  <2>1. req' = req
    BY <1>3 DEF AnswerFailed
  <2> QED BY <1>1, <2>1 DEF Shape, ReqType, HandlersReady, CallsMatch
<1> QED BY <1>2, <1>3

\* Sessions that end.
LEMMA EndShape ==
  ASSUME Shape, NEW S \in SUBSET Sessions, Portal!Revoke(S)
  PROVE  /\ Portal!TypeOK' /\ OneTokenEach'
         /\ \A s \in S : stage'[s] = "dead" /\ live'[s] = {}
         /\ \A s \in Sessions \ S : stage'[s] = stage[s] /\ live'[s] = live[s]
         /\ spent \subseteq spent' /\ \A s \in Sessions : live[s] \subseteq live'[s] \cup spent'
         /\ \A s \in S : stage[s] = "active"
<1>1. Portal!TypeOK
  BY DEF Shape, TypeOK
<1>2. Portal!TypeOK'
  BY <1>1 DEF Portal!Revoke, Portal!TypeOK, Portal!Stage
<1>3. /\ \A s \in S : stage'[s] = "dead" /\ live'[s] = {}
      /\ \A s \in Sessions \ S : stage'[s] = stage[s] /\ live'[s] = live[s]
      /\ spent \subseteq spent' /\ \A s \in S : live[s] \subseteq spent'
      /\ \A s \in S : stage[s] = "active"
  BY DEF Portal!Revoke
<1>4. OneTokenEach'
  BY <1>3 DEF Shape, OneTokenEach
<1> QED BY <1>2, <1>3, <1>4

LEMMA RotateShape ==
  ASSUME Shape, NEW c \in calls, NEW n \in Tokens, PortalRotates(c, n)
  PROVE  /\ Shape'
         /\ c.by \in Workers /\ c.sess \in Sessions /\ stage[c.sess] = "active"
         /\ live[c.sess] = {c.tok} /\ live'[c.sess] = {n} /\ n \notin Issued
         /\ \A s \in Sessions \ {c.sess} : live'[s] = live[s]
         /\ stage' = stage /\ spent' = spent \cup {c.tok}
         /\ \A v \in Workers : req'[v].sess = req[v].sess /\ req'[v].tok = req[v].tok
         /\ \A v \in Workers \ {c.by} : req'[v] = req[v]
         /\ \/ /\ req[c.by].pc = "wait" /\ req'[c.by].pc = "respond" /\ req'[c.by].new = n
               /\ req[c.by].sess = c.sess /\ adrift' = adrift
            \/ req' = req /\ adrift' = adrift \cup {c.sess}
<1>1. ReqType /\ c \in Call /\ c.by \in Workers /\ c.sess \in Sessions /\ Portal!TypeOK
  BY ShapeHasReqType DEF Shape, TypeOK, Call
<1>2. /\ stage[c.sess] = "active" /\ stage' = stage
      /\ live' = [live EXCEPT ![c.sess] = {n}] /\ spent' = spent \cup live[c.sess]
      /\ c.tok \in live[c.sess] /\ calls' = calls \ {c}
      /\ UNCHANGED <<cookie, due, lock, raced>>
  BY DEF PortalRotates, Portal!Rotate
<1>3. live[c.sess] = {c.tok}
  BY <1>1, <1>2 DEF Shape, OneTokenEach
<1>4. n \notin Issued
  BY DEF PortalRotates, Portal!Rotate, Portal!NeverUsed, Issued
<1>5. /\ live'[c.sess] = {n} /\ \A s \in Sessions \ {c.sess} : live'[s] = live[s]
  BY <1>1, <1>2 DEF Portal!TypeOK
<1>6. Portal!TypeOK'
  BY <1>1, <1>2 DEF Portal!TypeOK
<1>7. OneTokenEach'
  BY <1>2, <1>5 DEF Shape, OneTokenEach
<1>8. CASE Awaited(c) /\ Become(c.by, [req[c.by] EXCEPT !.pc = "respond", !.new = n])
           /\ UNCHANGED adrift
  <2> DEFINE r == [req[c.by] EXCEPT !.pc = "respond", !.new = n]
  <2>1. req[c.by] \in Request /\ req[c.by].pc = "wait"
    BY <1>1, <1>8 DEF ReqType, Awaited
  <2>2. r \in Request
    BY <2>1 DEF Request
  <2>3. r.pc = "respond" /\ r.new = n /\ r.sess = req[c.by].sess /\ r.tok = req[c.by].tok
    BY <2>1 DEF Request
  <2>4. ReqType' /\ req'[c.by] = r /\ \A v \in Workers \ {c.by} : req'[v] = req[v]
    BY <1>1, <1>8, <2>2, BecomeType
  <2>5. TypeOK'
    BY <1>2, <1>6, <1>8, <2>4 DEF Shape, TypeOK, ReqType
  <2> HIDE DEF r
  <2>6. HandlersReady'
    <3>1. r.sess \in Sessions /\ r.tok \in Tokens /\ r.new \in Tokens
      BY <1>1, <2>1, <2>3 DEF Shape, HandlersReady
    <3> QED
      BY <2>3, <2>4, <3>1 DEF Shape, HandlersReady
  <2>7. CallsMatch'
    <3>1. \A d \in calls : d.by \in Workers
      BY DEF Shape, TypeOK, Call
    <3>2. CallsMatch
      BY DEF Shape
    <3>3. ASSUME NEW d \in calls, req'[d.by].pc # "idle"
          PROVE  req'[d.by].sess = d.sess /\ req'[d.by].tok = d.tok
      <4>1. CASE d.by = c.by
        BY <2>1, <2>3, <2>4, <3>2, <3>3, <4>1 DEF CallsMatch
      <4>2. CASE d.by # c.by
        <5>1. req'[d.by] = req[d.by]
          BY <2>4, <3>1, <3>3, <4>2
        <5> QED
          BY <3>2, <3>3, <5>1 DEF CallsMatch
      <4> QED
        BY <4>1, <4>2
    <3> QED
      BY <1>2, <3>3 DEF CallsMatch
  <2>8. req[c.by].sess = c.sess
    BY <2>1 DEF Shape, CallsMatch
  <2> QED BY <1>1, <1>2, <1>3, <1>4, <1>5, <1>7, <1>8, <2>1, <2>3, <2>4, <2>5, <2>6, <2>7, <2>8 DEF Shape
<1>9. CASE UNCHANGED req /\ adrift' = adrift \cup {c.sess}
  <2>1. TypeOK'
    BY <1>1, <1>2, <1>6, <1>9 DEF Shape, TypeOK
  <2>2. HandlersReady' /\ CallsMatch'
    BY <1>2, <1>9 DEF Shape, HandlersReady, CallsMatch
  <2> QED BY <1>1, <1>2, <1>3, <1>4, <1>5, <1>7, <1>9, <2>1, <2>2 DEF Shape
<1> QED BY <1>8, <1>9 DEF PortalRotates

\* What the Portal does when it ends sessions, one or all, or none.
Ending ==
  \A s \in Sessions :
    /\ stage'[s] = "active" => stage[s] = "active" /\ live'[s] = live[s]
    /\ live'[s] \subseteq live[s] /\ live[s] \subseteq live'[s] \cup spent'

LEMMA EndingStep ==
  ASSUME Shape,
         \/ UNCHANGED portalVars
         \/ \E S \in SUBSET Sessions : Portal!Revoke(S)
  PROVE  /\ Portal!TypeOK' /\ OneTokenEach'
         /\ Ending /\ spent \subseteq spent'
<1>1. CASE UNCHANGED portalVars
  BY <1>1 DEF Shape, TypeOK, Portal!TypeOK, OneTokenEach, portalVars, Ending
<1>2. ASSUME NEW S \in SUBSET Sessions, Portal!Revoke(S)
      PROVE  /\ Portal!TypeOK' /\ OneTokenEach'
             /\ Ending /\ spent \subseteq spent'
  <2>1. /\ Portal!TypeOK' /\ OneTokenEach'
        /\ \A s \in S : stage'[s] = "dead" /\ live'[s] = {}
        /\ \A s \in Sessions \ S : stage'[s] = stage[s] /\ live'[s] = live[s]
        /\ spent \subseteq spent' /\ \A s \in Sessions : live[s] \subseteq live'[s] \cup spent'
    BY <1>2, EndShape
  <2> QED BY <2>1 DEF Ending
<1> QED BY <1>1, <1>2

\* An answer without tokens.
Refusal(c) ==
  /\ AnswerFailed(c)
  /\ UNCHANGED <<cookie, due, lock, historyVars>>
  /\ \/ UNCHANGED portalVars
     \/ \E S \in SUBSET Sessions : Portal!Revoke(S)

LEMMA RefusalStep ==
  ASSUME Shape, NEW c \in calls,
         PortalSeesReplay(c) \/ PortalIssuanceFails(c) \/ PortalErrs(c)
  PROVE  Refusal(c)
<1>1. c.sess \in Sessions /\ Active \subseteq Sessions
  BY DEF Shape, TypeOK, Call, Active
<1> QED BY <1>1 DEF Refusal, PortalSeesReplay, PortalIssuanceFails, PortalErrs

LEMMA RefusalShape ==
  ASSUME Shape, NEW c \in calls, Refusal(c)
  PROVE  Shape'
<1>1. /\ Portal!TypeOK' /\ OneTokenEach'
  BY EndingStep DEF Refusal
<1>2. ReqType' /\ calls' \subseteq calls /\ HandlersReady' /\ CallsMatch'
  BY AnswerShape DEF Refusal
<1>3. TypeOK'
  BY <1>1, <1>2 DEF Refusal, Shape, TypeOK, ReqType, historyVars
<1> QED BY <1>1, <1>2, <1>3 DEF Shape

LEMMA RevokeShape ==
  ASSUME Shape, NEW s \in Sessions, RevokeOwnSession(s)
  PROVE  Shape' /\ Ending /\ spent \subseteq spent'
<1>1. /\ Portal!TypeOK' /\ OneTokenEach'
      /\ Ending /\ spent \subseteq spent'
  BY EndingStep DEF RevokeOwnSession
<1>2. TypeOK'
  BY <1>1 DEF RevokeOwnSession, Shape, TypeOK, historyVars
<1> QED BY <1>1, <1>2 DEF RevokeOwnSession, Shape, HandlersReady, CallsMatch

LEMMA ShapeStep ==
  ASSUME Shape, [Next]_vars
  PROVE  Shape'
<1>1. InFlight \subseteq Sessions
  BY DEF InFlight
<1>2. ASSUME NEW w \in Workers, Handle(w) PROVE Shape'
  BY <1>2, ArriveShape, SendShape, DeliverShape, HandlerShape DEF Handle
<1>3. ASSUME NEW c \in calls, AtPortal(c) PROVE Shape'
  BY <1>3, RotateShape, RefusalStep, RefusalShape DEF AtPortal
<1>4. ASSUME NEW s \in Sessions, RevokeOwnSession(s) PROVE Shape'
  BY <1>4, RevokeShape
<1>5. ASSUME NEW s \in Sessions, BecomesDue(s) PROVE Shape'
  BY <1>5, QuietShape DEF BecomesDue, historyVars, Shape, TypeOK
<1>6. CASE LockExpires
  BY <1>1, <1>6, QuietShape DEF LockExpires, Shape, TypeOK
<1>7. CASE UNCHANGED vars
  BY <1>7, QuietShape DEF vars, portalVars, Shape, TypeOK
<1> QED BY <1>2, <1>3, <1>4, <1>5, <1>6, <1>7 DEF Next

-----------------------------------------------------------------------------
(* Tokens *)

\* A step in which nobody learns of a token.
NoNewHolder ==
  /\ cookie' = cookie /\ calls' \subseteq calls
  /\ adrift \subseteq adrift' /\ spent \subseteq spent' /\ Ending
  /\ \A v \in Workers : req'[v].pc # "idle" => req[v].pc # "idle" /\ req'[v].tok = req[v].tok
  /\ \A v \in Workers : req'[v].pc = "respond" => req'[v] = req[v]
  /\ \A v \in Workers : req[v].pc = "respond" => req'[v] = req[v] \/ req[v].sess \in adrift'

LEMMA IssuedStays ==
  ASSUME Ending, spent \subseteq spent'
  PROVE  Issued \subseteq Issued'
BY DEF Ending, Issued

LEMMA NoNewHolderKeepsTokens ==
  ASSUME Shape, TokensInOrder, NoNewHolder
  PROVE  TokensInOrder'
<1>1. AllIssued'
  <2>1. Issued \subseteq Issued'
    BY IssuedStays DEF NoNewHolder
  <2>2. \A s \in Sessions : cookie'[s] \in Issued'
    BY <2>1 DEF TokensInOrder, AllIssued, NoNewHolder
  <2>3. \A c \in calls' : c.tok \in Issued'
    BY <2>1 DEF TokensInOrder, AllIssued, NoNewHolder
  <2>4. \A w \in Workers : req'[w].pc # "idle" => req'[w].tok \in Issued'
    BY <2>1 DEF TokensInOrder, AllIssued, NoNewHolder
  <2>5. \A w \in Workers : req'[w].pc = "respond" => req'[w].new \in Issued'
    BY <2>1 DEF TokensInOrder, AllIssued, NoNewHolder
  <2> QED BY <2>2, <2>3, <2>4, <2>5 DEF AllIssued
<1>2. ASSUME NEW w \in Workers, req'[w].pc = "respond" PROVE Secret(w)'
  <2>1. req'[w] = req[w] /\ Secret(w) /\ req[w].sess \in Sessions
    BY <1>2 DEF NoNewHolder, TokensInOrder, Undelivered, Shape, HandlersReady
  <2>2. \A s \in Sessions : cookie'[s] # req'[w].new
    BY <2>1 DEF Secret, NoNewHolder
  <2>3. \A c \in calls' : c.tok # req'[w].new
    BY <2>1 DEF Secret, NoNewHolder
  <2>4. \A v \in Workers : req'[v].pc # "idle" => req'[v].tok # req'[w].new
    BY <2>1 DEF Secret, NoNewHolder
  <2>5. \A v \in Workers \ {w} : req'[v].pc = "respond" => req'[v].new # req'[w].new
    BY <2>1 DEF Secret, NoNewHolder
  <2>6. stage'[req'[w].sess] = "active" => req'[w].new \in live'[req'[w].sess]
    BY <2>1 DEF Secret, NoNewHolder, Ending
  <2> QED BY <2>2, <2>3, <2>4, <2>5, <2>6 DEF Secret
<1>3. LiveTokenIsHeld'
  <2> SUFFICES ASSUME NEW s \in Sessions, NEW t \in live'[s], cookie'[s] # t, s \notin adrift'
               PROVE  \E w \in Workers :
                        req'[w].pc = "respond" /\ req'[w].sess = s /\ req'[w].new = t
    BY DEF LiveTokenIsHeld
  <2>1. PICK w \in Workers : req[w].pc = "respond" /\ req[w].sess = s /\ req[w].new = t
    BY DEF TokensInOrder, LiveTokenIsHeld, NoNewHolder, Ending
  <2>2. req'[w] = req[w]
    BY <2>1 DEF NoNewHolder
  <2> QED BY <2>1, <2>2
<1> QED BY <1>1, <1>2, <1>3 DEF TokensInOrder, Undelivered

LEMMA ArriveTokens ==
  ASSUME Shape, TokensInOrder, NEW w \in Workers, NEW s \in Sessions, Arrive(w, s)
  PROVE  TokensInOrder'
<1>1. /\ req'[w].pc = "lock" /\ req'[w].tok = cookie[s] /\ req[w].pc = "idle"
      /\ \A v \in Workers \ {w} : req'[v] = req[v]
      /\ UNCHANGED <<portalVars, cookie, calls, adrift>>
  BY ArriveShape DEF Arrive
<1>2. AllIssued'
  BY <1>1 DEF TokensInOrder, AllIssued, Issued, portalVars
<1>3. ASSUME NEW u \in Workers, req'[u].pc = "respond" PROVE Secret(u)'
  <2>1. u # w /\ req'[u] = req[u] /\ Secret(u)
    BY <1>1, <1>3 DEF TokensInOrder, Undelivered
  <2> QED BY <1>1, <2>1 DEF Secret, portalVars
<1>4. LiveTokenIsHeld'
  <2> SUFFICES ASSUME NEW u \in Sessions, NEW t \in live[u], cookie[u] # t, u \notin adrift
               PROVE  \E v \in Workers :
                        req'[v].pc = "respond" /\ req'[v].sess = u /\ req'[v].new = t
    BY <1>1 DEF LiveTokenIsHeld, portalVars
  <2>1. PICK v \in Workers : req[v].pc = "respond" /\ req[v].sess = u /\ req[v].new = t
    BY DEF TokensInOrder, LiveTokenIsHeld
  <2> QED BY <1>1, <2>1
<1> QED BY <1>2, <1>3, <1>4 DEF TokensInOrder, Undelivered

LEMMA SendTokens ==
  ASSUME Shape, TokensInOrder, NEW w \in Workers, Send(w)
  PROVE  TokensInOrder'
<1> DEFINE k == [by |-> w, try |-> req[w].try, sess |-> req[w].sess, tok |-> req[w].tok]
<1>1. /\ req'[w].pc = "wait" /\ req'[w].tok = req[w].tok /\ req[w].pc = "call"
      /\ \A v \in Workers \ {w} : req'[v] = req[v]
      /\ UNCHANGED <<portalVars, cookie, adrift>> /\ calls' = calls \cup {k}
      /\ k.tok = req[w].tok
  BY SendShape DEF Send, historyVars
<1> HIDE DEF k
<1>2. AllIssued'
  BY <1>1 DEF TokensInOrder, AllIssued, Issued, portalVars
<1>3. ASSUME NEW u \in Workers, req'[u].pc = "respond" PROVE Secret(u)'
  <2>1. u # w /\ req'[u] = req[u] /\ Secret(u)
    BY <1>1, <1>3 DEF TokensInOrder, Undelivered
  <2> QED BY <1>1, <2>1 DEF Secret, portalVars
<1>4. LiveTokenIsHeld'
  <2> SUFFICES ASSUME NEW u \in Sessions, NEW t \in live[u], cookie[u] # t, u \notin adrift
               PROVE  \E v \in Workers :
                        req'[v].pc = "respond" /\ req'[v].sess = u /\ req'[v].new = t
    BY <1>1 DEF LiveTokenIsHeld, portalVars
  <2>1. PICK v \in Workers : req[v].pc = "respond" /\ req[v].sess = u /\ req[v].new = t
    BY DEF TokensInOrder, LiveTokenIsHeld
  <2> QED BY <1>1, <2>1
<1> QED BY <1>2, <1>3, <1>4 DEF TokensInOrder, Undelivered

\* The browser gets the token of the response, which is the live one.
LEMMA DeliverTokens ==
  ASSUME Shape, TokensInOrder, NEW w \in Workers, Deliver(w)
  PROVE  TokensInOrder'
<1> DEFINE s == req[w].sess
<1>1. /\ req[w].pc = "respond" /\ s \in Sessions /\ Secret(w) /\ cookie \in [Sessions -> Tokens]
      /\ cookie' = [cookie EXCEPT ![s] = req[w].new] /\ req[w].new \in Issued
      /\ UNCHANGED <<portalVars, calls, adrift>>
  BY DEF Deliver, Shape, TypeOK, HandlersReady, TokensInOrder, Undelivered, AllIssued, historyVars
<1>2. req'[w].pc = "idle" /\ \A v \in Workers \ {w} : req'[v] = req[v]
  BY ShapeHasReqType, BecomeIdle DEF Deliver, Shape
<1>5. cookie'[s] = req[w].new /\ \A u \in Sessions \ {s} : cookie'[u] = cookie[u]
  BY <1>1
<1> HIDE DEF s
<1>3. AllIssued'
  BY <1>1, <1>2, <1>5 DEF TokensInOrder, AllIssued, Issued, portalVars
<1>4. ASSUME NEW u \in Workers, req'[u].pc = "respond" PROVE Secret(u)'
  <2>1. u # w /\ req'[u] = req[u] /\ Secret(u)
    BY <1>2, <1>4 DEF TokensInOrder, Undelivered
  <2>2. req[w].new # req[u].new
    BY <1>1, <2>1 DEF Secret
  <2> QED BY <1>1, <1>2, <1>5, <2>1, <2>2 DEF Secret, portalVars
<1>6. LiveTokenIsHeld'
  <2> SUFFICES ASSUME NEW u \in Sessions, NEW t \in live[u], cookie'[u] # t, u \notin adrift
               PROVE  \E v \in Workers :
                        req'[v].pc = "respond" /\ req'[v].sess = u /\ req'[v].new = t
    BY <1>1 DEF LiveTokenIsHeld, portalVars
  <2>1. CASE u = s
    <3>1. live[s] = {req[w].new}
      BY <1>1, <2>1 DEF s, Shape, OneTokenEach, Secret
    <3> QED BY <1>5, <2>1, <3>1
  <2>2. CASE u # s
    <3>1. PICK v \in Workers : req[v].pc = "respond" /\ req[v].sess = u /\ req[v].new = t
      BY <1>5, <2>2 DEF TokensInOrder, LiveTokenIsHeld
    <3> QED BY <1>2, <2>2, <3>1 DEF s
  <2> QED BY <2>1, <2>2
<1> QED BY <1>3, <1>4, <1>6 DEF TokensInOrder, Undelivered

\* The new token is known to its handler, or to nobody.
LEMMA RotateTokens ==
  ASSUME Shape, TokensInOrder, NEW c \in calls, NEW n \in Tokens, PortalRotates(c, n)
  PROVE  TokensInOrder'
<1>1. /\ c.by \in Workers /\ c.sess \in Sessions /\ stage[c.sess] = "active"
      /\ live[c.sess] = {c.tok} /\ live'[c.sess] = {n} /\ n \notin Issued
      /\ \A s \in Sessions \ {c.sess} : live'[s] = live[s]
      /\ stage' = stage /\ spent' = spent \cup {c.tok}
      /\ \A v \in Workers : req'[v].sess = req[v].sess /\ req'[v].tok = req[v].tok
      /\ \A v \in Workers \ {c.by} : req'[v] = req[v]
      /\ \/ /\ req[c.by].pc = "wait" /\ req'[c.by].pc = "respond" /\ req'[c.by].new = n
            /\ req[c.by].sess = c.sess /\ adrift' = adrift
         \/ req' = req /\ adrift' = adrift \cup {c.sess}
  BY RotateShape
<1>2. cookie' = cookie /\ calls' = calls \ {c}
  BY DEF PortalRotates
<1>3. Issued' = Issued \cup {n}
  BY <1>1 DEF Issued
<1>4. /\ \A v \in Workers : req'[v].pc # "idle" => req[v].pc # "idle"
      /\ \A v \in Workers : req'[v].pc = "respond" =>
                           req'[v] = req[v] \/ (v = c.by /\ req'[v].new = n /\ req[v].sess = c.sess)
      /\ \A v \in Workers : req[v].pc = "respond" => req'[v] = req[v]
  BY <1>1
<1>5. AllIssued'
  <2>1. /\ \A s \in Sessions : cookie'[s] \in Issued'
        /\ \A k \in calls' : k.tok \in Issued'
    BY <1>2, <1>3 DEF TokensInOrder, AllIssued
  <2>2. \A w \in Workers : req'[w].pc # "idle" => req'[w].tok \in Issued'
    BY <1>1, <1>3, <1>4 DEF TokensInOrder, AllIssued
  <2>3. \A w \in Workers : req'[w].pc = "respond" => req'[w].new \in Issued'
    BY <1>3, <1>4 DEF TokensInOrder, AllIssued
  <2> QED BY <2>1, <2>2, <2>3 DEF AllIssued
<1>6. ASSUME NEW u \in Workers, req'[u].pc = "respond" PROVE Secret(u)'
  <2>1. CASE req'[u] = req[u]
    <3>1. Secret(u) /\ req[u].new \in Issued
      BY <1>6, <2>1 DEF TokensInOrder, Undelivered, AllIssued
    <3>2. \A v \in Workers \ {u} : req'[v].pc = "respond" => req'[v].new # req'[u].new
      BY <1>1, <1>4, <2>1, <3>1 DEF Secret
    <3>3. \A v \in Workers : req'[v].pc # "idle" => req'[v].tok # req'[u].new
      BY <1>1, <1>4, <2>1, <3>1 DEF Secret
    <3>4. stage'[req'[u].sess] = "active" => req'[u].new \in live'[req'[u].sess]
      <4>1. req[u].sess \in Sessions
        BY <1>6, <2>1 DEF Shape, HandlersReady
      <4>2. req[u].sess = c.sess => req[u].new = c.tok
        BY <1>1, <3>1 DEF Secret
      <4>3. req[u].new # c.tok
        BY <3>1 DEF Secret
      <4> QED BY <1>1, <2>1, <3>1, <4>1, <4>2, <4>3 DEF Secret
    <3> QED BY <1>2, <2>1, <3>1, <3>2, <3>3, <3>4 DEF Secret
  <2>2. CASE u = c.by /\ req'[u].new = n /\ req[u].sess = c.sess
    <3>1. \A v \in Workers \ {u} : req'[v].pc = "respond" => req'[v].new # n
      BY <1>1, <2>2 DEF TokensInOrder, AllIssued
    <3>2. \A v \in Workers : req'[v].pc # "idle" => req'[v].tok # n
      BY <1>1, <1>4 DEF TokensInOrder, AllIssued
    <3>3. n \in live'[req'[u].sess]
      BY <1>1, <2>2
    <3> QED BY <1>1, <1>2, <2>2, <3>1, <3>2, <3>3 DEF Secret, TokensInOrder, AllIssued
  <2> QED BY <1>4, <1>6, <2>1, <2>2
<1>7. LiveTokenIsHeld'
  <2> SUFFICES ASSUME NEW s \in Sessions, NEW t \in live'[s], cookie[s] # t, s \notin adrift'
               PROVE  \E v \in Workers :
                        req'[v].pc = "respond" /\ req'[v].sess = s /\ req'[v].new = t
    BY <1>2 DEF LiveTokenIsHeld
  <2>1. CASE s = c.sess
    BY <1>1, <2>1
  <2>2. CASE s # c.sess
    <3>1. PICK v \in Workers : req[v].pc = "respond" /\ req[v].sess = s /\ req[v].new = t
      BY <1>1, <2>2 DEF TokensInOrder, LiveTokenIsHeld
    <3> QED BY <1>4, <3>1
  <2> QED BY <2>1, <2>2
<1> QED BY <1>5, <1>6, <1>7 DEF TokensInOrder, Undelivered

LEMMA PortalQuiet == UNCHANGED portalVars => Ending /\ spent \subseteq spent'
BY DEF portalVars, Ending

LEMMA HandlerTokens ==
  ASSUME Shape, TokensInOrder, NEW w \in Workers,
         \/ Acquire(w) \/ AcquireDegraded(w) \/ Deduped(w) \/ Timeout(w)
         \/ Unlock(w) \/ UnlockFails(w) \/ UpstreamFails(w) \/ RequestDies(w)
  PROVE  TokensInOrder'
<1>1. req[w].pc = "wait" => req[w].try \in 1 .. Tries
  BY DEF Shape, HandlersReady
<1>2. ReqType
  BY ShapeHasReqType DEF Shape
<1>3. CASE Acquire(w)
  <2>1. UNCHANGED <<portalVars, cookie, calls, adrift>> /\ req[w].pc = "lock"
    BY <1>3 DEF Acquire, historyVars
  <2>2. req'[w].pc = "call" /\ req'[w].tok = req[w].tok /\ \A v \in Workers \ {w} : req'[v] = req[v]
    BY <1>2, <1>3, BecomeCaller DEF Acquire
  <2>3. NoNewHolder
    BY <2>1, <2>2, PortalQuiet DEF NoNewHolder
  <2> QED BY <2>3, NoNewHolderKeepsTokens
<1>4. CASE AcquireDegraded(w)
  <2>1. UNCHANGED <<portalVars, cookie, calls, adrift>> /\ req[w].pc = "lock"
    BY <1>4 DEF AcquireDegraded
  <2>2. req'[w].pc = "call" /\ req'[w].tok = req[w].tok /\ \A v \in Workers \ {w} : req'[v] = req[v]
    BY <1>2, <1>4, BecomeCaller DEF AcquireDegraded
  <2>3. NoNewHolder
    BY <2>1, <2>2, PortalQuiet DEF NoNewHolder
  <2> QED BY <2>3, NoNewHolderKeepsTokens
<1>5. CASE Timeout(w)
  <2>1. UNCHANGED <<portalVars, cookie, calls, adrift>> /\ req[w].pc = "wait"
    BY <1>5 DEF Timeout
  <2>2. /\ req'[w].pc \in {"call", "unlock"} /\ req'[w].tok = req[w].tok
        /\ \A v \in Workers \ {w} : req'[v] = req[v]
    BY <1>1, <1>2, <1>5, TryNextType DEF Timeout
  <2>3. NoNewHolder
    BY <2>1, <2>2, PortalQuiet DEF NoNewHolder
  <2> QED BY <2>3, NoNewHolderKeepsTokens
<1>6. CASE Deduped(w) \/ Unlock(w) \/ UnlockFails(w) \/ UpstreamFails(w) \/ RequestDies(w)
  <2>1. /\ UNCHANGED <<portalVars, cookie, calls>> /\ adrift \subseteq adrift'
        /\ req[w].pc = "respond" => req[w].sess \in adrift'
    BY <1>6 DEF Deduped, Unlock, UnlockFails, UpstreamFails, RequestDies, historyVars
  <2>2. req'[w].pc = "idle" /\ \A v \in Workers \ {w} : req'[v] = req[v]
    BY <1>2, <1>6, BecomeIdle DEF Deduped, Unlock, UnlockFails, UpstreamFails, RequestDies
  <2>3. NoNewHolder
    BY <2>1, <2>2, PortalQuiet DEF NoNewHolder
  <2> QED BY <2>3, NoNewHolderKeepsTokens
<1> QED BY <1>3, <1>4, <1>5, <1>6

LEMMA RefusalTokens ==
  ASSUME Shape, TokensInOrder, NEW c \in calls, Refusal(c)
  PROVE  TokensInOrder'
<1>1. Ending /\ spent \subseteq spent'
  BY EndingStep DEF Refusal
<1>2. UNCHANGED <<cookie, adrift>>
  BY DEF Refusal, historyVars
<1>3. NoNewHolder
  BY <1>1, <1>2, AnswerShape DEF Refusal, NoNewHolder
<1> QED BY <1>3, NoNewHolderKeepsTokens

LEMMA TokensStep ==
  ASSUME Shape, TokensInOrder, [Next]_vars
  PROVE  TokensInOrder'
<1>1. ASSUME NEW w \in Workers, Handle(w) PROVE TokensInOrder'
  BY <1>1, ArriveTokens, SendTokens, DeliverTokens, HandlerTokens DEF Handle
<1>2. ASSUME NEW c \in calls, AtPortal(c) PROVE TokensInOrder'
  BY <1>2, RotateTokens, RefusalStep, RefusalTokens DEF AtPortal
<1>3. ASSUME NEW s \in Sessions, RevokeOwnSession(s) PROVE TokensInOrder'
  <2>1. NoNewHolder
    BY <1>3, RevokeShape DEF RevokeOwnSession, NoNewHolder, historyVars
  <2> QED BY <2>1, NoNewHolderKeepsTokens
<1>4. ASSUME UNCHANGED <<portalVars, cookie, req, calls, adrift>> PROVE TokensInOrder'
  <2>1. NoNewHolder
    BY <1>4, PortalQuiet DEF NoNewHolder
  <2> QED BY <2>1, NoNewHolderKeepsTokens
<1>5. ASSUME NEW s \in Sessions, BecomesDue(s) PROVE TokensInOrder'
  BY <1>4, <1>5 DEF BecomesDue, historyVars
<1>6. CASE LockExpires
  BY <1>4, <1>6 DEF LockExpires
<1>7. CASE UNCHANGED vars
  BY <1>4, <1>7 DEF vars, portalVars
<1> QED BY <1>1, <1>2, <1>3, <1>5, <1>6, <1>7 DEF Next

-----------------------------------------------------------------------------
(* The lock *)

\* A step in which nobody passes the lock or lets go of it, except for
\* handlers of sessions it has failed.
LockHolds ==
  /\ lock' = lock /\ raced \subseteq raced' /\ adrift \subseteq adrift' /\ Ending
  /\ \A v \in Workers : req'[v].pc # "idle" =>
       req[v].pc # "idle" /\ req'[v].sess = req[v].sess /\ req'[v].tok = req[v].tok
  /\ \A v \in Workers : req'[v].pc = "lock" => req[v].pc = "lock"
  /\ \A v \in Workers : PastLock(v)' => PastLock(v) \/ req[v].sess \in raced'
  /\ \A v \in Workers : req'[v].pc \in {"call", "wait"} =>
       req[v].pc \in {"call", "wait"} \/ req[v].sess \in raced'
  /\ calls' \subseteq calls
  /\ \A c \in calls' : Awaited(c) => Awaited(c)' \/ c.sess \in raced'
  /\ LockBusy' => LockBusy

LEMMA LockHoldsKeepsInv ==
  ASSUME Shape, Shape', LockInv, LockHolds
  PROVE  LockInv'
<1>0. \A v \in Workers : req'[v].pc # "idle" => req'[v].sess \in Sessions
  BY DEF Shape, HandlersReady
<1>1. HoldsLock'
  BY DEF LockInv, LockWorks, HoldsLock, LockHolds, PastLock
<1>2. NewAtLock'
  BY DEF LockInv, LockWorks, NewAtLock, LockHolds
<1>3. CallsAwaited'
  BY DEF LockInv, LockWorks, CallsAwaited, LockHolds
<1>4. \A s \in Sessions : InStep(s)' => InStep(s) /\ live'[s] = live[s]
  BY DEF InStep, LockHolds, Ending
<1>5. CallersFresh'
  <2> SUFFICES ASSUME NEW v \in Workers, req'[v].pc \in {"call", "wait"}, InStep(req[v].sess)'
               PROVE  req'[v].tok \in live'[req'[v].sess]
    BY DEF CallersFresh, LockHolds
  <2>1. /\ req[v].pc \in {"call", "wait"} /\ req'[v].sess = req[v].sess /\ req'[v].tok = req[v].tok
        /\ req[v].sess \in Sessions
    BY <1>0 DEF LockHolds, InStep
  <2> QED BY <1>4, <2>1 DEF LockInv, CallersFresh
<1>6. WaitersFresh'
  <2> SUFFICES ASSUME NEW v \in Workers, req'[v].pc = "lock", InStep(req[v].sess)',
                      req'[v].tok \notin live'[req'[v].sess]
               PROVE  lock' # None /\ ~LockBusy'
    BY DEF WaitersFresh, LockHolds
  <2>1. /\ req[v].pc = "lock" /\ req'[v].sess = req[v].sess /\ req'[v].tok = req[v].tok
        /\ req[v].sess \in Sessions
    BY <1>0 DEF LockHolds
  <2>2. lock # None /\ ~LockBusy
    BY <1>4, <2>1 DEF LockInv, WaitersFresh
  <2> QED BY <2>2 DEF LockHolds
<1> QED BY <1>1, <1>2, <1>3, <1>5, <1>6 DEF LockInv, LockWorks

LEMMA DegradedLock ==
  ASSUME Shape, LockInv, NEW w \in Workers, AcquireDegraded(w)
  PROVE  LockHolds
<1>1. /\ req[w].pc = "lock" /\ raced' = raced \cup {req[w].sess}
      /\ UNCHANGED <<portalVars, lock, calls, adrift>>
  BY DEF AcquireDegraded
<1>2. /\ req'[w].pc = "call" /\ req'[w].sess = req[w].sess /\ req'[w].tok = req[w].tok
      /\ \A v \in Workers \ {w} : req'[v] = req[v]
  BY ShapeHasReqType, BecomeCaller DEF AcquireDegraded, Shape
<1>3. \A c \in calls : c.by \in Workers /\ (Awaited(c) => Awaited(c)')
  BY <1>1, <1>2 DEF Awaited, Shape, TypeOK, Call
<1>4. LockBusy' => LockBusy
  BY <1>1, <1>2 DEF LockBusy, LockInv, LockWorks, NewAtLock
<1> QED BY <1>1, <1>2, <1>3, <1>4, PortalQuiet DEF LockHolds, PastLock

LEMMA TimeoutLock ==
  ASSUME Shape, LockInv, NEW w \in Workers, Timeout(w)
  PROVE  LockHolds
<1>1. /\ req[w].pc = "wait" /\ raced' = raced \cup {req[w].sess}
      /\ UNCHANGED <<portalVars, lock, calls, adrift>>
  BY DEF Timeout
<1>2. /\ req'[w].pc \in {"call", "unlock"} /\ req'[w].sess = req[w].sess
      /\ req'[w].tok = req[w].tok /\ \A v \in Workers \ {w} : req'[v] = req[v]
  BY <1>1, ShapeHasReqType, TryNextType DEF Timeout, Shape, HandlersReady
<1>3. \A c \in calls : Awaited(c) => Awaited(c)' \/ c.sess \in raced'
  BY <1>1, <1>2 DEF Awaited, Shape, CallsMatch, TypeOK, Call
<1>4. LockBusy' => LockBusy
  BY <1>1, <1>2 DEF LockBusy
<1> QED BY <1>1, <1>2, <1>3, <1>4, PortalQuiet DEF LockHolds, PastLock

LEMMA GoneLock ==
  ASSUME Shape, LockInv, NEW w \in Workers,
         Deduped(w) \/ UnlockFails(w) \/ Deliver(w) \/ UpstreamFails(w) \/ RequestDies(w)
  PROVE  LockHolds
<1>1. /\ UNCHANGED <<portalVars, lock, calls>> /\ raced \subseteq raced' /\ adrift \subseteq adrift'
      /\ req[w].pc = "wait" => req[w].sess \in raced'
  BY DEF Deduped, UnlockFails, Deliver, UpstreamFails, RequestDies, historyVars
<1>2. req'[w].pc = "idle" /\ \A v \in Workers \ {w} : req'[v] = req[v]
  BY ShapeHasReqType, BecomeIdle DEF Deduped, UnlockFails, Deliver, UpstreamFails, RequestDies, Shape
<1>3. \A c \in calls : Awaited(c) => Awaited(c)' \/ c.sess \in raced'
  BY <1>1, <1>2 DEF Awaited, Shape, CallsMatch, TypeOK, Call
<1>4. LockBusy' => LockBusy
  BY <1>1, <1>2 DEF LockBusy
<1> QED BY <1>1, <1>2, <1>3, <1>4, PortalQuiet DEF LockHolds, PastLock

\* A handler waits for one call at a time.
LEMMA OneCallAwaited ==
  ASSUME Shape, NEW c \in calls, NEW k \in calls, Awaited(c), Awaited(k), c.by = k.by
  PROVE  c = k
<1>1. c \in Call /\ k \in Call
  BY DEF Shape, TypeOK
<1>2. c.try = k.try /\ c.sess = k.sess /\ c.tok = k.tok
  BY DEF Awaited, Shape, CallsMatch
<1> QED BY <1>1, <1>2 DEF Call

LEMMA RefusalLock ==
  ASSUME Shape, LockInv, NEW c \in calls, Refusal(c)
  PROVE  LockHolds
<1>1. Ending /\ UNCHANGED <<lock, raced, adrift>> /\ calls' = calls \ {c} /\ c.by \in Workers
  BY EndingStep DEF Refusal, historyVars, AnswerFailed, Shape, TypeOK, Call
<1>2. CASE Awaited(c)
  <2>1. /\ req[c.by].pc = "wait" /\ req'[c.by].pc \in {"call", "unlock"}
        /\ req'[c.by].sess = req[c.by].sess /\ req'[c.by].tok = req[c.by].tok
        /\ \A v \in Workers \ {c.by} : req'[v] = req[v]
    BY <1>1, <1>2, ShapeHasReqType, TryNextType
       DEF Refusal, AnswerFailed, Awaited, Shape, HandlersReady
  <2>2. \A k \in calls' : Awaited(k) => Awaited(k)'
    <3> SUFFICES ASSUME NEW k \in calls, k # c, Awaited(k) PROVE Awaited(k)'
      BY <1>1
    <3>1. k.by # c.by /\ k.by \in Workers
      BY <1>2, OneCallAwaited DEF Shape, TypeOK, Call
    <3> QED BY <2>1, <3>1 DEF Awaited
  <2>3. LockBusy' => LockBusy
    BY <1>1, <2>1 DEF LockBusy
  <2> QED BY <1>1, <2>1, <2>2, <2>3 DEF LockHolds, PastLock
<1>3. CASE ~Awaited(c)
  <2>1. req' = req
    BY <1>3 DEF Refusal, AnswerFailed
  <2> QED BY <1>1, <2>1 DEF LockHolds, PastLock, Awaited, LockBusy
<1> QED BY <1>2, <1>3

\* A request that arrives with an old cookie finds the lock held by the
\* response that carries the new one.
LEMMA ArriveLock ==
  ASSUME Shape, TokensInOrder, LockInv, NEW w \in Workers, NEW s \in Sessions, Arrive(w, s)
  PROVE  LockInv'
<1>1. /\ req[w].pc = "idle" /\ \A c \in calls : c.by # w
      /\ lock' = (IF lock = w THEN "left" ELSE lock)
      /\ raced' = (IF s \in InFlight THEN raced ELSE raced \ {s})
      /\ UNCHANGED <<portalVars, cookie, calls, adrift>>
  BY DEF Arrive
<1>2. /\ req'[w].pc = "lock" /\ req'[w].sess = s /\ req'[w].tok = cookie[s]
      /\ \A v \in Workers \ {w} : req'[v] = req[v]
  BY ArriveShape
<1>3. \A u \in InFlight : u \in raced' <=> u \in raced
  BY <1>1
<1>4. /\ \A v \in Workers : req[v].pc # "idle" => req[v].sess \in InFlight
      /\ \A c \in calls : c.sess \in InFlight
  BY DEF InFlight, Shape, TypeOK, Call, HandlersReady
<1>5. lock' # w /\ (lock \in Workers \ {w} => lock' = lock) /\ (lock # None => lock' # None)
  BY <1>1
<1>6. HoldsLock'
  <2> SUFFICES ASSUME NEW v \in Workers, PastLock(v)', req'[v].sess \notin raced'
               PROVE  lock' = v
    BY DEF HoldsLock
  <2>1. v # w /\ PastLock(v) /\ req'[v] = req[v]
    BY <1>2 DEF PastLock
  <2>2. lock = v
    BY <1>3, <1>4, <2>1 DEF LockInv, LockWorks, HoldsLock, PastLock
  <2> QED BY <1>5, <2>1, <2>2
<1>7. NewAtLock'
  BY <1>1, <1>2, <1>5 DEF LockInv, LockWorks, NewAtLock
<1>8. CallsAwaited'
  BY <1>1, <1>2, <1>3, <1>4 DEF LockInv, LockWorks, CallsAwaited, Awaited, Shape, TypeOK, Call
<1>9. \A u \in InFlight : InStep(u)' => InStep(u)
  BY <1>1, <1>3 DEF InStep, portalVars
<1>10. CallersFresh'
  BY <1>1, <1>2, <1>4, <1>9 DEF LockInv, CallersFresh, portalVars
<1>11. LockBusy' => LockBusy
  BY <1>1, <1>2 DEF LockBusy
<1>12. WaitersFresh'
  <2> SUFFICES ASSUME NEW v \in Workers, req'[v].pc = "lock", InStep(req[v].sess)',
                      req'[v].tok \notin live'[req'[v].sess]
               PROVE  lock' # None /\ ~LockBusy'
    BY DEF WaitersFresh
  <2>1. CASE v # w
    <3>1. lock # None /\ ~LockBusy
      BY <1>1, <1>2, <1>4, <1>9, <2>1 DEF LockInv, WaitersFresh, portalVars
    <3> QED BY <1>5, <1>11, <3>1
  <2>2. CASE v = w
    <3>1. stage[s] = "active" /\ s \notin adrift /\ s \notin raced' /\ cookie[s] \notin live[s]
      BY <1>1, <1>2, <2>2 DEF InStep, portalVars
    <3>2. PICK t \in Tokens : live[s] = {t}
      BY <3>1 DEF Shape, OneTokenEach
    <3>3. PICK u \in Workers : req[u].pc = "respond" /\ req[u].sess = s
      BY <3>1, <3>2 DEF TokensInOrder, LiveTokenIsHeld
    <3>4. s \notin raced /\ u # w
      BY <1>1, <1>3, <1>4, <3>1, <3>3
    <3>5. lock = u
      BY <3>3, <3>4 DEF LockInv, LockWorks, HoldsLock, PastLock
    <3>6. lock' = u /\ req'[u].pc = "respond"
      BY <1>2, <1>5, <3>3, <3>4, <3>5
    <3> QED BY <3>6 DEF LockBusy
  <2> QED BY <2>1, <2>2
<1> QED BY <1>6, <1>7, <1>8, <1>10, <1>12 DEF LockInv, LockWorks

\* While the key is not set, those who wait for it have the live token.
LEMMA AcquireLock ==
  ASSUME Shape, LockInv, NEW w \in Workers, Acquire(w)
  PROVE  LockInv'
<1>1. /\ req[w].pc = "lock" /\ lock = None /\ lock' = w
      /\ UNCHANGED <<portalVars, calls, adrift, raced>>
  BY DEF Acquire, historyVars
<1>2. /\ req'[w].pc = "call" /\ req'[w].sess = req[w].sess /\ req'[w].tok = req[w].tok
      /\ \A v \in Workers \ {w} : req'[v] = req[v]
  BY ShapeHasReqType, BecomeCaller DEF Acquire, Shape
<1>3. \A v \in Workers : req[v].pc = "lock" /\ InStep(req[v].sess) =>
                         req[v].tok \in live[req[v].sess]
  BY <1>1 DEF LockInv, WaitersFresh
<1>4. \A u : InStep(u)' <=> InStep(u)
  BY <1>1 DEF InStep, portalVars
<1>5. HoldsLock'
  BY <1>1, <1>2 DEF LockInv, LockWorks, HoldsLock, PastLock
<1>6. NewAtLock'
  BY <1>1, <1>2 DEF LockInv, LockWorks, NewAtLock
<1>7. CallsAwaited'
  BY <1>1, <1>2 DEF LockInv, LockWorks, CallsAwaited, Awaited, Shape, TypeOK, Call
<1>8. CallersFresh'
  BY <1>1, <1>2, <1>3, <1>4 DEF LockInv, CallersFresh, portalVars
<1>9. WaitersFresh'
  BY <1>1, <1>2, <1>3, <1>4 DEF WaitersFresh, portalVars
<1> QED BY <1>5, <1>6, <1>7, <1>8, <1>9 DEF LockInv, LockWorks

\* The lock is gone under the handlers in flight, whose sessions count as
\* raced from here on.
LEMMA AllRaced ==
  ASSUME Shape, lock' = None, InFlight \subseteq raced', calls' \subseteq calls,
         \A v \in Workers : req'[v].pc # "idle" => req[v].pc # "idle" /\ req'[v].sess = req[v].sess
  PROVE  LockInv'
<1>1. /\ \A v \in Workers : req'[v].pc # "idle" => req'[v].sess \in raced'
      /\ \A c \in calls' : c.sess \in raced'
  BY DEF InFlight, Shape, TypeOK, Call, HandlersReady
<1> QED BY <1>1 DEF LockInv, LockWorks, HoldsLock, PastLock, NewAtLock, CallsAwaited,
                    CallersFresh, WaitersFresh, InStep

LEMMA UnlockLock ==
  ASSUME Shape, LockInv, NEW w \in Workers, Unlock(w)
  PROVE  LockInv'
<1>1. /\ req[w].pc = "unlock" /\ lock' = None
      /\ raced' = (IF lock \in {w, None} THEN raced ELSE raced \cup InFlight)
      /\ UNCHANGED <<portalVars, calls, adrift>>
  BY DEF Unlock
<1>2. req'[w].pc = "idle" /\ \A v \in Workers \ {w} : req'[v] = req[v]
  BY ShapeHasReqType, BecomeIdle DEF Unlock, Shape
<1>3. CASE lock \notin {w, None}
  BY <1>1, <1>2, <1>3, AllRaced
<1>4. CASE lock \in {w, None}
  <2>1. raced' = raced /\ \A u : InStep(u)' <=> InStep(u)
    BY <1>1, <1>4 DEF InStep, portalVars
  <2>2. \A v \in Workers : req[v].pc = "lock" /\ InStep(req[v].sess) =>
                           req[v].tok \in live[req[v].sess]
    BY <1>1, <1>4 DEF LockInv, WaitersFresh, LockBusy
  <2>3. HoldsLock'
    BY <1>2, <1>4, <2>1 DEF LockInv, LockWorks, HoldsLock, PastLock
  <2>4. NewAtLock'
    BY <1>1 DEF NewAtLock
  <2>5. CallsAwaited'
    BY <1>1, <1>2, <2>1 DEF LockInv, LockWorks, CallsAwaited, Awaited, Shape, TypeOK, Call
  <2>6. CallersFresh' /\ WaitersFresh'
    BY <1>1, <1>2, <2>1, <2>2 DEF LockInv, CallersFresh, WaitersFresh, portalVars
  <2> QED BY <2>3, <2>4, <2>5, <2>6 DEF LockInv, LockWorks
<1> QED BY <1>3, <1>4

LEMMA SendLock ==
  ASSUME Shape, LockInv, NEW w \in Workers, Send(w)
  PROVE  LockInv'
<1> DEFINE k == [by |-> w, try |-> req[w].try, sess |-> req[w].sess, tok |-> req[w].tok]
<1>1. /\ req[w].pc = "call" /\ calls' = calls \cup {k}
      /\ UNCHANGED <<portalVars, lock, adrift, raced>>
  BY DEF Send, historyVars
<1>2. /\ req'[w].pc = "wait" /\ req'[w].sess = req[w].sess /\ req'[w].tok = req[w].tok
      /\ req'[w].try = req[w].try /\ \A v \in Workers \ {w} : req'[v] = req[v]
  BY SendShape
<1>3. \A u : InStep(u)' <=> InStep(u)
  BY <1>1 DEF InStep, portalVars
<1>4. HoldsLock'
  BY <1>1, <1>2 DEF LockInv, LockWorks, HoldsLock, PastLock
<1>5. NewAtLock'
  BY <1>1, <1>2 DEF LockInv, LockWorks, NewAtLock
<1>6. CallsAwaited'
  <2>1. \A c \in calls : c.sess \notin raced => Awaited(c)'
    BY <1>1, <1>2 DEF LockInv, LockWorks, CallsAwaited, Awaited, Shape, TypeOK, Call
  <2>2. k.by = w /\ k.try = req[w].try
    OBVIOUS
  <2>3. req'[k.by].pc = "wait" /\ req'[k.by].try = k.try
    BY <1>2, <2>2
  <2> HIDE DEF k
  <2> QED BY <1>1, <2>1, <2>3 DEF CallsAwaited, Awaited
<1>7. CallersFresh'
  BY <1>1, <1>2, <1>3 DEF LockInv, CallersFresh, portalVars
<1>8. LockBusy' => LockBusy
  BY <1>1, <1>2 DEF LockBusy
<1>9. WaitersFresh'
  BY <1>1, <1>2, <1>3, <1>8 DEF LockInv, WaitersFresh, portalVars
<1> QED BY <1>4, <1>5, <1>6, <1>7, <1>9 DEF LockInv, LockWorks

\* The handler of the rotation holds the lock, if it does its work, until the
\* key expires: nobody else calls, and nobody gets in.
LEMMA RotateLock ==
  ASSUME Shape, LockInv, NEW c \in calls, NEW n \in Tokens, PortalRotates(c, n)
  PROVE  LockInv'
<1>1. /\ c.by \in Workers /\ c.sess \in Sessions
      /\ \A s \in Sessions \ {c.sess} : live'[s] = live[s]
      /\ stage' = stage
      /\ \A v \in Workers : req'[v].sess = req[v].sess /\ req'[v].tok = req[v].tok
      /\ \A v \in Workers \ {c.by} : req'[v] = req[v]
      /\ \/ /\ req[c.by].pc = "wait" /\ req'[c.by].pc = "respond"
            /\ req[c.by].sess = c.sess /\ adrift' = adrift
         \/ req' = req /\ adrift' = adrift \cup {c.sess}
  BY RotateShape
<1>2. UNCHANGED <<lock, raced>> /\ calls' = calls \ {c}
  BY DEF PortalRotates
<1>3. \A s \in Sessions : InStep(s)' => InStep(s)
  BY <1>1, <1>2 DEF InStep
<1>4. CASE /\ req[c.by].pc = "wait" /\ req'[c.by].pc = "respond"
           /\ req[c.by].sess = c.sess /\ adrift' = adrift
  <2>1. c.sess \notin raced => lock = c.by
    BY <1>1, <1>4 DEF LockInv, LockWorks, HoldsLock, PastLock
  <2>2. HoldsLock'
    BY <1>1, <1>2, <1>4 DEF LockInv, LockWorks, HoldsLock, PastLock
  <2>3. NewAtLock'
    BY <1>1, <1>2, <1>4 DEF LockInv, LockWorks, NewAtLock
  <2>4. CallsAwaited'
    <3> SUFFICES ASSUME NEW k \in calls, k # c, k.sess \notin raced PROVE Awaited(k)'
      BY <1>2 DEF CallsAwaited
    <3>1. Awaited(k) /\ k.by \in Workers
      BY DEF LockInv, LockWorks, CallsAwaited, Shape, TypeOK, Call
    <3>2. k.by # c.by
      <4>1. CASE k.by = c.by
        <5>1. k.sess = c.sess
          BY <1>4, <4>1 DEF Shape, CallsMatch
        <5>2. Awaited(c)
          BY <5>1 DEF LockInv, LockWorks, CallsAwaited
        <5> QED BY <3>1, <4>1, <5>2, OneCallAwaited
      <4> QED BY <4>1
    <3> QED BY <1>1, <3>1, <3>2 DEF Awaited
  <2>5. CallersFresh'
    <3> SUFFICES ASSUME NEW v \in Workers, req'[v].pc \in {"call", "wait"}, InStep(req[v].sess)'
                 PROVE  req'[v].tok \in live'[req'[v].sess]
      BY DEF CallersFresh
    <3>1. v # c.by /\ req'[v] = req[v] /\ req[v].sess \in Sessions
      BY <1>1, <1>4 DEF Shape, HandlersReady
    <3>2. InStep(req[v].sess)
      BY <1>1, <1>3, <3>1
    <3>3. lock = v
      BY <3>1, <3>2 DEF LockInv, LockWorks, HoldsLock, PastLock, InStep
    <3>4. req[v].sess # c.sess
      BY <2>1, <3>1, <3>2, <3>3 DEF InStep
    <3> QED BY <1>1, <3>1, <3>2, <3>4 DEF LockInv, CallersFresh
  <2>6. WaitersFresh'
    <3> SUFFICES ASSUME NEW v \in Workers, req'[v].pc = "lock", InStep(req[v].sess)',
                        req'[v].tok \notin live'[req'[v].sess]
                 PROVE  lock # None /\ ~LockBusy'
      BY <1>2 DEF WaitersFresh
    <3>1. v # c.by /\ req'[v] = req[v] /\ req[v].sess \in Sessions
      BY <1>1, <1>4 DEF Shape, HandlersReady
    <3>2. InStep(req[v].sess)
      BY <1>1, <1>3, <3>1
    <3>3. LockBusy' => LockBusy /\ lock # c.by
      BY <1>1, <1>2, <1>4 DEF LockBusy
    <3>4. CASE req[v].sess = c.sess
      BY <1>1, <2>1, <3>2, <3>3, <3>4 DEF InStep
    <3>5. CASE req[v].sess # c.sess
      BY <1>1, <3>1, <3>2, <3>3, <3>5 DEF LockInv, WaitersFresh
    <3> QED BY <3>4, <3>5
  <2> QED BY <2>2, <2>3, <2>4, <2>5, <2>6 DEF LockInv, LockWorks
<1>5. CASE req' = req /\ adrift' = adrift \cup {c.sess}
  <2>1. HoldsLock' /\ NewAtLock' /\ CallsAwaited'
    BY <1>2, <1>5 DEF LockInv, LockWorks, HoldsLock, PastLock, NewAtLock, CallsAwaited, Awaited
  <2>2. \A s \in Sessions : InStep(s)' => InStep(s) /\ live'[s] = live[s]
    BY <1>1, <1>3, <1>5 DEF InStep
  <2>3. \A v \in Workers : req[v].pc # "idle" => req[v].sess \in Sessions
    BY DEF Shape, HandlersReady
  <2>4. CallersFresh'
    BY <1>5, <2>2, <2>3 DEF LockInv, CallersFresh
  <2>5. LockBusy' <=> LockBusy
    BY <1>2, <1>5 DEF LockBusy
  <2>6. WaitersFresh'
    BY <1>2, <1>5, <2>2, <2>3, <2>5 DEF LockInv, WaitersFresh
  <2> QED BY <2>1, <2>4, <2>6 DEF LockInv, LockWorks
<1> QED BY <1>1, <1>4, <1>5

LEMMA LockStep ==
  ASSUME Shape, Shape', TokensInOrder, LockInv, [Next]_vars
  PROVE  LockInv'
<1>1. ASSUME NEW w \in Workers, Handle(w) PROVE LockInv'
  <2>1. ASSUME AcquireDegraded(w) \/ Timeout(w) \/ Deduped(w) \/ UnlockFails(w)
               \/ Deliver(w) \/ UpstreamFails(w) \/ RequestDies(w)
        PROVE  LockInv'
    BY <2>1, DegradedLock, TimeoutLock, GoneLock, LockHoldsKeepsInv
  <2> QED BY <1>1, <2>1, ArriveLock, AcquireLock, SendLock, UnlockLock DEF Handle
<1>2. ASSUME NEW c \in calls, AtPortal(c) PROVE LockInv'
  BY <1>2, RotateLock, RefusalStep, RefusalLock, LockHoldsKeepsInv DEF AtPortal
<1>3. ASSUME NEW s \in Sessions, RevokeOwnSession(s) PROVE LockInv'
  <2>1. Ending /\ UNCHANGED <<lock, req, calls, adrift, raced>>
    BY <1>3, RevokeShape DEF RevokeOwnSession, historyVars
  <2>2. LockHolds
    BY <2>1 DEF LockHolds, PastLock, Awaited, LockBusy
  <2> QED BY <2>2, LockHoldsKeepsInv
<1>4. ASSUME UNCHANGED <<portalVars, lock, req, calls, adrift, raced>> PROVE LockInv'
  <2>1. LockHolds
    BY <1>4, PortalQuiet DEF LockHolds, PastLock, Awaited, LockBusy
  <2> QED BY <2>1, LockHoldsKeepsInv
<1>5. ASSUME NEW s \in Sessions, BecomesDue(s) PROVE LockInv'
  BY <1>4, <1>5 DEF BecomesDue, historyVars
<1>6. CASE LockExpires
  BY <1>6, AllRaced DEF LockExpires
<1>7. CASE UNCHANGED vars
  BY <1>4, <1>7 DEF vars, portalVars
<1> QED BY <1>1, <1>2, <1>3, <1>5, <1>6, <1>7 DEF Next

-----------------------------------------------------------------------------
(* Theorems *)

LEMMA InitInv == Init => IInv
<1> SUFFICES ASSUME Init PROVE TokensInOrder /\ LockInv
  BY InitShape DEF IInv
<1>1. \A w \in Workers : req[w].pc = "idle"
  BY DEF Init, Idle
<1>2. AllIssued /\ Undelivered /\ LiveTokenIsHeld
  BY <1>1 DEF Init, AllIssued, Issued, Undelivered, LiveTokenIsHeld
<1>3. LockWorks
  BY <1>1 DEF Init, LockWorks, HoldsLock, PastLock, NewAtLock, CallsAwaited
<1>4. CallersFresh /\ WaitersFresh
  BY <1>1 DEF CallersFresh, WaitersFresh
<1> QED BY <1>2, <1>3, <1>4 DEF TokensInOrder, LockInv

LEMMA Inductive == Spec => []IInv
<1>1. IInv /\ [Next]_vars => IInv'
  BY ShapeStep, TokensStep, LockStep DEF IInv
<1> QED BY <1>1, InitInv, PTL DEF Spec

\* GatewayRefresh is well typed.
THEOREM TypeCorrect == Spec => []TypeOK
<1>1. IInv => TypeOK
  BY DEF IInv, Shape
<1> QED BY <1>1, Inductive, PTL

\* refresh.rs: the lock keeps the Gateway from sending a token that another
\* request has had rotated, except in the cases NoStaleCall names.
THEOREM LockPreventsReplay == Spec => []NoStaleCall
<1>1. IInv => NoStaleCall
  <2> SUFFICES ASSUME Shape, LockInv, NEW c \in calls, stage[c.sess] = "active",
                      c.sess \notin adrift \cup raced
               PROVE  c.tok \in live[c.sess]
    BY DEF NoStaleCall, IInv
  <2>1. req[c.by].pc = "wait" /\ c.by \in Workers
    BY DEF LockInv, LockWorks, CallsAwaited, Awaited, Shape, TypeOK, Call
  <2>2. req[c.by].sess = c.sess /\ req[c.by].tok = c.tok
    BY <2>1 DEF Shape, CallsMatch
  <2> QED BY <2>1, <2>2 DEF LockInv, CallersFresh, InStep
<1> QED BY <1>1, Inductive, PTL

\* authenticate.rs: after a rotation the new token is in the browser or on its
\* way to it, as long as no reply and no response is lost.
THEOREM RotationIsDelivered == Spec => []LiveTokenIsHeld
<1>1. IInv => LiveTokenIsHeld
  BY DEF IInv, TokensInOrder
<1> QED BY <1>1, Inductive, PTL
=============================================================================

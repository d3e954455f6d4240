------------------------- MODULE AccessTokensProofs -------------------------
(***************************************************************************)
(* Proofs about AccessTokens, for any number of handlers, tokens and       *)
(* clients, any times to live, any leeway, with and without faults.        *)
(***************************************************************************)
EXTENDS AccessTokens, TLAPS

USE TtlAssumption, LeewayAssumption, MaxTimeAssumption, FaultsAssumption

LEMMA IdleType == Idle \in Request /\ Idle.pc = "idle"
BY DEF Idle, Request, NoHash

ReqOK ==
  /\ req \in [Workers -> Request]
  /\ \A w \in Workers : req[w].pc = "pipeline" => req[w].snap # NoHash

\* The local state of one handler is replaced by a well-typed one.
LEMMA BecomeType ==
  ASSUME ReqOK, NEW w \in Workers, NEW r \in Request, Become(w, r),
         r.pc = "pipeline" => r.snap # NoHash
  PROVE  /\ ReqOK'
         /\ req'[w] = r
         /\ \A v \in Workers \ {w} : req'[v] = req[v]
BY DEF Become, ReqOK

LEMMA BecomeIdle ==
  ASSUME ReqOK, NEW w \in Workers, Become(w, Idle)
  PROVE  /\ ReqOK'
         /\ req'[w] = Idle
         /\ \A v \in Workers \ {w} : req'[v] = req[v]
BY IdleType, BecomeType

\* A handler that goes on to its next command.
LEMMA BecomeNext ==
  ASSUME ReqOK, NEW w \in Workers, NEW p \in {"expire", "reply"},
         Become(w, [req[w] EXCEPT !.pc = p])
  PROVE  /\ ReqOK'
         /\ req'[w] = [req[w] EXCEPT !.pc = p]
         /\ \A v \in Workers \ {w} : req'[v] = req[v]
<1>1. [req[w] EXCEPT !.pc = p] \in Request
  BY DEF ReqOK, Request
<1> QED
  BY <1>1, BecomeType DEF ReqOK, Request

\* A time to live is positive and reaches to the exp it is computed from.
LEMMA TtlLeftReaches ==
  ASSUME now \in Nat, NEW e \in Nat
  PROVE  TtlLeft(e) \in Nat /\ now + TtlLeft(e) >= e /\ now + TtlLeft(e) > now
BY DEF TtlLeft

\* A token that is being issued is signed, and its exp is not after the one
\* trackUserJti computes.
Issuing ==
  \A w \in Workers : req[w].pc \in {"hset", "expire", "reply"} =>
    \E j \in Jtis : req[w].jti = {j} /\ tok[j] # 0 /\ tok[j] <= now + req[w].ttl

LEMMA TypeReq == TypeOK => ReqOK
BY DEF TypeOK, ReqOK

LEMMA TypeInductive == TypeOK /\ Issuing /\ [Next]_vars => TypeOK'
<1> SUFFICES ASSUME TypeOK, Issuing, [Next]_vars PROVE TypeOK'
  OBVIOUS
<1> USE IdleType, TypeReq
<1>1. ASSUME NEW w \in Workers, NEW j \in Jtis, NEW c \in Clients, Sign(w, j, c)
      PROVE  TypeOK'
  <2>1. [Idle EXCEPT !.pc = "hset", !.jti = {j}, !.ttl = Ttl[c]] \in Request
    BY DEF Request
  <2>2. ReqOK'
    BY <1>1, <2>1, BecomeType DEF Sign, Idle
  <2>3. tok' \in [Jtis -> Nat] /\ \A k \in Jtis : tok[k] # 0 => tok'[k] # 0
    BY <1>1 DEF TypeOK, Sign
  <2> QED
    BY <1>1, <2>2, <2>3 DEF TypeOK, Sign, ReqOK
<1>2. ASSUME NEW w \in Workers, Hset(w) PROVE TypeOK'
  <2>1. req[w] \in Request
    BY DEF TypeOK
  <2>2. PICK j \in req[w].jti :
          /\ index' = [index EXCEPT ![j] = now + req[w].ttl]
          /\ excused' = IF indexEnd # 0 /\ indexEnd < tok[j]
                        THEN excused \cup {j} ELSE excused
    BY <1>2 DEF Hset
  <2>3. j \in Jtis /\ now + req[w].ttl \in Nat
    BY <2>1 DEF Request, TypeOK
  <2>4. index' \in [Jtis -> Nat] /\ excused' \subseteq Jtis
    BY <2>2, <2>3 DEF TypeOK
  <2>5. ReqOK'
    BY <1>2, BecomeNext DEF Hset
  <2> QED
    BY <1>2, <2>4, <2>5 DEF TypeOK, Hset, ReqOK
<1>3. ASSUME NEW w \in Workers, ExpireIndex(w) PROVE TypeOK'
  <2>1. req[w] \in Request
    BY DEF TypeOK
  <2>2. indexEnd' \in Nat /\ excused' \subseteq Jtis
    BY <1>3, <2>1 DEF TypeOK, ExpireIndex, Request, Fields
  <2>3. ReqOK'
    BY <1>3, BecomeNext DEF ExpireIndex
  <2> QED
    BY <1>3, <2>2, <2>3 DEF TypeOK, ExpireIndex, ReqOK
<1>4. ASSUME NEW w \in Workers, TrackFails(w) PROVE TypeOK'
  <2>1. req[w].jti \subseteq Jtis
    BY DEF TypeOK, Request
  <2>2. ReqOK'
    BY <1>4, BecomeNext DEF TrackFails
  <2> QED
    BY <1>4, <2>1, <2>2 DEF TypeOK, TrackFails, ReqOK
<1>5. ASSUME NEW w \in Workers, Deliver(w) PROVE TypeOK'
  <2>1. held' \subseteq {j \in Jtis : tok[j] # 0}
    BY <1>5 DEF TypeOK, Deliver, Issuing
  <2>2. ReqOK'
    BY <1>5, BecomeIdle DEF Deliver
  <2> QED
    BY <1>5, <2>1, <2>2 DEF TypeOK, Deliver, ReqOK
<1>6. ASSUME NEW w \in Workers, NEW j \in Jtis, RevokeToken(w, j) PROVE TypeOK'
  BY <1>6, TtlLeftReaches DEF TypeOK, RevokeToken, Block
<1>7. ASSUME NEW w \in Workers, NEW j \in Jtis, LogOut(w, j) PROVE TypeOK'
  <2>1. [Idle EXCEPT !.pc = "revoke"] \in Request
    BY DEF Request, InUse, TypeOK
  <2>2. ReqOK'
    BY <1>7, <2>1, BecomeType DEF LogOut, Idle
  <2>3. blocked' \in [Jtis -> Nat] /\ stopped' \subseteq Jtis
    BY <1>7, TtlLeftReaches DEF TypeOK, LogOut, Block
  <2> QED
    BY <1>7, <2>2, <2>3 DEF TypeOK, LogOut, ReqOK
<1>8. ASSUME NEW w \in Workers, RevokeUser(w) PROVE TypeOK'
  <2>1. [Idle EXCEPT !.pc = "revoke"] \in Request
    BY DEF Request, InUse, TypeOK
  <2>2. ReqOK'
    BY <1>8, <2>1, BecomeType DEF RevokeUser, Idle
  <2> QED
    BY <1>8, <2>2 DEF TypeOK, RevokeUser, ReqOK
<1>9. ASSUME NEW w \in Workers, ReadIndex(w) PROVE TypeOK'
  <2>1. [req[w] EXCEPT !.pc = "pipeline", !.snap = index] \in Request
    BY DEF TypeOK, Request
  <2>2. ReqOK'
    BY <1>9, <2>1, BecomeType DEF ReadIndex, TypeOK, Request
  <2> QED
    BY <1>9, <2>2 DEF TypeOK, ReadIndex, ReqOK
<1>10. ASSUME NEW w \in Workers, ReadEmptyIndex(w) PROVE TypeOK'
  BY <1>10, BecomeIdle DEF TypeOK, ReadEmptyIndex, ReqOK
<1>11. ASSUME NEW w \in Workers, NEW done \in SUBSET Fields(req[w].snap),
              NEW del \in BOOLEAN, Pipeline(w, done, del)
       PROVE  TypeOK'
  <2>1. req[w].snap \in [Jtis -> Nat]
    BY DEF TypeOK, Request
  <2>2. blocked' \in [Jtis -> Nat] /\ stopped' \subseteq Jtis
    BY <1>11, <2>1, TtlLeftReaches DEF TypeOK, Pipeline, Fields
  <2>3. index' \in [Jtis -> Nat] /\ indexEnd' \in Nat /\ excused' \subseteq Jtis
    BY <1>11 DEF TypeOK, Pipeline, NoHash, Fields
  <2>4. ReqOK'
    BY <1>11, BecomeIdle DEF Pipeline
  <2> QED
    BY <1>11, <2>2, <2>3, <2>4 DEF TypeOK, Pipeline, ReqOK
<1>12. ASSUME NEW w \in Workers, RevokeFails(w) PROVE TypeOK'
  BY <1>12, BecomeIdle DEF TypeOK, RevokeFails, ReqOK
<1>13. ASSUME NEW w \in Workers, Crash(w) PROVE TypeOK'
  BY <1>13, BecomeIdle DEF TypeOK, Crash, ReqOK
<1>14. CASE Tick
  BY <1>14 DEF TypeOK, Tick, NoHash
<1>15. CASE UNCHANGED vars
  BY <1>15 DEF TypeOK, vars
<1>16. ASSUME NEW w \in Workers, RunPipeline(w) PROVE TypeOK'
  BY <1>11, <1>16 DEF RunPipeline
<1>17. ASSUME NEW w \in Workers, Issue(w) PROVE TypeOK'
  BY <1>1, <1>2, <1>3, <1>4, <1>5, <1>17 DEF Issue
<1>18. ASSUME NEW w \in Workers, Revoke(w) PROVE TypeOK'
  BY <1>6, <1>7, <1>8, <1>9, <1>10, <1>12, <1>16, <1>18 DEF Revoke
<1> QED
  BY <1>13, <1>14, <1>15, <1>17, <1>18 DEF Next

-----------------------------------------------------------------------------
(* The tokens that handlers issue and the fields they have read *)

\* A field of the hash, there or read by a revocation, belongs to a signed
\* token and reaches its exp.
Reaches(h) == \A j \in Jtis : h[j] # 0 => tok[j] # 0 /\ h[j] >= tok[j]

SnapsReach == \A w \in Workers : req[w].pc = "pipeline" => Reaches(req[w].snap)

FieldsReach == Reaches(index) /\ SnapsReach

\* A written blocklist key reaches the exp of its token.
StoppedReach == \A j \in stopped : tok[j] # 0 /\ blocked[j] >= tok[j]

LEMMA BlockReaches ==
  ASSUME TypeOK, StoppedReach, NEW k \in Jtis, tok[k] # 0, Block(k)
  PROVE  \A j \in stopped' : tok[j] # 0 /\ blocked'[j] >= tok[j]
BY TtlLeftReaches DEF TypeOK, StoppedReach, Block

LEMMA IssuingInductive == TypeOK /\ Issuing /\ [Next]_vars => Issuing'
<1> SUFFICES ASSUME TypeOK, Issuing, [Next]_vars PROVE Issuing'
  OBVIOUS
<1> USE TypeReq
<1> DEFINE Other(w) == /\ tok' = tok /\ now' = now
                       /\ \A v \in Workers \ {w} : req'[v] = req[v]
<1>0. ASSUME NEW w \in Workers, Other(w),
             \/ req'[w].pc \notin {"hset", "expire", "reply"}
             \/ /\ req[w].pc \in {"hset", "expire", "reply"}
                /\ req'[w].jti = req[w].jti /\ req'[w].ttl = req[w].ttl
      PROVE  Issuing'
  BY <1>0 DEF Issuing
<1>1. ASSUME NEW w \in Workers, NEW j \in Jtis, NEW c \in Clients, Sign(w, j, c)
      PROVE  Issuing'
  <2> DEFINE r == [Idle EXCEPT !.pc = "hset", !.jti = {j}, !.ttl = Ttl[c]]
  <2>1. r \in Request /\ r.pc = "hset" /\ r.jti = {j} /\ r.ttl = Ttl[c]
    BY IdleType DEF Request, Idle
  <2>2. req'[w] = r /\ \A v \in Workers \ {w} : req'[v] = req[v]
    BY <1>1, <2>1, BecomeType DEF Sign
  <2>3. tok'[j] = now + Ttl[c] /\ now' = now /\ tok'[j] # 0
    BY <1>1 DEF TypeOK, Sign
  <2>4. \A k \in Jtis : tok[k] # 0 => tok'[k] = tok[k]
    BY <1>1 DEF TypeOK, Sign
  <2>5. tok'[j] <= now' + r.ttl
    BY <2>1, <2>3 DEF TypeOK
  <2>6. ASSUME NEW v \in Workers, req'[v].pc \in {"hset", "expire", "reply"}
        PROVE  \E k \in Jtis : /\ req'[v].jti = {k} /\ tok'[k] # 0
                               /\ tok'[k] <= now' + req'[v].ttl
    <3>1. CASE v = w
      BY <2>1, <2>2, <2>3, <2>5, <3>1
    <3>2. CASE v # w
      BY <2>2, <2>3, <2>4, <2>6, <3>2 DEF Issuing
    <3> QED BY <3>1, <3>2
  <2> QED BY <2>6 DEF Issuing
<1>2. ASSUME NEW w \in Workers, Hset(w) PROVE Issuing'
  <2>1. Other(w) /\ req'[w] = [req[w] EXCEPT !.pc = "expire"]
    BY <1>2, BecomeNext DEF Hset
  <2> QED BY <1>0, <1>2, <2>1 DEF Hset, TypeOK, Request
<1>3. ASSUME NEW w \in Workers, ExpireIndex(w) PROVE Issuing'
  <2>1. Other(w) /\ req'[w] = [req[w] EXCEPT !.pc = "reply"]
    BY <1>3, BecomeNext DEF ExpireIndex
  <2> QED BY <1>0, <1>3, <2>1 DEF ExpireIndex, TypeOK, Request
<1>4. ASSUME NEW w \in Workers, TrackFails(w) PROVE Issuing'
  <2>1. Other(w) /\ req'[w] = [req[w] EXCEPT !.pc = "reply"]
    BY <1>4, BecomeNext DEF TrackFails
  <2> QED BY <1>0, <1>4, <2>1 DEF TrackFails, TypeOK, Request
<1>5. ASSUME NEW w \in Workers, Become(w, Idle), tok' = tok, now' = now PROVE Issuing'
  BY <1>0, <1>5, BecomeIdle, IdleType
<1>6. ASSUME NEW w \in Workers, tok' = tok, now' = now,
             Become(w, [Idle EXCEPT !.pc = "revoke"])
      PROVE  Issuing'
  BY <1>6 DEF Become, Issuing, Idle, ReqOK
<1>7. ASSUME NEW w \in Workers, ReadIndex(w) PROVE Issuing'
  <2>1. [req[w] EXCEPT !.pc = "pipeline", !.snap = index].pc = "pipeline"
    BY DEF TypeOK, Request
  <2>2. req'[w].pc = "pipeline" /\ \A v \in Workers \ {w} : req'[v] = req[v]
    BY <1>7, <2>1 DEF ReadIndex, Become, TypeOK
  <2> QED BY <1>0, <1>7, <2>2 DEF ReadIndex
<1>8. CASE Tick
  <2>1. \A w \in Workers : req[w].ttl \in Nat
    BY DEF TypeOK, Request
  <2> QED BY <1>8, <2>1 DEF Tick, Issuing, TypeOK
<1>9. CASE UNCHANGED vars
  BY <1>9 DEF vars, Issuing
<1>10. ASSUME NEW w \in Workers, Issue(w) PROVE Issuing'
  BY <1>1, <1>2, <1>3, <1>4, <1>5, <1>10 DEF Issue, Deliver
<1>11. ASSUME NEW w \in Workers, RunPipeline(w) PROVE Issuing'
  BY <1>5, <1>11 DEF RunPipeline, Pipeline
<1>12. ASSUME NEW w \in Workers, NEW j \in Jtis, RevokeToken(w, j) \/ LogOut(w, j)
       PROVE  Issuing'
  <2>1. CASE RevokeToken(w, j)
    BY <2>1 DEF RevokeToken, Issuing
  <2>2. CASE LogOut(w, j)
    BY <1>6, <2>2 DEF LogOut
  <2> QED BY <1>12, <2>1, <2>2
<1>13. ASSUME NEW w \in Workers, Revoke(w) PROVE Issuing'
  BY <1>5, <1>6, <1>7, <1>11, <1>12, <1>13 DEF Revoke, RevokeUser, ReadEmptyIndex, RevokeFails
<1>14. ASSUME NEW w \in Workers, Crash(w) PROVE Issuing'
  BY <1>5, <1>14 DEF Crash
<1> QED
  BY <1>8, <1>9, <1>10, <1>13, <1>14 DEF Next

\* Signing gives an exp to a token that had none and changes no other.
LEMMA SignKeeps ==
  ASSUME TypeOK, NEW w \in Workers, NEW j \in Jtis, NEW c \in Clients, Sign(w, j, c)
  PROVE  \A k \in Jtis : tok[k] # 0 => tok'[k] = tok[k]
BY DEF TypeOK, Sign

\* A step that neither signs nor starts a pipeline leaves what was read alone.
LEMMA SnapsKept ==
  ASSUME TypeOK, FieldsReach, NEW w \in Workers, tok' = tok, NEW r \in Request,
         Become(w, r), r.pc # "pipeline"
  PROVE  SnapsReach'
<1>1. req'[w] = r /\ \A v \in Workers \ {w} : req'[v] = req[v]
  BY BecomeType, TypeReq
<1> QED
  BY <1>1 DEF FieldsReach, SnapsReach, Reaches

LEMMA NoHashReaches == Reaches(NoHash)'
BY DEF Reaches, NoHash

LEMMA FieldsInductive ==
  TypeOK /\ Issuing /\ FieldsReach /\ [Next]_vars => FieldsReach'
<1> SUFFICES ASSUME TypeOK, Issuing, FieldsReach, [Next]_vars PROVE FieldsReach'
  OBVIOUS
<1>1. ASSUME NEW w \in Workers, NEW j \in Jtis, NEW c \in Clients, Sign(w, j, c)
      PROVE  FieldsReach'
  <2>1. [Idle EXCEPT !.pc = "hset", !.jti = {j}, !.ttl = Ttl[c]] \in Request
    BY IdleType DEF Request
  <2>2. \A v \in Workers : req'[v].pc = "pipeline" => req'[v] = req[v]
    <3> DEFINE r == [Idle EXCEPT !.pc = "hset", !.jti = {j}, !.ttl = Ttl[c]]
    <3>1. r.pc = "hset"
      BY DEF Idle
    <3>2. Become(w, r)
      BY <1>1 DEF Sign
    <3>3. req'[w] = r /\ \A v \in Workers \ {w} : req'[v] = req[v]
      BY <2>1, <3>1, <3>2, BecomeType, TypeReq
    <3> HIDE DEF r
    <3> QED
      BY <3>1, <3>3
  <2>3. index' = index
    BY <1>1 DEF Sign
  <2>4. \A k \in Jtis : tok[k] # 0 => tok'[k] = tok[k]
    BY <1>1, SignKeeps
  <2>5. \A k \in Jtis : index[k] # 0 => tok'[k] # 0 /\ index[k] >= tok'[k]
    BY <2>4 DEF FieldsReach, Reaches
  <2>6. Reaches(index)'
    BY <2>3, <2>5 DEF Reaches
  <2>7. ASSUME NEW v \in Workers, req'[v].pc = "pipeline" PROVE Reaches(req[v].snap)'
    <3>1. req'[v] = req[v] /\ Reaches(req[v].snap)
      BY <2>2, <2>7 DEF FieldsReach, SnapsReach
    <3> QED
      BY <2>4, <3>1 DEF Reaches
  <2> QED
    BY <2>6, <2>7 DEF FieldsReach, SnapsReach
<1>2. ASSUME NEW w \in Workers, Hset(w) PROVE FieldsReach'
  <2>1. PICK j \in Jtis : req[w].jti = {j} /\ tok[j] # 0 /\ tok[j] <= now + req[w].ttl
    BY <1>2 DEF Hset, Issuing
  <2>2. index' = [index EXCEPT ![j] = now + req[w].ttl]
    BY <1>2, <2>1 DEF Hset
  <2>3. Reaches(index)'
    BY <1>2, <2>1, <2>2 DEF Hset, FieldsReach, Reaches, TypeOK
  <2>4. [req[w] EXCEPT !.pc = "expire"] \in Request
    BY DEF TypeOK, Request
  <2>5. SnapsReach'
    BY <1>2, <2>4, SnapsKept DEF Hset, Request, TypeOK
  <2> QED
    BY <2>3, <2>5 DEF FieldsReach
<1>3. ASSUME NEW w \in Workers, NEW p \in {"expire", "reply"}, tok' = tok, index' = index,
             Become(w, [req[w] EXCEPT !.pc = p])
      PROVE  FieldsReach'
  <2>1. [req[w] EXCEPT !.pc = p] \in Request /\ [req[w] EXCEPT !.pc = p].pc # "pipeline"
    BY DEF TypeOK, Request
  <2>2. SnapsReach'
    BY <1>3, <2>1, SnapsKept
  <2> QED
    BY <1>3, <2>2 DEF FieldsReach, SnapsReach, Reaches
<1>4. ASSUME NEW w \in Workers, tok' = tok, index' \in {index, NoHash}, Become(w, Idle)
      PROVE  FieldsReach'
  <2>1. SnapsReach'
    BY <1>4, SnapsKept, IdleType
  <2>2. Reaches(index)'
    BY <1>4 DEF FieldsReach, SnapsReach, Reaches, NoHash
  <2> QED
    BY <2>1, <2>2 DEF FieldsReach
<1>5. ASSUME NEW w \in Workers, tok' = tok, index' = index,
             Become(w, [Idle EXCEPT !.pc = "revoke"])
      PROVE  FieldsReach'
  <2>1. /\ [Idle EXCEPT !.pc = "revoke"] \in Request
        /\ [Idle EXCEPT !.pc = "revoke"].pc # "pipeline"
    BY IdleType DEF Request, InUse, TypeOK, Idle
  <2>2. SnapsReach'
    BY <1>5, <2>1, SnapsKept
  <2> QED
    BY <1>5, <2>2 DEF FieldsReach, SnapsReach, Reaches
<1>6. ASSUME NEW w \in Workers, ReadIndex(w) PROVE FieldsReach'
  <2> DEFINE r == [req[w] EXCEPT !.pc = "pipeline", !.snap = index]
  <2>1. r \in Request /\ r.snap = index /\ r.snap # NoHash
    BY <1>6 DEF TypeOK, Request, ReadIndex
  <2>2. req'[w] = r /\ \A v \in Workers \ {w} : req'[v] = req[v]
    BY <1>6, <2>1, BecomeType, TypeReq DEF ReadIndex
  <2>3. tok' = tok /\ index' = index
    BY <1>6 DEF ReadIndex
  <2>4. Reaches(index)'
    BY <2>3 DEF FieldsReach, Reaches
  <2>5. ASSUME NEW v \in Workers, req'[v].pc = "pipeline" PROVE Reaches(req[v].snap)'
    <3>1. CASE v = w
      BY <2>1, <2>2, <2>3, <3>1 DEF FieldsReach, Reaches
    <3>2. CASE v # w
      <4>1. req'[v] = req[v]
        BY <2>2, <3>2
      <4>2. Reaches(req[v].snap)
        BY <2>5, <4>1 DEF FieldsReach, SnapsReach
      <4> QED
        BY <2>3, <4>1, <4>2 DEF Reaches
    <3> QED
      BY <3>1, <3>2
  <2> QED
    BY <2>4, <2>5 DEF FieldsReach, SnapsReach
<1>7. CASE Tick
  BY <1>7 DEF Tick, FieldsReach, SnapsReach, Reaches, NoHash
<1>8. CASE UNCHANGED vars
  BY <1>8 DEF vars, FieldsReach, SnapsReach, Reaches
<1>9. ASSUME NEW w \in Workers, Issue(w) PROVE FieldsReach'
  <2>1. CASE \E j \in Jtis, c \in Clients : Sign(w, j, c)
    BY <1>1, <2>1
  <2>2. CASE Hset(w)
    BY <1>2, <2>2
  <2>3. CASE ExpireIndex(w)
    BY <1>3, <2>3 DEF ExpireIndex
  <2>4. CASE TrackFails(w)
    BY <1>3, <2>4 DEF TrackFails
  <2>5. CASE Deliver(w)
    BY <1>4, <2>5 DEF Deliver
  <2> QED BY <1>9, <2>1, <2>2, <2>3, <2>4, <2>5 DEF Issue
<1>10. ASSUME NEW w \in Workers, RunPipeline(w) PROVE FieldsReach'
  BY <1>4, <1>10 DEF RunPipeline, Pipeline
<1>11. ASSUME NEW w \in Workers, Revoke(w) PROVE FieldsReach'
  <2>1. ASSUME NEW j \in Jtis, RevokeToken(w, j) PROVE FieldsReach'
    BY <2>1 DEF RevokeToken, FieldsReach, SnapsReach, Reaches
  <2>2. ASSUME NEW j \in Jtis, LogOut(w, j) PROVE FieldsReach'
    BY <1>5, <2>2 DEF LogOut
  <2>3. CASE RevokeUser(w)
    BY <1>5, <2>3 DEF RevokeUser
  <2>4. CASE ReadEmptyIndex(w) \/ RevokeFails(w)
    BY <1>4, <2>4 DEF ReadEmptyIndex, RevokeFails
  <2> QED BY <1>6, <1>10, <1>11, <2>1, <2>2, <2>3, <2>4 DEF Revoke
<1>12. ASSUME NEW w \in Workers, Crash(w) PROVE FieldsReach'
  BY <1>4, <1>12 DEF Crash
<1> QED
  BY <1>7, <1>8, <1>9, <1>11, <1>12 DEF Next

\* What a pipeline writes reaches the exp of every token it blocks.
LEMMA PipelineReaches ==
  ASSUME TypeOK, FieldsReach, NEW w \in Workers, NEW done \in SUBSET Fields(req[w].snap),
         NEW del \in BOOLEAN, Pipeline(w, done, del)
  PROVE  /\ \A j \in done : tok[j] # 0 /\ blocked'[j] >= tok[j]
         /\ \A j \in Jtis \ done : blocked'[j] = blocked[j]
<1>1. req[w].snap \in [Jtis -> Nat] /\ Reaches(req[w].snap)
  BY DEF TypeOK, Request, FieldsReach, SnapsReach, Pipeline
<1>2. ASSUME NEW j \in done PROVE tok[j] # 0 /\ blocked'[j] >= tok[j]
  <2>1. j \in Jtis /\ req[w].snap[j] # 0 /\ req[w].snap[j] \in Nat
    BY <1>1 DEF Fields
  <2>2. blocked'[j] = now + TtlLeft(req[w].snap[j])
    BY <2>1 DEF Pipeline
  <2>3. /\ now \in Nat /\ tok[j] \in Nat /\ tok[j] # 0 /\ req[w].snap[j] >= tok[j]
    BY <1>1, <2>1 DEF TypeOK, Reaches
  <2>4. now + TtlLeft(req[w].snap[j]) >= req[w].snap[j] /\ TtlLeft(req[w].snap[j]) \in Nat
    BY <2>1, <2>3, TtlLeftReaches
  <2> QED
    BY <2>1, <2>2, <2>3, <2>4
<1> QED
  BY <1>2 DEF Pipeline

LEMMA StoppedInductive ==
  TypeOK /\ FieldsReach /\ StoppedReach /\ [Next]_vars => StoppedReach'
<1> SUFFICES ASSUME TypeOK, FieldsReach, StoppedReach, [Next]_vars PROVE StoppedReach'
  OBVIOUS
<1>1. ASSUME NEW w \in Workers, NEW j \in Jtis, NEW c \in Clients, Sign(w, j, c)
      PROVE  StoppedReach'
  BY <1>1, SignKeeps DEF StoppedReach, Sign, TypeOK
<1>2. ASSUME tok' = tok, blocked' = blocked, stopped' = stopped PROVE StoppedReach'
  BY <1>2 DEF StoppedReach
<1>3. ASSUME NEW j \in InUse, Block(j), tok' = tok PROVE StoppedReach'
  BY <1>3, BlockReaches DEF InUse, TypeOK, StoppedReach
<1>4. ASSUME NEW w \in Workers, NEW done \in SUBSET Fields(req[w].snap),
             NEW del \in BOOLEAN, Pipeline(w, done, del)
      PROVE  StoppedReach'
  BY <1>4, PipelineReaches DEF StoppedReach, Pipeline, TypeOK
<1>5. ASSUME NEW w \in Workers, RunPipeline(w) PROVE StoppedReach'
  BY <1>4, <1>5 DEF RunPipeline
<1>6. ASSUME NEW w \in Workers, NEW j \in Jtis, RevokeToken(w, j) PROVE StoppedReach'
  BY <1>3, <1>6 DEF RevokeToken
<1>7. ASSUME NEW w \in Workers, NEW j \in Jtis, LogOut(w, j) PROVE StoppedReach'
  BY <1>2, <1>3, <1>7 DEF LogOut
<1>8. ASSUME NEW w \in Workers, Issue(w) PROVE StoppedReach'
  BY <1>1, <1>2, <1>8 DEF Issue, Hset, ExpireIndex, TrackFails, Deliver
<1>9. ASSUME NEW w \in Workers, Revoke(w) PROVE StoppedReach'
  BY <1>2, <1>5, <1>6, <1>7, <1>9
     DEF Revoke, RevokeUser, ReadIndex, ReadEmptyIndex, RevokeFails
<1>10. ASSUME NEW w \in Workers, Crash(w) PROVE StoppedReach'
  BY <1>2, <1>10 DEF Crash
<1>11. CASE Tick \/ UNCHANGED vars
  BY <1>2, <1>11 DEF Tick, vars
<1> QED
  BY <1>8, <1>9, <1>10, <1>11 DEF Next

-----------------------------------------------------------------------------
(* Tokens that a revocation of the user finds *)

\* The hash holds the token as long as it lives, or need not.
Tracked(j) ==
  \/ tok[j] <= now
  \/ blocked[j] >= tok[j]
  \/ j \in excused
  \/ index[j] # 0 /\ (indexEnd = 0 \/ indexEnd >= tok[j])

\* Every token in use is tracked, and every token whose HSET was sent.
AllTracked ==
  /\ \A j \in held : Tracked(j)
  /\ \A w \in Workers : req[w].pc \in {"expire", "reply"} =>
       \A j \in req[w].jti : Tracked(j)

IInv == TypeOK /\ Issuing /\ FieldsReach /\ StoppedReach /\ AllTracked

\* No step makes a signed token untraceable.
LEMMA TrackedStays ==
  ASSUME TypeOK, Issuing, FieldsReach, [Next]_vars, NEW j \in Jtis, tok[j] # 0, Tracked(j)
  PROVE  Tracked(j)'
<1>0. /\ tok[j] \in Nat /\ now \in Nat /\ index[j] \in Nat /\ indexEnd \in Nat
      /\ blocked[j] \in Nat
  BY DEF TypeOK
<1>1. ASSUME NEW w \in Workers, NEW k \in Jtis, NEW c \in Clients, Sign(w, k, c)
      PROVE  Tracked(j)'
  BY <1>1, SignKeeps DEF Sign, Tracked
<1>2. ASSUME NEW w \in Workers, Hset(w) PROVE Tracked(j)'
  <2>1. PICK k \in Jtis : /\ req[w].jti = {k} /\ tok[k] # 0 /\ req[w].ttl \in Nat
    BY <1>2 DEF Hset, Issuing, TypeOK, Request
  <2>2. /\ index' = [index EXCEPT ![k] = now + req[w].ttl]
        /\ excused' = IF indexEnd # 0 /\ indexEnd < tok[k]
                      THEN excused \cup {k} ELSE excused
    BY <1>2, <2>1 DEF Hset
  <2>3. index'[j] # 0 \/ index'[j] = index[j]
    BY <2>1, <2>2, <1>2 DEF TypeOK, Issuing, Hset
  <2>4. index[j] # 0 => index'[j] # 0
    <3>1. CASE j = k
      <4>1. tok[k] <= now + req[w].ttl
        BY <1>2, <2>1 DEF Hset, Issuing
      <4>2. tok[k] \in Nat /\ now \in Nat
        BY DEF TypeOK
      <4>3. now + req[w].ttl # 0
        BY <2>1, <4>1, <4>2
      <4>4. index'[j] = now + req[w].ttl
        BY <2>2, <3>1 DEF TypeOK
      <4> QED BY <4>3, <4>4
    <3>2. CASE j # k
      BY <2>2, <3>2 DEF TypeOK
    <3> QED BY <3>1, <3>2
  <2> QED
    BY <1>2, <2>2, <2>4 DEF Hset, Tracked
<1>3. ASSUME NEW w \in Workers, ExpireIndex(w) PROVE Tracked(j)'
  <2>1. CASE index = NoHash
    BY <1>3, <2>1 DEF ExpireIndex, Tracked
  <2>2. CASE index # NoHash
    <3>1. PICK k \in Jtis : /\ req[w].jti = {k} /\ tok[k] <= now + req[w].ttl
      BY <1>3 DEF ExpireIndex, Issuing
    <3>2. /\ indexEnd' = now + req[w].ttl
          /\ excused' = (excused \ ({k} \cap Fields(index)))
               \cup {i \in Fields(index) : tok[i] > now + req[w].ttl}
          /\ index' = index /\ tok' = tok /\ now' = now /\ blocked' = blocked
      BY <1>3, <2>2, <3>1 DEF ExpireIndex
    <3>3. req[w].ttl \in Nat
      BY DEF TypeOK, Request
    <3>4. CASE index[j] # 0
      BY <1>0, <3>1, <3>2, <3>3, <3>4 DEF Tracked, Fields
    <3>5. CASE index[j] = 0
      BY <3>2, <3>5 DEF Tracked, Fields
    <3> QED BY <3>4, <3>5
  <2> QED BY <2>1, <2>2
<1>4. ASSUME NEW w \in Workers, TrackFails(w) PROVE Tracked(j)'
  BY <1>4 DEF TrackFails, Tracked
<1>5. ASSUME tok' = tok, now' = now, index' = index, indexEnd' = indexEnd,
             blocked' = blocked, excused' = excused
      PROVE  Tracked(j)'
  BY <1>5 DEF Tracked
<1>6. ASSUME NEW k \in InUse, Block(k), tok' = tok, now' = now, index' = index,
             indexEnd' = indexEnd, excused' = excused
      PROVE  Tracked(j)'
  <2>1. blocked'[j] = blocked[j] \/ (blocked'[j] = now + TtlLeft(tok[j]))
    BY <1>6 DEF Block, TypeOK, InUse
  <2>2. now + TtlLeft(tok[j]) >= tok[j] /\ TtlLeft(tok[j]) \in Nat
    BY <1>0, TtlLeftReaches
  <2> QED
    BY <1>0, <1>6, <2>1, <2>2 DEF Tracked
<1>7. ASSUME NEW w \in Workers, NEW done \in SUBSET Fields(req[w].snap),
             NEW del \in BOOLEAN, Pipeline(w, done, del)
      PROVE  Tracked(j)'
  <2>1. CASE j \in done
    BY <1>7, <2>1, PipelineReaches DEF Pipeline, Tracked
  <2>2. CASE j \notin done /\ ~del
    BY <1>7, <2>2, PipelineReaches DEF Pipeline, Tracked
  <2>3. CASE j \notin done /\ del
    BY <1>7, <2>3, PipelineReaches DEF Pipeline, Tracked, Fields
  <2> QED BY <2>1, <2>2, <2>3
<1>8. CASE Tick
  <2>1. CASE indexEnd # 0 /\ indexEnd <= now + 1
    BY <1>0, <1>8, <2>1 DEF Tick, Tracked
  <2>2. CASE ~(indexEnd # 0 /\ indexEnd <= now + 1)
    BY <1>0, <1>8, <2>2 DEF Tick, Tracked
  <2> QED BY <2>1, <2>2
<1>9. CASE UNCHANGED vars
  BY <1>5, <1>9 DEF vars
<1>10. ASSUME NEW w \in Workers, Issue(w) PROVE Tracked(j)'
  BY <1>1, <1>2, <1>3, <1>4, <1>5, <1>10 DEF Issue, Deliver
<1>11. ASSUME NEW w \in Workers, RunPipeline(w) PROVE Tracked(j)'
  BY <1>7, <1>11 DEF RunPipeline
<1>12. ASSUME NEW w \in Workers, NEW k \in Jtis, RevokeToken(w, k) PROVE Tracked(j)'
  BY <1>6, <1>12 DEF RevokeToken
<1>13. ASSUME NEW w \in Workers, NEW k \in Jtis, LogOut(w, k) PROVE Tracked(j)'
  BY <1>5, <1>6, <1>13 DEF LogOut
<1>14. ASSUME NEW w \in Workers, Revoke(w) PROVE Tracked(j)'
  BY <1>5, <1>11, <1>12, <1>13, <1>14
     DEF Revoke, RevokeUser, ReadIndex, ReadEmptyIndex, RevokeFails
<1>15. ASSUME NEW w \in Workers, Crash(w) PROVE Tracked(j)'
  BY <1>5, <1>15 DEF Crash
<1> QED
  BY <1>8, <1>9, <1>10, <1>14, <1>15 DEF Next

\* The token whose HSET is sent, or fails, is tracked, or excused, from then.
LEMMA HsetTracks ==
  ASSUME TypeOK, Issuing, NEW w \in Workers, Hset(w) \/ TrackFails(w)
  PROVE  \A j \in req[w].jti : Tracked(j)'
<1>1. CASE Hset(w)
  <2>1. PICK j \in Jtis : /\ req[w].jti = {j} /\ tok[j] # 0
                          /\ tok[j] <= now + req[w].ttl /\ req[w].ttl \in Nat
    BY <1>1 DEF Hset, Issuing, TypeOK, Request
  <2>2. /\ index' = [index EXCEPT ![j] = now + req[w].ttl]
        /\ excused' = IF indexEnd # 0 /\ indexEnd < tok[j]
                      THEN excused \cup {j} ELSE excused
        /\ indexEnd' = indexEnd /\ tok' = tok
    BY <1>1, <2>1 DEF Hset
  <2>3. index'[j] = now + req[w].ttl /\ tok[j] \in Nat /\ now \in Nat /\ indexEnd \in Nat
    BY <2>2 DEF TypeOK
  <2>4. now + req[w].ttl # 0
    <3>1. ASSUME NEW t \in Nat, NEW d \in Nat, NEW e \in Nat, e # 0, e <= t + d
          PROVE  t + d # 0
      BY <3>1
    <3> QED BY <2>1, <2>3, <3>1
  <2> QED
    BY <2>1, <2>2, <2>3, <2>4 DEF Tracked
<1>2. CASE TrackFails(w)
  BY <1>2 DEF TrackFails, Tracked
<1> QED BY <1>1, <1>2

LEMMA TrackedInductive == IInv /\ [Next]_vars => AllTracked'
<1> SUFFICES ASSUME IInv, [Next]_vars PROVE AllTracked'
  OBVIOUS
<1> USE DEF IInv
<1>1. \A j \in Jtis : tok[j] # 0 /\ Tracked(j) => Tracked(j)'
  BY TrackedStays
<1>2. \A j \in held : Tracked(j)'
  BY <1>1 DEF AllTracked, TypeOK
<1>3. \A w \in Workers : req[w].pc \in {"expire", "reply"} =>
        \A j \in req[w].jti : Tracked(j)'
  BY <1>1 DEF AllTracked, Issuing
<1>4. ASSUME NEW w \in Workers, held' = held, \A v \in Workers \ {w} : req'[v] = req[v],
             req'[w].pc \notin {"expire", "reply"}
      PROVE  AllTracked'
  BY <1>2, <1>3, <1>4 DEF AllTracked
<1>5. ASSUME NEW w \in Workers, held' = held, NEW r \in Request, Become(w, r),
             r.pc \notin {"expire", "reply"}
      PROVE  AllTracked'
  <2>1. req'[w] = r /\ \A v \in Workers \ {w} : req'[v] = req[v]
    BY <1>5 DEF Become, TypeOK
  <2> QED BY <1>4, <1>5, <2>1
<1>6. ASSUME NEW w \in Workers, held' = held, Become(w, Idle) PROVE AllTracked'
  BY <1>5, <1>6, IdleType
<1>7. ASSUME NEW w \in Workers, held' = held, NEW p \in {"expire", "reply"},
             Become(w, [req[w] EXCEPT !.pc = p]), \A j \in req[w].jti : Tracked(j)'
      PROVE  AllTracked'
  <2>1. req'[w].jti = req[w].jti /\ \A v \in Workers \ {w} : req'[v] = req[v]
    <3>1. req[w] \in Request
      BY DEF TypeOK
    <3>2. req'[w] = [req[w] EXCEPT !.pc = p] /\ \A v \in Workers \ {w} : req'[v] = req[v]
      BY <1>7, BecomeNext, TypeReq
    <3> QED BY <3>1, <3>2 DEF Request
  <2>2. ASSUME NEW v \in Workers, req'[v].pc \in {"expire", "reply"}
        PROVE  \A j \in req'[v].jti : Tracked(j)'
    <3>1. CASE v = w
      BY <1>7, <2>1, <3>1
    <3>2. CASE v # w
      BY <1>3, <2>1, <2>2, <3>2
    <3> QED BY <3>1, <3>2
  <2> QED
    BY <1>2, <1>7, <2>2 DEF AllTracked
<1>8. ASSUME NEW w \in Workers, Issue(w) PROVE AllTracked'
  <2>1. ASSUME NEW j \in Jtis, NEW c \in Clients, Sign(w, j, c) PROVE AllTracked'
    <3>1. /\ [Idle EXCEPT !.pc = "hset", !.jti = {j}, !.ttl = Ttl[c]] \in Request
          /\ [Idle EXCEPT !.pc = "hset", !.jti = {j}, !.ttl = Ttl[c]].pc = "hset"
      BY IdleType DEF Request, Idle
    <3> QED BY <1>5, <2>1, <3>1 DEF Sign
  <2>2. CASE Hset(w)
    BY <1>7, <2>2, HsetTracks DEF Hset
  <2>3. CASE ExpireIndex(w)
    BY <1>3, <1>7, <2>3 DEF ExpireIndex
  <2>4. CASE TrackFails(w)
    BY <1>7, <2>4, HsetTracks DEF TrackFails
  <2>5. CASE Deliver(w)
    <3>1. \A v \in Workers : req'[v].pc \in {"expire", "reply"} => req'[v] = req[v]
      BY <2>5, BecomeIdle, TypeReq, IdleType DEF Deliver
    <3>2. \A j \in held' : Tracked(j)'
      BY <1>2, <1>3, <2>5 DEF Deliver
    <3> QED BY <1>3, <3>1, <3>2 DEF AllTracked
  <2> QED BY <1>8, <2>1, <2>2, <2>3, <2>4, <2>5 DEF Issue
<1>9. ASSUME NEW w \in Workers, Revoke(w) PROVE AllTracked'
  <2>1. ASSUME Become(w, [Idle EXCEPT !.pc = "revoke"]), held' = held
        PROVE  AllTracked'
    <3>1. /\ [Idle EXCEPT !.pc = "revoke"] \in Request
          /\ [Idle EXCEPT !.pc = "revoke"].pc = "revoke"
      BY IdleType DEF Request, InUse, TypeOK, Idle
    <3> QED BY <1>5, <2>1, <3>1
  <2>2. CASE ReadIndex(w)
    <3>1. /\ [req[w] EXCEPT !.pc = "pipeline", !.snap = index] \in Request
          /\ [req[w] EXCEPT !.pc = "pipeline", !.snap = index].pc = "pipeline"
      BY DEF TypeOK, Request
    <3> QED BY <1>5, <2>2, <3>1 DEF ReadIndex
  <2>3. ASSUME NEW j \in Jtis, RevokeToken(w, j) PROVE AllTracked'
    BY <1>2, <1>3, <2>3 DEF RevokeToken, AllTracked
  <2>4. ASSUME NEW j \in Jtis, LogOut(w, j) PROVE AllTracked'
    BY <2>1, <2>4 DEF LogOut
  <2>5. CASE RunPipeline(w)
    BY <1>6, <2>5 DEF RunPipeline, Pipeline
  <2> QED
    BY <1>6, <1>9, <2>1, <2>2, <2>3, <2>4, <2>5
       DEF Revoke, RevokeUser, ReadEmptyIndex, RevokeFails
<1>10. ASSUME NEW w \in Workers, Crash(w) PROVE AllTracked'
  BY <1>6, <1>10 DEF Crash
<1>11. CASE Tick \/ UNCHANGED vars
  BY <1>2, <1>3, <1>11 DEF Tick, vars, AllTracked
<1> QED
  BY <1>8, <1>9, <1>10, <1>11 DEF Next

-----------------------------------------------------------------------------
(* Theorems *)

LEMMA InitInvariant == Init => IInv
<1> SUFFICES ASSUME Init PROVE IInv
  OBVIOUS
<1>1. TypeOK
  BY IdleType DEF Init, TypeOK, NoHash
<1>2. Issuing /\ FieldsReach /\ StoppedReach /\ AllTracked
  BY IdleType DEF Init, Issuing, FieldsReach, SnapsReach, Reaches, NoHash, StoppedReach,
     AllTracked
<1> QED BY <1>1, <1>2 DEF IInv

LEMMA Invariance == Spec => []IInv
<1>1. IInv /\ [Next]_vars => IInv'
  BY TypeInductive, IssuingInductive, FieldsInductive, StoppedInductive, TrackedInductive
     DEF IInv
<1> QED
  BY InitInvariant, <1>1, PTL DEF Spec

\* The clock, the tokens, the Redis keys and the handlers keep their types; a
\* pipeline is started only for a hash that has fields.
THEOREM TypeCorrect == Spec => []TypeOK
<1>1. IInv => TypeOK
  BY DEF IInv
<1> QED
  BY Invariance, <1>1, PTL

\* A token whose blocklist key was written is refused until its exp, by the
\* Portal and by the Gateway: no later write to its key shortens it below that.
THEOREM StoppedIsRefused == Spec => []RevokedUntilExpiry
<1>1. IInv => RevokedUntilExpiry
  BY DEF IInv, TypeOK, StoppedReach, RevokedUntilExpiry, GatewayAccepts, PortalAccepts, Blocked
<1> QED
  BY Invariance, <1>1, PTL

\* A token in use is in the hash of its user unless one of the named losses
\* has hit it: revocation of a user can miss a token in no other way.
THEOREM RevocationFindsTokens == Spec => []IndexCoversTokensInUse
<1>1. IInv => IndexCoversTokensInUse
  BY DEF IInv, TypeOK, AllTracked, Tracked, IndexCoversTokensInUse, InUse, PortalAccepts, Blocked
<1> QED
  BY Invariance, <1>1, PTL
=============================================================================

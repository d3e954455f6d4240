--------------------------- MODULE FrontDoorProofs ---------------------------
(***************************************************************************)
(* Proofs about the parts of the front door: GatewayRequests, SigningKeys, *)
(* JwksCache, Certificates, OAuthClients, LoginAttempts and AuthorizeFlow, *)
(* for any limits, periods and numbers of logins at a time, of tabs, users *)
(* and mishaps.                                                            *)
(* A step of one part leaves the variables of the others alone, so each    *)
(* part has an invariant of its own:                                       *)
(*   RequestInv   what a stage of a request knows of its sender;           *)
(*   KeyInv       when each key was made, published and last used;         *)
(*   JwksInv      which fetch will find a key that was refused;            *)
(*   CertInv      what a renewal under way does to the time that is left;  *)
(*   AppInv       which secrets exist, and what a refused one goes by;     *)
(*   AttemptInv   what each login still owes the counters;                 *)
(*   FlowInv      which cookies, requests and codes a tab's place implies; *)
(*   CauseInv     what a tab that works alone has for its next end point.  *)
(***************************************************************************)
EXTENDS FrontDoor, FiniteSetTheorems, TLAPS

(* Requests at the Gateway *)

Stages == {"idle", "limit", "route", "authenticate", "forward", "connect", "upstream", "answered"}
Verified == {"valid", "near", "new"}

\* Before the check a request has no identity; with one it has passed it, and
\* only a path that nobody is asked for goes on without.
PassedChecks ==
  /\ stage \in Stages
  /\ stage # "idle" => ask \in Inbound
  /\ stage \in {"idle", "limit", "route", "authenticate"} => identity = Nothing
  /\ stage \in {"forward", "connect"} =>
       /\ identity \in Verified \cup {Nothing}
       /\ class \in {"Protected", "Microservice"} => identity # Nothing

RequestInv == PassedChecks /\ UpstreamSeesVerified

LEMMA RequestInitially == RequestInit => RequestInv
BY DEF RequestInit, RequestInv, PassedChecks, UpstreamSeesVerified, Stages

LEMMA ReceiveKeeps == RequestInv /\ Receive => RequestInv'
<1> SUFFICES ASSUME RequestInv, Receive PROVE RequestInv'
  OBVIOUS
<1> USE DEF RequestInv, PassedChecks, Stages
<1>1. ask' \in Inbound /\ identity' = Nothing
  BY DEF Receive
<1>2. stage' = "answered" \/ (stage' = "forward" /\ class' = "Static") \/ stage' = "limit"
  BY DEF Receive, Answer
<1> QED BY <1>1, <1>2 DEF UpstreamSeesVerified, Nothing

LEMMA RoutingKeeps ==
  RequestInv /\ (Observe \/ LimitWindowOver \/ Intercept \/ UpstreamPeer \/ NewCtx) => RequestInv'
<1> SUFFICES ASSUME RequestInv, Observe \/ LimitWindowOver \/ Intercept \/ UpstreamPeer \/ NewCtx
             PROVE  RequestInv'
  OBVIOUS
<1> USE DEF RequestInv, PassedChecks, Stages, Verified, Nothing, UpstreamSeesVerified, Answer
<1>1. CASE Observe
  BY <1>1 DEF Observe
<1>2. CASE LimitWindowOver
  BY <1>2 DEF LimitWindowOver
<1>3. CASE Intercept
  BY <1>3 DEF Intercept
<1>4. CASE UpstreamPeer
  BY <1>4 DEF UpstreamPeer
<1>5. CASE NewCtx
  BY <1>5 DEF NewCtx
<1> QED BY <1>1, <1>2, <1>3, <1>4, <1>5

\* A request goes on from the check with a token that is good, or with the
\* one it was refreshed to.
LEMMA AuthenticateKeeps == RequestInv /\ Authenticate => RequestInv'
<1> SUFFICES ASSUME RequestInv, Authenticate PROVE RequestInv'
  OBVIOUS
<1> USE DEF RequestInv, PassedChecks, Stages
<1>1. ask' = ask /\ class' = class /\ ask \in Inbound /\ ask.at \in Tokens
  BY DEF Authenticate, Inbound
<1>2. stage' = "answered" \/ (stage' = "forward" /\ identity' \in Verified)
  <2>1. CASE ask.at \in {"none", "unreadable", "unknownKey", "revoked"}
    BY <2>1 DEF Authenticate, AuthFailureDecision, PkceRequired, Answer
  <2>2. CASE ask.at \notin {"none", "unreadable", "unknownKey", "revoked"}
    <3>1. PICK pair \in {Nothing, "readable", "unreadable"} :
            /\ identity' = IF pair = "readable" THEN "new" ELSE ask.at
            /\ IF Blocks(ask.at, pair)
                 THEN AuthFailureDecision(pair # Nothing)
                 ELSE stage' = "forward" /\ UNCHANGED answer
      BY <2>2 DEF Authenticate
    <3>2. ask.at \in {"valid", "near", "expired"}
      BY <1>1, <2>2 DEF Tokens
    <3> QED BY <3>1, <3>2 DEF Blocks, Verified, AuthFailureDecision, PkceRequired, Answer
  <2> QED BY <2>1, <2>2
<1> QED BY <1>1, <1>2 DEF UpstreamSeesVerified, Nothing, Verified

\* What the upstream gets of the headers and cookies.
LEMMA UpstreamRequestFilterKeeps == RequestInv /\ UpstreamRequestFilter => RequestInv'
<1> SUFFICES ASSUME RequestInv, UpstreamRequestFilter PROVE RequestInv'
  OBVIOUS
<1> USE DEF RequestInv, PassedChecks, Stages
<1>1. /\ stage' = "upstream" /\ class' = class /\ ask' = ask /\ ask \in Inbound
      /\ identity \in Verified \cup {Nothing}
      /\ class \in {"Protected", "Microservice"} => identity # Nothing
  BY DEF UpstreamRequestFilter
<1>2. /\ upstream'.user = identity
      /\ upstream'.authorization = IF identity # Nothing THEN identity ELSE StripIdentityHeaders
      /\ upstream'.cookies = RewriteUpstreamCookies
  BY DEF UpstreamRequestFilter
<1>3. class \in {"Protected", "Microservice"} => ~RewriteUpstreamCookies.rt
  BY DEF RewriteUpstreamCookies, RewriteProtectedCookies
<1>4. StripIdentityHeaders = "own" => class = "Public"
  BY DEF StripIdentityHeaders, Nothing
<1> QED BY <1>1, <1>2, <1>3, <1>4 DEF UpstreamSeesVerified, Verified, Nothing

LEMMA RequestKeeps == RequestInv /\ [RequestNext]_requestVars => RequestInv'
<1> SUFFICES ASSUME RequestInv, [RequestNext]_requestVars PROVE RequestInv'
  OBVIOUS
<1>1. CASE ResponseFilter
  BY <1>1 DEF ResponseFilter, Answer, RequestInv, PassedChecks, Stages, UpstreamSeesVerified
<1>2. CASE UNCHANGED requestVars
  BY <1>2 DEF requestVars, RequestInv, PassedChecks, UpstreamSeesVerified
<1> QED
  BY <1>1, <1>2, ReceiveKeeps, RoutingKeeps, AuthenticateKeeps, UpstreamRequestFilterKeeps
  DEF RequestNext

\* The steps of the other sections leave the requests alone.
LEMMA OnlyRequestSteps == [Next]_vars => [RequestNext]_requestVars
BY DEF Next, vars, requestVars, FlowStep, AttemptStep, SigningStep, JwksStep, CertStep, RequestStep,
       AppStep

\* UpstreamSeesVerified (gateway.rs, authenticate.rs) for every request, every
\* path and every limit.
THEOREM UpstreamIsTold == Spec => []UpstreamSeesVerified
<1>1. Init => RequestInv
  BY RequestInitially DEF Init
<1>2. RequestInv /\ [Next]_vars => RequestInv'
  BY OnlyRequestSteps, RequestKeeps
<1>3. RequestInv => UpstreamSeesVerified
  BY DEF RequestInv
<1> QED BY <1>1, <1>2, <1>3, PTL DEF Spec

-----------------------------------------------------------------------------
(* Signing keys *)

Requests == [pc : {"idle", "queue", "recheck", "insert", "use"}, before : Nat, began : Nat, key : Nat]

KeyType ==
  /\ now \in Nat /\ keys \in Seq(Nat) /\ Len(keys) <= MaxKeys
  /\ handler \in [Handlers -> Requests] /\ signed \in [Kids -> Nat]

\* A request is over before the second tick after its start.
Prompt ==
  \A h \in Handlers : handler[h].pc # "idle" =>
    /\ handler[h].began <= now /\ now <= handler[h].began + 1
    /\ handler[h].before = handler[h].began + RenewAhead

\* The key a request holds is good for as long as the request may last.
KeyOutlastsRequest ==
  \A h \in Handlers : handler[h].pc = "use" =>
    handler[h].key \in DOMAIN keys /\ handler[h].before <= keys[handler[h].key]

\* Nothing is signed with a key but ahead of its end.
SignedBeforeEnd == \A k \in DOMAIN keys : signed[k] # 0 => signed[k] + RenewAhead <= keys[k] + 1
UnmadeUnused == \A k \in Kids : k \notin DOMAIN keys => signed[k] = 0

KeyInv == KeyType /\ Prompt /\ KeyOutlastsRequest /\ SignedBeforeEnd /\ UnmadeUnused

LEMMA TimesType ==
  /\ Life \in Nat /\ RenewAhead \in Nat /\ PublishGrace \in Nat /\ TokenTtl \in Nat
  /\ RenewAhead < Life /\ TokenTtl + 1 < RenewAhead + PublishGrace
BY KeyTimesAssumption

LEMMA RestType == Rest \in Requests
BY DEF Rest, Requests

\* A request as it begins.
LEMMA BegunType ==
  ASSUME NEW a \in Nat, NEW b \in Nat
  PROVE  \E r \in Requests :
           /\ r = [Rest EXCEPT !.before = b, !.began = a]
           /\ r.pc = "idle" /\ r.before = b /\ r.began = a
<1>1. \A q \in Requests : q.pc = "idle" =>
        LET r == [q EXCEPT !.before = b, !.began = a]
        IN r \in Requests /\ r.pc = "idle" /\ r.before = b /\ r.began = a
  BY DEF Requests
<1>2. Rest \in Requests /\ Rest.pc = "idle"
  BY RestType DEF Rest
<1> QED BY <1>1, <1>2

\* Where a request gets to.
LEMMA StepType ==
  ASSUME NEW r \in Requests, NEW pc \in {"idle", "queue", "recheck", "insert", "use"}, NEW k \in Nat
  PROVE  /\ [r EXCEPT !.pc = pc] \in Requests
         /\ [r EXCEPT !.pc = pc].pc = pc /\ [r EXCEPT !.pc = pc].key = r.key
         /\ [r EXCEPT !.pc = pc].before = r.before /\ [r EXCEPT !.pc = pc].began = r.began
         /\ [r EXCEPT !.pc = pc, !.key = k] \in Requests
         /\ [r EXCEPT !.pc = pc, !.key = k].pc = pc /\ [r EXCEPT !.pc = pc, !.key = k].key = k
         /\ [r EXCEPT !.pc = pc, !.key = k].before = r.before
         /\ [r EXCEPT !.pc = pc, !.key = k].began = r.began
BY DEF Requests

LEMMA KeyInitially == KeyInit => KeyInv
<1> SUFFICES ASSUME KeyInit PROVE KeyInv
  OBVIOUS
<1> USE KeysAssumption
<1>1. keys = << >> /\ Len(keys) = 0 /\ DOMAIN keys = {}
  BY DEF KeyInit
<1> QED
  BY <1>1 DEF KeyInit, KeyInv, KeyType, Prompt, KeyOutlastsRequest, SignedBeforeEnd, UnmadeUnused,
    Rest, Requests

\* A request takes its time with it.
LEMMA GetActiveSigningKeyKeeps ==
  ASSUME KeyInv, NEW h \in Handlers, GetActiveSigningKey(h) PROVE KeyInv'
<1> USE TimesType
<1> USE DEF KeyInv, KeyType, Requests
<1>0. UNCHANGED <<now, keys, signed>>
  BY ZenonT(20) DEF GetActiveSigningKey
<1>1. now \in Nat /\ now + RenewAhead \in Nat /\ UNCHANGED <<now, keys, signed>>
  BY <1>0
<1>2. PICK q \in Requests :
        /\ q = [Rest EXCEPT !.before = now + RenewAhead, !.began = now]
        /\ q.pc = "idle" /\ q.before = now + RenewAhead /\ q.began = now
  BY <1>1, BegunType
<1>3. \/ handler' = [handler EXCEPT ![h] = [q EXCEPT !.pc = "queue"]]
      \/ \E k \in Usable(q.before) :
           handler' = [handler EXCEPT ![h] = [q EXCEPT !.pc = "use", !.key = k]]
  BY <1>2 DEF GetActiveSigningKey
<1>4. \A k \in Usable(q.before) : k \in DOMAIN keys /\ k \in Nat /\ q.before <= keys[k]
  BY <1>1, <1>2, SMTT(30) DEF Usable, Newest, ExpiresBefore
<1>5. PICK r \in Requests :
        /\ handler' = [handler EXCEPT ![h] = r]
        /\ r.before = q.before /\ r.began = q.began
        /\ r.pc = "use" => r.key \in DOMAIN keys /\ r.before <= keys[r.key]
  <2>1. CASE handler' = [handler EXCEPT ![h] = [q EXCEPT !.pc = "queue"]]
    <3>1. LET r == [q EXCEPT !.pc = "queue"]
          IN r \in Requests /\ r.pc = "queue" /\ r.before = q.before /\ r.began = q.began
      OBVIOUS
    <3> QED BY <2>1, <3>1
  <2>2. ASSUME NEW k \in Usable(q.before),
               handler' = [handler EXCEPT ![h] = [q EXCEPT !.pc = "use", !.key = k]]
        PROVE  \E r \in Requests :
                 /\ handler' = [handler EXCEPT ![h] = r]
                 /\ r.before = q.before /\ r.began = q.began
                 /\ r.pc = "use" => r.key \in DOMAIN keys /\ r.before <= keys[r.key]
    <3>1. k \in Nat /\ k \in DOMAIN keys /\ q.before <= keys[k]
      BY <1>4
    <3>2. LET r == [q EXCEPT !.pc = "use", !.key = k]
          IN r \in Requests /\ r.pc = "use" /\ r.key = k /\ r.before = q.before /\ r.began = q.began
      BY <3>1
    <3> QED BY <2>2, <3>1, <3>2
  <2> QED BY <1>3, <2>1, <2>2
<1>6. KeyType'
  BY <1>1, <1>5
<1>7. Prompt'
  <2>1. now <= now + 1 /\ r.began = now /\ r.before = r.began + RenewAhead
    BY <1>1, <1>2, <1>5
  <2> QED BY <1>1, <1>5, <2>1 DEF Prompt
<1>8. KeyOutlastsRequest'
  BY <1>1, <1>2, <1>5 DEF KeyOutlastsRequest
<1> QED BY <1>1, <1>6, <1>7, <1>8 DEF SignedBeforeEnd, UnmadeUnused

LEMMA LockKeeps == ASSUME KeyInv, NEW h \in Handlers, Lock(h) PROVE KeyInv'
BY DEF Lock, KeyInv, KeyType, Requests, Prompt, KeyOutlastsRequest, SignedBeforeEnd, UnmadeUnused

LEMMA ReuseKeeps ==
  ASSUME KeyInv, NEW h \in Handlers, ReuseConcurrentlyCreatedKey(h) PROVE KeyInv'
<1> USE DEF KeyInv, KeyType, Requests
<1>1. handler[h].pc = "recheck" /\ UNCHANGED <<now, keys, signed>>
  BY DEF ReuseConcurrentlyCreatedKey
<1>2. \A k \in Usable(handler[h].before) :
        k \in DOMAIN keys /\ k \in Nat /\ handler[h].before <= keys[k]
  BY DEF Usable, Newest, ExpiresBefore
<1>3. PICK r \in Requests :
        /\ handler' = [handler EXCEPT ![h] = r]
        /\ r.before = handler[h].before /\ r.began = handler[h].began
        /\ r.pc = "use" => r.key \in DOMAIN keys /\ r.before <= keys[r.key]
  BY <1>2 DEF ReuseConcurrentlyCreatedKey
<1>4. KeyType'
  BY <1>1, <1>3
<1>5. Prompt'
  BY <1>1, <1>3 DEF Prompt
<1>6. KeyOutlastsRequest'
  BY <1>1, <1>3 DEF KeyOutlastsRequest
<1> QED BY <1>1, <1>4, <1>5, <1>6 DEF SignedBeforeEnd, UnmadeUnused

\* A new key outlives the window, as its life is longer.
LEMMA GenerateKeeps ==
  ASSUME KeyInv, NEW h \in Handlers, GenerateAndPersistKeyPair(h) PROVE KeyInv'
<1> USE TimesType, KeysAssumption
<1> USE DEF KeyInv, KeyType, Requests
<1> DEFINE n == Len(keys) + 1
<1>1. /\ handler[h].pc = "insert" /\ Len(keys) < MaxKeys /\ UNCHANGED <<now, signed>>
      /\ keys' = Append(keys, now + Life)
      /\ handler' = [handler EXCEPT ![h].pc = "use", ![h].key = n]
  BY DEF GenerateAndPersistKeyPair
<1>2. /\ keys' \in Seq(Nat) /\ Len(keys') = n /\ DOMAIN keys' = 1..n /\ DOMAIN keys = 1..Len(keys)
      /\ keys'[n] = now + Life /\ \A k \in DOMAIN keys : keys'[k] = keys[k]
      /\ n = Len(keys) + 1 /\ n <= MaxKeys
  BY <1>1, SMTT(30)
<1>3. handler[h].before <= now + Life /\ n \in Nat /\ n \in Kids
  <2>1. handler[h].began \in Nat /\ now \in Nat
    OBVIOUS
  <2>2. handler[h].began <= now /\ handler[h].before = handler[h].began + RenewAhead
    BY <1>1 DEF Prompt
  <2>3. handler[h].before <= now + Life
    BY <2>1, <2>2
  <2>4. n \in Nat /\ n \in Kids
    BY <1>1 DEF Kids
  <2> QED BY <2>3, <2>4
<1>8. PICK r \in Requests :
        /\ handler' = [handler EXCEPT ![h] = r]
        /\ r.pc = "use" /\ r.key = n /\ r.before = handler[h].before /\ r.began = handler[h].began
  <2>1. handler[h] \in Requests
    OBVIOUS
  <2>2. handler' = [handler EXCEPT ![h] = [handler[h] EXCEPT !.pc = "use", !.key = n]]
    BY <1>1
  <2>3. \A q \in Requests : 
          LET r == [q EXCEPT !.pc = "use", !.key = n]
          IN r \in Requests /\ r.pc = "use" /\ r.key = n /\ r.before = q.before /\ r.began = q.began
    BY <1>3
  <2> QED BY <2>1, <2>2, <2>3
<1> HIDE DEF n
<1>4. KeyType'
  BY <1>1, <1>2, <1>3, <1>8
<1>5. Prompt'
  BY <1>1, <1>8, SMTT(30) DEF Prompt
<1>6. KeyOutlastsRequest'
  <2> SUFFICES ASSUME NEW g \in Handlers, handler'[g].pc = "use"
               PROVE  handler'[g].key \in DOMAIN keys' /\ handler'[g].before <= keys'[handler'[g].key]
    BY DEF KeyOutlastsRequest
  <2>1. CASE g = h
    <3>1. handler'[g] = r
      BY <1>1, <1>8, <2>1
    <3> QED BY <1>2, <1>3, <1>8, <3>1
  <2>2. CASE g # h
    <3>1. handler'[g] = handler[g] /\ handler[g].key \in DOMAIN keys
      BY <1>8, <2>2 DEF KeyOutlastsRequest
    <3> QED BY <1>2, <3>1, SMTT(30) DEF KeyOutlastsRequest
  <2> QED BY <2>1, <2>2
<1>7. SignedBeforeEnd'
  <2> SUFFICES ASSUME NEW k \in DOMAIN keys', signed[k] # 0 PROVE signed[k] + RenewAhead <= keys'[k] + 1
    BY <1>1 DEF SignedBeforeEnd
  <2>1. k \in DOMAIN keys
    BY <1>2, <1>3 DEF UnmadeUnused
  <2> QED BY <1>2, <2>1 DEF SignedBeforeEnd
<1>9. UnmadeUnused'
  BY <1>1, <1>2, SMTT(30) DEF UnmadeUnused
<1> QED BY <1>4, <1>5, <1>6, <1>7, <1>9

\* What is signed is signed with a key that has more to go than the request.
LEMMA FinishKeeps == ASSUME KeyInv, NEW h \in Handlers, Finish(h) PROVE KeyInv'
<1> USE TimesType, KeysAssumption
<1> USE DEF KeyInv, KeyType, Requests
<1> DEFINE k == handler[h].key
<1>1. /\ handler[h].pc = "use" /\ UNCHANGED <<now, keys>>
      /\ handler' = [handler EXCEPT ![h] = Rest]
      /\ signed' = signed \/ signed' = [signed EXCEPT ![k] = now]
  BY DEF Finish
<1>2. k \in DOMAIN keys /\ now + RenewAhead <= keys[k] + 1 /\ k \in Kids
  <2>1. k \in DOMAIN keys /\ handler[h].began + RenewAhead <= keys[k] /\ now <= handler[h].began + 1
    BY <1>1 DEF Prompt, KeyOutlastsRequest
  <2>2. keys[k] \in Nat /\ k \in 1..Len(keys)
    BY <2>1
  <2> QED BY <2>1, <2>2, SMTT(30) DEF Kids
<1>3. KeyType'
  BY <1>1, <1>2 DEF Rest
<1>4. Prompt'
  BY <1>1 DEF Prompt, Rest
<1>5. KeyOutlastsRequest'
  BY <1>1 DEF KeyOutlastsRequest, Rest
<1>6. \A j \in Kids \ {k} : signed'[j] = signed[j]
  BY <1>1
<1>7. signed'[k] \in {signed[k], now}
  BY <1>1, <1>2
<1>8. DOMAIN keys \subseteq Kids
  BY DEF Kids
<1>9. SignedBeforeEnd'
  BY <1>1, <1>2, <1>6, <1>7, <1>8 DEF SignedBeforeEnd
<1>10. UnmadeUnused'
  BY <1>1, <1>2, <1>6 DEF UnmadeUnused
<1> QED BY <1>3, <1>4, <1>5, <1>9, <1>10

LEMMA TickKeeps == KeyInv /\ Tick => KeyInv'
BY DEF Tick, KeyInv, KeyType, Requests, Prompt, KeyOutlastsRequest, SignedBeforeEnd, UnmadeUnused

LEMMA KeyKeeps == KeyInv /\ [KeyNext]_keyVars => KeyInv'
<1> SUFFICES ASSUME KeyInv, [KeyNext]_keyVars PROVE KeyInv'
  OBVIOUS
<1>1. CASE UNCHANGED keyVars
  BY <1>1 DEF keyVars, KeyInv, KeyType, Prompt, KeyOutlastsRequest, SignedBeforeEnd, UnmadeUnused
<1> QED
  BY <1>1, GetActiveSigningKeyKeeps, LockKeeps, ReuseKeeps, GenerateKeeps, FinishKeeps, TickKeeps
  DEF KeyNext

LEMMA KeyInvSuffices == KeyInv => TokensVerifiable
<1> SUFFICES ASSUME KeyInv, NEW k \in DOMAIN keys, signed[k] # 0, now <= signed[k] + TokenTtl
             PROVE  k \in Published
  BY DEF TokensVerifiable
<1>1. k \in Kids /\ keys[k] \in Nat /\ signed[k] \in Nat /\ now \in Nat
  BY KeysAssumption DEF KeyInv, KeyType, Kids
<1>2. signed[k] + RenewAhead <= keys[k] + 1
  BY DEF KeyInv, SignedBeforeEnd
<1> QED BY <1>1, <1>2, TimesType DEF Published

\* The steps of the other sections leave the signing keys alone.
LEMMA OnlySigningSteps == [Next]_vars => [KeyNext]_keyVars
BY DEF Next, vars, keyVars, FlowStep, AttemptStep, SigningStep, JwksStep, CertStep, RequestStep,
       AppStep

\* TokensVerifiable (signing-keys.ts, oidc.ts): whatever handlers create, share and
\* use keys, a token that has not expired is of a key the JWKS endpoint has.
THEOREM PublishedLongEnough == Spec => []TokensVerifiable
<1>1. Init => KeyInv
  BY KeyInitially DEF Init
<1>2. KeyInv /\ [Next]_vars => KeyInv'
  BY OnlySigningSteps, KeyKeeps
<1> QED BY <1>1, <1>2, KeyInvSuffices, PTL DEF Spec

-----------------------------------------------------------------------------
(* The Gateway's copy of the keys *)

Loops == [pc : {"fetch", "wait"}, ready : BOOLEAN, tries : Nat, due : Nat, began : Nat]

JwksType ==
  /\ clock \in Nat /\ 0 < clock /\ clock <= MaxClock /\ table \in Seq(Nat) /\ lastSigned \in [CacheKids -> Nat]
  /\ cache \in [CacheKids -> Nat] /\ loop \in Loops /\ permit \in BOOLEAN /\ lastAsk \in Nat
  /\ since \in [CacheKids -> Nat] /\ heard \in [CacheKids -> Nat]
  /\ loop.ready => loop.tries <= Len(Backoff)

\* The newest key is made late enough for all before it to have had their time;
\* so that there are no more keys than the clock has room for.
KeysTakeTurns ==
  table # << >> =>
    /\ table[Len(table)] <= clock + Life
    /\ Life + (Len(table) - 1) * (Life - RenewAhead) <= table[Len(table)]

\* No fetch lasts longer than until the next tick.
FetchIsBrief ==
  IF loop.pc = "fetch" THEN loop.began <= clock /\ clock <= loop.began + 1 ELSE got = NoAnswer

\* A key that was refused has signed, ahead of its end.
RefusedHasSigned ==
  \A k \in CacheKids :
    /\ lastSigned[k] # 0 => k \in DOMAIN table /\ lastSigned[k] + RenewAhead <= table[k]
    /\ since[k] # 0 => loop.ready /\ lastSigned[k] # 0

\* Since a key was refused nothing was granted, or what was granted to it.
GrantedOrEarlier ==
  /\ lastAsk <= clock
  /\ \A k \in CacheKids :
       /\ heard[k] # 0 => since[k] # 0 /\ heard[k] <= clock
       /\ since[k] # 0 /\ heard[k] = 0 => lastAsk <= since[k]

\* What is granted to a key leads to a fetch that finds it, as long as it is
\* published: the one under way, or the next, which has its permit.
Publishable(k) == k \in DOMAIN table /\ clock < table[k] + PublishGrace
Finds(k) == loop.pc = "fetch" /\ (got = NoAnswer \/ k \in got) /\ loop.began <= heard[k] + 1
WillFind(k) ==
  permit /\ IF loop.pc = "fetch" THEN loop.began <= heard[k] ELSE clock <= heard[k] + 1
OnItsWay == \A k \in CacheKids : heard[k] # 0 /\ Publishable(k) => Finds(k) \/ WillFind(k)

JwksInv ==
  JwksType /\ KeysTakeTurns /\ FetchIsBrief /\ RefusedHasSigned /\ GrantedOrEarlier /\ OnItsWay

LEMMA JwksTimes ==
  /\ Interval \in Nat /\ MinInterval \in Nat /\ 0 < MinInterval /\ InitRetry \in Nat
  /\ MaxAttempts \in Nat /\ MaxClock \in Nat /\ MinInterval <= MaxClock
  /\ Backoff \in Seq(Nat) /\ Len(Backoff) \in Nat /\ 0 < Len(Backoff)
  /\ \A n \in 1..Len(Backoff) : Backoff[n] \in Nat
<1>1. Backoff \in Seq(Nat \ {0}) /\ Backoff # << >>
  BY JwksAssumption
<1> QED BY <1>1, JwksAssumption

\* As many keys as turns.
LEMMA RoomForKeys ==
  ASSUME NEW n \in Nat, 0 < n, (n - 1) * (Life - RenewAhead) <= MaxClock
  PROVE  n \in CacheKids
<1> DEFINE d == Life - RenewAhead
           m == MaxClock
<1>1. d \in Nat /\ 0 < d /\ m \in Nat
  BY TimesType, JwksTimes
<1>2. (n - 1) * d <= m
  OBVIOUS
<1>3. CacheKids = 1..(m \div d + 1)
  BY DEF CacheKids
<1> HIDE DEF d, m
<1>4. m \div d \in Nat /\ m < d * (m \div d + 1)
  BY <1>1
<1>5. ASSUME m \div d + 1 <= n - 1 PROVE FALSE
  <2>1. d * (m \div d + 1) <= d * (n - 1)
    BY <1>1, <1>4, <1>5
  <2> QED BY <1>1, <1>2, <1>4, <2>1
<1> QED BY <1>3, <1>4, <1>5

LEMMA CacheKidsAre == \E m \in Nat : CacheKids = 1..m
<1> DEFINE d == Life - RenewAhead
<1>1. d \in Nat /\ 0 < d /\ MaxClock \in Nat
  BY TimesType, JwksTimes
<1>2. CacheKids = 1..(MaxClock \div d + 1)
  BY DEF CacheKids
<1> HIDE DEF d
<1>3. MaxClock \div d + 1 \in Nat
  BY <1>1
<1> QED BY <1>2, <1>3

LEMMA NeverIs == Never \in [CacheKids -> Nat] /\ \A k \in CacheKids : Never[k] = 0
BY DEF Never

LEMMA JwksInitially == JwksInit => JwksInv
<1> SUFFICES ASSUME JwksInit PROVE JwksInv
  OBVIOUS
<1>1. /\ clock = MinInterval /\ table = << >> /\ lastSigned = Never /\ cache = Never
      /\ got = NoAnswer /\ permit = FALSE /\ lastAsk = 0 /\ since = Never /\ heard = Never
      /\ loop = [pc |-> "fetch", ready |-> FALSE, tries |-> 0, due |-> 0, began |-> clock]
  BY DEF JwksInit
<1>2. clock \in Nat /\ 0 < clock /\ clock <= MaxClock
  BY <1>1, JwksTimes
<1>3. loop \in Loops /\ loop.pc = "fetch" /\ loop.began = clock /\ ~loop.ready
  BY <1>1, <1>2 DEF Loops
<1>4. JwksType
  <2>1. table \in Seq(Nat)
    BY <1>1
  <2>2. permit \in BOOLEAN /\ lastAsk \in Nat
    BY <1>1
  <2> QED BY <1>1, <1>2, <1>3, <2>1, <2>2, NeverIs DEF JwksType
<1>5. KeysTakeTurns
  BY <1>1 DEF KeysTakeTurns
<1>6. FetchIsBrief
  BY <1>2, <1>3 DEF FetchIsBrief
<1>7. RefusedHasSigned /\ GrantedOrEarlier /\ OnItsWay
  BY <1>1, <1>2, NeverIs DEF RefusedHasSigned, GrantedOrEarlier, OnItsWay
<1> QED BY <1>4, <1>5, <1>6, <1>7 DEF JwksInv

\* The table as the Portal reads it, with a key that is active.
LEMMA ActiveKey ==
  ASSUME JwksInv, table' = KeysWithActive, clock' = clock
  PROVE  /\ table' \in Seq(Nat) /\ KeysTakeTurns'
         /\ table' # << >> /\ Len(table') \in CacheKids
         /\ clock + RenewAhead <= table'[Len(table')]
         /\ \A k \in DOMAIN table : k \in DOMAIN table' /\ table'[k] = table[k]
<1> DEFINE n == Len(table)
           d == Life - RenewAhead
<1>1. clock \in Nat /\ clock <= MaxClock /\ table \in Seq(Nat) /\ n \in Nat /\ d \in Nat /\ 0 < d
  BY TimesType DEF JwksInv, JwksType
<1>2. \A i \in 1..n : table[i] \in Nat
  BY <1>1
<1>3. n # 0 => table[n] <= clock + Life /\ Life + (n - 1) * d <= table[n]
  BY <1>1 DEF JwksInv, KeysTakeTurns
<1>4. CASE n # 0 /\ ~(table[n] < clock + RenewAhead)
  <2>1. table' = table /\ table # << >>
    BY <1>1, <1>4 DEF KeysWithActive
  <2>2. (n - 1) * d \in Nat
    BY <1>1, <1>4
  <2>3. (n - 1) * d <= MaxClock
    <3> HIDE DEF d
    <3>1. table[n] \in Nat /\ table[n] <= clock + Life /\ Life + (n - 1) * d <= table[n]
      BY <1>1, <1>2, <1>3, <1>4
    <3> QED BY <1>1, <2>2, <3>1, TimesType, JwksTimes
  <2>4. n \in CacheKids
    BY <1>1, <1>4, <2>3, RoomForKeys
  <2> QED BY <1>1, <1>2, <1>3, <1>4, <2>1, <2>4, TimesType DEF KeysTakeTurns
<1>5. CASE n = 0 \/ table[n] < clock + RenewAhead
  <2>1. table' = Append(table, clock + Life)
    BY <1>1, <1>5 DEF KeysWithActive
  <2>2. /\ table' \in Seq(Nat) /\ Len(table') = n + 1 /\ table'[n + 1] = clock + Life
        /\ \A i \in 1..n : table'[i] = table[i]
    BY <1>1, <2>1, TimesType
  <2>3. n * d \in Nat
    BY <1>1
  <2>4. n # 0 => n * d = (n - 1) * d + d
    BY <1>1
  <2>5. n # 0 => (n - 1) * d \in Nat
    BY <1>1
  <2>6. n * d <= clock
    <3>1. CASE n = 0
      BY <1>1, <3>1
    <3>2. CASE n # 0
      <4>1. table[n] \in Nat /\ table[n] < clock + RenewAhead
        BY <1>1, <1>2, <1>5, <3>2
      <4>2. d = Life - RenewAhead
        OBVIOUS
      <4> HIDE DEF d
      <4> QED BY <1>1, <1>3, <2>4, <2>5, <3>2, <4>1, <4>2, TimesType
    <3> QED BY <3>1, <3>2
  <2>7. n + 1 \in CacheKids
    <3>1. n + 1 \in Nat /\ 0 < n + 1 /\ (n + 1) - 1 = n
      BY <1>1
    <3>2. n * d <= MaxClock
      <4> HIDE DEF d
      <4> QED BY <1>1, <2>3, <2>6, JwksTimes
    <3> QED BY <3>1, <3>2, RoomForKeys
  <2>8. Life + (Len(table') - 1) * d <= table'[Len(table')]
    BY <1>1, <2>2, <2>3, <2>6, TimesType
  <2>9. KeysTakeTurns'
    BY <1>1, <2>2, <2>8, TimesType DEF KeysTakeTurns
  <2>10. clock + RenewAhead <= table'[Len(table')]
    BY <1>1, <2>2, TimesType
  <2>11. table' # << >> /\ \A k \in DOMAIN table : k \in DOMAIN table' /\ table'[k] = table[k]
    <3>1. DOMAIN table = 1..n /\ DOMAIN table' = 1..n + 1 /\ 0 < n + 1
      BY <1>1, <2>2
    <3> QED BY <1>1, <2>2, <3>1
  <2> QED BY <2>2, <2>7, <2>9, <2>10, <2>11
<1> QED BY <1>1, <1>4, <1>5

\* Every key there is, is one of CacheKids.
LEMMA RoomHere == ASSUME JwksInv, table # << >> PROVE Len(table) \in CacheKids
<1> DEFINE n == Len(table)
           d == Life - RenewAhead
<1>1. clock \in Nat /\ clock <= MaxClock /\ table \in Seq(Nat) /\ n \in Nat /\ d \in Nat /\ 0 < d
  BY TimesType DEF JwksInv, JwksType
<1>2. 0 < n /\ table[n] \in Nat
  BY <1>1
<1>3. table[n] <= clock + Life /\ Life + (n - 1) * d <= table[n]
  BY DEF JwksInv, KeysTakeTurns
<1>4. (n - 1) * d \in Nat
  BY <1>1, <1>2
<1>5. (n - 1) * d <= MaxClock
  <2> HIDE DEF d
  <2> QED BY <1>1, <1>2, <1>3, <1>4, TimesType, JwksTimes
<1> QED BY <1>1, <1>2, <1>5, RoomForKeys

LEMMA SignKeeps == JwksInv /\ Sign => JwksInv'
<1> SUFFICES ASSUME JwksInv, Sign PROVE JwksInv'
  OBVIOUS
<1> DEFINE n == Len(table')
<1>1. /\ table' = KeysWithActive /\ lastSigned' = [lastSigned EXCEPT ![n] = clock]
      /\ UNCHANGED <<clock, cache, loop, got, permit, lastAsk, since, heard>>
  BY DEF Sign
<1>2. /\ table' \in Seq(Nat) /\ KeysTakeTurns' /\ n \in CacheKids /\ n \in DOMAIN table'
      /\ clock + RenewAhead <= table'[n]
      /\ \A k \in DOMAIN table : k \in DOMAIN table' /\ table'[k] = table[k]
  BY <1>1, ActiveKey
<1> HIDE DEF n
<1>3. /\ lastSigned' \in [CacheKids -> Nat]
      /\ \A k \in CacheKids : lastSigned'[k] = IF k = n THEN clock ELSE lastSigned[k]
  BY <1>1, <1>2 DEF JwksInv, JwksType
<1>4. JwksType'
  BY <1>1, <1>2, <1>3 DEF JwksInv, JwksType
<1>5. FetchIsBrief' /\ GrantedOrEarlier'
  BY <1>1 DEF JwksInv, FetchIsBrief, GrantedOrEarlier
<1>6. RefusedHasSigned'
  BY <1>1, <1>2, <1>3 DEF JwksInv, JwksType, RefusedHasSigned
<1>7. \A k \in CacheKids : heard[k] # 0 => k \in DOMAIN table
  BY DEF JwksInv, GrantedOrEarlier, RefusedHasSigned
<1>8. OnItsWay'
  BY <1>1, <1>2, <1>7 DEF JwksInv, OnItsWay, Publishable, Finds, WillFind
<1> QED BY <1>2, <1>4, <1>5, <1>6, <1>8 DEF JwksInv

LEMMA PublishKeeps == JwksInv /\ Publish => JwksInv'
<1> SUFFICES ASSUME JwksInv, Publish PROVE JwksInv'
  OBVIOUS
<1>1. /\ loop.pc = "fetch" /\ got = NoAnswer /\ table' = KeysWithActive
      /\ got' = {k \in DOMAIN table' : table'[k] + PublishGrace > clock}
      /\ UNCHANGED <<clock, lastSigned, cache, loop, permit, lastAsk, since, heard>>
  BY DEF Publish
<1>2. /\ table' \in Seq(Nat) /\ KeysTakeTurns'
      /\ \A k \in DOMAIN table : k \in DOMAIN table' /\ table'[k] = table[k]
  BY <1>1, ActiveKey
<1>3. JwksType'
  BY <1>1, <1>2 DEF JwksInv, JwksType
<1>4. FetchIsBrief' /\ GrantedOrEarlier'
  BY <1>1 DEF JwksInv, FetchIsBrief, GrantedOrEarlier
<1>5. RefusedHasSigned'
  BY <1>1, <1>2 DEF JwksInv, RefusedHasSigned
<1>6. \A k \in CacheKids : heard[k] # 0 => k \in DOMAIN table
  BY DEF JwksInv, GrantedOrEarlier, RefusedHasSigned
<1>7. \A k \in DOMAIN table' : clock < table'[k] + PublishGrace => k \in got'
  <2>1. \A k \in DOMAIN table' : table'[k] \in Nat
    BY <1>2
  <2> QED BY <1>1, <2>1, TimesType DEF JwksInv, JwksType
<1>8. OnItsWay'
  BY <1>1, <1>2, <1>6, <1>7 DEF JwksInv, OnItsWay, Publishable, Finds, WillFind
<1> QED BY <1>2, <1>3, <1>4, <1>5, <1>8 DEF JwksInv

LEMMA VerifyKeeps == ASSUME JwksInv, NEW k \in 0..Len(table), Verify(k) PROVE JwksInv'
<1> DEFINE granted == clock - lastAsk >= MinInterval
           first == IF k # 0 /\ since[k] = 0 THEN [since EXCEPT ![k] = clock] ELSE since
<1>1. /\ loop.ready /\ lastAsk' = (IF granted THEN clock ELSE lastAsk)
      /\ permit' = (permit \/ granted) /\ since' = first
      /\ heard' = [j \in CacheKids |->
                     IF granted /\ first[j] # 0 /\ heard[j] = 0 THEN clock ELSE heard[j]]
      /\ UNCHANGED <<clock, table, lastSigned, cache, loop, got>>
      /\ k # 0 => lastSigned[k] # 0
  BY DEF Verify, RequestRefreshIfDue, LastAsk
<1>2. k # 0 => k \in CacheKids
  <2>1. CASE table = << >>
    BY <2>1
  <2>2. CASE table # << >>
    <3>1. Len(table) \in CacheKids
      BY <2>2, RoomHere
    <3>2. PICK m \in Nat : CacheKids = 1..m
      BY CacheKidsAre
    <3>3. table \in Seq(Nat)
      BY DEF JwksInv, JwksType
    <3> QED BY <3>1, <3>2, <3>3
  <2> QED BY <2>1, <2>2
<1>3. clock \in Nat /\ 0 < clock
  BY DEF JwksInv, JwksType
<1>4. /\ since' \in [CacheKids -> Nat]
      /\ \A j \in CacheKids : since'[j] = IF j = k /\ since[j] = 0 THEN clock ELSE since[j]
  <2>1. since \in [CacheKids -> Nat] /\ 0 \notin CacheKids
    <3>1. PICK m \in Nat : CacheKids = 1..m
      BY CacheKidsAre
    <3> QED BY <3>1 DEF JwksInv, JwksType
  <2>2. CASE k # 0 /\ since[k] = 0
    BY <1>1, <1>2, <1>3, <2>1, <2>2
  <2>3. CASE ~(k # 0 /\ since[k] = 0)
    BY <1>1, <2>1, <2>3
  <2> QED BY <2>2, <2>3
<1> HIDE DEF first
<1>5. /\ heard' \in [CacheKids -> Nat]
      /\ \A j \in CacheKids :
           heard'[j] = IF granted /\ since'[j] # 0 /\ heard[j] = 0 THEN clock ELSE heard[j]
  BY <1>1, <1>3 DEF JwksInv, JwksType
<1> HIDE DEF granted
<1>6. JwksType'
  BY <1>1, <1>3, <1>4, <1>5 DEF JwksInv, JwksType
<1>7. KeysTakeTurns' /\ FetchIsBrief'
  BY <1>1 DEF JwksInv, KeysTakeTurns, FetchIsBrief
<1>8. RefusedHasSigned'
  <2>1. \A j \in CacheKids : since'[j] # 0 => lastSigned[j] # 0
    <3>1. 0 \notin CacheKids
      BY CacheKidsAre
    <3> QED BY <1>1, <1>4, <3>1 DEF JwksInv, RefusedHasSigned
  <2> QED BY <1>1, <2>1 DEF JwksInv, RefusedHasSigned
<1>9. GrantedOrEarlier'
  BY <1>1, <1>3, <1>4, <1>5 DEF JwksInv, JwksType, GrantedOrEarlier
<1>10. OnItsWay'
  <2> SUFFICES ASSUME NEW j \in CacheKids, heard'[j] # 0, Publishable(j)' PROVE (Finds(j) \/ WillFind(j))'
    BY DEF OnItsWay
  <2>1. CASE heard'[j] = heard[j]
    BY <1>1, <2>1 DEF JwksInv, OnItsWay, Publishable, Finds, WillFind
  <2>2. CASE heard'[j] = clock /\ granted
    <3>1. permit' = TRUE
      BY <1>1, <2>2
    <3>2. IF loop.pc = "fetch" THEN loop.began <= heard'[j] ELSE clock <= heard'[j] + 1
      BY <1>3, <2>2 DEF JwksInv, FetchIsBrief
    <3> QED BY <1>1, <3>1, <3>2 DEF WillFind
  <2> QED BY <1>5, <2>1, <2>2
<1> QED BY <1>6, <1>7, <1>8, <1>9, <1>10 DEF JwksInv

LEMMA LoopWakesKeeps == JwksInv /\ LoopWakes => JwksInv'
<1> SUFFICES ASSUME JwksInv, LoopWakes PROVE JwksInv'
  OBVIOUS
<1>1. /\ loop.pc = "wait" /\ loop' = [loop EXCEPT !.pc = "fetch", !.began = clock]
      /\ permit' \in {permit, FALSE}
      /\ UNCHANGED <<clock, table, lastSigned, cache, got, lastAsk, since, heard>>
  BY DEF LoopWakes
<1>2. /\ loop' \in Loops /\ loop'.pc = "fetch" /\ loop'.began = clock
      /\ loop'.ready = loop.ready /\ loop'.tries = loop.tries
  BY <1>1 DEF JwksInv, JwksType, Loops
<1>3. JwksType'
  BY <1>1, <1>2 DEF JwksInv, JwksType
<1>4. KeysTakeTurns' /\ RefusedHasSigned' /\ GrantedOrEarlier'
  BY <1>1, <1>2 DEF JwksInv, KeysTakeTurns, RefusedHasSigned, GrantedOrEarlier
<1>5. FetchIsBrief'
  BY <1>1, <1>2 DEF JwksInv, JwksType, FetchIsBrief
<1>6. OnItsWay'
  BY <1>1, <1>2 DEF JwksInv, FetchIsBrief, OnItsWay, Publishable, Finds, WillFind
<1> QED BY <1>3, <1>4, <1>5, <1>6 DEF JwksInv

LEMMA MergeType == JwksInv => MergeKeys \in [CacheKids -> Nat]
BY DEF MergeKeys, JwksInv, JwksType

LEMMA RefreshCacheKeeps == JwksInv /\ Refresh => JwksInv'
<1> SUFFICES ASSUME JwksInv, Refresh PROVE JwksInv'
  OBVIOUS
<1> USE JwksTimes
<1>1. /\ loop.pc = "fetch" /\ got # NoAnswer /\ cache' = MergeKeys /\ got' = NoAnswer
      /\ loop' = [loop EXCEPT !.pc = "wait", !.ready = TRUE, !.tries = 0, !.due = clock + Interval]
      /\ since' = [k \in CacheKids |-> IF k \in got THEN 0 ELSE since[k]]
      /\ heard' = [k \in CacheKids |-> IF k \in got THEN 0 ELSE heard[k]]
      /\ UNCHANGED <<clock, table, lastSigned, permit, lastAsk>>
  BY DEF Refresh
<1>2. loop' \in Loops /\ loop'.pc = "wait" /\ loop'.ready = TRUE /\ loop'.tries = 0
  <2>1. loop \in Loops /\ clock + Interval \in Nat
    BY DEF JwksInv, JwksType
  <2> QED BY <1>1, <2>1 DEF Loops
<1>3. JwksType'
  BY <1>1, <1>2, MergeType DEF JwksInv, JwksType
<1>4. KeysTakeTurns' /\ FetchIsBrief'
  BY <1>1, <1>2 DEF JwksInv, KeysTakeTurns, FetchIsBrief
<1>5. RefusedHasSigned' /\ GrantedOrEarlier'
  BY <1>1, <1>2 DEF JwksInv, RefusedHasSigned, GrantedOrEarlier
<1>6. OnItsWay'
  <2> SUFFICES ASSUME NEW k \in CacheKids, heard'[k] # 0, Publishable(k)' PROVE WillFind(k)'
    BY DEF OnItsWay
  <2>1. k \notin got /\ heard'[k] = heard[k] /\ heard[k] \in Nat
    BY <1>1 DEF JwksInv, JwksType
  <2>2. WillFind(k)
    BY <1>1, <2>1 DEF JwksInv, OnItsWay, Publishable, Finds
  <2>3. loop.began \in Nat /\ clock \in Nat /\ clock <= loop.began + 1 /\ loop.began <= heard[k]
    BY <1>1, <2>2 DEF WillFind, JwksInv, JwksType, Loops, FetchIsBrief
  <2> QED BY <1>1, <1>2, <2>1, <2>2, <2>3 DEF WillFind
<1> QED BY <1>3, <1>4, <1>5, <1>6 DEF JwksInv

LEMMA BackoffType ==
  ASSUME JwksInv
  PROVE  /\ BackoffDelay \in Loops /\ BackoffDelay.pc = "wait"
         /\ loop.ready => BackoffDelay.ready
         /\ BackoffDelay.ready => BackoffDelay.tries <= Len(Backoff)
<1> USE JwksTimes
<1> DEFINE next == IF loop.tries < Len(Backoff) THEN loop.tries + 1 ELSE loop.tries
           after(n, delay) == [loop EXCEPT !.pc = "wait", !.tries = n, !.due = clock + delay]
<1>1. loop \in Loops /\ clock \in Nat /\ (loop.ready => loop.tries <= Len(Backoff))
  BY DEF JwksInv, JwksType
<1>2. loop.tries \in Nat /\ loop.ready \in BOOLEAN
  BY <1>1 DEF Loops
<1>3. ASSUME NEW n \in Nat, NEW delay \in Nat
      PROVE  /\ after(n, delay) \in Loops /\ after(n, delay).pc = "wait"
             /\ after(n, delay).ready = loop.ready /\ after(n, delay).tries = n
  <2>1. \A due \in Nat : LET l == [loop EXCEPT !.pc = "wait", !.tries = n, !.due = due]
                         IN l \in Loops /\ l.pc = "wait" /\ l.ready = loop.ready /\ l.tries = n
    BY <1>1, <1>3 DEF Loops
  <2>2. clock + delay \in Nat
    BY <1>1, <1>3
  <2> QED BY <2>1, <2>2
<1>4. LET l == [after(0, Interval) EXCEPT !.ready = TRUE]
      IN l \in Loops /\ l.pc = "wait" /\ l.ready = TRUE /\ l.tries = 0
  <2>1. \A l \in Loops : LET m == [l EXCEPT !.ready = TRUE]
                         IN m \in Loops /\ m.pc = l.pc /\ m.ready = TRUE /\ m.tries = l.tries
    BY DEF Loops
  <2>2. after(0, Interval) \in Loops /\ after(0, Interval).pc = "wait" /\ after(0, Interval).tries = 0
    BY <1>3
  <2> HIDE DEF after
  <2> QED BY <2>1, <2>2
<1>5. loop.ready => next \in Nat /\ next <= Len(Backoff) /\ Backoff[next] \in Nat
  <2>1. loop.ready => next \in 1..Len(Backoff)
    BY <1>1, <1>2
  <2> QED BY <2>1
<1>6. CASE ~loop.ready /\ loop.tries + 1 < MaxAttempts
  <2>1. BackoffDelay = after(loop.tries + 1, InitRetry)
    BY <1>6 DEF BackoffDelay
  <2>2. loop.tries + 1 \in Nat
    BY <1>2
  <2> HIDE DEF after
  <2> QED BY <1>3, <1>6, <2>1, <2>2
<1>7. CASE ~loop.ready /\ ~(loop.tries + 1 < MaxAttempts)
  <2>1. BackoffDelay = [after(0, Interval) EXCEPT !.ready = TRUE]
    BY <1>7 DEF BackoffDelay
  <2> HIDE DEF after
  <2> QED BY <1>4, <2>1
<1>8. CASE loop.ready /\ cache = Never
  <2>1. BackoffDelay = after(loop.tries, InitRetry)
    BY <1>8 DEF BackoffDelay
  <2> HIDE DEF after
  <2> QED BY <1>1, <1>2, <1>3, <1>8, <2>1
<1>9. CASE loop.ready /\ cache # Never
  <2>1. BackoffDelay = after(next, Backoff[next])
    BY <1>9 DEF BackoffDelay
  <2> HIDE DEF after, next
  <2> QED BY <1>3, <1>5, <1>9, <2>1
<1> QED BY <1>2, <1>6, <1>7, <1>8, <1>9

LEMMA RefreshFailsKeeps == JwksInv /\ RefreshFails => JwksInv'
<1> SUFFICES ASSUME JwksInv, RefreshFails PROVE JwksInv'
  OBVIOUS
<1>1. /\ loop' = BackoffDelay /\ got' = NoAnswer /\ since' = Never /\ heard' = Never
      /\ UNCHANGED <<clock, table, lastSigned, cache, permit, lastAsk>>
  BY DEF RefreshFails
<1>2. loop' \in Loops /\ loop'.pc = "wait" /\ (loop'.ready => loop'.tries <= Len(Backoff))
  BY <1>1, BackoffType
<1>3. JwksType'
  BY <1>1, <1>2, NeverIs DEF JwksInv, JwksType
<1>4. KeysTakeTurns' /\ FetchIsBrief'
  BY <1>1, <1>2 DEF JwksInv, KeysTakeTurns, FetchIsBrief
<1>5. RefusedHasSigned' /\ GrantedOrEarlier' /\ OnItsWay'
  BY <1>1, NeverIs DEF JwksInv, RefusedHasSigned, GrantedOrEarlier, OnItsWay
<1> QED BY <1>3, <1>4, <1>5 DEF JwksInv

LEMMA ClockTickKeeps == JwksInv /\ ClockTick => JwksInv'
<1> SUFFICES ASSUME JwksInv, ClockTick PROVE JwksInv'
  OBVIOUS
<1>1. /\ clock < MaxClock /\ clock' = clock + 1
      /\ IF loop.pc = "fetch" THEN loop.began = clock ELSE permit => ~loop.ready
      /\ UNCHANGED <<table, lastSigned, cache, loop, got, permit, lastAsk, since, heard>>
  BY DEF ClockTick
<1>2. clock \in Nat /\ clock' \in Nat /\ 0 < clock' /\ clock' <= MaxClock
  BY <1>1, JwksTimes DEF JwksInv, JwksType
<1>3. JwksType'
  BY <1>1, <1>2 DEF JwksInv, JwksType
<1>4. table # << >> => table[Len(table)] \in Nat
  BY DEF JwksInv, JwksType
<1>5. KeysTakeTurns'
  BY <1>1, <1>2, <1>4, TimesType DEF JwksInv, KeysTakeTurns
<1>6. FetchIsBrief' /\ RefusedHasSigned' /\ GrantedOrEarlier'
  BY <1>1, <1>2 DEF JwksInv, JwksType, FetchIsBrief, RefusedHasSigned, GrantedOrEarlier
<1>7. OnItsWay'
  <2> SUFFICES ASSUME NEW k \in CacheKids, heard[k] # 0, Publishable(k)' PROVE (Finds(k) \/ WillFind(k))'
    BY <1>1 DEF OnItsWay
  <2>1. Publishable(k)
    <3>1. k \in DOMAIN table /\ table[k] \in Nat
      BY <1>1 DEF Publishable, JwksInv, JwksType
    <3> QED BY <1>1, <1>2, <3>1, TimesType DEF Publishable
  <2>2. loop.ready
    BY DEF JwksInv, GrantedOrEarlier, RefusedHasSigned
  <2> QED BY <1>1, <2>1, <2>2 DEF JwksInv, OnItsWay, Finds, WillFind
<1> QED BY <1>3, <1>5, <1>6, <1>7 DEF JwksInv

LEMMA JwksKeeps == JwksInv /\ [JwksNext]_jwksVars => JwksInv'
<1> SUFFICES ASSUME JwksInv, [JwksNext]_jwksVars PROVE JwksInv'
  OBVIOUS
<1>1. CASE UNCHANGED jwksVars
  BY <1>1 DEF jwksVars, JwksInv, JwksType, KeysTakeTurns, FetchIsBrief, RefusedHasSigned,
    GrantedOrEarlier, OnItsWay, Publishable, Finds, WillFind
<1> QED
  BY <1>1, SignKeeps, PublishKeeps, VerifyKeeps, LoopWakesKeeps, RefreshCacheKeeps, RefreshFailsKeeps,
    ClockTickKeeps
  DEF JwksNext

LEMMA JwksInvSuffices == JwksInv => UnknownOnlyBriefly
<1> SUFFICES ASSUME JwksInv, NEW k \in DOMAIN table, since[k] # 0, clock <= lastSigned[k] + TokenTtl
             PROVE  IF heard[k] = 0
                      THEN clock >= since[k] + MinInterval => clock - lastAsk >= MinInterval
                      ELSE clock <= heard[k] + 2
  BY DEF UnknownOnlyBriefly
<1> USE JwksTimes, TimesType
<1>1. k \in CacheKids
  <2>1. table # << >> /\ table \in Seq(Nat) /\ k \in 1..Len(table)
    BY DEF JwksInv, JwksType
  <2> QED BY <2>1, RoomHere DEF CacheKids
<1>2. /\ clock \in Nat /\ lastAsk \in Nat /\ since[k] \in Nat /\ heard[k] \in Nat
      /\ lastSigned[k] \in Nat /\ table[k] \in Nat /\ loop.began \in Nat
  BY <1>1 DEF JwksInv, JwksType, Loops
<1>3. CASE heard[k] = 0
  BY <1>1, <1>2, <1>3 DEF JwksInv, GrantedOrEarlier
<1>4. CASE heard[k] # 0
  <2>1. lastSigned[k] + RenewAhead <= table[k]
    BY <1>1 DEF JwksInv, RefusedHasSigned
  <2>2. Publishable(k)
    BY <1>2, <2>1 DEF Publishable
  <2>3. Finds(k) \/ WillFind(k)
    BY <1>1, <1>4, <2>2 DEF JwksInv, OnItsWay
  <2> QED BY <1>2, <1>4, <2>3 DEF JwksInv, FetchIsBrief, Finds, WillFind
<1> QED BY <1>3, <1>4

LEMMA OnlyJwksSteps == [Next]_vars => [JwksNext]_jwksVars
BY DEF Next, vars, jwksVars, FlowStep, AttemptStep, SigningStep, JwksStep, CertStep, RequestStep,
       AppStep

\* UnknownOnlyBriefly (jwks.rs, request_refresh_if_due and the refresh loop): for any
\* intervals, waits after failures, rotations and forged keys.
THEOREM NewKeysAreFetched == Spec => []UnknownOnlyBriefly
<1>1. Init => JwksInv
  BY JwksInitially DEF Init
<1>2. JwksInv /\ [Next]_vars => JwksInv'
  BY OnlyJwksSteps, JwksKeeps
<1> QED BY <1>1, <1>2, JwksInvSuffices, PTL DEF Spec

-----------------------------------------------------------------------------
(* The Gateway's certificate *)

Tasks == [pc : {"account", "check", "order", "validation", "ready", "write", "rename", "install",
                "wait", "down"},
          since : Nat, due : Nat, retry : 1..MaxRetryDelay, account : BOOLEAN, cert : Nat]

CertType ==
  /\ day \in Nat /\ served \in Nat /\ stored \in Nat /\ newest \in Nat
  /\ task \in Tasks /\ faults \in 0..MaxFaults

\* The task wakes when it is due and is through a day later.
Punctual ==
  IF Doing("wait") THEN day <= task.due ELSE task.since <= day /\ day <= task.since + 1

\* What is fetched is of this run and newer than what was served.
CertHeld ==
  task.pc \in {"write", "rename", "install"} =>
    task.since <= task.cert /\ task.cert <= day /\ newest <= task.cert

\* The file never goes back, and but for a moment holds what is served.
Whole ==
  /\ stored <= day
  /\ IF Doing("down") THEN newest <= stored ELSE served = newest
  /\ Doing("install") => stored = task.cert
  /\ task.pc \notin {"install", "down"} => stored = newest

\* When a certificate is due, and how long n failures put its renewal off.
DueAfter == (LifeDays * 2) \div 3
Lost(n) == n * (MaxRetryDelay + 1)

\* A renewal begins, or is waited for, no later than the failures so far explain.
InTime ==
  /\ (Doing("down") /\ stored # 0) => task.since + 1 <= stored + (DueAfter + Lost(faults))
  /\ (~Doing("down") /\ newest # 0) =>
       (IF Doing("wait") THEN task.due ELSE task.since) <= newest + (DueAfter + Lost(faults))

CertInv == CertType /\ Punctual /\ CertHeld /\ Whole /\ InTime

LEMMA TimesEnough ==
  /\ LifeDays \in Nat /\ CheckInterval \in Nat /\ LastDay \in Nat /\ MaxFaults \in Nat
  /\ MaxRetryDelay \in Nat /\ MaxRetryDelay >= 1
  /\ DueAfter \in Nat /\ CheckInterval < DueAfter
  /\ Lost(MaxFaults) \in Nat /\ DueAfter + Lost(MaxFaults) + 1 < LifeDays
<1>1. LifeDays \in Nat /\ MaxFaults \in Nat /\ MaxRetryDelay \in Nat /\ MaxRetryDelay # 0
  BY LifeAssumption
<1>2. (LifeDays * 2) \div 3 \in Nat
  BY <1>1
<1>3. \A m, r \in Nat : m * (r + 1) \in Nat
  OBVIOUS
<1>4. MaxFaults * (MaxRetryDelay + 1) \in Nat
  BY <1>1, <1>3
<1> QED BY <1>1, <1>2, <1>4, LifeAssumption DEF DueAfter, Lost

\* Every failure costs a delay and a day, and all of them what the
\* assumption allows for.
LEMMA LostGrows ==
  ASSUME NEW n \in 0..MaxFaults
  PROVE  /\ Lost(n) \in Nat /\ Lost(n) <= Lost(MaxFaults)
         /\ Lost(n + 1) = Lost(n) + MaxRetryDelay + 1
<1>1. \A r, m \in Nat : \A k \in 0..m :
        /\ k * (r + 1) \in Nat /\ k * (r + 1) <= m * (r + 1)
        /\ (k + 1) * (r + 1) = k * (r + 1) + r + 1
  OBVIOUS
<1> QED BY <1>1, TimesEnough DEF Lost

LEMMA CertInitially == CertInit => CertInv
<1> SUFFICES ASSUME CertInit PROVE CertInv
  OBVIOUS
<1> USE TimesEnough
<1>1. 0 \in 0..MaxFaults /\ Lost(0) \in Nat /\ 1 \in 1..MaxRetryDelay
  BY LostGrows
<1> QED BY <1>1 DEF CertInit, Starting, MinRetryDelay, CertInv, CertType, Tasks, Punctual, CertHeld,
  Whole, InTime, Doing

LEMMA LoadKeeps == CertInv /\ LoadCertificate => CertInv'
<1> SUFFICES ASSUME CertInv, LoadCertificate PROVE CertInv'
  OBVIOUS
<1> USE TimesEnough DEF CertInv
<1>1. 1 \in 1..MaxRetryDelay /\ Lost(faults) \in Nat
  BY LostGrows DEF CertType
<1>2. /\ task.pc = "down" /\ served' = stored /\ newest' = stored
      /\ UNCHANGED <<day, stored, challenge, faults>>
      /\ task' = Starting
  BY DEF LoadCertificate, Later, Whole, Doing, CertType
<1>3. /\ task' \in Tasks /\ task'.pc = "account" /\ task'.since = day /\ task'.cert = 0
  BY <1>1, <1>2 DEF Starting, MinRetryDelay, Tasks, CertType
<1>4. stored # 0 => day <= stored + (DueAfter + Lost(faults))
  BY <1>1, <1>2 DEF CertType, Tasks, Punctual, InTime, Doing
<1>5. CertType'
  BY <1>2, <1>3 DEF CertType
<1>6. Punctual' /\ CertHeld' /\ Whole'
  BY <1>2, <1>3 DEF CertType, Punctual, CertHeld, Whole, Doing
<1>7. InTime'
  BY <1>2, <1>3, <1>4 DEF InTime, Doing
<1> QED BY <1>5, <1>6, <1>7

LEMMA AccountKeeps == CertInv /\ LoadOrCreateAccount => CertInv'
<1> SUFFICES ASSUME CertInv, LoadOrCreateAccount PROVE CertInv'
  OBVIOUS
<1> USE TimesEnough DEF CertInv
<1>1. 1 \in 1..MaxRetryDelay
  OBVIOUS
<1>2. \A t \in Tasks, has \in BOOLEAN :
        LET checks == [t EXCEPT !.pc = "check", !.account = has, !.retry = 1]
        IN checks \in Tasks /\ checks.pc = "check" /\ checks.since = t.since
  BY <1>1 DEF Tasks
<1>3. /\ task.pc = "account" /\ UNCHANGED <<day, served, stored, newest, faults>>
      /\ task' = [task EXCEPT !.pc = "check", !.account = TRUE, !.retry = 1]
      /\ task \in Tasks
  BY ZenonT(20) DEF LoadOrCreateAccount, MinRetryDelay, Doing, CertType
<1>4. task' \in Tasks /\ task'.pc = "check" /\ task'.since = task.since
  BY <1>2, <1>3, ZenonT(20)
<1> QED BY <1>3, <1>4 DEF CertType, Punctual, CertHeld, Whole, InTime, Doing

LEMMA WakesKeeps == CertInv /\ TaskWakes => CertInv'
<1> SUFFICES ASSUME CertInv, TaskWakes PROVE CertInv'
  OBVIOUS
<1> USE TimesEnough DEF CertInv
<1>0. PICK pc \in {"account", "check"} : task' = [task EXCEPT !.pc = pc, !.since = day]
  BY ZenonT(20) DEF TaskWakes
<1>4. /\ task.pc = "wait" /\ UNCHANGED <<day, served, stored, newest, faults>>
      /\ day = task.due /\ task.due \in Nat
  BY DEF TaskWakes, Doing, CertType, Tasks, Punctual
<1>5. task' \in Tasks /\ task'.pc = pc /\ task'.since = day
  BY <1>0 DEF CertType, Tasks
<1>1. /\ task.pc = "wait" /\ UNCHANGED <<day, served, stored, newest, faults>>
      /\ task' \in Tasks /\ task'.pc \in {"account", "check"} /\ task'.since = day
      /\ day = task.due /\ task.due \in Nat
  BY <1>4, <1>5
<1>2. CertType' /\ Punctual' /\ CertHeld' /\ Whole'
  BY <1>1 DEF CertType, Punctual, CertHeld, Whole, Doing
<1>3. InTime'
  BY <1>1 DEF InTime, Doing
<1> QED BY <1>2, <1>3

LEMMA OrderKeeps == CertInv /\ (IssueCertificate \/ Finalize) => CertInv'
<1> SUFFICES ASSUME CertInv, IssueCertificate \/ Finalize PROVE CertInv'
  OBVIOUS
<1> USE DEF CertInv
<1>1. /\ task.pc \in {"order", "validation", "ready"}
      /\ UNCHANGED <<day, served, stored, newest, faults>>
      /\ task' \in Tasks /\ task'.since = task.since
      /\ \/ task'.pc \in {"validation", "ready"}
         \/ task'.pc = "write" /\ task'.cert = day
  BY DEF IssueCertificate, Finalize, GoOn, Doing, CertType, Tasks
<1>2. CertType' /\ Punctual' /\ Whole'
  BY <1>1 DEF CertType, Punctual, Whole, Doing
<1>3. CertHeld'
  BY <1>1 DEF CertType, Tasks, Punctual, CertHeld, Whole, Doing
<1>4. InTime'
  BY <1>1 DEF InTime, Doing
<1> QED BY <1>2, <1>3, <1>4

\* The file is written beside the old one and put in its place whole.
LEMMA SaveKeeps == CertInv /\ (WriteAtomic \/ SaveCertificate) => CertInv'
<1> SUFFICES ASSUME CertInv, WriteAtomic \/ SaveCertificate PROVE CertInv'
  OBVIOUS
<1> USE DEF CertInv
<1>1. /\ UNCHANGED <<day, served, newest, faults>>
      /\ task' \in Tasks /\ task'.since = task.since /\ task'.cert = task.cert
      /\ \/ task.pc = "write" /\ task'.pc = "rename" /\ stored' = stored
         \/ task.pc = "rename" /\ task'.pc = "install" /\ stored' = task.cert
  BY DEF WriteAtomic, SaveCertificate, WhileWriting, GoOn, Doing, CertType, Tasks
<1>2. CertType' /\ Punctual' /\ CertHeld' /\ Whole'
  BY <1>1 DEF CertType, Tasks, Punctual, CertHeld, Whole, Doing
<1>3. InTime'
  BY <1>1 DEF InTime, Doing
<1> QED BY <1>2, <1>3

\* A new certificate is looked at again before it is due.
LEMMA InstallKeeps == CertInv /\ InstallPem => CertInv'
<1> SUFFICES ASSUME CertInv, InstallPem PROVE CertInv'
  OBVIOUS
<1> USE TimesEnough DEF CertInv
<1>1. 1 \in 1..MaxRetryDelay /\ Lost(faults) \in Nat /\ day + CheckInterval \in Nat
  BY LostGrows DEF CertType
<1>2. /\ task.pc = "install" /\ stored = task.cert /\ newest <= task.cert
      /\ day <= task.cert + 1 /\ task.cert \in Nat
  BY DEF InstallPem, Doing, CertType, Tasks, CertHeld, Whole, Punctual
<1>5. UNCHANGED <<day, stored, faults>> /\ served' = task.cert /\ newest' = task.cert
  BY <1>2 DEF InstallPem, Later, CertType
<1>6. PICK due \in Nat : due = day + CheckInterval
  BY <1>1
<1>7. task' = [task EXCEPT !.pc = "wait", !.due = due, !.retry = 1]
  BY <1>6 DEF InstallPem, MinRetryDelay
<1>8. task' \in Tasks /\ task'.pc = "wait" /\ task'.due = due
  BY <1>1, <1>7 DEF CertType, Tasks
<1>3. CertType' /\ Punctual' /\ CertHeld' /\ Whole'
  BY <1>2, <1>5, <1>6, <1>8 DEF CertType, Punctual, CertHeld, Whole, Doing
<1>4. InTime'
  BY <1>1, <1>2, <1>5, <1>6, <1>8 DEF InTime, Doing, CertType
<1> QED BY <1>3, <1>4

\* The task sleeps no longer than until the certificate is due.
LEMMA RenewalKeeps == CertInv /\ EvaluateRenewal => CertInv'
<1> SUFFICES ASSUME CertInv, EvaluateRenewal PROVE CertInv'
  OBVIOUS
<1> USE TimesEnough DEF CertInv
<1>1. 1 \in 1..MaxRetryDelay /\ Lost(faults) \in Nat
  BY LostGrows DEF CertType
<1>2. /\ task.pc = "check" /\ UNCHANGED <<day, served, stored, newest, faults>>
      /\ served = newest
  BY DEF EvaluateRenewal, Doing, Whole
<1>3. CASE GoOn("order")
  <2>1. task' \in Tasks /\ task'.pc = "order" /\ task'.since = task.since
    BY <1>3 DEF GoOn, CertType, Tasks
  <2> QED BY <1>2, <2>1 DEF CertType, Punctual, CertHeld, Whole, InTime, Doing
<1>4. CASE ~GoOn("order")
  <2>0. PICK ari \in BOOLEAN, at \in 1..LastDay, again \in 1..LastDay :
          LET renewAt == IF ari THEN at ELSE FallbackRenewAt(served)
              delay == Sooner(IF ari THEN again ELSE CheckInterval, renewAt - day)
          IN /\ IF ari THEN served < at /\ at <= FallbackRenewAt(served) /\ again <= CheckInterval
                       ELSE at = 1 /\ again = 1
             /\ IF served = 0 \/ day >= renewAt
                  THEN GoOn("order")
                  ELSE task' = [task EXCEPT !.pc = "wait", !.due = day + delay,
                                            !.retry = MinRetryDelay]
    BY ZenonT(20) DEF EvaluateRenewal
  <2> DEFINE renewAt == IF ari THEN at ELSE served + DueAfter
             wait == IF ari THEN again ELSE CheckInterval
             delay == IF wait < renewAt - day THEN wait ELSE renewAt - day
  <2>6. /\ ~(day >= renewAt)
        /\ task' = [task EXCEPT !.pc = "wait", !.due = day + delay, !.retry = 1]
    BY <1>4, <2>0, ZenonT(20) DEF FallbackRenewAt, DueAfter, Sooner, MinRetryDelay
  <2>7. wait \in Nat /\ renewAt \in Nat /\ renewAt <= newest + DueAfter
    BY <1>2, <2>0 DEF CertType, FallbackRenewAt, DueAfter
  <2>1. delay \in Nat /\ delay <= renewAt - day
    BY <2>6, <2>7 DEF CertType
  <2>2. PICK due \in Nat : due = day + delay /\ day <= due /\ due <= newest + DueAfter
    BY <1>2, <2>1, <2>7 DEF CertType
  <2> HIDE DEF delay
  <2>3. task' \in Tasks /\ task'.pc = "wait" /\ task'.due = due
    BY <1>1, <2>2, <2>6 DEF CertType, Tasks
  <2>4. CertType' /\ Punctual' /\ CertHeld' /\ Whole'
    BY <1>2, <2>2, <2>3 DEF CertType, Punctual, CertHeld, Whole, Doing
  <2>5. InTime'
    BY <1>1, <1>2, <2>2, <2>3 DEF InTime, Doing, CertType
  <2> QED BY <2>4, <2>5
<1> QED BY <1>3, <1>4

\* A failure costs its delay and the day its run took.
LEMMA FaultKeeps == CertInv /\ (TaskRetries \/ GatewayDies) => CertInv'
<1> SUFFICES ASSUME CertInv, TaskRetries \/ GatewayDies PROVE CertInv'
  OBVIOUS
<1> USE TimesEnough DEF CertInv
<1>1. /\ Lost(faults) \in Nat /\ Lost(faults') \in Nat
      /\ Lost(faults') = Lost(faults) + MaxRetryDelay + 1
      /\ faults' \in 0..MaxFaults /\ UNCHANGED <<day, stored, newest>>
  <2>1. faults' = faults + 1 /\ faults + 1 \in 0..MaxFaults /\ faults \in 0..MaxFaults
    BY DEF TaskRetries, GatewayDies, Fault, CertType
  <2>2. Lost(faults + 1) = Lost(faults) + MaxRetryDelay + 1 /\ Lost(faults + 1) \in Nat /\ Lost(faults) \in Nat
    BY <2>1, LostGrows
  <2> QED BY <2>1, <2>2 DEF TaskRetries, GatewayDies
<1>2. CASE TaskRetries
  <2>1. task.retry \in 1..MaxRetryDelay /\ Sooner(2 * task.retry, MaxRetryDelay) \in 1..MaxRetryDelay
    BY DEF CertType, Tasks, Sooner
  <2>2. PICK due \in Nat : due = day + task.retry /\ day <= due /\ due <= day + MaxRetryDelay
    BY <2>1 DEF CertType
  <2>3. /\ task.pc \in {"account", "order", "validation", "ready", "write", "rename"}
        /\ served' = served /\ task' \in Tasks /\ task'.pc = "wait" /\ task'.due = due
    BY <1>2, <2>1, <2>2 DEF TaskRetries, CertType, Tasks
  <2>4. CertType' /\ Punctual' /\ CertHeld' /\ Whole'
    BY <1>1, <2>2, <2>3 DEF CertType, Punctual, CertHeld, Whole, Doing
  <2>5. newest # 0 => day <= newest + (DueAfter + Lost(faults)) + 1
    BY <1>1, <2>3 DEF InTime, Punctual, Doing, CertType, Tasks
  <2>6. InTime'
    BY <1>1, <2>2, <2>3, <2>5 DEF InTime, Doing, CertType
  <2> QED BY <2>4, <2>6
<1>3. CASE GatewayDies
  <2>1. /\ task.pc # "down" /\ served' = 0
        /\ task' \in Tasks /\ task'.pc = "down" /\ task'.since = day
    BY <1>3 DEF GatewayDies, CertType, Tasks, Doing
  <2>2. newest <= stored
    BY <2>1 DEF Whole, CertHeld, CertType, Tasks, Doing
  <2>3. CertType' /\ Punctual' /\ CertHeld' /\ Whole'
    BY <1>1, <2>1, <2>2 DEF CertType, Punctual, CertHeld, Whole, Doing
  <2>4. stored # 0 => day <= stored + (DueAfter + Lost(faults)) + 1
    BY <1>1, <2>1, <2>2 DEF InTime, Punctual, Doing, CertType, Tasks, Whole, CertHeld
  <2>5. InTime'
    BY <1>1, <2>1, <2>4 DEF InTime, Doing, CertType
  <2> QED BY <2>3, <2>5
<1> QED BY <1>2, <1>3

LEMMA DayKeeps == CertInv /\ NextDay => CertInv'
<1> SUFFICES ASSUME CertInv, NextDay PROVE CertInv'
  OBVIOUS
<1> USE DEF CertInv
<1>1. day' = day + 1 /\ day' \in Nat /\ UNCHANGED <<served, stored, task, newest, faults>>
  BY DEF NextDay, CertType
<1>2. CertType' /\ CertHeld' /\ Whole' /\ InTime'
  BY <1>1 DEF CertType, Tasks, CertHeld, Whole, InTime, Doing
<1>3. Punctual'
  BY <1>1 DEF NextDay, CertType, Tasks, Punctual, Doing
<1> QED BY <1>2, <1>3

LEMMA CertKeeps == CertInv /\ [CertNext]_certVars => CertInv'
<1> SUFFICES ASSUME CertInv, [CertNext]_certVars PROVE CertInv'
  OBVIOUS
<1>1. CASE UNCHANGED certVars
  BY <1>1 DEF certVars, CertInv, CertType, Punctual, CertHeld, Whole, InTime, Doing
<1> QED
  BY <1>1, LoadKeeps, AccountKeeps, WakesKeeps, OrderKeeps, SaveKeeps, InstallKeeps, RenewalKeeps,
     FaultKeeps, DayKeeps
  DEF CertNext

\* A day into the run the certificate in use has its failures behind it.
LEMMA CertInvSuffices == CertInv => CertificateStays
<1> SUFFICES ASSUME CertInv, newest # 0, ~Doing("down")
             PROVE  served >= newest /\ day < served + LifeDays
  BY DEF CertificateStays
<1> USE TimesEnough DEF CertInv
<1>1. Lost(faults) \in Nat /\ Lost(faults) <= Lost(MaxFaults) /\ served = newest
  BY LostGrows DEF CertType, Whole
<1>2. day <= newest + (DueAfter + Lost(faults)) + 1
  BY <1>1 DEF CertType, Tasks, Punctual, InTime
<1> QED BY <1>1, <1>2 DEF CertType

\* The steps of the other sections leave the certificate alone.
LEMMA OnlyCertSteps == [Next]_vars => [CertNext]_certVars
BY DEF Next, vars, certVars, FlowStep, AttemptStep, SigningStep, JwksStep, CertStep, RequestStep,
       AppStep

\* CertificateStays (acme.rs): as often as the Gateway dies or its orders fail, up
\* to the faults the lifetime leaves room for, what is served has not run out.
THEOREM NeverOutOfDate == Spec => []CertificateStays
<1>1. Init => CertInv
  BY CertInitially DEF Init
<1>2. CertInv /\ [Next]_vars => CertInv'
  BY OnlyCertSteps, CertKeeps
<1> QED BY <1>1, <1>2, CertInvSuffices, PTL DEF Spec

-----------------------------------------------------------------------------
(* The applications *)

Statuses == {"none", "ACTIVE", "DISABLED", "deleted"}
AppRows == [status : Statuses, fits : BOOLEAN, secret : Nat]
Patches == {<< >>} \cup [fits : BOOLEAN] \cup [status : {"ACTIVE", "DISABLED"}]
Actions == [pc : {"idle", "sent", "loaded", "done", "failed"},
            kind : {"none", "create", "update", "rotate", "revoke", "delete"},
            of : Apps, patch : Patches, base : AppRows, secret : Nat, here : BOOLEAN,
            crossed : BOOLEAN]
Screens == [page : {"list", "new", "client"}, of : Apps, shows : Nat, disabled : BOOLEAN]
AppCalls == [pc : {"idle", "check", "work", "issue", "answer"}, kind : Kinds \cup {"none"},
             of : Apps, secret : Nat, good : BOOLEAN, late : SUBSET {"shut", "secret"}]

AppType ==
  /\ client \in [Apps -> AppRows] /\ token \in [Apps -> {"none", "live", "revoked"}]
  /\ screen \in [Admins -> Screens] /\ admin \in [Admins -> Actions]
  /\ caller \in [Callers -> AppCalls]
  /\ secrets \in Nat /\ superseded \subseteq 1..secrets /\ known \subseteq 1..secrets
  /\ wanted \subseteq Apps

\* An application is registered once; nobody else works on one that is not there.
There(c) == client[c].status # "none"
Creates(a) == admin[a].kind = "create" /\ admin[a].pc \in {"sent", "loaded"}
OnWhatIs(a) ==
  /\ admin[a].kind \notin {"none", "create"} => There(admin[a].of)
  /\ Creates(a) => ~There(admin[a].of)
MadeOnce ==
  /\ There(FirstApp) /\ \A c \in Apps : token[c] = "live" => There(c)
  /\ \A a \in Admins : OnWhatIs(a)
  /\ \A a, b \in Admins : a # b /\ admin[a].of = admin[b].of => There(admin[a].of)

\* The secret was made for c, which has it until a rotation.
Holds(c, s) == There(c) /\ (IsApp(c) => client[c].secret = s \/ s \in superseded)

\* The secret of an action is no application's, and no other action's.
Unshared(a) ==
  /\ \A c \in Apps : client[c].secret # admin[a].secret
  /\ admin[a].secret \notin superseded
  /\ \A b \in Admins : admin[b].secret = admin[a].secret => b = a

SecretOfAction(a) ==
  /\ admin[a].secret <= secrets
  /\ admin[a].pc \in {"idle", "sent"} => admin[a].secret = 0
  /\ admin[a].pc = "loaded" => (admin[a].secret # 0 <=> admin[a].kind \in {"create", "rotate"})
  /\ admin[a].pc \in {"loaded", "failed"} /\ admin[a].secret # 0 => Unshared(a)
  /\ admin[a].pc = "done" /\ admin[a].secret # 0 => Holds(admin[a].of, admin[a].secret)

ShownBy(a) ==
  /\ admin[a].here => screen[a].of = admin[a].of
  /\ screen[a].shows # 0 => Holds(screen[a].of, screen[a].shows)

Answered(c) ==
  \/ client[c].secret \in known
  \/ \E a \in Admins : admin[a].of = c /\ admin[a].secret = client[c].secret

SecretOfApp(c) ==
  /\ client[c].secret <= secrets
  /\ IsApp(c) =>
       /\ client[c].secret # 0 /\ client[c].secret \notin superseded
       /\ \A d \in Apps : client[d].secret = client[c].secret => d = c
       /\ Answered(c)

SecretsApart ==
  /\ \A a \in Admins : SecretOfAction(a) /\ ShownBy(a)
  /\ \A c \in Apps : SecretOfApp(c)

\* An edit brings back no status that a disabling it did not notice has changed.
NoticesDisabling(a) ==
  admin[a].pc = "loaded" /\ admin[a].kind = "update" =>
    /\ admin[a].base.status \in {"ACTIVE", "DISABLED"}
    /\ admin[a].base.status = "ACTIVE" /\ ~admin[a].crossed /\ IsApp(admin[a].of) =>
         admin[a].of \in wanted

\* A request that is to be refused is so at its checks.
RefusedIfLate(q) ==
  IF caller[q].pc = "check"
    THEN /\ "shut" \in caller[q].late => caller[q].of \notin wanted
         /\ "secret" \in caller[q].late =>
              caller[q].kind # "authorize" /\ caller[q].secret \in superseded
    ELSE caller[q].late = {}

Barred ==
  /\ \A c \in Apps : client[c].status = "ACTIVE" => c \in wanted
  /\ \A a \in Admins : NoticesDisabling(a)
  /\ \A q \in Callers : RefusedIfLate(q)

AppInv == AppType /\ MadeOnce /\ SecretsApart /\ Barred

-----------------------------------------------------------------------------
\* What becomes of the record of an action, a page or a request.
LEMMA RecordTypes ==
  /\ NoApp \in AppRows /\ NoApp.status = "none" /\ NoApp.secret = 0
  /\ Deleted \in AppRows /\ Deleted.status = "deleted" /\ Deleted.secret = 0
  /\ NoAction \in Actions /\ NoAction.pc = "idle" /\ NoAction.kind = "none"
  /\ NoAction.of = FirstApp /\ NoAction.secret = 0 /\ ~NoAction.here
  /\ ListPage \in Screens /\ ListPage.of = FirstApp /\ ListPage.shows = 0
  /\ NoCaller \in AppCalls /\ NoCaller.pc = "idle" /\ NoCaller.late = {}
<1> USE AppAssumption
<1>1. NoApp \in AppRows /\ NoApp.status = "none" /\ NoApp.secret = 0
  BY DEF NoApp, AppRows, Statuses
<1>2. Deleted \in AppRows /\ Deleted.status = "deleted" /\ Deleted.secret = 0
  BY DEF Deleted, NoApp, AppRows, Statuses
<1>3. /\ NoAction \in Actions /\ NoAction.pc = "idle" /\ NoAction.kind = "none"
      /\ NoAction.of = FirstApp /\ NoAction.secret = 0 /\ ~NoAction.here
  BY <1>1 DEF NoAction, Actions, Patches
<1>4. ListPage \in Screens /\ ListPage.of = FirstApp /\ ListPage.shows = 0
  BY DEF ListPage, Screens
<1>5. NoCaller \in AppCalls /\ NoCaller.pc = "idle" /\ NoCaller.late = {}
  BY DEF NoCaller, AppCalls
<1> QED BY <1>1, <1>2, <1>3, <1>4, <1>5

LEMMA PcType ==
  ASSUME NEW q \in Actions, NEW pc \in {"idle", "sent", "loaded", "done", "failed"}
  PROVE  \E l \in Actions :
           /\ l = [q EXCEPT !.pc = pc] /\ l.pc = pc
           /\ l.kind = q.kind /\ l.of = q.of /\ l.secret = q.secret /\ l.here = q.here
<1>1. [q EXCEPT !.pc = pc] \in Actions
  BY DEF Actions
<1> QED BY <1>1 DEF Actions

LEMMA EndedType ==
  ASSUME NEW q \in Actions, NEW pc \in {"done", "failed"}
  PROVE  \E l \in Actions :
           /\ l = Ended(q, pc) /\ l.pc = pc
           /\ l.kind = q.kind /\ l.of = q.of /\ l.secret = q.secret /\ l.here = q.here
<1>1. Ended(q, pc) \in Actions
  BY RecordTypes DEF Actions, Ended, Patches
<1> QED BY <1>1 DEF Actions, Ended

LEMMA SentType ==
  ASSUME NEW kind \in {"create", "update", "rotate", "revoke", "delete"}, NEW c \in Apps,
         NEW patch \in Patches
  PROVE  \E l \in Actions :
           /\ l = [NoAction EXCEPT !.pc = "sent", !.kind = kind, !.of = c, !.patch = patch,
                                   !.here = TRUE]
           /\ l.pc = "sent" /\ l.kind = kind /\ l.of = c /\ l.secret = 0 /\ l.here
<1>1. \A q \in Actions, h \in BOOLEAN :
        LET l == [q EXCEPT !.pc = "sent", !.kind = kind, !.of = c, !.patch = patch, !.here = h]
        IN l \in Actions /\ l.pc = "sent" /\ l.kind = kind /\ l.of = c /\ l.secret = q.secret
           /\ l.here = h
  BY ZenonT(60) DEF Actions
<1>2. NoAction \in Actions /\ NoAction.secret = 0
  BY RecordTypes
<1>3. PICK l \in Actions :
        /\ l = [NoAction EXCEPT !.pc = "sent", !.kind = kind, !.of = c, !.patch = patch, !.here = TRUE]
        /\ l.pc = "sent" /\ l.kind = kind /\ l.of = c /\ l.secret = NoAction.secret /\ l.here = TRUE
  BY <1>1, <1>2, TRUE \in BOOLEAN, ZenonT(20)
<1> QED BY <1>2, <1>3

-----------------------------------------------------------------------------
\* A step of a console that leaves the rows alone.
LEMMA QuietKeeps ==
  ASSUME AppInv, NEW a \in Admins, NEW l \in Actions, NEW s \in Screens,
         admin' = [admin EXCEPT ![a] = l], screen' = [screen EXCEPT ![a] = s],
         UNCHANGED <<client, caller, secrets, superseded, wanted>>,
         token' \in [Apps -> {"none", "live", "revoked"}],
         \A c \in Apps : token'[c] = "live" => token[c] = "live",
         known \subseteq known', known' \subseteq 1..secrets,
         \/ l.secret = admin[a].secret /\ l.of = admin[a].of
         \/ l.secret = 0 /\ (admin[a].pc = "done" => admin[a].secret = 0 \/ admin[a].secret \in known'),
         There(l.of) \/ \A b \in Admins \ {a} : admin[b].of # l.of,
         l.kind \notin {"none", "create"} => There(l.of),
         l.kind = "create" /\ l.pc \in {"sent", "loaded"} => ~There(l.of),
         l.secret # 0 => l.pc \in {"loaded", "done", "failed"},
         l.pc = "loaded" => admin[a].pc = "loaded" /\ l.kind = admin[a].kind /\ l.base = admin[a].base
                              /\ l.crossed = admin[a].crossed /\ l.secret = admin[a].secret
                              /\ l.of = admin[a].of,
         l.pc = "done" /\ l.secret # 0 => admin[a].pc = "done",
         l.pc = "failed" /\ l.secret # 0 => admin[a].pc \in {"loaded", "failed"},
         l.here => s.of = l.of,
         s.shows # 0 => Holds(s.of, s.shows)
  PROVE  AppInv'
<1>1. /\ AppType /\ admin'[a] = l /\ screen'[a] = s
      /\ \A b \in Admins \ {a} : admin'[b] = admin[b] /\ screen'[b] = screen[b]
  BY DEF AppInv, AppType
<1>2. AppType'
  BY <1>1 DEF AppType
<1>3. MadeOnce'
  BY <1>1 DEF AppInv, MadeOnce, OnWhatIs, Creates, There
<1>4. \A c, n : Holds(c, n)' <=> Holds(c, n)
  BY DEF Holds, There, IsApp
<1>5. \A b \in Admins \ {a} : SecretOfAction(b)' /\ ShownBy(b)'
  <2> SUFFICES ASSUME NEW b \in Admins \ {a} PROVE SecretOfAction(b)' /\ ShownBy(b)'
    OBVIOUS
  <2>1. SecretOfAction(b) /\ ShownBy(b)
    BY DEF AppInv, SecretsApart
  <2>2. Unshared(b) /\ admin[b].secret # 0 => Unshared(b)'
    BY <1>1 DEF Unshared
  <2> QED BY <1>1, <1>4, <2>1, <2>2 DEF SecretOfAction, ShownBy
<1>6. SecretOfAction(a)' /\ ShownBy(a)'
  <2>1. SecretOfAction(a) /\ ShownBy(a) /\ secrets \in Nat
    BY DEF AppInv, SecretsApart, AppType
  <2>2. Unshared(a) /\ l.secret = admin[a].secret => Unshared(a)'
    BY <1>1 DEF Unshared
  <2> QED BY <1>1, <1>4, <2>1, <2>2 DEF SecretOfAction, ShownBy
<1>7. ASSUME NEW c \in Apps PROVE SecretOfApp(c)'
  <2>1. SecretOfApp(c) /\ SecretOfAction(a)
    BY DEF AppInv, SecretsApart
  <2>2. ASSUME IsApp(c) PROVE Answered(c)'
    <3>1. Answered(c) /\ client[c].secret # 0
      BY <2>1, <2>2 DEF SecretOfApp
    <3>2. CASE client[c].secret \in known
      BY <3>2 DEF Answered
    <3>3. ASSUME NEW b \in Admins, admin[b].of = c, admin[b].secret = client[c].secret
          PROVE  Answered(c)'
      <4>1. CASE b # a \/ (l.secret = admin[a].secret /\ l.of = admin[a].of)
        BY <1>1, <3>3, <4>1 DEF Answered
      <4>2. CASE b = a /\ admin[a].secret \in known'
        BY <3>3, <4>2 DEF Answered
      <4>3. CASE b = a /\ admin[a].pc # "done"
        <5>1. admin[a].pc \in {"loaded", "failed"}
          BY <1>1, <2>1, <3>1, <3>3, <4>3 DEF SecretOfAction, AppType, Actions
        <5> QED BY <2>1, <3>1, <3>3, <4>3, <5>1 DEF SecretOfAction, Unshared
      <4> QED BY <3>1, <3>3, <4>1, <4>2, <4>3
    <3> QED BY <3>1, <3>2, <3>3 DEF Answered
  <2> QED BY <2>1, <2>2 DEF SecretOfApp, IsApp
<1>8. Barred'
  BY <1>1 DEF AppInv, Barred, NoticesDisabling, RefusedIfLate, IsApp
<1> QED BY <1>2, <1>3, <1>5, <1>6, <1>7, <1>8 DEF AppInv, SecretsApart

\* The steps of a console that leave the rows alone.
LEMMA LeavePageKeeps == ASSUME AppInv, NEW a \in Admins, LeavePage(a) PROVE AppInv'
<1>1. AppType /\ admin[a] \in Actions
  BY DEF AppInv, AppType
<1>2. \A q \in Actions, h \in BOOLEAN :
        LET l == [q EXCEPT !.here = h]
        IN /\ l \in Actions /\ l.pc = q.pc /\ l.kind = q.kind /\ l.of = q.of /\ l.base = q.base
           /\ l.secret = q.secret /\ l.crossed = q.crossed /\ l.here = h
  BY DEF Actions
<1>3. PICK l \in Actions :
        /\ l = [admin[a] EXCEPT !.here = FALSE]
        /\ l.pc = admin[a].pc /\ l.kind = admin[a].kind /\ l.of = admin[a].of
        /\ l.base = admin[a].base /\ l.secret = admin[a].secret /\ l.crossed = admin[a].crossed
        /\ l.here = FALSE
  BY <1>1, <1>2, FALSE \in BOOLEAN, ZenonT(20)
<1>4. /\ admin' = [admin EXCEPT ![a] = l] /\ screen' = [screen EXCEPT ![a] = ListPage]
      /\ UNCHANGED <<client, token, caller, secrets, known, superseded, wanted>>
  BY <1>3 DEF LeavePage
<1>5. OnWhatIs(a) /\ SecretOfAction(a)
  BY DEF AppInv, MadeOnce, SecretsApart
<1>6. There(l.of) \/ \A b \in Admins \ {a} : admin[b].of # l.of
  BY <1>3 DEF AppInv, MadeOnce
<1>7. l.secret # 0 => l.pc \in {"loaded", "done", "failed"}
  BY <1>1, <1>3, <1>5 DEF SecretOfAction, Actions
<1>8. ListPage \in Screens /\ ListPage.shows = 0
  BY RecordTypes
<1> QED
  BY <1>1, <1>3, <1>4, <1>5, <1>6, <1>7, <1>8, QuietKeeps DEF AppType, OnWhatIs, Creates

LEMMA StartKeeps ==
  ASSUME AppInv, NEW a \in Admins, NEW page \in {"list", "new", "client"},
         NEW kind \in {"create", "update", "rotate", "revoke", "delete"}, NEW c \in Apps,
         NEW patch \in Patches, Start(a, page, kind, c, patch),
         kind # "create" => There(c),
         kind = "create" => ~There(c) /\ \A b \in Admins : admin[b].of # c
  PROVE  AppInv'
<1>1. AppType /\ admin[a] \in Actions /\ screen[a] \in Screens /\ admin[a].pc = "idle"
  BY DEF AppInv, AppType, Start
<1>2. PICK l \in Actions :
        /\ l = [NoAction EXCEPT !.pc = "sent", !.kind = kind, !.of = c, !.patch = patch, !.here = TRUE]
        /\ l.pc = "sent" /\ l.kind = kind /\ l.of = c /\ l.secret = 0 /\ l.here
  BY SentType, ZenonT(60)
<1>3. \A q \in Screens, h \in BOOLEAN :
        LET s == [q EXCEPT !.page = page, !.of = c, !.disabled = h]
        IN s \in Screens /\ s.of = c /\ s.shows = q.shows
  BY DEF Screens
<1>4. PICK s \in Screens :
        /\ s = [screen[a] EXCEPT !.page = page, !.of = c, !.disabled = TRUE]
        /\ s.of = c /\ s.shows = screen[a].shows
  BY <1>1, <1>3, TRUE \in BOOLEAN, ZenonT(20)
<1>5. /\ admin' = [admin EXCEPT ![a] = l] /\ screen' = [screen EXCEPT ![a] = s]
      /\ UNCHANGED <<client, token, caller, secrets, known, superseded, wanted>>
  BY <1>2, <1>4 DEF Start
<1>6. s.shows # 0 => Holds(s.of, s.shows)
  <2>1. ShownBy(a)
    BY DEF AppInv, SecretsApart
  <2>2. screen[a].shows # 0 => screen[a].of = c
    BY RecordTypes DEF Start
  <2> QED BY <1>4, <2>1, <2>2 DEF ShownBy
<1> QED BY <1>1, <1>2, <1>4, <1>5, <1>6, QuietKeeps, ZenonT(60) DEF AppType

LEMMA PatchTypes ==
  /\ << >> \in Patches
  /\ \A f \in BOOLEAN : [fits |-> f] \in Patches
  /\ \A s \in {"ACTIVE", "DISABLED"} : [status |-> s] \in Patches
BY DEF Patches

LEMMA OrdersKeep ==
  ASSUME AppInv, NEW a \in Admins,
         \/ HandleCreate(a)
         \/ \E c \in Apps :
              HandleSave(a, c) \/ RunPendingAction(a, c) \/ RevokeTokens(a, c) \/ HandleDelete(a, c)
  PROVE  AppInv'
<1>1. CASE HandleCreate(a)
  <2>1. PICK c \in Apps :
          /\ client[c] = NoApp /\ \A b \in Admins : admin[b].of # c
          /\ Start(a, "new", "create", c, << >>)
    BY <1>1 DEF HandleCreate
  <2>2. ~There(c)
    BY <2>1, RecordTypes DEF There
  <2> QED BY <2>1, <2>2, PatchTypes, StartKeeps
<1>2. ASSUME NEW c \in Apps, HandleSave(a, c) PROVE AppInv'
  <2>1. PICK fits \in BOOLEAN : Start(a, "client", "update", c, [fits |-> fits]) /\ There(c)
    BY <1>2 DEF HandleSave, IsApp, There
  <2>2. [fits |-> fits] \in Patches
    BY PatchTypes
  <2> QED BY <2>1, <2>2, StartKeeps
<1>3. ASSUME NEW c \in Apps, RunPendingAction(a, c) PROVE AppInv'
  <2>1. There(c)
    BY <1>3 DEF RunPendingAction, IsApp, There
  <2>2. ASSUME NEW s \in {"ACTIVE", "DISABLED"}, Start(a, "client", "update", c, [status |-> s])
        PROVE  AppInv'
    <3>1. [status |-> s] \in Patches
      BY PatchTypes
    <3> QED BY <2>1, <2>2, <3>1, StartKeeps
  <2>3. CASE Start(a, "client", "rotate", c, << >>)
    BY <2>1, <2>3, PatchTypes, StartKeeps
  <2> QED BY <1>3, <2>2, <2>3 DEF RunPendingAction
<1>4. ASSUME NEW c \in Apps, RevokeTokens(a, c) PROVE AppInv'
  <2>1. There(c) /\ Start(a, "client", "revoke", c, << >>)
    BY <1>4 DEF RevokeTokens, AppInv, MadeOnce
  <2> QED BY <2>1, PatchTypes, StartKeeps
<1>5. ASSUME NEW c \in Apps, HandleDelete(a, c) PROVE AppInv'
  <2>1. There(c) /\ Start(a, "list", "delete", c, << >>)
    BY <1>5 DEF HandleDelete, IsApp, There
  <2> QED BY <2>1, PatchTypes, StartKeeps
<1> QED BY <1>1, <1>2, <1>3, <1>4, <1>5

\* A secret whose answer arrives, or finds no page, is known.
LEMMA AnswerAdminKeeps ==
  ASSUME AppInv, NEW a \in Admins, NEW arrives \in BOOLEAN, AnswerAdmin(a, arrives) PROVE AppInv'
<1>1. /\ AppType /\ admin[a] \in Actions /\ screen[a] \in Screens
      /\ admin[a].pc \in {"done", "failed"} /\ admin[a].secret \in Nat /\ admin[a].of \in Apps
      /\ SecretOfAction(a) /\ ShownBy(a)
      /\ UNCHANGED <<client, token, caller, secrets, superseded, wanted>>
  BY DEF AppInv, AppType, AnswerAdmin, Actions, SecretsApart
<1>2. /\ known \subseteq known' /\ known' \subseteq 1..secrets
      /\ admin[a].pc = "done" => admin[a].secret = 0 \/ admin[a].secret \in known'
  BY <1>1 DEF AnswerAdmin, SecretOfAction, AppType
<1>3. PICK s \in Screens :
        /\ screen' = [screen EXCEPT ![a] = s]
        /\ s.shows # 0 => Holds(s.of, s.shows)
  <2>1. CASE ~admin[a].here
    <3>1. screen' = [screen EXCEPT ![a] = screen[a]]
      BY <1>1, <2>1 DEF AnswerAdmin, AppType
    <3> QED BY <1>1, <3>1 DEF ShownBy
  <2>2. CASE admin[a].here
    <3>1. PICK d \in BOOLEAN, n \in Nat :
            /\ screen' = [screen EXCEPT ![a] = [screen[a] EXCEPT !.disabled = d, !.shows = n]]
            /\ n = screen[a].shows \/ (n = admin[a].secret /\ admin[a].pc = "done")
      <4>1. PICK d \in BOOLEAN : d = (~arrives /\ screen[a].page = "new")
        OBVIOUS
      <4>2. PICK n \in Nat :
              n = IF (arrives /\ admin[a].here /\ admin[a].pc = "done") /\ admin[a].secret # 0
                    THEN admin[a].secret ELSE screen[a].shows
        BY <1>1 DEF Screens
      <4>3. screen' = [screen EXCEPT
              ![a].disabled = (~arrives /\ screen[a].page = "new"),
              ![a].shows = IF (arrives /\ admin[a].here /\ admin[a].pc = "done") /\ admin[a].secret # 0
                             THEN admin[a].secret ELSE screen[a].shows]
        BY <2>2, Zenon DEF AnswerAdmin
      <4>4. screen' = [screen EXCEPT ![a] = [screen[a] EXCEPT !.disabled = d, !.shows = n]]
        BY <4>1, <4>2, <4>3, Zenon
      <4> QED BY <4>2, <4>4
    <3>2. \A q \in Screens : LET s == [q EXCEPT !.disabled = d, !.shows = n]
                             IN s \in Screens /\ s.shows = n /\ s.of = q.of
      BY DEF Screens
    <3>3. PICK s \in Screens :
            /\ s = [screen[a] EXCEPT !.disabled = d, !.shows = n] /\ s.shows = n
            /\ s.of = screen[a].of
      BY <1>1, <3>2
    <3>4. n # 0 => Holds(screen[a].of, n)
      BY <1>1, <2>2, <3>1 DEF SecretOfAction, ShownBy
    <3> QED BY <3>1, <3>3, <3>4
  <2> QED BY <2>1, <2>2
<1>4. admin' = [admin EXCEPT ![a] = NoAction]
  BY DEF AnswerAdmin
<1>5. There(NoAction.of)
  BY RecordTypes DEF AppInv, MadeOnce
<1>6. /\ NoAction \in Actions /\ NoAction.pc = "idle" /\ NoAction.kind = "none"
      /\ NoAction.secret = 0 /\ ~NoAction.here
  BY RecordTypes
<1> QED BY <1>1, <1>2, <1>3, <1>4, <1>5, <1>6, QuietKeeps DEF AppType

\* A call that ends without the rows.
LEMMA EndKeeps ==
  ASSUME AppInv, NEW a \in Admins, NEW l \in Actions, admin' = [admin EXCEPT ![a] = l],
         admin[a].pc \in {"sent", "loaded"},
         l.kind = admin[a].kind, l.of = admin[a].of, l.secret = admin[a].secret, l.here = admin[a].here,
         l.pc = "failed" \/ (l.pc = "done" /\ l.secret = 0),
         UNCHANGED <<client, screen, caller, secrets, superseded, known, wanted>>,
         token' \in [Apps -> {"none", "live", "revoked"}],
         \A c \in Apps : token'[c] = "live" => token[c] = "live"
  PROVE  AppInv'
<1>1. AppType /\ screen[a] \in Screens /\ screen' = [screen EXCEPT ![a] = screen[a]]
  BY DEF AppInv, AppType
<1>2. OnWhatIs(a) /\ SecretOfAction(a) /\ ShownBy(a)
  BY DEF AppInv, MadeOnce, SecretsApart
<1>3. There(l.of) \/ \A b \in Admins \ {a} : admin[b].of # l.of
  BY DEF AppInv, MadeOnce
<1>4. l.secret # 0 => admin[a].pc = "loaded"
  BY <1>2 DEF SecretOfAction
<1>5. l.kind \notin {"none", "create"} => There(l.of)
  BY <1>2 DEF OnWhatIs
<1>6. (l.here => screen[a].of = l.of) /\ (screen[a].shows # 0 => Holds(screen[a].of, screen[a].shows))
  BY <1>2 DEF ShownBy
<1>7. known \subseteq 1..secrets
  BY <1>1 DEF AppType
<1> QED BY <1>1, <1>3, <1>4, <1>5, <1>6, <1>7, QuietKeeps

LEMMA AdminFailsKeeps == ASSUME AppInv, NEW a \in Admins, AdminFails(a) PROVE AppInv'
<1>1. AppType /\ admin[a] \in Actions /\ admin[a].pc = "loaded"
  BY DEF AppInv, AppType, AdminFails
<1>2. PICK l \in Actions :
        /\ l = Ended(admin[a], "failed") /\ l.pc = "failed"
        /\ l.kind = admin[a].kind /\ l.of = admin[a].of /\ l.secret = admin[a].secret
        /\ l.here = admin[a].here
  BY <1>1, EndedType
<1>3. admin' = [admin EXCEPT ![a] = l]
  BY <1>2 DEF AdminFails
<1> QED BY <1>1, <1>2, <1>3, EndKeeps DEF AdminFails, AppType

LEMMA RevokedType ==
  ASSUME AppType, NEW c \in Apps
  PROVE  /\ Revoked(c) \in [Apps -> {"none", "live", "revoked"}]
         /\ \A d \in Apps : Revoked(c)[d] = "live" => token[d] = "live"
BY DEF AppType, Revoked

LEMMA RevokeClientTokensKeeps == ASSUME AppInv, NEW a \in Admins, RevokeClientTokens(a) PROVE AppInv'
<1>1. /\ AppType /\ admin[a] \in Actions /\ admin[a].pc = "loaded" /\ admin[a].kind = "revoke"
      /\ admin[a].of \in Apps /\ SecretOfAction(a)
  BY DEF AppInv, AppType, RevokeClientTokens, Writes, Actions, SecretsApart
<1>2. PICK l \in Actions :
        /\ l = Ended(admin[a], "done") /\ l.pc = "done"
        /\ l.kind = admin[a].kind /\ l.of = admin[a].of /\ l.secret = admin[a].secret
        /\ l.here = admin[a].here
  BY <1>1, EndedType
<1>3. admin' = [admin EXCEPT ![a] = l] /\ l.secret = 0
  BY <1>1, <1>2 DEF RevokeClientTokens, Writes, SecretOfAction
<1>4. /\ token' = Revoked(admin[a].of)
      /\ UNCHANGED <<client, screen, caller, secrets, superseded, known, wanted>>
  BY DEF RevokeClientTokens, Writes
<1> QED BY <1>1, <1>2, <1>3, <1>4, RevokedType, EndKeeps

\* A secret that is made is a new one.
LEMMA LoadClientKeeps == ASSUME AppInv, NEW a \in Admins, LoadClient(a) PROVE AppInv'
<1>1. /\ AppType /\ admin[a] \in Actions /\ admin[a].pc = "sent" /\ admin[a].of \in Apps
      /\ OnWhatIs(a) /\ SecretOfAction(a) /\ ShownBy(a) /\ admin[a].secret = 0 /\ secrets \in Nat
      /\ UNCHANGED <<client, token, screen, caller, superseded, known, wanted>>
  BY DEF AppInv, AppType, LoadClient, Actions, SecretsApart, SecretOfAction, MadeOnce
<1>2. CASE admin' = [admin EXCEPT ![a].pc = "failed"] /\ UNCHANGED secrets
  <2>1. PICK l \in Actions :
          /\ l = [admin[a] EXCEPT !.pc = "failed"] /\ l.pc = "failed"
          /\ l.kind = admin[a].kind /\ l.of = admin[a].of /\ l.secret = admin[a].secret
          /\ l.here = admin[a].here
    BY <1>1, PcType
  <2>2. admin' = [admin EXCEPT ![a] = l]
    BY <1>2, <2>1
  <2> QED BY <1>1, <1>2, <2>1, <2>2, EndKeeps DEF AppType
<1>3. ASSUME NEW n \in Nat,
             n = IF admin[a].kind \in {"create", "rotate"} THEN secrets + 1 ELSE 0,
             admin[a].kind = "create" \/ IsApp(admin[a].of),
             secrets' = IF n = 0 THEN secrets ELSE n,
             admin' = [admin EXCEPT ![a] = [admin[a] EXCEPT !.pc = "loaded",
                                              !.base = client[admin[a].of], !.secret = n]]
      PROVE  AppInv'
  <2>1. PICK c \in Apps, r \in AppRows, q \in Actions :
          c = admin[a].of /\ r = client[c] /\ q = admin[a]
    BY <1>1 DEF AppType
  <2>2. q.kind \in {"create", "rotate"} <=> n # 0
    BY <1>1, <1>3, <2>1
  <2>3. /\ [q EXCEPT !.pc = "loaded", !.base = r, !.secret = n] \in Actions
        /\ \A k \in Actions : k = [q EXCEPT !.pc = "loaded", !.base = r, !.secret = n] =>
             /\ k.pc = "loaded" /\ k.base = r /\ k.secret = n
             /\ k.kind = q.kind /\ k.of = q.of /\ k.here = q.here
    BY DEF Actions
  <2>4. PICK l \in Actions :
          /\ l = [q EXCEPT !.pc = "loaded", !.base = r, !.secret = n]
          /\ l.pc = "loaded" /\ l.base = r /\ l.secret = n
          /\ l.kind = q.kind /\ l.of = q.of /\ l.here = q.here
    BY <2>3, Zenon
  <2>5. admin' = [admin EXCEPT ![a] = l]
    BY <1>3, <2>1, <2>4
  <2>6. admin'[a] = l /\ \A b \in Admins \ {a} : admin'[b] = admin[b]
    BY <1>1, <2>5 DEF AppType
  <2>7. secrets' \in Nat /\ secrets <= secrets' /\ n <= secrets' /\ (n # 0 => n > secrets)
    BY <1>1, <1>3
  <2>8. AppType'
    BY <1>1, <2>5, <2>7 DEF AppType
  <2>9. MadeOnce'
    <3>1. /\ \A b \in Admins : admin'[b].of = admin[b].of /\ admin'[b].kind = admin[b].kind
          /\ \A b \in Admins : admin'[b].pc \in {"sent", "loaded"} => admin[b].pc \in {"sent", "loaded"}
      BY <1>1, <2>1, <2>4, <2>6
    <3>2. There(FirstApp)' /\ \A d \in Apps : token'[d] = "live" => There(d)'
      BY <1>1 DEF AppInv, MadeOnce, There
    <3>3. \A b \in Admins : OnWhatIs(b)'
      BY <1>1, <3>1 DEF AppInv, MadeOnce, There, OnWhatIs, Creates
    <3>4. \A b, d \in Admins : b # d /\ admin'[b].of = admin'[d].of => client'[admin'[b].of].status # "none"
      BY <1>1, <3>1 DEF AppInv, MadeOnce, There
    <3> QED BY <3>2, <3>3, <3>4 DEF MadeOnce, There
  <2>10. \A d, m : Holds(d, m)' <=> Holds(d, m)
    BY <1>1 DEF Holds, There, IsApp
  <2>11. \A d \in Apps : client[d].secret \in Nat /\ client[d].secret <= secrets
    BY <1>1 DEF AppInv, AppType, AppRows, SecretsApart, SecretOfApp
  <2>12. \A b \in Admins : admin[b].secret \in Nat /\ admin[b].secret <= secrets
    BY <1>1 DEF AppInv, AppType, Actions, SecretsApart, SecretOfAction
  <2>13. ASSUME NEW b \in Admins \ {a} PROVE SecretOfAction(b)' /\ ShownBy(b)'
    <3>1. SecretOfAction(b) /\ ShownBy(b) /\ admin'[b] = admin[b]
      BY <2>6 DEF AppInv, SecretsApart
    <3>2. PICK m \in Nat : m = admin[b].secret /\ m <= secrets
      BY <2>12
    <3>3. n # m \/ m = 0
      BY <1>1, <2>7, <3>2
    <3>4. \A d \in Admins : admin'[d].secret = admin[d].secret \/ (d = a /\ admin'[d].secret = n)
      BY <2>4, <2>6
    <3>5. Unshared(b) /\ m # 0 => \A d \in Admins : admin'[d].secret = m => d = b
      BY <3>2, <3>3, <3>4 DEF Unshared
    <3>6. Unshared(b) /\ m # 0 => Unshared(b)'
      BY <1>1, <3>1, <3>2, <3>5 DEF Unshared
    <3>7. m <= secrets'
      BY <1>1, <2>7, <3>2
    <3> QED BY <1>1, <2>10, <3>1, <3>2, <3>6, <3>7 DEF SecretOfAction, ShownBy
  <2>14. SecretOfAction(a)' /\ ShownBy(a)'
    <3>1. n # 0 => n \notin superseded
      BY <1>1, <2>7 DEF AppType
    <3>2. n # 0 => \A d \in Apps : client[d].secret # n
      BY <1>1, <2>7, <2>11
    <3>3. n # 0 => \A b \in Admins : admin[b].secret # n
      BY <1>1, <2>7, <2>12
    <3>4. n # 0 => Unshared(a)'
      BY <1>1, <2>4, <2>6, <3>1, <3>2, <3>3 DEF Unshared
    <3>5. SecretOfAction(a)'
      BY <2>1, <2>2, <2>4, <2>6, <2>7, <3>4 DEF SecretOfAction
    <3>6. ShownBy(a)'
      BY <1>1, <2>1, <2>4, <2>6, <2>10 DEF ShownBy
    <3> QED BY <3>5, <3>6
  <2>15. ASSUME NEW d \in Apps PROVE SecretOfApp(d)'
    <3>1. SecretOfApp(d) /\ client[d].secret <= secrets'
      BY <1>1, <2>7, <2>11 DEF AppInv, SecretsApart
    <3>2. IsApp(d) => Answered(d)'
      BY <1>1, <2>6, <3>1 DEF SecretOfApp, Answered
    <3> QED BY <1>1, <3>1, <3>2 DEF SecretOfApp, IsApp
  <2>16. NoticesDisabling(a)'
    <3>1. r.status = "ACTIVE" => c \in wanted
      BY <2>1 DEF AppInv, Barred
    <3>2. q.kind = "update" => r.status \in {"ACTIVE", "DISABLED"}
      BY <1>3, <2>1 DEF IsApp
    <3> QED BY <1>1, <2>1, <2>4, <2>6, <3>1, <3>2 DEF NoticesDisabling
  <2>17. Barred'
    BY <1>1, <2>6, <2>16 DEF AppInv, Barred, NoticesDisabling, RefusedIfLate, IsApp
  <2> QED BY <2>8, <2>9, <2>13, <2>14, <2>15, <2>17 DEF AppInv, SecretsApart
<1>4. CASE admin[a].kind = "create" \/ IsApp(admin[a].of)
  <2>1. PICK n \in Nat : n = IF admin[a].kind \in {"create", "rotate"} THEN secrets + 1 ELSE 0
    BY <1>1
  <2>2. /\ secrets' = IF n = 0 THEN secrets ELSE n
        /\ admin' = [admin EXCEPT ![a].pc = "loaded", ![a].base = client[admin[a].of], ![a].secret = n]
    BY <1>4, <2>1 DEF LoadClient
  <2>3. admin' = [admin EXCEPT ![a] = [admin[a] EXCEPT !.pc = "loaded",
                                          !.base = client[admin[a].of], !.secret = n]]
    BY <1>1, <2>2 DEF AppType
  <2> QED BY <1>3, <1>4, <2>1, <2>2, <2>3
<1> QED BY <1>2, <1>4 DEF LoadClient

-----------------------------------------------------------------------------
\* An action writes, and is done.
Moved(a) ==
  /\ admin' \in [Admins -> Actions] /\ admin[a].pc = "loaded" /\ admin'[a].pc = "done"
  /\ \A b \in Admins :
       /\ admin'[b].of = admin[b].of /\ admin'[b].secret = admin[b].secret
       /\ admin'[b].here = admin[b].here /\ admin'[b].kind = admin[b].kind
  /\ \A b \in Admins \ {a} :
       /\ admin'[b].pc = admin[b].pc /\ admin'[b].base = admin[b].base
       /\ admin[b].crossed => admin'[b].crossed

LEMMA WritesMoves ==
  ASSUME AppInv, NEW a \in Admins, NEW kind, Writes(a, kind)
  PROVE  /\ Moved(a) /\ admin[a].kind = kind /\ admin[a].of \in Apps
         /\ UNCHANGED <<screen, secrets, known>>
<1>1. AppType /\ admin[a] \in Actions /\ admin[a].pc = "loaded" /\ admin[a].of \in Apps
  BY DEF AppInv, AppType, Writes, Actions
<1>2. PICK l \in Actions :
        /\ l = Ended(admin[a], "done") /\ l.pc = "done"
        /\ l.kind = admin[a].kind /\ l.of = admin[a].of /\ l.secret = admin[a].secret
        /\ l.here = admin[a].here
  BY <1>1, EndedType
<1>3. admin' = [admin EXCEPT ![a] = l]
  BY <1>2 DEF Writes
<1> QED BY <1>1, <1>2, <1>3 DEF Moved, Writes, AppType

LEMMA MovedMadeOnce ==
  ASSUME AppInv, NEW a \in Admins, Moved(a), \A c \in Apps : There(c) => There(c)',
         \A c \in Apps : token'[c] = "live" => token[c] = "live",
         \A b \in Admins \ {a} : Creates(b) => ~There(admin[b].of)'
  PROVE  MadeOnce'
<1>1. \A b \in Admins : admin[b].of \in Apps /\ OnWhatIs(b)
  BY DEF AppInv, AppType, Actions, MadeOnce
<1>2. There(FirstApp)' /\ \A c \in Apps : token'[c] = "live" => There(c)'
  BY AppAssumption DEF AppInv, MadeOnce
<1>3. \A b, d \in Admins : b # d /\ admin'[b].of = admin'[d].of => There(admin[b].of)'
  BY <1>1 DEF Moved, AppInv, MadeOnce
<1>4. ASSUME NEW b \in Admins PROVE OnWhatIs(b)'
  <2>1. PICK d \in Apps : d = admin[b].of /\ admin'[b].of = d
    BY <1>1 DEF Moved
  <2>2. admin[b].kind \notin {"none", "create"} => There(d)'
    BY <1>1, <2>1 DEF OnWhatIs
  <2>3. Creates(b)' => ~There(d)'
    BY <2>1 DEF Moved, Creates
  <2> QED BY <2>1, <2>2, <2>3 DEF Moved, OnWhatIs
<1>5. \A b, d \in Admins : b # d /\ admin'[b].of = admin'[d].of => client'[admin'[b].of].status # "none"
  BY <1>3 DEF Moved, There
<1> QED BY <1>2, <1>4, <1>5 DEF MadeOnce, There

LEMMA MovedApart ==
  ASSUME AppInv, NEW a \in Admins, Moved(a), UNCHANGED <<screen, secrets, known>>,
         \A c \in Apps : \A n \in Nat : n # 0 /\ Holds(c, n) => Holds(c, n)',
         \A b \in Admins \ {a} : admin[b].secret # 0 /\ Unshared(b) => Unshared(b)',
         admin[a].secret # 0 => Holds(admin[a].of, admin[a].secret)',
         \A c \in Apps : SecretOfApp(c)'
  PROVE  SecretsApart'
<1>1. /\ AppType /\ \A b \in Admins : admin[b].of \in Apps /\ admin[b].secret \in Nat
      /\ \A b \in Admins : screen[b].of \in Apps /\ screen[b].shows \in Nat
  BY DEF AppInv, AppType, Actions, Screens
<1>2. ASSUME NEW b \in Admins PROVE SecretOfAction(b)'
  <2>1. PICK c \in Apps, n \in Nat :
          c = admin[b].of /\ n = admin[b].secret /\ admin'[b].of = c /\ admin'[b].secret = n
    BY <1>1 DEF Moved
  <2>2. SecretOfAction(b) /\ SecretOfAction(a)
    BY DEF AppInv, SecretsApart
  <2>3. n # 0 /\ (Holds(c, n) \/ b = a) => Holds(c, n)'
    BY <2>1
  <2>4. CASE b = a
    BY <2>1, <2>2, <2>3, <2>4 DEF SecretOfAction, Moved
  <2>5. CASE b # a
    BY <2>1, <2>2, <2>3, <2>5 DEF SecretOfAction, Moved
  <2> QED BY <2>4, <2>5
<1>3. ASSUME NEW b \in Admins PROVE ShownBy(b)'
  <2>1. PICK c \in Apps, n \in Nat : c = screen[b].of /\ n = screen[b].shows
    BY <1>1
  <2>2. ShownBy(b) /\ (n # 0 /\ Holds(c, n) => Holds(c, n)')
    BY DEF AppInv, SecretsApart
  <2> QED BY <2>1, <2>2 DEF ShownBy, Moved
<1> QED BY <1>2, <1>3 DEF SecretsApart

\* What enabling and disabling does to the requests under way.
LEMMA DecideEffect ==
  ASSUME AppInv, NEW c \in Apps, NEW open \in BOOLEAN, Decide(c, open)
  PROVE  /\ wanted' \subseteq Apps /\ (open => wanted' = wanted \cup {c}) /\ (~open => wanted' = wanted \ {c})
         /\ caller' \in [Callers -> AppCalls]
         /\ \A q \in Callers :
              /\ caller'[q].pc = caller[q].pc /\ caller'[q].kind = caller[q].kind
              /\ caller'[q].of = caller[q].of /\ caller'[q].secret = caller[q].secret
              /\ caller'[q].late \subseteq caller[q].late
              /\ open /\ caller[q].of = c => "shut" \notin caller'[q].late
<1>1. AppType
  BY DEF AppInv
<1>2. \A q \in AppCalls :
        LET l == [q EXCEPT !.late = @ \ {"shut"}]
        IN /\ l \in AppCalls /\ l.pc = q.pc /\ l.kind = q.kind /\ l.of = q.of /\ l.secret = q.secret
           /\ l.late = q.late \ {"shut"}
  BY DEF AppCalls
<1>3. \A q \in Callers :
        caller'[q] = IF open /\ caller[q].of = c THEN [caller[q] EXCEPT !.late = @ \ {"shut"}] ELSE caller[q]
  BY DEF Decide
<1>4. caller' \in [Callers -> AppCalls]
  BY <1>1, <1>2 DEF Decide, AppType
<1>5. \A q \in Callers :
        /\ caller'[q].pc = caller[q].pc /\ caller'[q].kind = caller[q].kind
        /\ caller'[q].of = caller[q].of /\ caller'[q].secret = caller[q].secret
        /\ caller'[q].late \subseteq caller[q].late
        /\ open /\ caller[q].of = c => "shut" \notin caller'[q].late
  BY <1>1, <1>2, <1>3, ZenonT(60) DEF AppType
<1> QED BY <1>1, <1>4, <1>5 DEF Decide, AppType

\* A request stays refused, unless its application is wanted again.
LEMMA DecideRefuses ==
  ASSUME AppInv, NEW c \in Apps, NEW open \in BOOLEAN, Decide(c, open), superseded \subseteq superseded'
  PROVE  \A q \in Callers : RefusedIfLate(q)'
<1>1. /\ (open => wanted' = wanted \cup {c}) /\ (~open => wanted' = wanted \ {c})
      /\ \A q \in Callers :
           /\ caller'[q].pc = caller[q].pc /\ caller'[q].kind = caller[q].kind
           /\ caller'[q].of = caller[q].of /\ caller'[q].secret = caller[q].secret
           /\ caller'[q].late \subseteq caller[q].late
           /\ open /\ caller[q].of = c => "shut" \notin caller'[q].late
  BY DecideEffect
<1>2. \A q \in Callers : RefusedIfLate(q)
  BY DEF AppInv, Barred
<1> QED BY <1>1, <1>2 DEF RefusedIfLate

\* What the writes have in common.
LEMMA MovedFacts ==
  ASSUME AppInv, NEW a \in Admins, Moved(a)
  PROVE  /\ AppType /\ admin[a].of \in Apps /\ admin[a].secret \in Nat /\ admin[a].secret <= secrets
         /\ \A c \in Apps : client[c] \in AppRows /\ SecretOfApp(c)
         /\ \A b \in Admins : OnWhatIs(b) /\ SecretOfAction(b) /\ NoticesDisabling(b)
         /\ \A c \in Apps : Answered(c) /\ client'[c].secret = client[c].secret /\ known' = known
                             => Answered(c)'
<1>1. \A c \in Apps : Answered(c) /\ client'[c].secret = client[c].secret /\ known' = known
                        => Answered(c)'
  BY DEF Answered, Moved
<1> QED BY <1>1 DEF AppInv, AppType, Actions, MadeOnce, SecretsApart, SecretOfAction, Barred

LEMMA InsertClientKeeps == ASSUME AppInv, NEW a \in Admins, InsertClient(a) PROVE AppInv'
<1>1. /\ Moved(a) /\ admin[a].kind = "create" /\ UNCHANGED <<screen, secrets, known>>
      /\ UNCHANGED <<token, superseded>>
      /\ client' = [client EXCEPT ![admin[a].of] = CreateClient(admin[a].secret)]
      /\ Decide(admin[a].of, TRUE)
  <2>1. Writes(a, "create")
    BY DEF InsertClient
  <2> QED BY <2>1, WritesMoves DEF InsertClient
<1>2. PICK c \in Apps, n \in Nat : c = admin[a].of /\ n = admin[a].secret /\ n <= secrets
  BY <1>1, MovedFacts
<1>3. /\ AppType /\ ~There(c) /\ n # 0 /\ Unshared(a)
      /\ \A b \in Admins \ {a} : admin[b].of # c
  <2>1. OnWhatIs(a) /\ SecretOfAction(a) /\ AppType
    BY <1>1, MovedFacts
  <2> QED BY <1>1, <1>2, <2>1 DEF AppInv, MadeOnce, OnWhatIs, Creates, SecretOfAction, Moved
<1>4. /\ CreateClient(n) \in AppRows /\ CreateClient(n).status = "ACTIVE" /\ CreateClient(n).secret = n
  BY DEF CreateClient, AppRows, Statuses
<1>5. PICK r \in AppRows : r = CreateClient(n) /\ r.status = "ACTIVE" /\ r.secret = n
  BY <1>4
<1>6. client' = [client EXCEPT ![c] = r] /\ Decide(c, TRUE)
  BY <1>1, <1>2, <1>5
<1>7. client'[c] = r /\ \A d \in Apps \ {c} : client'[d] = client[d]
  BY <1>3, <1>6 DEF AppType
<1>8. /\ wanted' = wanted \cup {c} /\ wanted' \subseteq Apps /\ caller' \in [Callers -> AppCalls]
      /\ \A q \in Callers : RefusedIfLate(q)'
  BY <1>1, <1>6, TRUE \in BOOLEAN, DecideEffect, DecideRefuses
<1>9. AppType'
  BY <1>1, <1>3, <1>6, <1>8 DEF AppType, Moved
<1>10. MadeOnce'
  <2>1. \A d \in Apps : There(d) => There(d)'
    BY <1>3, <1>7 DEF There
  <2>2. \A b \in Admins \ {a} : Creates(b) => ~There(admin[b].of)'
    <3> SUFFICES ASSUME NEW b \in Admins \ {a}, Creates(b) PROVE ~There(admin[b].of)'
      OBVIOUS
    <3>1. PICK d \in Apps : d = admin[b].of /\ d = admin'[b].of /\ d # c
      BY <1>1, <1>3 DEF Moved, AppType, Actions
    <3>2. OnWhatIs(b)
      BY <1>1, MovedFacts
    <3> QED BY <1>7, <3>1, <3>2 DEF OnWhatIs, There
  <2> QED BY <1>1, <2>1, <2>2, MovedMadeOnce
<1>11. SecretsApart'
  <2>1. \A d \in Apps : \A m \in Nat : m # 0 /\ Holds(d, m) => Holds(d, m)'
    BY <1>1, <1>3, <1>7 DEF Holds, There, IsApp
  <2>2. ASSUME NEW b \in Admins \ {a}, admin[b].secret # 0, Unshared(b) PROVE Unshared(b)'
    <3>1. PICK m : m = admin[b].secret /\ m = admin'[b].secret
      BY <1>1 DEF Moved
    <3>2. n # m
      BY <1>2, <2>2, <3>1 DEF Unshared
    <3>3. \A d \in Apps : client'[d].secret # m
      BY <1>5, <1>7, <2>2, <3>1, <3>2 DEF Unshared
    <3>4. \A e \in Admins : admin'[e].secret = m => e = b
      BY <1>1, <2>2, <3>1 DEF Unshared, Moved
    <3> QED BY <1>1, <2>2, <3>1, <3>3, <3>4 DEF Unshared
  <2>3. Holds(c, n)'
    BY <1>5, <1>7 DEF Holds, There, IsApp
  <2>4. ASSUME NEW d \in Apps PROVE SecretOfApp(d)'
    <3>1. CASE d = c
      <4>1. admin'[a].of = d /\ admin'[a].secret = n
        BY <1>1, <1>2, <3>1 DEF Moved
      <4>2. client'[d].secret = n
        BY <1>5, <1>7, <3>1
      <4>3. Answered(d)'
        BY <4>1, <4>2 DEF Answered
      <4>4. \A e \in Apps : client'[e].secret = n => e = d
        BY <1>2, <1>3, <1>7, <3>1 DEF Unshared
      <4> QED BY <1>1, <1>2, <1>3, <4>2, <4>3, <4>4 DEF SecretOfApp, Unshared
    <3>2. CASE d # c
      <4>1. SecretOfApp(d) /\ client'[d] = client[d] /\ (Answered(d) => Answered(d)')
        BY <1>1, <1>7, <3>2, MovedFacts
      <4>2. PICK m : m = client[d].secret
        OBVIOUS
      <4>3. n # m
        BY <1>2, <1>3, <4>2 DEF Unshared
      <4>4. IsApp(d) => \A e \in Apps : client'[e].secret = m => e = d
        BY <1>5, <1>7, <4>1, <4>2, <4>3 DEF SecretOfApp
      <4> QED BY <1>1, <4>1, <4>2, <4>4 DEF SecretOfApp, IsApp
    <3> QED BY <3>1, <3>2
  <2>5. admin[a].secret # 0 => Holds(admin[a].of, admin[a].secret)'
    BY <1>1, <1>2, <2>3 DEF Moved
  <2> QED BY <1>1, <2>1, <2>2, <2>4, <2>5, MovedApart
<1>12. Barred'
  <2>1. \A d \in Apps : client'[d].status = "ACTIVE" => d \in wanted'
    BY <1>7, <1>8 DEF AppInv, Barred
  <2>2. ASSUME NEW b \in Admins PROVE NoticesDisabling(b)'
    <3>1. CASE b = a
      BY <1>1, <3>1 DEF Moved, NoticesDisabling
    <3>2. CASE b # a
      <4>1. PICK d \in Apps : d = admin[b].of /\ d = admin'[b].of /\ d # c
        BY <1>1, <1>3, <3>2 DEF Moved, AppType, Actions
      <4> QED BY <1>1, <1>7, <1>8, <3>2, <4>1 DEF AppInv, Barred, NoticesDisabling, Moved, IsApp
    <3> QED BY <3>1, <3>2
  <2> QED BY <1>8, <2>1, <2>2 DEF Barred
<1> QED BY <1>9, <1>10, <1>11, <1>12 DEF AppInv

\* A write that leaves every secret, and who has one.
LEMMA MovedSame ==
  ASSUME AppInv, NEW a \in Admins, Moved(a), UNCHANGED <<screen, secrets, known, superseded, token>>,
         \A c \in Apps : client'[c].secret = client[c].secret,
         \A c \in Apps : \/ client'[c].status = client[c].status
                         \/ IsApp(c) /\ client'[c].status \in {"ACTIVE", "DISABLED"},
         admin[a].secret # 0 => There(admin[a].of) /\ ~IsApp(admin[a].of)
  PROVE  MadeOnce' /\ SecretsApart'
<1>1. \A c \in Apps : (There(c)' <=> There(c)) /\ (IsApp(c)' <=> IsApp(c))
  BY DEF There, IsApp
<1>2. known' = known /\ superseded' = superseded /\ \A c \in Apps : client'[c].secret = client[c].secret
  <2>1. known' = known /\ superseded' = superseded
    OBVIOUS
  <2>2. \A c \in Apps : client'[c].secret = client[c].secret
    OBVIOUS
  <2> QED BY <2>1, <2>2
<1>3. AppType /\ \A b \in Admins : admin[b].of \in Apps /\ admin'[b].of = admin[b].of
  BY DEF Moved, AppInv, AppType, Actions
<1>4. MadeOnce'
  <2>1. ASSUME NEW b \in Admins \ {a}, Creates(b) PROVE ~There(admin[b].of)'
    <3>1. PICK d \in Apps : d = admin[b].of /\ d = admin'[b].of
      BY <1>3
    <3>2. OnWhatIs(b)
      BY MovedFacts
    <3>3. There(d)' <=> There(d)
      BY <1>1
    <3> QED BY <2>1, <3>1, <3>2, <3>3 DEF OnWhatIs, There
  <2>2. \A c \in Apps : There(c) => There(c)'
    BY <1>1
  <2>3. \A c \in Apps : token'[c] = "live" => token[c] = "live"
    OBVIOUS
  <2> QED BY <2>1, <2>2, <2>3, MovedMadeOnce
<1>5. SecretsApart'
  <2>1. \A d \in Apps : \A m \in Nat : m # 0 /\ Holds(d, m) => Holds(d, m)'
    <3> SUFFICES ASSUME NEW d \in Apps, NEW m \in Nat, Holds(d, m) PROVE Holds(d, m)'
      OBVIOUS
    <3>1. (There(d)' <=> There(d)) /\ (IsApp(d)' <=> IsApp(d))
      BY <1>1
    <3> QED BY <1>2, <3>1 DEF Holds
  <2>2. ASSUME NEW b \in Admins \ {a}, admin[b].secret # 0, Unshared(b) PROVE Unshared(b)'
    <3>1. PICK m : m = admin[b].secret /\ m = admin'[b].secret
      BY DEF Moved
    <3>2. \A e \in Admins : admin'[e].secret = m => e = b
      BY <2>2, <3>1 DEF Unshared, Moved
    <3>3. \A d \in Apps : client'[d].secret # m
      BY <1>2, <2>2, <3>1 DEF Unshared
    <3> QED BY <1>2, <2>2, <3>1, <3>2, <3>3 DEF Unshared
  <2>3. ASSUME NEW d \in Apps PROVE SecretOfApp(d)'
    <3>1. SecretOfApp(d) /\ (Answered(d) => Answered(d)')
      BY <1>2, MovedFacts
    <3>2. (IsApp(d)' <=> IsApp(d)) /\ client'[d].secret = client[d].secret
      BY <1>1, <1>2
    <3>3. IsApp(d) => \A e \in Apps : client'[e].secret = client'[d].secret => e = d
      BY <1>2, <3>1, <3>2 DEF SecretOfApp
    <3> QED BY <1>2, <3>1, <3>2, <3>3 DEF SecretOfApp
  <2>4. admin[a].secret # 0 => Holds(admin[a].of, admin[a].secret)'
    <3>1. PICK d \in Apps : d = admin[a].of /\ d = admin'[a].of
      BY <1>3
    <3>2. admin[a].secret # 0 => There(d)' /\ ~IsApp(d)'
      BY <1>1, <3>1
    <3> QED BY <3>1, <3>2 DEF Holds, There, IsApp
  <2> QED BY <2>1, <2>2, <2>3, <2>4, MovedApart
<1> QED BY <1>4, <1>5

LEMMA DeleteClientKeeps == ASSUME AppInv, NEW a \in Admins, DeleteClient(a) PROVE AppInv'
<1>1. /\ Moved(a) /\ admin[a].kind = "delete" /\ UNCHANGED <<screen, secrets, known, superseded>>
      /\ client' = [client EXCEPT ![admin[a].of] = Deleted]
      /\ token' = [token EXCEPT ![admin[a].of] = "none"] /\ Decide(admin[a].of, FALSE)
  <2>1. Writes(a, "delete")
    BY DEF DeleteClient
  <2> QED BY <2>1, WritesMoves DEF DeleteClient
<1>2. PICK c \in Apps : c = admin[a].of /\ AppType /\ There(c) /\ admin[a].secret = 0
  BY <1>1, MovedFacts DEF Moved, OnWhatIs, SecretOfAction
<1>3. PICK r \in AppRows : r = Deleted /\ r.status = "deleted" /\ r.secret = 0
  BY RecordTypes
<1>4. client' = [client EXCEPT ![c] = r] /\ token' = [token EXCEPT ![c] = "none"] /\ Decide(c, FALSE)
  BY <1>1, <1>2, <1>3
<1>5. client'[c] = r /\ \A d \in Apps \ {c} : client'[d] = client[d]
  BY <1>2, <1>4 DEF AppType
<1>6. /\ wanted' = wanted \ {c} /\ wanted' \subseteq Apps /\ caller' \in [Callers -> AppCalls]
      /\ \A q \in Callers : RefusedIfLate(q)'
  BY <1>1, <1>4, FALSE \in BOOLEAN, DecideEffect, DecideRefuses
<1>7. AppType'
  BY <1>1, <1>2, <1>4, <1>6 DEF AppType, Moved
<1>8. MadeOnce'
  <2>1. \A d \in Apps : There(d) => There(d)'
    BY <1>3, <1>5 DEF There
  <2>2. ASSUME NEW b \in Admins \ {a}, Creates(b) PROVE ~There(admin[b].of)'
    <3>1. PICK d \in Apps : d = admin[b].of /\ d = admin'[b].of
      BY <1>1, <1>2 DEF Moved, AppType, Actions
    <3>2. OnWhatIs(b)
      BY <1>1, MovedFacts
    <3>3. d # c /\ ~There(d)
      BY <1>2, <2>2, <3>1, <3>2 DEF OnWhatIs
    <3> QED BY <1>5, <3>1, <3>3 DEF There
  <2>3. \A d \in Apps : token'[d] = "live" => token[d] = "live"
    BY <1>2, <1>4 DEF AppType
  <2> QED BY <1>1, <2>1, <2>2, <2>3, MovedMadeOnce
<1>9. SecretsApart'
  <2>1. \A d \in Apps : \A m \in Nat : m # 0 /\ Holds(d, m) => Holds(d, m)'
    BY <1>1, <1>3, <1>5 DEF Holds, There, IsApp
  <2>2. ASSUME NEW b \in Admins \ {a}, admin[b].secret # 0, Unshared(b) PROVE Unshared(b)'
    <3>1. PICK m : m = admin[b].secret /\ m = admin'[b].secret
      BY <1>1 DEF Moved
    <3>2. \A e \in Admins : admin'[e].secret = m => e = b
      BY <1>1, <2>2, <3>1 DEF Unshared, Moved
    <3>3. \A d \in Apps : client'[d].secret # m
      BY <1>3, <1>5, <2>2, <3>1 DEF Unshared
    <3> QED BY <1>1, <2>2, <3>1, <3>2, <3>3 DEF Unshared
  <2>3. ASSUME NEW d \in Apps PROVE SecretOfApp(d)'
    <3>1. CASE d = c
      <4>1. client'[d].secret = 0 /\ ~IsApp(d)' /\ 0 <= secrets'
        BY <1>1, <1>2, <1>3, <1>5, <3>1 DEF IsApp, AppType
      <4> QED BY <4>1 DEF SecretOfApp
    <3>2. CASE d # c
      <4>1. SecretOfApp(d) /\ client'[d] = client[d] /\ (Answered(d) => Answered(d)')
        BY <1>1, <1>5, <3>2, MovedFacts
      <4>2. IsApp(d) => \A e \in Apps : client'[e].secret = client'[d].secret => e = d
        BY <1>3, <1>5, <4>1 DEF SecretOfApp
      <4> QED BY <1>1, <4>1, <4>2 DEF SecretOfApp, IsApp
    <3> QED BY <3>1, <3>2
  <2>4. admin[a].secret # 0 => Holds(admin[a].of, admin[a].secret)'
    BY <1>2
  <2> QED BY <1>1, <2>1, <2>2, <2>3, <2>4, MovedApart
<1>10. Barred'
  <2>1. \A d \in Apps : client'[d].status = "ACTIVE" => d \in wanted'
    BY <1>3, <1>5, <1>6 DEF AppInv, Barred
  <2>2. ASSUME NEW b \in Admins PROVE NoticesDisabling(b)'
    <3>1. CASE b = a
      BY <1>1, <3>1 DEF Moved, NoticesDisabling
    <3>2. CASE b # a
      <4>1. PICK d \in Apps : d = admin[b].of /\ d = admin'[b].of
        BY <1>1, <1>2 DEF Moved, AppType, Actions
      <4>2. IsApp(d)' => d # c /\ IsApp(d) /\ (d \in wanted => d \in wanted')
        BY <1>3, <1>5, <1>6 DEF IsApp
      <4>3. NoticesDisabling(b)
        BY <1>1, MovedFacts
      <4>4. /\ admin'[b].pc = admin[b].pc /\ admin'[b].kind = admin[b].kind
            /\ admin'[b].base = admin[b].base /\ (admin[b].crossed => admin'[b].crossed)
        BY <1>1, <3>2 DEF Moved
      <4> QED BY <4>1, <4>2, <4>3, <4>4 DEF NoticesDisabling, IsApp
    <3> QED BY <3>1, <3>2
  <2> QED BY <1>6, <2>1, <2>2 DEF Barred
<1> QED BY <1>7, <1>8, <1>9, <1>10 DEF AppInv

LEMMA RotateSecretKeeps == ASSUME AppInv, NEW a \in Admins, RotateSecret(a) PROVE AppInv'
<1>1. /\ Moved(a) /\ admin[a].kind = "rotate" /\ UNCHANGED <<screen, secrets, known>>
      /\ UNCHANGED <<token, wanted, caller>>
  <2>1. Writes(a, "rotate")
    BY DEF RotateSecret
  <2> QED BY <2>1, WritesMoves DEF RotateSecret
<1>2. PICK c \in Apps, n \in Nat : c = admin[a].of /\ n = admin[a].secret /\ n <= secrets
  BY <1>1, MovedFacts
<1>3. AppType /\ There(c) /\ n # 0 /\ Unshared(a) /\ client[c] \in AppRows
  BY <1>1, <1>2, MovedFacts DEF Moved, OnWhatIs, SecretOfAction
<1>4. \A b \in Admins : NoticesDisabling(b)'
  <2> SUFFICES ASSUME NEW b \in Admins PROVE NoticesDisabling(b)'
    OBVIOUS
  <2>1. CASE b = a
    BY <1>1, <2>1 DEF Moved, NoticesDisabling
  <2>2. CASE b # a
    <3>1. PICK d \in Apps : d = admin[b].of /\ d = admin'[b].of
      BY <1>1, <1>3 DEF Moved, AppType, Actions
    <3>2. client'[d].status = client[d].status
      BY <1>2, <1>3 DEF RotateSecret, AppType, AppRows
    <3>3. NoticesDisabling(b)
      BY <1>1, MovedFacts
    <3> QED BY <1>1, <2>2, <3>1, <3>2, <3>3 DEF NoticesDisabling, IsApp, Moved
  <2> QED BY <2>1, <2>2
<1>5. CASE ~IsApp(c)
  <2>1. UNCHANGED <<client, superseded>>
    BY <1>2, <1>5 DEF RotateSecret
  <2>2. MadeOnce' /\ SecretsApart'
    <3>1. /\ \A d \in Apps : client'[d].secret = client[d].secret
          /\ \A d \in Apps : client'[d].status = client[d].status
      BY <2>1
    <3>2. UNCHANGED <<screen, secrets, known, superseded, token>>
      BY <1>1, <2>1
    <3>3. There(admin[a].of) /\ ~IsApp(admin[a].of)
      BY <1>2, <1>3, <1>5
    <3>4. \A d \in Apps : \/ client'[d].status = client[d].status
                          \/ IsApp(d) /\ client'[d].status \in {"ACTIVE", "DISABLED"}
      BY <3>1, Zenon
    <3> QED BY <1>1, <3>1, <3>2, <3>3, <3>4, MovedSame
  <2>3. AppType' /\ Barred'
    BY <1>1, <1>3, <1>4, <2>1 DEF AppInv, AppType, Moved, Barred, RefusedIfLate
  <2> QED BY <2>2, <2>3 DEF AppInv
<1>6. CASE IsApp(c)
  <2>1. PICK r \in AppRows : r = [client[c] EXCEPT !.secret = n] /\ r.secret = n /\ r.status = client[c].status
    <3>1. [client[c] EXCEPT !.secret = n] \in AppRows
      BY <1>3 DEF AppRows
    <3> QED BY <1>3, <3>1 DEF AppRows
  <2>2. PICK o \in Nat : o = client[c].secret
    BY <1>3 DEF AppRows
  <2>3. client' = [client EXCEPT ![c] = r] /\ superseded' = superseded \cup {o}
    BY <1>2, <1>3, <1>6, <2>1, <2>2 DEF RotateSecret, AppType
  <2>4. client'[c] = r /\ \A d \in Apps \ {c} : client'[d] = client[d]
    BY <1>3, <2>3 DEF AppType
  <2>5. o # 0 /\ o <= secrets /\ o # n /\ SecretOfApp(c)
    BY <1>1, <1>2, <1>3, <1>6, <2>2, MovedFacts DEF SecretOfApp, Unshared
  <2>6. AppType'
    BY <1>1, <1>3, <2>3, <2>5 DEF AppType, Moved
  <2>7. \A d \in Apps : (There(d)' <=> There(d)) /\ (IsApp(d)' <=> IsApp(d))
    BY <2>1, <2>4 DEF There, IsApp
  <2>8. MadeOnce'
    <3>1. ASSUME NEW b \in Admins \ {a}, Creates(b) PROVE ~There(admin[b].of)'
      <4>1. PICK d \in Apps : d = admin[b].of /\ d = admin'[b].of
        BY <1>1, <1>3 DEF Moved, AppType, Actions
      <4>2. OnWhatIs(b) /\ (There(d)' <=> There(d))
        BY <1>1, <2>7, MovedFacts
      <4> QED BY <3>1, <4>1, <4>2 DEF OnWhatIs, There
    <3>2. (\A d \in Apps : There(d) => There(d)') /\ \A d \in Apps : token'[d] = "live" => token[d] = "live"
      BY <1>1, <2>7
    <3> QED BY <1>1, <3>1, <3>2, MovedMadeOnce
  <2>9. SecretsApart'
    <3>1. \A d \in Apps : \A m \in Nat : m # 0 /\ Holds(d, m) => Holds(d, m)'
      <4> SUFFICES ASSUME NEW d \in Apps, NEW m \in Nat, Holds(d, m) PROVE Holds(d, m)'
        OBVIOUS
      <4>1. (There(d)' <=> There(d)) /\ (IsApp(d)' <=> IsApp(d))
        BY <2>7
      <4> QED BY <2>2, <2>3, <2>4, <4>1 DEF Holds
    <3>2. ASSUME NEW b \in Admins \ {a}, admin[b].secret # 0, Unshared(b) PROVE Unshared(b)'
      <4>1. PICK m : m = admin[b].secret /\ m = admin'[b].secret
        BY <1>1 DEF Moved
      <4>2. n # m /\ o # m
        BY <1>2, <2>2, <3>2, <4>1 DEF Unshared
      <4>3. \A d \in Apps : client'[d].secret # m
        BY <2>1, <2>4, <3>2, <4>1, <4>2 DEF Unshared
      <4>4. \A e \in Admins : admin'[e].secret = m => e = b
        BY <1>1, <3>2, <4>1 DEF Unshared, Moved
      <4> QED BY <2>3, <3>2, <4>1, <4>2, <4>3, <4>4 DEF Unshared
    <3>3. ASSUME NEW d \in Apps PROVE SecretOfApp(d)'
      <4>1. CASE d = c
        <5>1. admin'[a].of = d /\ admin'[a].secret = n /\ client'[d].secret = n
          BY <1>1, <1>2, <2>1, <2>4, <4>1 DEF Moved
        <5>2. Answered(d)'
          BY <5>1 DEF Answered
        <5>3. \A e \in Apps : client'[e].secret = n => e = d
          BY <1>2, <1>3, <2>4, <4>1 DEF Unshared
        <5>4. n \notin superseded'
          BY <1>2, <1>3, <2>3, <2>5 DEF Unshared
        <5> QED BY <1>1, <1>2, <1>3, <5>1, <5>2, <5>3, <5>4 DEF SecretOfApp
      <4>2. CASE d # c
        <5>1. SecretOfApp(d) /\ client'[d] = client[d] /\ (Answered(d) => Answered(d)')
          BY <1>1, <2>4, <4>2, MovedFacts
        <5>2. PICK m : m = client[d].secret
          OBVIOUS
        <5>3. n # m /\ (IsApp(d) => o # m)
          BY <1>2, <1>3, <2>2, <4>2, <5>1, <5>2 DEF Unshared, SecretOfApp
        <5>4. IsApp(d) => \A e \in Apps : client'[e].secret = m => e = d
          BY <2>1, <2>4, <5>1, <5>2, <5>3 DEF SecretOfApp
        <5> QED BY <1>1, <2>3, <5>1, <5>2, <5>3, <5>4 DEF SecretOfApp, IsApp
      <4> QED BY <4>1, <4>2
    <3>4. Holds(c, n)'
      BY <1>3, <2>1, <2>4 DEF Holds, There, IsApp
    <3>5. admin[a].secret # 0 => Holds(admin[a].of, admin[a].secret)'
      BY <1>1, <1>2, <3>4 DEF Moved
    <3> QED BY <1>1, <3>1, <3>2, <3>3, <3>5, MovedApart
  <2>10. Barred'
    <3>1. \A d \in Apps : client'[d].status = "ACTIVE" => d \in wanted'
      BY <1>1, <2>1, <2>4 DEF AppInv, Barred
    <3>2. \A q \in Callers : RefusedIfLate(q)'
      BY <1>1, <2>3 DEF AppInv, Barred, RefusedIfLate
    <3> QED BY <1>4, <3>1, <3>2 DEF Barred
  <2> QED BY <2>6, <2>8, <2>9, <2>10 DEF AppInv
<1> QED BY <1>5, <1>6

\* The row an edit writes: the secret is the one there is.
LEMMA RowOfUpdate ==
  ASSUME NEW row \in AppRows, NEW base \in AppRows, NEW patch \in Patches,
         base.status \in {"ACTIVE", "DISABLED"}
  PROVE  /\ UpdateRow(row, base, patch) \in AppRows
         /\ UpdateRow(row, base, patch).secret = row.secret
         /\ UpdateRow(row, base, patch).status \in {"ACTIVE", "DISABLED"}
         /\ "status" \notin DOMAIN patch => UpdateRow(row, base, patch).status = base.status
<1> DEFINE p == Patched(base, patch)
<1>1. DOMAIN base = {"status", "fits", "secret"} /\ base.fits \in BOOLEAN /\ base.secret \in Nat
  BY DEF AppRows
<1>2. /\ p \in AppRows /\ p.status \in {"ACTIVE", "DISABLED"}
      /\ "status" \notin DOMAIN patch => p.status = base.status
  <2>1. CASE patch = << >>
    <3>1. DOMAIN patch = {}
      BY <2>1
    <3>2. p = [f \in DOMAIN base |-> base[f]]
      BY <3>1 DEF Patched
    <3>3. p = base
      BY <1>1, <3>2 DEF AppRows
    <3> QED BY <3>3
  <2>2. CASE patch \in [fits : BOOLEAN]
    <3>1. DOMAIN patch = {"fits"} /\ patch.fits \in BOOLEAN
      BY <2>2
    <3>2. p = [f \in {"status", "fits", "secret"} |-> IF f = "fits" THEN patch.fits ELSE base[f]]
      BY <1>1, <3>1 DEF Patched
    <3>3. p = [base EXCEPT !.fits = patch.fits]
      BY <1>1, <3>2 DEF AppRows
    <3> QED BY <3>1, <3>3 DEF AppRows
  <2>3. CASE patch \in [status : {"ACTIVE", "DISABLED"}]
    <3>1. DOMAIN patch = {"status"} /\ patch.status \in {"ACTIVE", "DISABLED"}
      BY <2>3
    <3>2. p = [f \in {"status", "fits", "secret"} |-> IF f = "status" THEN patch.status ELSE base[f]]
      BY <1>1, <3>1 DEF Patched
    <3>3. p = [base EXCEPT !.status = patch.status]
      BY <1>1, <3>2 DEF AppRows
    <3> QED BY <3>1, <3>3 DEF AppRows, Statuses
  <2> QED BY <2>1, <2>2, <2>3 DEF Patches
<1>3. UpdateRow(row, base, patch) = [p EXCEPT !.secret = row.secret] /\ row.secret \in Nat
  BY DEF UpdateRow, AppRows
<1> HIDE DEF p
<1> QED BY <1>2, <1>3 DEF AppRows

LEMMA UpdateClientKeeps == ASSUME AppInv, NEW a \in Admins, UpdateClient(a) PROVE AppInv'
<1>1. /\ AppType /\ admin[a] \in Actions /\ admin[a].pc = "loaded" /\ admin[a].kind = "update"
      /\ admin[a].patch \in Patches /\ admin[a].base \in AppRows
      /\ OnWhatIs(a) /\ SecretOfAction(a) /\ NoticesDisabling(a)
      /\ UNCHANGED <<token, screen, secrets, superseded, known>>
  BY DEF AppInv, AppType, UpdateClient, Actions, SecretsApart, MadeOnce, Barred
<1>2. PICK c \in Apps, base \in AppRows, patch \in Patches :
        c = admin[a].of /\ base = admin[a].base /\ patch = admin[a].patch
  BY <1>1 DEF Actions
<1>3. PICK r \in AppRows :
        /\ r = UpdateRow(client[c], base, patch) /\ r.secret = client[c].secret
        /\ r.status \in {"ACTIVE", "DISABLED"}
        /\ "status" \notin DOMAIN patch => r.status = base.status
  <2>1. client[c] \in AppRows /\ base.status \in {"ACTIVE", "DISABLED"}
    BY <1>1, <1>2 DEF AppType, NoticesDisabling
  <2> QED BY <2>1, RowOfUpdate, ZenonT(60)
<1>4. PICK crosses \in BOOLEAN, decides \in BOOLEAN :
        /\ crosses = ("status" \in DOMAIN patch /\ r.status = "DISABLED" /\ IsApp(c))
        /\ decides = ("status" \in DOMAIN patch \/ (admin[a].crossed /\ r.status = "ACTIVE"))
  BY Zenon DEF IsApp
<1>5. PICK l \in Actions :
        /\ l = Ended(admin[a], "done") /\ l.pc = "done"
        /\ l.kind = admin[a].kind /\ l.of = admin[a].of /\ l.secret = admin[a].secret
        /\ l.here = admin[a].here
  BY <1>1, EndedType
<1>6. /\ IF ~IsApp(c) THEN UNCHANGED <<client, wanted, caller>>
         ELSE /\ client' = [client EXCEPT ![c] = r]
              /\ IF decides THEN Decide(c, r.status = "ACTIVE") ELSE UNCHANGED <<wanted, caller>>
      /\ admin' = [b \in Admins |->
           IF b = a THEN l
           ELSE IF crosses /\ admin[b].of = c /\ admin[b].pc = "loaded"
                  THEN [admin[b] EXCEPT !.crossed = TRUE] ELSE admin[b]]
  BY <1>2, <1>3, <1>4, <1>5, Zenon DEF UpdateClient
<1>7. \A q \in Actions : LET k == [q EXCEPT !.crossed = TRUE]
        IN /\ k \in Actions /\ k.pc = q.pc /\ k.kind = q.kind /\ k.of = q.of /\ k.secret = q.secret
           /\ k.base = q.base /\ k.here = q.here /\ k.crossed = TRUE
  BY TRUE \in BOOLEAN DEF Actions
<1>8. /\ admin'[a] = l
      /\ \A b \in Admins \ {a} :
           \/ admin'[b] = admin[b] /\ ~(crosses /\ admin[b].of = c /\ admin[b].pc = "loaded")
           \/ admin'[b] = [admin[b] EXCEPT !.crossed = TRUE]
  BY <1>6
<1>9. Moved(a)
  <2>1. \A b \in Admins : admin[b] \in Actions
    BY <1>1 DEF AppType
  <2>2. ASSUME NEW b \in Admins \ {a}
        PROVE  /\ admin'[b] \in Actions /\ admin'[b].of = admin[b].of /\ admin'[b].secret = admin[b].secret
               /\ admin'[b].here = admin[b].here /\ admin'[b].kind = admin[b].kind
               /\ admin'[b].pc = admin[b].pc /\ admin'[b].base = admin[b].base
               /\ admin[b].crossed => admin'[b].crossed
    BY <1>7, <1>8, <2>1, ZenonT(60)
  <2>3. admin' \in [Admins -> Actions]
    <3>1. \A b \in Admins : admin'[b] \in Actions
      BY <1>8, <2>2
    <3>2. admin' = [b \in Admins |-> admin'[b]]
      BY <1>6
    <3> QED BY <3>1, <3>2
  <2> QED BY <1>1, <1>5, <1>8, <2>2, <2>3 DEF Moved
<1>10. ASSUME NEW d \in Apps
       PROVE  /\ client'[d].secret = client[d].secret
              /\ \/ client'[d].status = client[d].status
                 \/ IsApp(d) /\ client'[d].status \in {"ACTIVE", "DISABLED"}
  BY <1>1, <1>3, <1>6 DEF AppType
<1>11. MadeOnce' /\ SecretsApart'
  <2>1. admin[a].secret = 0
    BY <1>1 DEF SecretOfAction
  <2>2. \A d \in Apps : client'[d].secret = client[d].secret
    BY <1>10
  <2>3. \A d \in Apps : \/ client'[d].status = client[d].status
                        \/ IsApp(d) /\ client'[d].status \in {"ACTIVE", "DISABLED"}
    BY <1>10, Zenon
  <2> QED BY <1>1, <1>9, <2>1, <2>2, <2>3, MovedSame
<1>12. client' \in [Apps -> AppRows]
  BY <1>1, <1>6 DEF AppType
<1>13. \A b \in Admins :
         /\ NoticesDisabling(b)
         /\ admin[b].pc = "loaded" /\ admin[b].of = c /\ b # a /\ crosses => admin'[b].crossed
  <2>1. ASSUME NEW b \in Admins \ {a}, admin[b].pc = "loaded", admin[b].of = c, crosses
        PROVE  admin'[b].crossed
    <3>1. admin'[b] = [admin[b] EXCEPT !.crossed = TRUE] /\ admin[b] \in Actions
      BY <1>1, <1>8, <2>1 DEF AppType
    <3> QED BY <1>7, <3>1, Zenon
  <2> QED BY <1>9, <2>1, MovedFacts
<1>14. CASE ~IsApp(c) \/ ~decides
  <2>1. /\ UNCHANGED <<wanted, caller>> /\ ~crosses
        /\ client' = client \/ (client' = [client EXCEPT ![c] = r] /\ IsApp(c))
    BY <1>4, <1>6, <1>14
  <2>2. AppType'
    BY <1>1, <1>9, <1>12, <2>1 DEF AppType, Moved
  <2>3. \A d \in Apps : client'[d].status = "ACTIVE" => d \in wanted
    <3>1. IsApp(c) /\ r.status = "ACTIVE" => c \in wanted
      BY <1>1, <1>2, <1>3, <1>4, <1>14 DEF NoticesDisabling
    <3> QED BY <1>1, <2>1, <3>1 DEF AppInv, Barred, AppType
  <2>4. ASSUME NEW b \in Admins PROVE NoticesDisabling(b)'
    <3>1. CASE b = a
      BY <1>9, <3>1 DEF Moved, NoticesDisabling
    <3>2. CASE b # a
      <4>1. PICK d \in Apps : d = admin[b].of /\ d = admin'[b].of
        BY <1>1, <1>9 DEF Moved, AppType, Actions
      <4>2. IsApp(d)' => IsApp(d)
        BY <1>10 DEF IsApp
      <4>3. NoticesDisabling(b)
        BY <1>13
      <4> QED BY <1>9, <2>1, <3>2, <4>1, <4>2, <4>3 DEF NoticesDisabling, IsApp, Moved
    <3> QED BY <3>1, <3>2
  <2>5. Barred'
    BY <1>1, <2>1, <2>3, <2>4 DEF AppInv, Barred, RefusedIfLate
  <2> QED BY <1>11, <2>2, <2>5 DEF AppInv
<1>15. CASE IsApp(c) /\ decides
  <2>1. PICK open \in BOOLEAN : open = (r.status = "ACTIVE")
    OBVIOUS
  <2>2. client' = [client EXCEPT ![c] = r] /\ Decide(c, open)
    BY <1>6, <1>15, <2>1, Zenon
  <2>3. /\ wanted' \subseteq Apps /\ (open => wanted' = wanted \cup {c}) /\ (~open => wanted' = wanted \ {c})
        /\ caller' \in [Callers -> AppCalls] /\ \A q \in Callers : RefusedIfLate(q)'
    BY <1>1, <2>2, DecideEffect, DecideRefuses
  <2>4. AppType'
    BY <1>1, <1>9, <1>12, <2>3 DEF AppType, Moved
  <2>5. \A d \in Apps : client'[d].status = "ACTIVE" => d \in wanted'
    BY <1>1, <2>1, <2>2, <2>3 DEF AppInv, Barred, AppType
  <2>6. ~open => crosses
    BY <1>3, <1>4, <1>15, <2>1
  <2>7. ASSUME NEW b \in Admins PROVE NoticesDisabling(b)'
    <3>1. CASE b = a
      BY <1>9, <3>1 DEF Moved, NoticesDisabling
    <3>2. CASE b # a
      <4>1. PICK d \in Apps : d = admin[b].of /\ d = admin'[b].of
        BY <1>1, <1>9 DEF Moved, AppType, Actions
      <4>2. IsApp(d)' => IsApp(d)
        BY <1>10 DEF IsApp
      <4>3. /\ NoticesDisabling(b)
            /\ admin[b].pc = "loaded" /\ d = c /\ ~open => admin'[b].crossed
        BY <1>13, <2>6, <3>2, <4>1
      <4>4. d \in wanted => d \in wanted' \/ (d = c /\ ~open)
        BY <2>3
      <4> QED BY <1>9, <3>2, <4>1, <4>2, <4>3, <4>4 DEF NoticesDisabling, IsApp, Moved
    <3> QED BY <3>1, <3>2
  <2>8. Barred'
    BY <2>3, <2>5, <2>7 DEF Barred
  <2> QED BY <1>11, <2>4, <2>8 DEF AppInv
<1> QED BY <1>4, <1>14, <1>15

-----------------------------------------------------------------------------
\* The requests of the applications.
LEMMA CallerKeeps ==
  ASSUME AppInv, NEW q \in Callers, NEW l \in AppCalls, caller' = [caller EXCEPT ![q] = l],
         UNCHANGED <<client, screen, admin, secrets, superseded, known, wanted>>,
         token' \in [Apps -> {"none", "live", "revoked"}],
         \A c \in Apps : token'[c] = "live" => There(c),
         IF l.pc = "check"
           THEN /\ "shut" \in l.late => l.of \notin wanted
                /\ "secret" \in l.late => l.kind # "authorize" /\ l.secret \in superseded
           ELSE l.late = {}
  PROVE  AppInv'
<1>1. AppType
  BY DEF AppInv
<1>2. AppType'
  BY <1>1 DEF AppType
<1>3. MadeOnce'
  BY DEF AppInv, MadeOnce, OnWhatIs, Creates, There
<1>4. SecretsApart'
  <2>1. \A a \in Admins : (SecretOfAction(a)' <=> SecretOfAction(a)) /\ (ShownBy(a)' <=> ShownBy(a))
    BY DEF SecretOfAction, ShownBy, Unshared, Holds, There, IsApp
  <2>2. \A c \in Apps : SecretOfApp(c)' <=> SecretOfApp(c)
    BY DEF SecretOfApp, Answered, IsApp
  <2> QED BY <2>1, <2>2 DEF AppInv, SecretsApart
<1>5. Barred'
  <2>1. \A b \in Callers \ {q} : caller'[b] = caller[b]
    OBVIOUS
  <2>2. caller'[q] = l
    BY <1>1 DEF AppType
  <2>3. \A b \in Callers : RefusedIfLate(b)'
    BY <2>1, <2>2 DEF AppInv, Barred, RefusedIfLate
  <2>4. \A a \in Admins : NoticesDisabling(a)'
    BY DEF AppInv, Barred, NoticesDisabling, IsApp
  <2> QED BY <2>3, <2>4 DEF AppInv, Barred
<1> QED BY <1>2, <1>3, <1>4, <1>5 DEF AppInv

\* A step of a request ends it, or goes on with the same application.
LEMMA StepKeeps ==
  ASSUME AppInv, NEW q \in Callers, NEW pc \in {"idle", "work", "issue", "answer"},
         NEW good \in BOOLEAN, Step(q, pc, good),
         UNCHANGED <<client, screen, admin, secrets, superseded, known, wanted>>,
         token' \in [Apps -> {"none", "live", "revoked"}],
         \A c \in Apps : token'[c] = "live" => There(c),
         pc # "idle" => caller[q].late = {}
  PROVE  AppInv'
<1>1. AppType /\ caller[q] \in AppCalls
  BY DEF AppInv, AppType
<1>2. CASE pc = "idle"
  <2>1. caller' = [caller EXCEPT ![q] = NoCaller]
    BY <1>2 DEF Step
  <2> QED BY <2>1, RecordTypes, CallerKeeps
<1>3. CASE pc # "idle"
  <2>1. caller' = [caller EXCEPT ![q] = [caller[q] EXCEPT !.pc = pc, !.good = good, !.secret = 0]]
    BY <1>3 DEF Step
  <2>2. /\ [caller[q] EXCEPT !.pc = pc, !.good = good, !.secret = 0] \in AppCalls
        /\ \A k \in AppCalls : k = [caller[q] EXCEPT !.pc = pc, !.good = good, !.secret = 0] =>
             k.pc = pc /\ k.late = caller[q].late
    BY <1>1 DEF AppCalls
  <2>3. PICK l \in AppCalls :
          /\ l = [caller[q] EXCEPT !.pc = pc, !.good = good, !.secret = 0]
          /\ l.pc = pc /\ l.late = caller[q].late
    BY <2>2, Zenon
  <2>4. caller' = [caller EXCEPT ![q] = l]
    BY <2>1, <2>3
  <2>5. l.pc # "check" /\ l.late = {}
    BY <1>3, <2>3
  <2> QED BY <2>4, <2>5, CallerKeeps
<1> QED BY <1>2, <1>3

LEMMA CallKeeps ==
  ASSUME AppInv, NEW q \in Callers, NEW kind \in Kinds, NEW c \in Apps, NEW secret \in Nat,
         Call(q, kind, c, secret)
  PROVE  AppInv'
<1>1. AppType
  BY DEF AppInv
<1>2. PICK late \in SUBSET {"shut", "secret"} :
        late = (IF c \in wanted THEN {} ELSE {"shut"})
               \cup (IF kind # "authorize" /\ secret \in superseded THEN {"secret"} ELSE {})
  OBVIOUS
<1>3. /\ ("shut" \in late => c \notin wanted)
      /\ ("secret" \in late => kind # "authorize" /\ secret \in superseded)
  BY <1>2
<1>4. \A r \in AppCalls :
        LET l == [r EXCEPT !.pc = "check", !.kind = kind, !.of = c, !.secret = secret, !.late = late]
        IN /\ l \in AppCalls /\ l.pc = "check" /\ l.kind = kind /\ l.of = c /\ l.secret = secret
           /\ l.late = late
  BY DEF AppCalls
<1>5. PICK l \in AppCalls :
        /\ l = [NoCaller EXCEPT !.pc = "check", !.kind = kind, !.of = c, !.secret = secret, !.late = late]
        /\ l.pc = "check" /\ l.kind = kind /\ l.of = c /\ l.secret = secret /\ l.late = late
  BY <1>4, RecordTypes, Zenon
<1>6. /\ caller' = [caller EXCEPT ![q] = l]
      /\ UNCHANGED <<client, token, screen, admin, secrets, superseded, known, wanted>>
  BY <1>2, <1>5 DEF Call
<1>7. \A d \in Apps : token'[d] = "live" => There(d)
  BY <1>6 DEF AppInv, MadeOnce
<1>8. IF l.pc = "check"
        THEN /\ "shut" \in l.late => l.of \notin wanted
             /\ "secret" \in l.late => l.kind # "authorize" /\ l.secret \in superseded
        ELSE l.late = {}
  BY <1>3, <1>5
<1>9. token' \in [Apps -> {"none", "live", "revoked"}]
  BY <1>1, <1>6 DEF AppType
<1> QED BY <1>6, <1>7, <1>8, <1>9, CallerKeeps

\* Who passes the checks is not late.
LEMMA CheckCallerKeeps == ASSUME AppInv, NEW q \in Callers, CheckCaller(q) PROVE AppInv'
<1> DEFINE c == caller[q].of
<1>1. /\ AppType /\ caller[q] \in AppCalls /\ caller[q].pc = "check" /\ RefusedIfLate(q)
      /\ caller[q].late \subseteq {"shut", "secret"}
      /\ UNCHANGED <<client, token, screen, admin, secrets, superseded, known, wanted>>
      /\ \A x \in Apps : token'[x] = "live" => There(x)
  BY DEF AppInv, AppType, Barred, CheckCaller, AppCalls, MadeOnce
<1>2. c \in Apps
  BY <1>1 DEF AppCalls
<1>3. ResolveActiveClient(c) => "shut" \notin caller[q].late
  BY <1>1, <1>2 DEF ResolveActiveClient, AppInv, Barred, RefusedIfLate
<1>4. PICK passes \in BOOLEAN :
        /\ Step(q, IF passes THEN "work" ELSE "idle", FALSE)
        /\ passes => caller[q].late = {}
  <2>1. ASSUME NEW admitted, caller[q].kind = "authorize",
               Step(q, IF ResolveActiveClient(c) /\ client[c].fits /\ admitted
                         THEN "work" ELSE "idle", FALSE)
        PROVE  \E passes \in BOOLEAN : /\ Step(q, IF passes THEN "work" ELSE "idle", FALSE)
                                       /\ passes => caller[q].late = {}
    <3>1. CASE ResolveActiveClient(c) /\ client[c].fits /\ admitted
      <4>1. Step(q, "work", FALSE) /\ caller[q].late = {}
        BY <1>1, <1>3, <2>1, <3>1 DEF RefusedIfLate
      <4> QED BY <4>1
    <3>2. CASE ~(ResolveActiveClient(c) /\ client[c].fits /\ admitted)
      <4>1. Step(q, "idle", FALSE)
        BY <2>1, <3>2, Zenon
      <4> QED BY <4>1
    <3> QED BY <3>1, <3>2
  <2>2. ASSUME caller[q].kind # "authorize",
               Step(q, IF AuthenticateOAuthClient(c, caller[q].secret) THEN "work" ELSE "idle", FALSE)
        PROVE  \E passes \in BOOLEAN : /\ Step(q, IF passes THEN "work" ELSE "idle", FALSE)
                                       /\ passes => caller[q].late = {}
    <3>1. CASE AuthenticateOAuthClient(c, caller[q].secret)
      <4>1. ResolveActiveClient(c) /\ client[c].secret = caller[q].secret /\ IsApp(c)
        BY <3>1 DEF AuthenticateOAuthClient, ResolveActiveClient
      <4>2. client[c].secret \notin superseded
        BY <1>2, <4>1 DEF AppInv, SecretsApart, SecretOfApp
      <4>3. Step(q, "work", FALSE) /\ caller[q].late = {}
        BY <1>1, <1>3, <2>2, <3>1, <4>1, <4>2 DEF RefusedIfLate
      <4> QED BY <4>3
    <3>2. CASE ~AuthenticateOAuthClient(c, caller[q].secret)
      <4>1. Step(q, "idle", FALSE)
        BY <2>2, <3>2, Zenon
      <4> QED BY <4>1
    <3> QED BY <3>1, <3>2
  <2>3. \/ /\ caller[q].kind = "authorize"
           /\ \E admitted \in {ValidateAuthorization(user, c) : user \in Accounts} :
                Step(q, IF ResolveActiveClient(c) /\ client[c].fits /\ admitted
                          THEN "work" ELSE "idle", FALSE)
        \/ /\ caller[q].kind # "authorize"
           /\ Step(q, IF AuthenticateOAuthClient(c, caller[q].secret) THEN "work" ELSE "idle", FALSE)
    BY DEF CheckCaller
  <2> HIDE DEF c
  <2> QED BY <2>1, <2>2, <2>3, Zenon
<1>5. CASE passes
  <2>1. Step(q, "work", FALSE) /\ caller[q].late = {}
    BY <1>4, <1>5
  <2> QED BY <1>1, <2>1, StepKeeps DEF AppType
<1>6. CASE ~passes
  <2>1. Step(q, "idle", FALSE)
    BY <1>4, <1>6
  <2> QED BY <1>1, <2>1, StepKeeps DEF AppType
<1> QED BY <1>5, <1>6

\* The rest of a request, whose tokens are those of an application that is there.
LEMMA WorkKeeps ==
  ASSUME AppInv, NEW q \in Callers,
         \/ InsertCode(q) \/ ExchangeCode(q) \/ RotateToken(q) \/ Introspect(q) \/ RevokeToken(q)
         \/ IssueTokens(q) \/ AnswerCaller(q)
  PROVE  AppInv'
<1> DEFINE c == caller[q].of
<1>1. /\ AppType /\ caller[q] \in AppCalls /\ c \in Apps /\ RefusedIfLate(q)
      /\ \A d \in Apps : token[d] = "live" => There(d)
      /\ (IsApp(c) => There(c))
  BY DEF AppInv, AppType, Barred, AppCalls, MadeOnce, IsApp, There
<1>2. caller[q].pc # "check" /\ caller[q].late = {}
  BY <1>1 DEF RefusedIfLate, InsertCode, ExchangeCode, RotateToken, Introspect, RevokeToken,
              IssueTokens, AnswerCaller, AtWorkOn
<1>3. UNCHANGED <<client, screen, admin, secrets, superseded, known, wanted>>
  BY DEF InsertCode, ExchangeCode, RotateToken, Introspect, RevokeToken, IssueTokens, AnswerCaller,
         AtWorkOn
<1>4. /\ Revoked(c) \in [Apps -> {"none", "live", "revoked"}]
      /\ \A d \in Apps : Revoked(c)[d] = "live" => There(d)
  BY <1>1, RevokedType
<1>5. /\ token' \in [Apps -> {"none", "live", "revoked"}]
      /\ \A d \in Apps : token'[d] = "live" => There(d)
  BY <1>1, <1>4 DEF AppType, InsertCode, ExchangeCode, RotateToken, Introspect, RevokeToken,
                    IssueTokens, AnswerCaller
<1>6. PICK pc \in {"idle", "issue", "answer"}, good \in BOOLEAN : Step(q, pc, good)
  <2>1. CASE InsertCode(q)
    <3>1. Step(q, IF IsApp(c) THEN "answer" ELSE "idle", TRUE)
      BY <2>1 DEF InsertCode
    <3> QED BY <3>1
  <2>2. CASE ExchangeCode(q)
    <3>1. Step(q, IF code[c] = "live" THEN "issue" ELSE "idle", FALSE)
      BY <2>2 DEF ExchangeCode
    <3> QED BY <3>1
  <2>3. CASE RotateToken(q)
    <3>1. Step(q, "answer", TRUE) \/ Step(q, "idle", FALSE)
      BY <2>3 DEF RotateToken
    <3> QED BY <3>1
  <2>4. CASE Introspect(q)
    <3>1. Step(q, "answer", token[c] = "live")
      BY <2>4 DEF Introspect
    <3>2. PICK live \in BOOLEAN : live = (token[c] = "live")
      OBVIOUS
    <3>3. Step(q, "answer", live)
      BY <3>1, <3>2, Zenon
    <3> QED BY <3>3
  <2>5. CASE RevokeToken(q)
    <3>1. Step(q, "answer", FALSE)
      BY <2>5 DEF RevokeToken
    <3> QED BY <3>1
  <2>6. CASE IssueTokens(q)
    <3>1. Step(q, IF IsApp(c) THEN "answer" ELSE "idle", TRUE)
      BY <2>6 DEF IssueTokens
    <3> QED BY <3>1
  <2>7. CASE AnswerCaller(q)
    <3>1. Step(q, "idle", FALSE)
      BY <2>7 DEF AnswerCaller
    <3> QED BY <3>1
  <2> QED BY <2>1, <2>2, <2>3, <2>4, <2>5, <2>6, <2>7
<1> QED BY <1>2, <1>3, <1>5, <1>6, StepKeeps

-----------------------------------------------------------------------------
\* In the beginning one application is there, its secret known.
LEMMA AppInitially == AppInit => AppInv
<1> SUFFICES ASSUME AppInit PROVE AppInv
  OBVIOUS
<1> USE AppAssumption
<1>1. CreateClient(1) \in AppRows /\ CreateClient(1).status = "ACTIVE" /\ CreateClient(1).secret = 1
  BY DEF CreateClient, AppRows, Statuses
<1>2. PICK r \in AppRows, no \in AppRows :
        /\ r = CreateClient(1) /\ r.status = "ACTIVE" /\ r.secret = 1
        /\ no = NoApp /\ no.status = "none" /\ no.secret = 0
  BY <1>1, RecordTypes
<1>3. client = [c \in Apps |-> IF c = FirstApp THEN r ELSE no]
  BY <1>2, Zenon DEF AppInit
<1>4. client[FirstApp] = r /\ \A c \in Apps \ {FirstApp} : client[c] = no
  BY <1>3
<1>5. PICK l \in Actions, s \in Screens, k \in AppCalls :
        /\ l = NoAction /\ l.pc = "idle" /\ l.kind = "none" /\ l.of = FirstApp /\ l.secret = 0 /\ ~l.here
        /\ s = ListPage /\ s.of = FirstApp /\ s.shows = 0
        /\ k = NoCaller /\ k.pc = "idle" /\ k.late = {}
  BY RecordTypes
<1>6. /\ screen = [a \in Admins |-> s] /\ admin = [a \in Admins |-> l] /\ caller = [q \in Callers |-> k]
      /\ token = [c \in Apps |-> "none"]
      /\ secrets = 1 /\ superseded = {} /\ known = {1} /\ wanted = {FirstApp}
  BY <1>5 DEF AppInit
<1>7. AppType
  BY <1>3, <1>6 DEF AppType
<1>8. MadeOnce
  BY <1>2, <1>4, <1>5, <1>6 DEF MadeOnce, There, OnWhatIs, Creates
<1>9. SecretsApart
  <2>1. \A a \in Admins : SecretOfAction(a) /\ ShownBy(a)
    BY <1>5, <1>6 DEF SecretOfAction, ShownBy
  <2>2. \A c \in Apps : SecretOfApp(c)
    BY <1>2, <1>4, <1>6 DEF SecretOfApp, IsApp, Answered
  <2> QED BY <2>1, <2>2 DEF SecretsApart
<1>10. Barred
  BY <1>2, <1>4, <1>5, <1>6 DEF Barred, NoticesDisabling, RefusedIfLate
<1> QED BY <1>7, <1>8, <1>9, <1>10 DEF AppInv

LEMMA AppStutters == ASSUME AppInv, UNCHANGED appVars PROVE AppInv'
<1>1. UNCHANGED <<client, token, screen, admin, caller, secrets, superseded, known, wanted>>
  BY DEF appVars
<1>2. AppType' /\ MadeOnce'
  BY <1>1 DEF AppInv, AppType, MadeOnce, OnWhatIs, Creates, There
<1>3. SecretsApart'
  BY <1>1 DEF AppInv, SecretsApart, SecretOfAction, ShownBy, SecretOfApp, Unshared, Holds, Answered, There,
              IsApp
<1>4. Barred'
  BY <1>1 DEF AppInv, Barred, NoticesDisabling, RefusedIfLate, IsApp
<1> QED BY <1>2, <1>3, <1>4 DEF AppInv

LEMMA AppKeeps == AppInv /\ [AppNext]_appVars => AppInv'
<1> SUFFICES ASSUME AppInv, [AppNext]_appVars PROVE AppInv'
  OBVIOUS
<1>1. CASE UNCHANGED appVars
  BY <1>1, AppStutters
<1>2. ASSUME NEW a \in Admins,
             \/ LeavePage(a) \/ HandleCreate(a)
             \/ \E c \in Apps :
                  HandleSave(a, c) \/ RunPendingAction(a, c) \/ RevokeTokens(a, c) \/ HandleDelete(a, c)
             \/ \E arrives \in BOOLEAN : AnswerAdmin(a, arrives)
      PROVE  AppInv'
  BY <1>2, LeavePageKeeps, OrdersKeep, AnswerAdminKeeps
<1>3. ASSUME NEW a \in Admins,
             \/ LoadClient(a) \/ UpdateClient(a) \/ InsertClient(a) \/ RotateSecret(a)
             \/ RevokeClientTokens(a) \/ DeleteClient(a) \/ AdminFails(a)
      PROVE  AppInv'
  BY <1>3, LoadClientKeeps, UpdateClientKeeps, InsertClientKeeps, RotateSecretKeeps,
     RevokeClientTokensKeeps, DeleteClientKeeps, AdminFailsKeeps
<1>4. ASSUME NEW q \in Callers,
             \/ \E c \in Apps, s \in known : \E kind \in Kinds \ {"authorize"} : Call(q, kind, c, s)
             \/ \E c \in Apps : Call(q, "authorize", c, 0)
      PROVE  AppInv'
  <2>1. known \subseteq Nat
    BY DEF AppInv, AppType
  <2>2. "authorize" \in Kinds
    BY DEF Kinds
  <2> QED BY <1>4, <2>1, <2>2, CallKeeps
<1>5. ASSUME NEW q \in Callers,
             \/ CheckCaller(q) \/ InsertCode(q) \/ ExchangeCode(q) \/ RotateToken(q) \/ Introspect(q)
             \/ RevokeToken(q) \/ IssueTokens(q) \/ AnswerCaller(q)
      PROVE  AppInv'
  BY <1>5, CheckCallerKeeps, WorkKeeps
<1> QED BY <1>1, <1>2, <1>3, <1>4, <1>5 DEF AppNext

LEMMA SecretsApartSuffices == AppInv => SecretsAreKnown
<1> SUFFICES ASSUME AppInv PROVE SecretsAreKnown
  OBVIOUS
<1>1. \A a \in Admins : ShownBy(a)
  BY DEF AppInv, SecretsApart
<1>2. \A c \in Apps : IsApp(c) => Answered(c)
  BY DEF AppInv, SecretsApart, SecretOfApp
<1> QED BY <1>1, <1>2 DEF SecretsAreKnown, ShownBy, Holds, Answered

LEMMA BarredSuffices == AppInv => ShutOutStaysOut
BY DEF AppInv, Barred, RefusedIfLate, ShutOutStaysOut

\* The steps of the other sections leave the applications alone.
LEMMA OnlyAppSteps == [Next]_vars => [AppNext]_appVars
BY DEF Next, vars, appVars, FlowStep, AttemptStep, SigningStep, JwksStep, CertStep, RequestStep,
       AppStep

LEMMA AppInvHolds == Spec => []AppInv
<1>1. Init => AppInv
  BY AppInitially DEF Init
<1>2. AppInv /\ [Next]_vars => AppInv'
  BY OnlyAppSteps, AppKeeps
<1> QED BY <1>1, <1>2, PTL DEF Spec

\* SecretsAreKnown (clients/actions.ts, its pages): whatever the consoles do at
\* a time, an application's secret is one that somebody has, or will be told.
THEOREM SecretsStayKnown == Spec => []SecretsAreKnown
BY AppInvHolds, SecretsApartSuffices, PTL

\* ShutOutStaysOut (oauth-helpers.ts and the routes): a request that begins after
\* the application was disabled, deleted or given a new secret comes to nothing,
\* unless it is enabled meanwhile or an edit under way brings its status back.
THEOREM ShutOutAreRefused == Spec => []ShutOutStaysOut
BY AppInvHolds, BarredSuffices, PTL

-----------------------------------------------------------------------------
(* Attempts at a login *)

Incrs == {<< >>, <<"ip">>, <<"account", "ip">>}
Phases == {"idle", "lookup", "verify", "counting"}
Login == [pc : Phases, incr : Incrs, expire : Keys \cup {"none"}, row : Keys \cup {"none"}]

AttemptType ==
  /\ key \in [Keys -> [n : Nat, ttl : BOOLEAN]] /\ redis \in BOOLEAN
  /\ rows \in [Keys -> Nat] /\ unwritten \in [Keys -> Nat]
  /\ work \in [Logins -> Login]
  /\ tried \in Nat /\ lag \in Nat /\ uncounted \in Nat

\* A login has something to count exactly while it counts.
Settled(l) == l.incr = << >> /\ l.expire = "none" /\ l.row = "none"
Underway(l) == l.incr # << >> \/ l.expire # "none"
InHand(l) == IF l.pc = "counting" THEN Underway(l) ELSE Settled(l)
CountsInHand == \A w \in Logins : InHand(work[w])

\* A login that verified a wrong password and has still to count it.
Owes(l) == IF redis THEN "account" \in Range(l.incr) ELSE l.row = "account"
Owing == {w \in Logins : Owes(work[w])}
Verifying == {w \in Logins : work[w].pc = "verify"}

\* What is counted, or will be without the login's doing.
Tally == IF redis THEN key["account"].n ELSE rows["account"] + unwritten["account"]

\* Wrong passwords are counted, owed, or lost with their login.
TriedAreTold == tried <= Tally + Cardinality(Owing) + uncounted

\* Whoever gets past the limit was let in below it.
FewPassTheLimit ==
  Tally + Cardinality(Owing) + Cardinality(Verifying) <= AccountMax - 1 + Cardinality(Logins) + lag

AttemptShape == AttemptType /\ CountsInHand
AttemptsTold == ~switched => TriedAreTold /\ FewPassTheLimit

-----------------------------------------------------------------------------
(* What a step of a login does to its record *)

Becomes(w, l) == work' = [work EXCEPT ![w] = l]

LEMMA IncrsLemma ==
  /\ <<"account", "ip">> # << >> /\ <<"ip">> # << >>
  /\ Head(<<"account", "ip">>) = "account" /\ Tail(<<"account", "ip">>) = <<"ip">>
  /\ Head(<<"ip">>) = "ip" /\ Tail(<<"ip">>) = << >>
OBVIOUS

LEMMA RangesLemma ==
  /\ "account" \in Range(<<"account", "ip">>)
  /\ "account" \notin Range(<<"ip">>) /\ "account" \notin Range(<< >>)
BY DEF Range

LEMMA NotBegunType == NotBegun \in Login /\ Settled(NotBegun) /\ NotBegun.pc = "idle"
BY DEF NotBegun, Login, Phases, Incrs, Settled, Keys

LEMMA ProceedEffect ==
  ASSUME AttemptShape, NEW w \in Logins, work[w].pc # "counting",
         NEW pc \in Phases \ {"counting"}, Proceed(w, pc)
  PROVE  \E l \in Login : Becomes(w, l) /\ InHand(l) /\ Settled(l) /\ l.pc = pc
<1>1. work[w] \in Login /\ Settled(work[w])
  BY DEF AttemptShape, AttemptType, CountsInHand, InHand
<1>2. \A q \in Login : LET l == [q EXCEPT !.pc = pc]
                       IN /\ l \in Login /\ l.pc = pc /\ l.incr = q.incr
                          /\ l.expire = q.expire /\ l.row = q.row
  BY DEF Login
<1>3. Becomes(w, [work[w] EXCEPT !.pc = pc])
  BY DEF Proceed, Becomes
<1> QED BY <1>1, <1>2, <1>3 DEF InHand, Settled

LEMMA FailsEffect ==
  ASSUME NEW w \in Logins, NEW incr \in Incrs, NEW row \in Keys \cup {"none"}, Fails(w, incr, row)
  PROVE  IF incr = << >>
           THEN Becomes(w, NotBegun) /\ Logs(row)
           ELSE /\ unwritten' = unwritten
                /\ \E l \in Login : /\ Becomes(w, l) /\ InHand(l) /\ l.pc = "counting"
                                    /\ l.incr = incr /\ l.expire = "none" /\ l.row = row
<1> DEFINE l == [pc |-> "counting", incr |-> incr, expire |-> "none", row |-> row]
<1>1. l \in Login /\ l.pc = "counting" /\ l.incr = incr /\ l.expire = "none" /\ l.row = row
  BY DEF Login, Phases
<1>2. incr # << >> => InHand(l)
  BY <1>1 DEF InHand, Underway
<1> QED BY <1>1, <1>2 DEF Fails, Becomes

LEMMA ContinueEffect ==
  ASSUME AttemptShape, NEW w \in Logins, work[w].pc = "counting",
         NEW incr \in Incrs, NEW expire \in Keys \cup {"none"}, Continue(w, incr, expire)
  PROVE  IF incr = << >> /\ expire = "none"
           THEN Becomes(w, NotBegun) /\ Logs(work[w].row)
           ELSE /\ unwritten' = unwritten
                /\ \E l \in Login : /\ Becomes(w, l) /\ InHand(l) /\ l.pc = "counting"
                                    /\ l.incr = incr /\ l.expire = expire /\ l.row = work[w].row
<1>1. work[w] \in Login
  BY DEF AttemptShape, AttemptType
<1>2. \A q \in Login : LET l == [q EXCEPT !.incr = incr, !.expire = expire]
                       IN /\ l \in Login /\ l.pc = q.pc /\ l.incr = incr
                          /\ l.expire = expire /\ l.row = q.row
  BY DEF Login
<1>3. CASE incr = << >> /\ expire = "none"
  BY <1>3 DEF Continue, Becomes
<1>4. CASE ~(incr = << >> /\ expire = "none")
  <2> DEFINE l == [work[w] EXCEPT !.incr = incr, !.expire = expire]
  <2>1. unwritten' = unwritten /\ Becomes(w, l)
    BY <1>4 DEF Continue, Becomes
  <2>2. l \in Login /\ l.pc = "counting" /\ l.incr = incr /\ l.expire = expire /\ l.row = work[w].row
    BY <1>1, <1>2
  <2>3. InHand(l)
    BY <1>4, <2>2 DEF InHand, Underway
  <2> QED BY <1>4, <2>1, <2>2, <2>3
<1> QED BY <1>3, <1>4

LEMMA LogsEffect ==
  ASSUME AttemptType, NEW row \in Keys \cup {"none"}, Logs(row)
  PROVE  /\ unwritten' \in [Keys -> Nat]
         /\ unwritten'["account"] = unwritten["account"] + (IF row = "account" THEN 1 ELSE 0)
BY DEF Logs, AttemptType, Keys

-----------------------------------------------------------------------------
(* Counting the logins *)

Bit(b) == IF b THEN 1 ELSE 0

LEMMA Count ==
  ASSUME NEW S, NEW T, NEW U, NEW w \in U, IsFiniteSet(U), S \subseteq U, T \subseteq U,
         \A v \in U \ {w} : v \in S <=> v \in T
  PROVE  /\ Cardinality(S) \in Nat /\ Cardinality(T) \in Nat
         /\ Cardinality(T) = Cardinality(S) - Bit(w \in S) + Bit(w \in T)
<1>1. IsFiniteSet(S) /\ IsFiniteSet(T) /\ IsFiniteSet(S \ {w})
  BY FS_Subset, FS_RemoveElement
<1>2. S \ {w} = T \ {w}
  OBVIOUS
<1>3. Cardinality(S) \in Nat /\ Cardinality(T) \in Nat
  BY <1>1, FS_CardinalityType
<1>4. Cardinality(S \ {w}) = IF w \in S THEN Cardinality(S) - 1 ELSE Cardinality(S)
  BY <1>1, FS_RemoveElement
<1>5. Cardinality(T \ {w}) = IF w \in T THEN Cardinality(T) - 1 ELSE Cardinality(T)
  BY <1>1, FS_RemoveElement
<1> DEFINE s == Cardinality(S)
           t == Cardinality(T)
<1>6. s \in Nat /\ t \in Nat
      /\ (IF w \in S THEN s - 1 ELSE s) = (IF w \in T THEN t - 1 ELSE t)
  BY <1>2, <1>3, <1>4, <1>5
<1> HIDE DEF s, t
<1>7. t = s - Bit(w \in S) + Bit(w \in T)
  BY <1>6 DEF Bit
<1> QED BY <1>3, <1>7 DEF s, t

\* One login steps, the others stay.
LEMMA OneSteps ==
  ASSUME AttemptShape, NEW w \in Logins, NEW l \in Login, InHand(l), Becomes(w, l), redis' = redis
  PROVE  /\ work' \in [Logins -> Login] /\ CountsInHand'
         /\ work'[w] = l /\ \A v \in Logins \ {w} : work'[v] = work[v]
         /\ Cardinality(Owing)' = Cardinality(Owing) - Bit(Owes(work[w])) + Bit(Owes(l))
         /\ Cardinality(Verifying)' =
              Cardinality(Verifying) - Bit(work[w].pc = "verify") + Bit(l.pc = "verify")
<1>1. /\ work' \in [Logins -> Login]
      /\ work'[w] = l /\ \A v \in Logins \ {w} : work'[v] = work[v]
  BY DEF AttemptShape, AttemptType, Becomes
<1>2. CountsInHand'
  BY <1>1 DEF AttemptShape, CountsInHand
<1>3. IsFiniteSet(Logins)
  BY LimitsAssumption
<1>4. /\ Owing \subseteq Logins /\ Owing' \subseteq Logins
      /\ \A v \in Logins \ {w} : v \in Owing <=> v \in Owing'
      /\ w \in Owing <=> Owes(work[w])
      /\ w \in Owing' <=> Owes(l)
  BY <1>1 DEF Owing, Owes
<1>5. /\ Verifying \subseteq Logins /\ Verifying' \subseteq Logins
      /\ \A v \in Logins \ {w} : v \in Verifying <=> v \in Verifying'
      /\ w \in Verifying <=> work[w].pc = "verify"
      /\ w \in Verifying' <=> l.pc = "verify"
  BY <1>1 DEF Verifying
<1>6. Cardinality(Owing') = Cardinality(Owing) - Bit(w \in Owing) + Bit(w \in Owing')
  BY <1>3, <1>4, Count
<1>7. Cardinality(Verifying') = Cardinality(Verifying) - Bit(w \in Verifying) + Bit(w \in Verifying')
  BY <1>3, <1>5, Count
<1> QED BY <1>1, <1>2, <1>4, <1>5, <1>6, <1>7 DEF Bit

LEMMA NumbersType ==
  ASSUME AttemptShape
  PROVE  /\ Cardinality(Owing) \in Nat /\ Cardinality(Verifying) \in Nat /\ Cardinality(Logins) \in Nat
         /\ Tally \in Nat /\ AccountMax \in Nat /\ AccountMax >= 1
         /\ Cardinality(Owing) + Cardinality(Verifying) <= Cardinality(Logins)
<1>1. IsFiniteSet(Logins) /\ AccountMax \in Nat /\ AccountMax >= 1
  BY LimitsAssumption
<1>2. Owing \subseteq Logins /\ Verifying \subseteq Logins /\ Owing \cap Verifying = {}
  BY RangesLemma DEF Owing, Verifying, Owes, AttemptShape, CountsInHand, InHand, Settled
<1>3. IsFiniteSet(Owing) /\ IsFiniteSet(Verifying) /\ IsFiniteSet(Owing \cup Verifying)
  BY <1>1, <1>2, FS_Subset, FS_Union
<1>4. /\ Cardinality(Owing) \in Nat /\ Cardinality(Verifying) \in Nat /\ Cardinality(Logins) \in Nat
      /\ Cardinality(Owing \cap Verifying) = 0
  BY <1>1, <1>2, <1>3, FS_CardinalityType, FS_EmptySet
<1>5. /\ Cardinality(Owing \cup Verifying) = Cardinality(Owing) + Cardinality(Verifying) - Cardinality(Owing \cap Verifying)
      /\ Cardinality(Owing \cup Verifying) <= Cardinality(Logins)
  BY <1>1, <1>2, <1>3, FS_Union, FS_Subset
<1>6. Tally \in Nat
  BY DEF Tally, AttemptShape, AttemptType, Keys
<1> QED BY <1>1, <1>4, <1>5, <1>6

\* There is room for one more that passes the limit.
LEMMA RoomForOne ==
  ASSUME AttemptShape, NEW w \in Logins, work[w].pc = "lookup"
  PROVE  Cardinality(Owing) + Cardinality(Verifying) + 1 <= Cardinality(Logins)
<1>1. IsFiniteSet(Logins)
  BY LimitsAssumption
<1>2. Owing \subseteq Logins \ {w} /\ Verifying \subseteq Logins \ {w} /\ Owing \cap Verifying = {}
  BY RangesLemma DEF Owing, Verifying, Owes, AttemptShape, CountsInHand, InHand, Settled
<1>3. /\ IsFiniteSet(Owing) /\ IsFiniteSet(Verifying) /\ IsFiniteSet(Owing \cup Verifying)
      /\ IsFiniteSet(Logins \ {w})
  BY <1>1, <1>2, FS_Subset, FS_Union, FS_RemoveElement
<1>4. /\ Cardinality(Owing) \in Nat /\ Cardinality(Verifying) \in Nat /\ Cardinality(Logins) \in Nat
      /\ Cardinality(Owing \cap Verifying) = 0
  BY <1>1, <1>2, <1>3, FS_CardinalityType, FS_EmptySet
<1>5. Cardinality(Owing \cup Verifying) = Cardinality(Owing) + Cardinality(Verifying) - Cardinality(Owing \cap Verifying)
  BY <1>3, FS_Union
<1>6. Cardinality(Owing \cup Verifying) <= Cardinality(Logins \ {w})
  BY <1>2, <1>3, FS_Subset
<1>7. Cardinality(Logins \ {w}) = Cardinality(Logins) - 1
  BY <1>1, FS_RemoveElement
<1> QED BY <1>4, <1>5, <1>6, <1>7

-----------------------------------------------------------------------------
(* The steps *)

AttemptInv == AttemptShape /\ LockoutsEnd /\ AttemptsTold

\* What a login's step does to the balance of both bounds.
Balanced(w, l) ==
  /\ \/ tried' = 0
     \/ tried' + Tally + Bit(Owes(work[w])) + uncounted <= tried + Tally' + Bit(Owes(l)) + uncounted'
  /\ \/ /\ work[w].pc = "lookup" /\ l.pc = "verify" /\ ~Owes(l)
        /\ Tally' <= AccountMax - 1 + lag'
     \/ Tally' = 0 /\ ~Owes(l) /\ l.pc # "verify"
     \/ Tally' + Bit(Owes(l)) + Bit(l.pc = "verify") + lag
          <= Tally + Bit(Owes(work[w])) + Bit(work[w].pc = "verify") + lag'

\* A key that counts after the step of w counted before it or is seen to by w.
SeenTo(w, l) ==
  \A k \in Keys : key'[k].n > 0 =>
    \/ key'[k].ttl \/ k \in orphaned' \/ l.expire = k
    \/ /\ key[k].n > 0 /\ (key[k].ttl => key'[k].ttl) /\ (k \in orphaned => k \in orphaned')
       /\ work[w].expire # k

LEMMA LoginSteps ==
  ASSUME AttemptInv, NEW w \in Logins, NEW l \in Login, InHand(l), Becomes(w, l),
         redis' = redis, switched' = switched,
         key' \in [Keys -> [n : Nat, ttl : BOOLEAN]],
         rows' \in [Keys -> Nat], unwritten' \in [Keys -> Nat],
         tried' \in Nat, lag' \in Nat, uncounted' \in Nat,
         Balanced(w, l), SeenTo(w, l)
  PROVE  AttemptInv'
<1>0. AttemptShape
  BY DEF AttemptInv
<1>1. /\ work' \in [Logins -> Login] /\ CountsInHand'
      /\ work'[w] = l /\ \A v \in Logins \ {w} : work'[v] = work[v]
      /\ Cardinality(Owing)' = Cardinality(Owing) - Bit(Owes(work[w])) + Bit(Owes(l))
      /\ Cardinality(Verifying)' =
           Cardinality(Verifying) - Bit(work[w].pc = "verify") + Bit(l.pc = "verify")
  BY <1>0, OneSteps
<1>2. AttemptShape'
  BY <1>0, <1>1 DEF AttemptShape, AttemptType
<1>3. LockoutsEnd'
  <2> SUFFICES ASSUME NEW k \in Keys, key'[k].n > 0, ~key'[k].ttl, k \notin orphaned', l.expire # k
               PROVE  \E v \in Logins : work'[v].expire = k
    BY <1>1 DEF LockoutsEnd
  <2>1. key[k].n > 0 /\ ~key[k].ttl /\ k \notin orphaned /\ work[w].expire # k
    BY DEF SeenTo
  <2>2. PICK v \in Logins : work[v].expire = k
    BY <2>1 DEF AttemptInv, LockoutsEnd
  <2> QED BY <1>1, <2>1, <2>2
<1>4. ASSUME ~switched PROVE TriedAreTold' /\ FewPassTheLimit'
  <2>1. /\ Cardinality(Owing) \in Nat /\ Cardinality(Verifying) \in Nat /\ Cardinality(Logins) \in Nat
        /\ Tally \in Nat
    BY <1>0, NumbersType
  <2>2. Tally' \in Nat
    BY <1>0 DEF Tally, AttemptShape, AttemptType, Keys
  <2>3. tried \in Nat /\ lag \in Nat /\ uncounted \in Nat /\ AccountMax \in Nat /\ AccountMax >= 1
    BY <1>0, NumbersType DEF AttemptShape, AttemptType
  <2>4. PICK owed \in 0..1, owes \in 0..1 : owed = Bit(Owes(work[w])) /\ owes = Bit(Owes(l))
    BY DEF Bit
  <2>5. PICK was \in 0..1, is \in 0..1 : was = Bit(work[w].pc = "verify") /\ is = Bit(l.pc = "verify")
    BY DEF Bit
  <2>6. PICK o \in Nat, v \in Nat, all \in Nat :
          o = Cardinality(Owing) /\ v = Cardinality(Verifying) /\ all = Cardinality(Logins)
    BY <2>1
  <2>7. PICK told \in Nat, told1 \in Nat : told = Tally /\ told1 = Tally'
    BY <2>1, <2>2
  <2>8. Cardinality(Owing)' = o - owed + owes /\ Cardinality(Verifying)' = v - was + is
    BY <1>1, <2>4, <2>5, <2>6
  <2>9. /\ tried <= told + o + uncounted
        /\ told + o + v <= AccountMax - 1 + all + lag
        /\ o + v <= all
    BY <1>0, <1>4, <2>6, <2>7, NumbersType
    DEF AttemptInv, AttemptsTold, TriedAreTold, FewPassTheLimit
  <2>10. tried' = 0 \/ tried' + told + owed + uncounted <= tried + told1 + owes + uncounted'
    BY <2>4, <2>7 DEF Balanced
  <2>11. owed = 1 => o >= 1
    <3> SUFFICES ASSUME w \in Owing PROVE o >= 1
      BY <2>4 DEF Bit, Owing
    <3>1. IsFiniteSet(Owing) /\ Owing # {}
      BY LimitsAssumption, FS_Subset DEF Owing
    <3>2. o # 0
      BY <2>6, <3>1, FS_EmptySet
    <3> QED BY <3>2
  <2>12. \/ o + v + 1 <= all /\ owed = 0 /\ owes = 0 /\ was = 0 /\ is = 1 /\ told1 <= AccountMax - 1 + lag'
         \/ told1 = 0 /\ owes = 0 /\ is = 0
         \/ told1 + owes + is + lag <= told + owed + was + lag'
    <3>1. CASE /\ work[w].pc = "lookup" /\ l.pc = "verify" /\ ~Owes(l)
               /\ Tally' <= AccountMax - 1 + lag'
      <4>1. o + v + 1 <= all
        BY <1>0, <2>6, <3>1, RoomForOne
      <4>2. ~Owes(work[w])
        BY <1>0, <3>1, RangesLemma DEF AttemptShape, CountsInHand, InHand, Settled, Owes
      <4> QED BY <2>4, <2>5, <2>7, <3>1, <4>1, <4>2 DEF Bit
    <3>2. CASE Tally' = 0 /\ ~Owes(l) /\ l.pc # "verify"
      BY <2>4, <2>5, <2>7, <3>2 DEF Bit
    <3>3. CASE Tally' + Bit(Owes(l)) + Bit(l.pc = "verify") + lag
                 <= Tally + Bit(Owes(work[w])) + Bit(work[w].pc = "verify") + lag'
      BY <2>4, <2>5, <2>7, <3>3
    <3> QED BY <3>1, <3>2, <3>3 DEF Balanced
  <2>13. tried' <= told1 + (o - owed + owes) + uncounted'
    <3>1. PICK a \in Nat, a1 \in Nat, b \in Nat, b1 \in Nat :
            a = tried /\ a1 = tried' /\ b = uncounted /\ b1 = uncounted'
      BY <2>3
    <3>2. a <= told + o + b /\ (a1 = 0 \/ a1 + told + owed + b <= a + told1 + owes + b1)
      BY <2>9, <2>10, <3>1
    <3>3. a1 <= told1 + (o - owed + owes) + b1
      BY <2>11, <3>2
    <3> QED BY <3>1, <3>3
  <2>14. told1 + (o - owed + owes) + (v - was + is) <= AccountMax - 1 + all + lag'
    <3>1. PICK a \in Nat, a1 \in Nat, m \in Nat : a = lag /\ a1 = lag' /\ m = AccountMax
      BY <2>3
    <3>2. /\ told + o + v <= m - 1 + all + a /\ o + v <= all /\ m >= 1
          /\ \/ o + v + 1 <= all /\ owed = 0 /\ owes = 0 /\ was = 0 /\ is = 1 /\ told1 <= m - 1 + a1
             \/ told1 = 0 /\ owes = 0 /\ is = 0
             \/ told1 + owes + is + a <= told + owed + was + a1
      BY <2>3, <2>9, <2>12, <3>1
    <3>3. told1 + (o - owed + owes) + (v - was + is) <= m - 1 + all + a1
      BY <3>2
    <3> QED BY <3>1, <3>3
  <2> QED BY <2>6, <2>7, <2>8, <2>13, <2>14 DEF TriedAreTold, FewPassTheLimit
<1> QED BY <1>2, <1>3, <1>4 DEF AttemptInv, AttemptsTold

\* Where a login stands before it counts, it owes nothing.
LEMMA StartsEven ==
  ASSUME AttemptInv, NEW w \in Logins
  PROVE  /\ work[w] \in Login
         /\ work[w].pc # "counting" => Settled(work[w]) /\ ~Owes(work[w])
         /\ work[w].pc = "counting" => Underway(work[w])
BY RangesLemma DEF AttemptInv, AttemptShape, AttemptType, CountsInHand, InHand, Settled, Owes

LEMMA SettledOwesNothing == ASSUME NEW l, Settled(l) PROVE ~Owes(l) /\ l.expire = "none"
BY RangesLemma DEF Settled, Owes

LEMMA TypesKept ==
  ASSUME AttemptInv
  PROVE  /\ key \in [Keys -> [n : Nat, ttl : BOOLEAN]] /\ redis \in BOOLEAN
         /\ rows \in [Keys -> Nat] /\ unwritten \in [Keys -> Nat]
         /\ tried \in Nat /\ lag \in Nat /\ uncounted \in Nat
         /\ Tally \in Nat /\ Bit(TRUE) = 1 /\ Bit(FALSE) = 0
         /\ "account" \in Keys /\ "ip" \in Keys
BY NumbersType DEF AttemptInv, AttemptShape, AttemptType, Bit, Keys

\* The balance from what is told, tried and lost in the step.
LEMMA BalanceOf ==
  ASSUME AttemptInv, NEW w \in Logins, NEW l, lag' = lag,
         NEW told \in -1..1, NEW lost \in 0..1, NEW more \in 0..1,
         NEW owed \in 0..1, NEW owes \in 0..1, NEW was \in 0..1, NEW is \in 0..1,
         Tally' = Tally + told, uncounted' = uncounted + lost, tried' = tried + more,
         Owes(work[w]) <=> owed = 1, Owes(l) <=> owes = 1,
         work[w].pc = "verify" <=> was = 1, l.pc = "verify" <=> is = 1,
         more + owed <= told + owes + lost, told + owes + is <= owed + was
  PROVE  Balanced(w, l)
<1>1. /\ Bit(Owes(work[w])) = owed /\ Bit(Owes(l)) = owes
      /\ Bit(work[w].pc = "verify") = was /\ Bit(l.pc = "verify") = is
  BY DEF Bit
<1>2. PICK n \in Nat, t \in Nat, u \in Nat, g \in Nat : n = Tally /\ t = tried /\ u = uncounted /\ g = lag
  BY TypesKept
<1>3. /\ (t + more) + n + owed + u <= t + (n + told) + owes + (u + lost)
      /\ (n + told) + owes + is + g <= n + owed + was + g
  OBVIOUS
<1>4. /\ tried' + Tally + Bit(Owes(work[w])) + uncounted <= tried + Tally' + Bit(Owes(l)) + uncounted'
      /\ Tally' + Bit(Owes(l)) + Bit(l.pc = "verify") + lag
           <= Tally + Bit(Owes(work[w])) + Bit(work[w].pc = "verify") + lag'
  BY <1>1, <1>2, <1>3
<1> QED BY <1>4 DEF Balanced

\* A step in which nothing is told, tried or lost.
LEMMA QuietBalance ==
  ASSUME AttemptInv, NEW w \in Logins, NEW l, lag' = lag,
         Tally' = Tally, uncounted' = uncounted, tried' = tried,
         ~Owes(work[w]), ~Owes(l), work[w].pc # "verify", l.pc # "verify"
  PROVE  Balanced(w, l)
<1>1. Tally' = Tally + 0 /\ uncounted' = uncounted + 0 /\ tried' = tried + 0
  BY TypesKept
<1>2. 0 \in -1..1 /\ 0 \in 0..1 /\ 0 + 0 <= 0 + 0 + 0 /\ 0 + 0 + 0 <= 0 + 0 /\ 0 # 1
  OBVIOUS
<1> QED BY <1>1, <1>2, BalanceOf

LEMMA CheckIpRateLimitKeeps == ASSUME AttemptInv, NEW w \in Logins, CheckIpRateLimit(w) PROVE AttemptInv'
<1>1. /\ work[w].pc = "idle" /\ UNCHANGED <<key, redis, rows, tried, lag, uncounted, switched, orphaned>>
      /\ IF Reached(Counted("ip"), IpMax)
           THEN Fails(w, << >>, "ip") ELSE Proceed(w, "lookup") /\ UNCHANGED unwritten
  BY DEF CheckIpRateLimit
<1>2. Settled(work[w]) /\ ~Owes(work[w]) /\ work[w].expire = "none"
  BY <1>1, StartsEven, SettledOwesNothing
<1>3. PICK l \in Login : Becomes(w, l) /\ InHand(l) /\ Settled(l) /\ l.pc \in {"idle", "lookup"}
  <2>1. CASE Fails(w, << >>, "ip")
    BY <2>1, FailsEffect, NotBegunType DEF Incrs, Keys, InHand
  <2>2. CASE Proceed(w, "lookup")
    BY <1>1, <2>2, ProceedEffect DEF AttemptInv, Phases
  <2> QED BY <1>1, <2>1, <2>2
<1>4. unwritten' \in [Keys -> Nat] /\ unwritten'["account"] = unwritten["account"]
  <2>1. CASE Fails(w, << >>, "ip")
    <3>1. Logs("ip")
      BY <2>1, FailsEffect DEF Incrs, Keys
    <3> QED BY <3>1, TypesKept DEF Logs
  <2>2. CASE UNCHANGED unwritten
    BY <2>2, TypesKept
  <2> QED BY <1>1, <2>1, <2>2
<1>5. Tally' = Tally /\ ~Owes(l) /\ l.expire = "none"
  BY <1>1, <1>3, <1>4, SettledOwesNothing DEF Tally
<1>6. Balanced(w, l)
  BY <1>1, <1>2, <1>3, <1>5, QuietBalance
<1>7. SeenTo(w, l)
  BY <1>1, <1>2 DEF SeenTo, Keys
<1> QED BY <1>1, <1>3, <1>4, <1>6, <1>7, TypesKept, LoginSteps

LEMMA CheckBruteForceKeeps == ASSUME AttemptInv, NEW w \in Logins, CheckBruteForce(w) PROVE AttemptInv'
<1>1. /\ work[w].pc = "lookup" /\ UNCHANGED <<key, redis, rows, tried, uncounted, switched, orphaned>>
      /\ \/ \E row \in {"ip", "none"} : Fails(w, <<"ip">>, row) /\ UNCHANGED lag
         \/ /\ Proceed(w, "verify") /\ UNCHANGED unwritten /\ ~Reached(Counted("account"), AccountMax)
            /\ lag' = IF ~redis /\ unwritten["account"] > lag THEN unwritten["account"] ELSE lag
  BY DEF CheckBruteForce
<1>2. Settled(work[w]) /\ ~Owes(work[w]) /\ work[w].expire = "none"
  BY <1>1, StartsEven, SettledOwesNothing
<1>3. CASE \E row \in {"ip", "none"} : Fails(w, <<"ip">>, row) /\ UNCHANGED lag
  <2>1. PICK row \in {"ip", "none"} : Fails(w, <<"ip">>, row) /\ UNCHANGED lag
    BY <1>3
  <2>2. <<"ip">> \in Incrs /\ <<"ip">> # << >> /\ row \in Keys \cup {"none"}
    BY IncrsLemma DEF Incrs, Keys
  <2>3. PICK l \in Login : /\ Becomes(w, l) /\ InHand(l) /\ l.pc = "counting"
                           /\ l.incr = <<"ip">> /\ l.expire = "none" /\ l.row = row
    BY <2>1, <2>2, FailsEffect
  <2>4. unwritten' = unwritten /\ Tally' = Tally
    BY <1>1, <2>1, <2>2, FailsEffect DEF Tally
  <2>5. ~Owes(l)
    BY <2>3, RangesLemma DEF Owes
  <2>6. Balanced(w, l)
    BY <1>1, <1>2, <2>1, <2>3, <2>4, <2>5, QuietBalance
  <2>7. SeenTo(w, l)
    BY <1>1, <1>2 DEF SeenTo, Keys
  <2> QED BY <1>1, <2>1, <2>3, <2>4, <2>6, <2>7, TypesKept, LoginSteps
<1>4. CASE /\ Proceed(w, "verify") /\ UNCHANGED unwritten /\ ~Reached(Counted("account"), AccountMax)
           /\ lag' = IF ~redis /\ unwritten["account"] > lag THEN unwritten["account"] ELSE lag
  <2>1. PICK l \in Login : Becomes(w, l) /\ InHand(l) /\ Settled(l) /\ l.pc = "verify"
    BY <1>1, <1>4, ProceedEffect DEF AttemptInv, Phases
  <2>2. ~Owes(l) /\ l.expire = "none"
    BY <2>1, SettledOwesNothing
  <2>3. /\ unwritten["account"] \in Nat /\ rows["account"] \in Nat /\ key["account"].n \in Nat
        /\ lag \in Nat /\ AccountMax \in Nat
    BY TypesKept, LimitsAssumption
  <2>4. lag' \in Nat /\ (~redis => unwritten["account"] <= lag')
    BY <1>4, <2>3
  <2>5. Tally' = Tally /\ Tally <= AccountMax - 1 + lag'
    <3>1. Tally' = Tally
      BY <1>1, <1>4 DEF Tally
    <3>2. CASE redis
      <4>1. Tally = key["account"].n /\ ~(key["account"].n >= AccountMax)
        BY <1>4, <3>2 DEF Tally, Counted, Reached
      <4> QED BY <2>3, <2>4, <3>1, <4>1
    <3>3. CASE ~redis
      <4>1. Tally = rows["account"] + unwritten["account"] /\ ~(rows["account"] >= AccountMax)
        BY <1>4, <3>3 DEF Tally, Counted, Reached
      <4> QED BY <2>3, <2>4, <3>1, <3>3, <4>1
    <3> QED BY <3>2, <3>3
  <2>6. Balanced(w, l)
    <3>1. tried' + Tally + Bit(Owes(work[w])) + uncounted <= tried + Tally' + Bit(Owes(l)) + uncounted'
      <4>1. Bit(Owes(work[w])) = 0 /\ Bit(Owes(l)) = 0
        BY <1>2, <2>2 DEF Bit
      <4>2. tried' + Tally + 0 + uncounted <= tried + Tally' + 0 + uncounted'
        BY <1>1, <2>5, TypesKept
      <4> QED BY <4>1, <4>2
    <3> QED BY <1>1, <2>1, <2>2, <2>5, <3>1 DEF Balanced
  <2>7. SeenTo(w, l)
    BY <1>1, <1>2 DEF SeenTo, Keys
  <2> QED BY <1>1, <1>4, <2>1, <2>4, <2>6, <2>7, TypesKept, LoginSteps
<1> QED BY <1>1, <1>3, <1>4

\* A row that is handed to the writer counts where the log is counted.
LEMMA LogsTold ==
  ASSUME AttemptInv, NEW row \in Keys \cup {"none"}, Logs(row),
         redis' = redis, UNCHANGED <<rows, key["account"].n>>
  PROVE  /\ unwritten' \in [Keys -> Nat]
         /\ Tally' = IF ~redis /\ row = "account" THEN Tally + 1 ELSE Tally
<1>1. /\ unwritten' \in [Keys -> Nat]
      /\ unwritten'["account"] = unwritten["account"] + (IF row = "account" THEN 1 ELSE 0)
  BY LogsEffect DEF AttemptInv, AttemptShape
<1>2. rows["account"] \in Nat /\ unwritten["account"] \in Nat /\ key["account"].n \in Nat
  BY TypesKept
<1>3. CASE redis
  BY <1>1, <1>3 DEF Tally
<1>4. CASE ~redis
  BY <1>1, <1>2, <1>4 DEF Tally
<1> QED BY <1>1, <1>3, <1>4

LEMMA VerifyFailsKeeps == ASSUME AttemptInv, NEW w \in Logins, VerifyFails(w) PROVE AttemptInv'
<1>1. /\ work[w].pc = "verify" /\ UNCHANGED <<key, redis, rows, lag, uncounted, switched, orphaned>>
      /\ \/ Fails(w, << >>, "account") /\ UNCHANGED tried
         \/ Fails(w, <<"account", "ip">>, "account") /\ tried' = tried + 1
  BY DEF VerifyFails
<1>2. Settled(work[w]) /\ ~Owes(work[w]) /\ work[w].expire = "none"
  BY <1>1, StartsEven, SettledOwesNothing
<1>3. uncounted' = uncounted + 0 /\ tried \in Nat
  BY <1>1, TypesKept
<1>4. CASE Fails(w, << >>, "account") /\ UNCHANGED tried
  <2>1. Becomes(w, NotBegun) /\ Logs("account")
    BY <1>4, FailsEffect DEF Incrs, Keys
  <2>2. NotBegun \in Login /\ InHand(NotBegun) /\ ~Owes(NotBegun) /\ NotBegun.pc = "idle"
    BY NotBegunType, SettledOwesNothing DEF InHand
  <2>3. PICK told \in 0..1 : unwritten' \in [Keys -> Nat] /\ Tally' = Tally + told
    <3>1. unwritten' \in [Keys -> Nat] /\ (Tally' = Tally + 1 \/ Tally' = Tally + 0)
      BY <1>1, <2>1, LogsTold, TypesKept
    <3>2. 0 \in 0..1 /\ 1 \in 0..1
      OBVIOUS
    <3> QED BY <3>1, <3>2
  <2>4. tried' = tried + 0
    BY <1>3, <1>4
  <2>5. told \in -1..1 /\ 0 + 0 <= told + 0 + 0 /\ told + 0 + 0 <= 0 + 1 /\ 0 \in 0..1 /\ 1 \in 0..1 /\ 0 # 1
    OBVIOUS
  <2>6. Balanced(w, NotBegun)
    BY <1>1, <1>2, <1>3, <2>2, <2>3, <2>4, <2>5, BalanceOf
  <2>7. SeenTo(w, NotBegun)
    BY <1>1, <1>2 DEF SeenTo, Keys
  <2> QED BY <1>1, <1>4, <2>1, <2>2, <2>3, <2>6, <2>7, TypesKept, LoginSteps
<1>5. CASE Fails(w, <<"account", "ip">>, "account") /\ tried' = tried + 1
  <2>1. <<"account", "ip">> \in Incrs /\ <<"account", "ip">> # << >>
    BY IncrsLemma DEF Incrs
  <2>2. PICK l \in Login : /\ Becomes(w, l) /\ InHand(l) /\ l.pc = "counting"
                           /\ l.incr = <<"account", "ip">> /\ l.expire = "none" /\ l.row = "account"
    BY <1>5, <2>1, FailsEffect DEF Keys
  <2>3. unwritten' = unwritten /\ Tally' = Tally
    BY <1>1, <1>5, <2>1, FailsEffect DEF Tally, Keys
  <2>4. Owes(l)
    BY <2>2, RangesLemma DEF Owes
  <2>5. /\ Tally' = Tally + 0 /\ 0 \in -1..1 /\ 0 \in 0..1 /\ 1 \in 0..1 /\ 0 # 1
        /\ 1 + 0 <= 0 + 1 + 0 /\ 0 + 1 + 0 <= 0 + 1
    BY <2>3, TypesKept
  <2>6. Balanced(w, l)
    BY <1>1, <1>2, <1>3, <1>5, <2>2, <2>4, <2>5, BalanceOf
  <2>7. SeenTo(w, l)
    BY <1>1, <1>2 DEF SeenTo, Keys
  <2>8. tried' \in Nat
    BY <1>3, <1>5
  <2> QED BY <1>1, <2>2, <2>3, <2>6, <2>7, <2>8, TypesKept, LoginSteps
<1> QED BY <1>1, <1>4, <1>5

LEMMA ClearKeeps == ASSUME AttemptInv, NEW w \in Logins, ClearBruteForceCounter(w) PROVE AttemptInv'
<1>1. /\ work[w].pc = "verify" /\ Becomes(w, NotBegun) /\ tried' = 0
      /\ key' = IF redis THEN [key EXCEPT !["account"] = Absent] ELSE key
      /\ rows' = [rows EXCEPT !["account"] = 0]
      /\ UNCHANGED <<redis, unwritten, lag, uncounted, switched, orphaned>>
  BY DEF ClearBruteForceCounter, Becomes
<1>2. Settled(work[w]) /\ ~Owes(work[w]) /\ work[w].expire = "none"
  BY <1>1, StartsEven, SettledOwesNothing
<1>3. /\ NotBegun \in Login /\ InHand(NotBegun) /\ ~Owes(NotBegun) /\ NotBegun.pc = "idle"
      /\ NotBegun.expire = "none"
  BY NotBegunType, SettledOwesNothing DEF InHand
<1>4. key' \in [Keys -> [n : Nat, ttl : BOOLEAN]] /\ rows' \in [Keys -> Nat]
  BY <1>1, TypesKept DEF Absent
<1>5. \A k \in Keys : key'[k].n > 0 => key'[k] = key[k]
  BY <1>1, TypesKept DEF Absent, Keys
<1>6. Tally' <= Tally
  <2>1. rows["account"] \in Nat /\ unwritten["account"] \in Nat /\ key["account"].n \in Nat
    BY TypesKept
  <2>2. CASE redis
    <3>1. key'["account"].n = 0
      BY <1>1, <2>2, TypesKept DEF Absent
    <3> QED BY <1>1, <2>1, <2>2, <3>1 DEF Tally
  <2>3. CASE ~redis
    <3>1. rows'["account"] = 0
      BY <1>1, TypesKept
    <3> QED BY <1>1, <2>1, <2>3, <3>1 DEF Tally
  <2> QED BY <2>2, <2>3
<1>7. Balanced(w, NotBegun)
  <2>1. /\ Bit(Owes(NotBegun)) = 0 /\ Bit(NotBegun.pc = "verify") = 0
        /\ Bit(Owes(work[w])) = 0 /\ Bit(work[w].pc = "verify") = 1
    BY <1>1, <1>2, <1>3 DEF Bit
  <2>2. Tally' \in Nat
    BY <1>1, <1>4, TypesKept DEF Tally
  <2>3. PICK n \in Nat, n1 \in Nat, g \in Nat : n = Tally /\ n1 = Tally' /\ g = lag
    BY <2>2, TypesKept
  <2>4. n1 <= n
    BY <1>6, <2>3
  <2>5. n1 + 0 + 0 + g <= n + 0 + 1 + g
    BY <2>4
  <2> QED BY <1>1, <2>1, <2>3, <2>5 DEF Balanced
<1>8. SeenTo(w, NotBegun)
  BY <1>1, <1>2, <1>5 DEF SeenTo, Keys
<1> QED BY <1>1, <1>3, <1>4, <1>7, <1>8, TypesKept, LoginSteps

\* INCR, and the first of a window is to be given its end.
LEMMA IncrementKeeps == ASSUME AttemptInv, NEW w \in Logins, Increment(w) PROVE AttemptInv'
<1>1. /\ work[w].pc = "counting" /\ work[w].expire = "none"
      /\ UNCHANGED <<redis, rows, tried, lag, uncounted, switched, orphaned>>
  BY DEF Increment
<1>2. work[w] \in Login /\ work[w].incr \in {<<"ip">>, <<"account", "ip">>}
  BY <1>1, StartsEven DEF Login, Incrs, Underway
<1>3. AttemptShape /\ uncounted' = uncounted + 0 /\ tried' = tried + 0
  BY <1>1, TypesKept DEF AttemptInv
<1>4. CASE redis
  <2> DEFINE k == Head(work[w].incr)
             rest == Tail(work[w].incr)
             expire == IF First(key'[k].n) THEN k ELSE "none"
  <2>1. key' = [key EXCEPT ![k].n = @ + 1] /\ Continue(w, rest, expire)
    BY <1>4 DEF Increment
  <2>2. /\ k \in Keys /\ rest \in Incrs
        /\ k = "account" <=> "account" \in Range(work[w].incr)
        /\ "account" \notin Range(rest)
    BY <1>2, IncrsLemma, RangesLemma DEF Keys, Incrs
  <2>3. expire \in Keys \cup {"none"}
    BY <2>2
  <2>4. /\ key' \in [Keys -> [n : Nat, ttl : BOOLEAN]]
        /\ key'[k].n = key[k].n + 1 /\ \A j \in Keys : key'[j].ttl = key[j].ttl
        /\ \A j \in Keys \ {k} : key'[j] = key[j]
    BY <2>1, <2>2, TypesKept
  <2> HIDE DEF k, rest, expire
  <2>5. PICK l \in Login : /\ Becomes(w, l) /\ InHand(l) /\ l.incr = rest /\ l.expire = expire
                           /\ l.pc # "verify" /\ unwritten' \in [Keys -> Nat]
    <3>1. CASE rest = << >> /\ expire = "none"
      <4>1. Becomes(w, NotBegun) /\ Logs(work[w].row)
        BY <1>1, <1>3, <2>1, <2>2, <2>3, <3>1, ContinueEffect
      <4>2. unwritten' \in [Keys -> Nat]
        BY <1>2, <1>3, <4>1, LogsEffect DEF Login, AttemptShape
      <4>3. NotBegun \in Login /\ InHand(NotBegun) /\ Settled(NotBegun) /\ NotBegun.pc = "idle"
        BY NotBegunType DEF InHand
      <4> QED BY <3>1, <4>1, <4>2, <4>3 DEF Settled
    <3>2. CASE ~(rest = << >> /\ expire = "none")
      <4>1. /\ unwritten' = unwritten
            /\ \E l \in Login : /\ Becomes(w, l) /\ InHand(l) /\ l.pc = "counting"
                                /\ l.incr = rest /\ l.expire = expire
        BY <1>1, <1>3, <2>1, <2>2, <2>3, <3>2, ContinueEffect
      <4> QED BY <4>1, TypesKept
    <3> QED BY <3>1, <3>2
  <2>6. ~Owes(l)
    BY <1>4, <2>2, <2>5 DEF Owes
  <2>7. Owes(work[w]) <=> k = "account"
    BY <1>4, <2>2 DEF Owes
  <2>8. Tally' = IF k = "account" THEN Tally + 1 ELSE Tally
    BY <1>1, <1>4, <2>2, <2>4 DEF Tally, Keys
  <2>9. PICK told \in 0..1 : (k = "account" <=> told = 1) /\ Tally' = Tally + told
    <3>1. 0 \in 0..1 /\ 1 \in 0..1 /\ 0 # 1 /\ Tally = Tally + 0
      BY TypesKept
    <3> QED BY <2>8, <3>1
  <2>10. /\ told \in -1..1 /\ 0 + told <= told + 0 + 0 /\ told + 0 + 0 <= told + 0
         /\ 0 \in 0..1 /\ 0 # 1
    OBVIOUS
  <2>11. Balanced(w, l)
    BY <1>1, <1>3, <2>5, <2>6, <2>7, <2>9, <2>10, BalanceOf
  <2>12. SeenTo(w, l)
    <3> SUFFICES ASSUME NEW j \in Keys, key'[j].n > 0
                 PROVE  \/ key'[j].ttl \/ j \in orphaned' \/ l.expire = j
                        \/ /\ key[j].n > 0 /\ (key[j].ttl => key'[j].ttl)
                           /\ (j \in orphaned => j \in orphaned') /\ work[w].expire # j
      BY DEF SeenTo
    <3>1. work[w].expire # j /\ orphaned' = orphaned /\ key'[j].ttl = key[j].ttl
      BY <1>1, <2>4 DEF Keys
    <3>2. CASE j # k
      BY <2>4, <3>1, <3>2
    <3>3. CASE j = k
      <4>1. key[k].n \in Nat
        BY <2>2, TypesKept
      <4>2. key[k].n > 0 \/ key'[k].n = 1
        BY <2>4, <4>1
      <4> QED BY <2>5, <3>1, <3>3, <4>2 DEF First, expire
    <3> QED BY <3>2, <3>3
  <2> QED BY <1>1, <2>4, <2>5, <2>11, <2>12, TypesKept, LoginSteps
<1>5. CASE ~redis
  <2>1. Continue(w, << >>, "none") /\ UNCHANGED key
    BY <1>5 DEF Increment
  <2>2. Becomes(w, NotBegun) /\ Logs(work[w].row)
    BY <1>1, <1>3, <2>1, ContinueEffect DEF Incrs
  <2>3. /\ NotBegun \in Login /\ InHand(NotBegun) /\ ~Owes(NotBegun) /\ NotBegun.pc = "idle"
    BY NotBegunType, SettledOwesNothing DEF InHand
  <2>4. /\ unwritten' \in [Keys -> Nat]
        /\ Tally' = IF work[w].row = "account" THEN Tally + 1 ELSE Tally
    <3>1. work[w].row \in Keys \cup {"none"}
      BY <1>2 DEF Login
    <3> QED BY <1>1, <1>5, <2>1, <2>2, <3>1, LogsTold
  <2>5. Owes(work[w]) <=> work[w].row = "account"
    BY <1>5 DEF Owes
  <2>6. PICK told \in 0..1 : (work[w].row = "account" <=> told = 1) /\ Tally' = Tally + told
    <3>1. 0 \in 0..1 /\ 1 \in 0..1 /\ 0 # 1 /\ Tally = Tally + 0
      BY TypesKept
    <3> QED BY <2>4, <3>1
  <2>7. /\ told \in -1..1 /\ 0 + told <= told + 0 + 0 /\ told + 0 + 0 <= told + 0
        /\ 0 \in 0..1 /\ 0 # 1
    OBVIOUS
  <2>8. Balanced(w, NotBegun)
    BY <1>1, <1>3, <2>3, <2>5, <2>6, <2>7, BalanceOf
  <2>9. SeenTo(w, NotBegun)
    BY <1>1, <2>1 DEF SeenTo, Keys
  <2> QED BY <1>1, <2>1, <2>2, <2>3, <2>4, <2>8, <2>9, TypesKept, LoginSteps
<1> QED BY <1>4, <1>5, TypesKept

LEMMA ExpireKeeps == ASSUME AttemptInv, NEW w \in Logins, Expire(w) PROVE AttemptInv'
<1> DEFINE k == work[w].expire
<1>1. /\ work[w].pc = "counting" /\ k # "none"
      /\ UNCHANGED <<redis, rows, tried, lag, uncounted, switched>>
      /\ IF redis
           THEN /\ key' = [key EXCEPT ![k].ttl = @ \/ key[k].n > 0]
                /\ Continue(w, work[w].incr, "none") /\ UNCHANGED orphaned
           ELSE /\ orphaned' = orphaned \cup {k}
                /\ Continue(w, << >>, "none") /\ UNCHANGED key
  BY DEF Expire
<1>2. work[w] \in Login /\ k \in Keys
  BY <1>1, StartsEven DEF Login
<1>3. AttemptShape /\ uncounted' = uncounted + 0 /\ tried' = tried + 0
  BY <1>1, TypesKept DEF AttemptInv
<1>4. /\ key' \in [Keys -> [n : Nat, ttl : BOOLEAN]]
      /\ \A j \in Keys : key'[j].n = key[j].n /\ (key[j].ttl => key'[j].ttl)
      /\ redis /\ key[k].n > 0 => key'[k].ttl
  <2>1. CASE redis
    <3>1. PICK b \in BOOLEAN : b <=> key[k].ttl \/ key[k].n > 0
      OBVIOUS
    <3>2. key' = [key EXCEPT ![k].ttl = b]
      BY <1>1, <2>1, <3>1
    <3>3. \A r \in [n : Nat, ttl : BOOLEAN] :
            LET q == [r EXCEPT !.ttl = b]
            IN q \in [n : Nat, ttl : BOOLEAN] /\ q.n = r.n /\ (q.ttl <=> b)
      OBVIOUS
    <3>4. key' = [key EXCEPT ![k] = [key[k] EXCEPT !.ttl = b]]
      BY <3>2
    <3>5. key'[k] = [key[k] EXCEPT !.ttl = b] /\ \A j \in Keys \ {k} : key'[j] = key[j]
      BY <1>2, <3>4, TypesKept
    <3>6. /\ key'[k] \in [n : Nat, ttl : BOOLEAN] /\ key'[k].n = key[k].n
          /\ key'[k].ttl <=> key[k].ttl \/ key[k].n > 0
      BY <1>2, <3>1, <3>3, <3>5, TypesKept
    <3>7. key' \in [Keys -> [n : Nat, ttl : BOOLEAN]]
      BY <1>2, <3>4, <3>5, <3>6, TypesKept
    <3> QED BY <3>5, <3>6, <3>7
  <2>2. CASE ~redis
    BY <1>1, <2>2, TypesKept
  <2> QED BY <2>1, <2>2
<1> DEFINE rest == IF redis THEN work[w].incr ELSE << >>
<1>5. Continue(w, rest, "none") /\ rest \in Incrs
  BY <1>1, <1>2 DEF Incrs, Login
<1>6. redis => ("account" \in Range(rest) <=> Owes(work[w]))
  BY DEF Owes
<1>7. /\ work[w].row \in Keys \cup {"none"} /\ rows' = rows /\ key'["account"].n = key["account"].n
      /\ "none" \in Keys \cup {"none"} /\ ~redis => rest = << >>
  BY <1>1, <1>2, <1>4 DEF Login, Keys
<1> HIDE DEF rest
<1>8. PICK l \in Login, told \in 0..1, owed \in 0..1, owes \in 0..1 :
        /\ Becomes(w, l) /\ InHand(l) /\ l.pc # "verify" /\ unwritten' \in [Keys -> Nat]
        /\ Tally' = Tally + told
        /\ Owes(work[w]) <=> owed = 1
        /\ Owes(l) <=> owes = 1
        /\ told + owes = owed
  <2>1. 0 \in 0..1 /\ 1 \in 0..1 /\ 0 # 1 /\ Tally = Tally + 0 /\ 0 + 0 = 0 /\ 1 + 0 = 1 /\ 0 + 1 = 1
    BY TypesKept
  <2>2. CASE rest = << >>
    <3>1. Becomes(w, NotBegun) /\ Logs(work[w].row)
      BY <1>1, <1>3, <1>5, <1>7, <2>2, ContinueEffect
    <3>2. NotBegun \in Login /\ InHand(NotBegun) /\ ~Owes(NotBegun) /\ NotBegun.pc = "idle"
      BY NotBegunType, SettledOwesNothing DEF InHand
    <3>3. /\ unwritten' \in [Keys -> Nat]
          /\ Tally' = IF ~redis /\ work[w].row = "account" THEN Tally + 1 ELSE Tally
      BY <1>1, <1>7, <3>1, LogsTold
    <3>4. Owes(work[w]) <=> ~redis /\ work[w].row = "account"
      BY <1>6, <2>2, RangesLemma DEF Owes
    <3>5. CASE Owes(work[w])
      <4>1. Tally' = Tally + 1
        BY <3>3, <3>4, <3>5
      <4> QED BY <2>1, <3>1, <3>2, <3>3, <3>5, <4>1
    <3>6. CASE ~Owes(work[w])
      <4>1. Tally' = Tally + 0
        BY <2>1, <3>3, <3>4, <3>6
      <4> QED BY <2>1, <3>1, <3>2, <3>3, <3>6, <4>1
    <3> QED BY <3>5, <3>6
  <2>3. CASE rest # << >>
    <3>1. PICK l \in Login : Becomes(w, l) /\ InHand(l) /\ l.pc = "counting" /\ l.incr = rest
      BY <1>1, <1>3, <1>5, <1>7, <2>3, ContinueEffect
    <3>2. unwritten' = unwritten
      BY <1>1, <1>3, <1>5, <1>7, <2>3, ContinueEffect
    <3>3. Tally' = Tally + 0 /\ unwritten' \in [Keys -> Nat]
      BY <1>1, <1>7, <2>1, <3>2, TypesKept DEF Tally
    <3>4. Owes(l) <=> Owes(work[w])
      BY <1>6, <1>7, <2>3, <3>1 DEF Owes
    <3>5. l.pc # "verify"
      BY <3>1
    <3>6. CASE Owes(l)
      BY <2>1, <3>1, <3>3, <3>4, <3>5, <3>6
    <3>7. CASE ~Owes(l)
      BY <2>1, <3>1, <3>3, <3>4, <3>5, <3>7
    <3> QED BY <3>6, <3>7
  <2> QED BY <2>2, <2>3
<1>9. /\ told \in -1..1 /\ 0 + owed <= told + owes + 0 /\ told + owes + 0 <= owed + 0
      /\ 0 \in 0..1 /\ 0 # 1
  BY <1>8
<1>10. Balanced(w, l)
  BY <1>1, <1>3, <1>8, <1>9, BalanceOf
<1>11. SeenTo(w, l)
  <2> SUFFICES ASSUME NEW j \in Keys, key'[j].n > 0, ~key'[j].ttl, j \notin orphaned'
               PROVE  /\ key[j].n > 0 /\ (key[j].ttl => key'[j].ttl)
                      /\ (j \in orphaned => j \in orphaned') /\ work[w].expire # j
    BY DEF SeenTo
  <2> QED BY <1>1, <1>4
<1> QED BY <1>1, <1>4, <1>8, <1>10, <1>11, TypesKept, LoginSteps

\* What a login that dies owed is lost, and told so.
LEMMA LoginDiesKeeps == ASSUME AttemptInv, NEW w \in Logins, LoginDies(w) PROVE AttemptInv'
<1>1. /\ Becomes(w, NotBegun) /\ UNCHANGED <<key, redis, rows, unwritten, tried, lag, switched>>
      /\ orphaned' = IF work[w].expire = "none" THEN orphaned ELSE orphaned \cup {work[w].expire}
      /\ uncounted' = IF Owes(work[w]) THEN uncounted + 1 ELSE uncounted
  BY DEF LoginDies, Becomes, Owes
<1>2. /\ NotBegun \in Login /\ InHand(NotBegun) /\ ~Owes(NotBegun) /\ NotBegun.pc = "idle"
  BY NotBegunType, SettledOwesNothing DEF InHand
<1>3. Tally' = Tally + 0 /\ tried' = tried + 0 /\ uncounted \in Nat
  BY <1>1, TypesKept DEF Tally
<1>4. PICK lost \in 0..1, was \in 0..1 :
        /\ Owes(work[w]) <=> lost = 1
        /\ uncounted' = uncounted + lost
        /\ work[w].pc = "verify" <=> was = 1
  <2>1. 0 \in 0..1 /\ 1 \in 0..1 /\ 0 # 1 /\ uncounted = uncounted + 0
    BY <1>3
  <2>2. PICK was \in 0..1 : work[w].pc = "verify" <=> was = 1
    BY <2>1
  <2>3. PICK lost \in 0..1 : (Owes(work[w]) <=> lost = 1) /\ uncounted' = uncounted + lost
    BY <1>1, <2>1
  <2> QED BY <2>2, <2>3
<1>5. /\ 0 \in -1..1 /\ 0 \in 0..1 /\ 0 # 1
      /\ 0 + lost <= 0 + 0 + lost /\ 0 + 0 + 0 <= lost + was
  OBVIOUS
<1>6. Balanced(w, NotBegun)
  BY <1>1, <1>2, <1>3, <1>4, <1>5, BalanceOf
<1>7. SeenTo(w, NotBegun)
  <2>1. ASSUME NEW k \in Keys
        PROVE  (k \in orphaned => k \in orphaned') /\ (work[w].expire = k => k \in orphaned')
    BY <1>1 DEF Keys
  <2> QED BY <1>1, <2>1 DEF SeenTo
<1>8. uncounted' \in Nat
  BY <1>3, <1>4
<1> QED BY <1>1, <1>2, <1>6, <1>7, <1>8, TypesKept, LoginSteps

\* A step that no login makes.
LEMMA OtherSteps ==
  ASSUME AttemptInv, UNCHANGED <<work, redis, lag, uncounted, switched>>,
         key' \in [Keys -> [n : Nat, ttl : BOOLEAN]],
         rows' \in [Keys -> Nat], unwritten' \in [Keys -> Nat], tried' \in Nat,
         Tally' <= Tally, tried' = 0 \/ (tried' = tried /\ Tally' = Tally),
         \A k \in Keys : key'[k].n > 0 => key'[k] = key[k] /\ (k \in orphaned => k \in orphaned')
  PROVE  AttemptInv'
<1>1. AttemptShape'
  BY DEF AttemptInv, AttemptShape, AttemptType, CountsInHand
<1>2. LockoutsEnd'
  BY DEF AttemptInv, LockoutsEnd
<1>3. ASSUME ~switched PROVE TriedAreTold' /\ FewPassTheLimit'
  <2>1. Owing' = Owing /\ Verifying' = Verifying
    BY DEF Owing, Owes, Verifying
  <2>2. Tally' \in Nat
    BY DEF Tally, Keys
  <2>3. PICK o \in Nat, v \in Nat, all \in Nat :
          o = Cardinality(Owing) /\ v = Cardinality(Verifying) /\ all = Cardinality(Logins)
    BY NumbersType DEF AttemptInv
  <2>4. PICK n \in Nat, n1 \in Nat, t \in Nat, t1 \in Nat :
          n = Tally /\ n1 = Tally' /\ t = tried /\ t1 = tried'
    BY <2>2, TypesKept
  <2>5. PICK u \in Nat, g \in Nat, m \in Nat : u = uncounted /\ g = lag /\ m = AccountMax
    BY TypesKept, LimitsAssumption
  <2>6. t <= n + o + u /\ n + o + v <= m - 1 + all + g
    BY <1>3, <2>3, <2>4, <2>5 DEF AttemptInv, AttemptsTold, TriedAreTold, FewPassTheLimit
  <2>7. n1 <= n /\ (t1 = 0 \/ (t1 = t /\ n1 = n))
    BY <2>4
  <2>8. t1 <= n1 + o + u /\ n1 + o + v <= m - 1 + all + g
    BY <2>6, <2>7
  <2>9. /\ Cardinality(Owing)' = o /\ Cardinality(Verifying)' = v
        /\ Cardinality(Logins)' = all /\ lag' = g /\ uncounted' = u
    BY <2>1, <2>3, <2>5
  <2> QED BY <2>4, <2>5, <2>8, <2>9 DEF TriedAreTold, FewPassTheLimit
<1> QED BY <1>1, <1>2, <1>3 DEF AttemptInv, AttemptsTold

LEMMA WriteLoginLogKeeps == ASSUME AttemptInv, NEW k \in Keys, WriteLoginLog(k) PROVE AttemptInv'
<1>1. /\ unwritten[k] > 0 /\ unwritten' = [unwritten EXCEPT ![k] = @ - 1]
      /\ rows' = [rows EXCEPT ![k] = @ + 1, !["ip"] = @ + 1]
      /\ UNCHANGED <<key, redis, work, tried, lag, uncounted, switched, orphaned>>
  BY DEF WriteLoginLog
<1>2. rows' \in [Keys -> Nat] /\ unwritten' \in [Keys -> Nat]
  BY <1>1, TypesKept
<1>3. Tally' = Tally
  <2>1. CASE k = "account"
    BY <1>1, <2>1, TypesKept DEF Tally
  <2>2. CASE k = "ip"
    <3>1. rows'["account"] = rows["account"] /\ unwritten'["account"] = unwritten["account"]
      BY <1>1, <2>2, TypesKept
    <3> QED BY <1>1, <3>1 DEF Tally
  <2> QED BY <2>1, <2>2 DEF Keys
<1>4. Tally' <= Tally
  BY <1>3, TypesKept
<1> QED BY <1>1, <1>2, <1>3, <1>4, TypesKept, OtherSteps

LEMMA WindowOverKeeps == ASSUME AttemptInv, NEW k \in Keys, WindowOver(k) PROVE AttemptInv'
<1>1. /\ key[k].ttl \/ (~redis /\ rows[k] > 0)
      /\ key' = IF key[k].ttl THEN [key EXCEPT ![k] = Absent] ELSE key
      /\ rows' = [rows EXCEPT ![k] = 0]
      /\ tried' = IF k = "account" THEN 0 ELSE tried
      /\ UNCHANGED <<redis, unwritten, work, lag, uncounted, switched, orphaned>>
  BY DEF WindowOver
<1>2. key' \in [Keys -> [n : Nat, ttl : BOOLEAN]] /\ rows' \in [Keys -> Nat] /\ tried' \in Nat
  BY <1>1, TypesKept DEF Absent
<1>3. \A j \in Keys : key'[j].n > 0 => key'[j] = key[j]
  BY <1>1, TypesKept DEF Absent
<1>4. rows["account"] \in Nat /\ unwritten["account"] \in Nat /\ key["account"].n \in Nat
  BY TypesKept
<1>5. CASE k = "account"
  <2>1. rows'["account"] = 0 /\ key'["account"].n <= key["account"].n
    BY <1>1, <1>4, <1>5, TypesKept DEF Absent
  <2>2. Tally' <= Tally
    <3>1. CASE redis
      BY <1>1, <2>1, <3>1 DEF Tally
    <3>2. CASE ~redis
      BY <1>1, <1>4, <2>1, <3>2 DEF Tally
    <3> QED BY <3>1, <3>2
  <2> QED BY <1>1, <1>2, <1>3, <1>5, <2>2, TypesKept, OtherSteps
<1>6. CASE k = "ip"
  <2>1. rows'["account"] = rows["account"] /\ key'["account"] = key["account"] /\ tried' = tried
    BY <1>1, <1>6, TypesKept
  <2>2. Tally' = Tally /\ Tally' <= Tally
    BY <1>1, <2>1, TypesKept DEF Tally
  <2> QED BY <1>1, <1>2, <1>3, <2>1, <2>2, TypesKept, OtherSteps
<1> QED BY <1>5, <1>6 DEF Keys

LEMMA UnlockKeeps == AttemptInv /\ ClearUserBruteForceCounters => AttemptInv'
<1> SUFFICES ASSUME AttemptInv, ClearUserBruteForceCounters PROVE AttemptInv'
  OBVIOUS
<1>1. /\ redis /\ key' = [key EXCEPT !["account"] = Absent] /\ tried' = 0
      /\ orphaned' = orphaned \ {"account"}
      /\ UNCHANGED <<redis, rows, unwritten, work, lag, uncounted, switched>>
  BY DEF ClearUserBruteForceCounters
<1>2. /\ key' \in [Keys -> [n : Nat, ttl : BOOLEAN]] /\ key'["account"].n = 0
      /\ \A j \in Keys \ {"account"} : key'[j] = key[j]
  BY <1>1, TypesKept DEF Absent
<1>3. \A j \in Keys : key'[j].n > 0 => key'[j] = key[j] /\ (j \in orphaned => j \in orphaned')
  BY <1>1, <1>2
<1>4. Tally' <= Tally
  <2>1. key["account"].n \in Nat
    BY TypesKept
  <2> QED BY <1>1, <1>2, <2>1 DEF Tally
<1> QED BY <1>1, <1>2, <1>3, <1>4, TypesKept, OtherSteps

\* A change of Redis begins both counts anew.
LEMMA RedisSwitchesKeeps == AttemptInv /\ RedisSwitches => AttemptInv'
<1> SUFFICES ASSUME AttemptInv, RedisSwitches PROVE AttemptInv'
  OBVIOUS
<1>1. /\ redis' = ~redis /\ switched'
      /\ UNCHANGED <<key, rows, unwritten, work, tried, lag, uncounted, orphaned>>
  BY DEF RedisSwitches
<1>2. AttemptShape'
  BY <1>1 DEF AttemptInv, AttemptShape, AttemptType, CountsInHand
<1>3. LockoutsEnd'
  BY <1>1 DEF AttemptInv, LockoutsEnd
<1> QED BY <1>1, <1>2, <1>3 DEF AttemptInv, AttemptsTold

LEMMA AttemptInitially == AttemptInit => AttemptInv
<1> SUFFICES ASSUME AttemptInit PROVE AttemptInv
  OBVIOUS
<1>1. AttemptType
  BY NotBegunType DEF AttemptInit, AttemptType, Absent
<1>2. CountsInHand
  BY NotBegunType DEF AttemptInit, CountsInHand, InHand
<1>3. LockoutsEnd
  BY DEF AttemptInit, LockoutsEnd, Absent
<1>4. Owing = {} /\ Verifying = {}
  BY NotBegunType, SettledOwesNothing DEF AttemptInit, Owing, Verifying
<1>5. Tally = 0 /\ tried = 0 /\ lag = 0 /\ uncounted = 0
  BY DEF AttemptInit, Tally, Absent, Keys
<1>6. PICK all \in Nat, m \in Nat : all = Cardinality(Logins) /\ m = AccountMax /\ m >= 1
  BY LimitsAssumption, FS_CardinalityType
<1>7. Cardinality(Owing) = 0 /\ Cardinality(Verifying) = 0
  BY <1>4, FS_EmptySet
<1>8. 0 <= 0 + 0 + 0 /\ 0 + 0 + 0 <= m - 1 + all + 0
  BY <1>6
<1>9. TriedAreTold /\ FewPassTheLimit
  BY <1>5, <1>6, <1>7, <1>8 DEF TriedAreTold, FewPassTheLimit
<1> QED BY <1>1, <1>2, <1>3, <1>9 DEF AttemptInv, AttemptShape, AttemptsTold

LEMMA AttemptKeeps == AttemptInv /\ [AttemptNext]_attemptVars => AttemptInv'
<1> SUFFICES ASSUME AttemptInv, [AttemptNext]_attemptVars PROVE AttemptInv'
  OBVIOUS
<1>1. CASE UNCHANGED attemptVars
  <2>1. UNCHANGED <<key, redis, rows, unwritten, work, tried, lag, uncounted, switched, orphaned>>
    BY <1>1 DEF attemptVars
  <2>2. Tally' = Tally /\ Tally' <= Tally
    BY <2>1, TypesKept DEF Tally
  <2> QED BY <2>1, <2>2, TypesKept, OtherSteps
<1>2. ASSUME NEW w \in Logins,
             \/ CheckIpRateLimit(w) \/ CheckBruteForce(w) \/ VerifyFails(w)
             \/ ClearBruteForceCounter(w) \/ Increment(w) \/ Expire(w) \/ LoginDies(w)
      PROVE  AttemptInv'
  BY <1>2, CheckIpRateLimitKeeps, CheckBruteForceKeeps, VerifyFailsKeeps, ClearKeeps,
     IncrementKeeps, ExpireKeeps, LoginDiesKeeps
<1>3. ASSUME NEW k \in Keys, WriteLoginLog(k) \/ WindowOver(k) PROVE AttemptInv'
  BY <1>3, WriteLoginLogKeeps, WindowOverKeeps
<1> QED BY <1>1, <1>2, <1>3, UnlockKeeps, RedisSwitchesKeeps DEF AttemptNext

LEMMA AttemptInvSuffices == AttemptInv => AttemptsBounded
<1> SUFFICES ASSUME AttemptInv, ~switched
             PROVE  tried <= AccountMax - 1 + Cardinality(Logins) + uncounted + lag
  BY DEF AttemptsBounded
<1>1. PICK o \in Nat, v \in Nat, all \in Nat :
        o = Cardinality(Owing) /\ v = Cardinality(Verifying) /\ all = Cardinality(Logins)
  BY NumbersType DEF AttemptInv
<1>2. PICK n \in Nat, t \in Nat, u \in Nat, g \in Nat, m \in Nat :
        n = Tally /\ t = tried /\ u = uncounted /\ g = lag /\ m = AccountMax
  BY TypesKept, LimitsAssumption
<1>3. t <= n + o + u /\ n + o + v <= m - 1 + all + g
  BY <1>1, <1>2 DEF AttemptInv, AttemptsTold, TriedAreTold, FewPassTheLimit
<1>4. t <= m - 1 + all + u + g
  BY <1>3
<1> QED BY <1>1, <1>2, <1>4

LEMMA OnlyAttemptSteps == [Next]_vars => [AttemptNext]_attemptVars
BY DEF Next, vars, attemptVars, FlowStep, AttemptStep, SigningStep, JwksStep, CertStep, RequestStep,
       AppStep

LEMMA AttemptsInvariant == Spec => []AttemptInv
<1>1. Init => AttemptInv
  BY AttemptInitially DEF Init
<1>2. AttemptInv /\ [Next]_vars => AttemptInv'
  BY OnlyAttemptSteps, AttemptKeeps
<1> QED BY <1>1, <1>2, PTL DEF Spec

\* AttemptsBounded (brute-force.ts, login/route.ts): while Redis does not change
\* sides, passwords are tried no more often than the limit, the logins under way
\* and the counts that were lost or late account for.
THEOREM FewPasswordsTried == Spec => []AttemptsBounded
BY AttemptsInvariant, AttemptInvSuffices, PTL

\* LockoutsEnd (brute-force.ts): a counter without an end belongs to a login that
\* is still to set it, or died before it did.
THEOREM CountsEnd == Spec => []LockoutsEnd
<1>1. AttemptInv => LockoutsEnd
  BY DEF AttemptInv
<1> QED BY <1>1, AttemptsInvariant, PTL
-----------------------------------------------------------------------------
(* The sign-in *)

CookieNames == {"state", "binding", "login", "session"}
TabPhases == {"rest", "sent", "served"}
Places == {"start", "app", "in", "authorize", "login", "loginError", "form", "formError", "resume",
           "callback", "callbackError", "error"}
Locs == [at : Places, id : Nat]
LoginCookies == [user : Users \cup {Nobody}, sid : Nat]
Jars == [state : Nat, binding : Nat, login : LoginCookies, session : Users \cup {Nobody}]
Values == Nat \cup LoginCookies \cup Users \cup {Nobody}
CookieSets == UNION {[N -> Values] : N \in SUBSET CookieNames}
TabStates == [loc : Locs, phase : TabPhases, reply : [to : Locs, set : CookieSets]]
StoredRequests == [flow : Nat, there : BOOLEAN]
IssuedCodes == [flow : Nat, user : Users, used : BOOLEAN]

FlowType ==
  /\ home \in [Tabs -> Browsers] /\ tab \in [Tabs -> TabStates] /\ jar \in [Browsers -> Jars]
  /\ flows \in Nat
  /\ request \in Seq(StoredRequests)
  /\ codes \in Seq(IssuedCodes)
  /\ entered \in [Browsers -> SUBSET Users] /\ excused \in [Browsers -> BOOLEAN]
  /\ settled \subseteq DOMAIN codes

LEMMA SetTypes ==
  ASSUME NEW f \in Nat, NEW l \in LoginCookies, NEW s \in Users \cup {Nobody}
  PROVE  /\ << >> \in CookieSets /\ [state |-> f] \in CookieSets
         /\ [session |-> s, login |-> l, binding |-> f] \in CookieSets
         /\ [login |-> l, binding |-> f] \in CookieSets
         /\ [binding |-> f] \in CookieSets /\ [login |-> l] \in CookieSets
         /\ Over([state |-> f], [session |-> s]) \in CookieSets
<1>1. << >> \in CookieSets
  BY << >> \in [{} -> Values] DEF CookieSets
<1>2. [state |-> f] \in CookieSets
  BY [state |-> f] \in [{"state"} -> Values] DEF CookieSets, CookieNames, Values
<1>3. [session |-> s, login |-> l, binding |-> f] \in CookieSets
  BY [session |-> s, login |-> l, binding |-> f] \in [{"session", "login", "binding"} -> Values] DEF CookieSets, CookieNames, Values
<1>4. [login |-> l, binding |-> f] \in CookieSets
  BY [login |-> l, binding |-> f] \in [{"login", "binding"} -> Values] DEF CookieSets, CookieNames, Values
<1>5. [binding |-> f] \in CookieSets /\ [login |-> l] \in CookieSets
  BY [binding |-> f] \in [{"binding"} -> Values], [login |-> l] \in [{"login"} -> Values]
  DEF CookieSets, CookieNames, Values
<1>6. Over([state |-> f], [session |-> s]) \in CookieSets
  BY Over([state |-> f], [session |-> s]) \in [{"state", "session"} -> Values] DEF CookieSets, CookieNames, Values, Over
<1> QED BY <1>1, <1>2, <1>3, <1>4, <1>5, <1>6

LEMMA NoCookies == << >> \in CookieSets /\ DOMAIN << >> = {}
BY << >> \in [{} -> Values] DEF CookieSets

\* A tab asks, or is answered; nothing else of it, and no other tab, changes.
LEMMA AskTab ==
  ASSUME FlowType, NEW t \in Tabs, NEW loc \in Locs, Ask(t, loc)
  PROVE  /\ tab' \in [Tabs -> TabStates] /\ \A o \in Tabs \ {t} : tab'[o] = tab[o]
         /\ tab'[t].loc = loc /\ tab'[t].phase = "sent" /\ tab'[t].reply = tab[t].reply
BY DEF Ask, FlowType, TabStates, TabPhases

LEMMA ReplyTab ==
  ASSUME FlowType, NEW t \in Tabs, NEW to \in Locs, NEW set \in CookieSets, Reply(t, to, set)
  PROVE  /\ tab' \in [Tabs -> TabStates] /\ \A o \in Tabs \ {t} : tab'[o] = tab[o]
         /\ tab'[t].loc = tab[t].loc /\ tab'[t].phase = "served"
         /\ tab'[t].reply.to = to /\ tab'[t].reply.set = set
<1> DEFINE r == [to |-> to, set |-> set]
<1>1. r \in [to : Locs, set : CookieSets] /\ r.to = to /\ r.set = set
  OBVIOUS
<1>2. tab' = [tab EXCEPT ![t] = [tab[t] EXCEPT !.phase = "served", !.reply = r]]
  BY DEF Reply
<1> HIDE DEF r
<1>3. \A q \in TabStates :
        LET a == [q EXCEPT !.phase = "served", !.reply = r]
        IN a \in TabStates /\ a.loc = q.loc /\ a.phase = "served" /\ a.reply = r
  BY <1>1 DEF TabStates, TabPhases
<1> QED BY <1>1, <1>2, <1>3 DEF FlowType

-----------------------------------------------------------------------------
\* What a reply under way carries, and what a browser has or is about to get.
Served(t) == tab[t].phase = "served"
Gives(t, n, v) == Served(t) /\ n \in DOMAIN tab[t].reply.set /\ tab[t].reply.set[n] = v
Has(b, n, v) == jar[b][n] = v \/ \E t \in Tabs : home[t] = b /\ Gives(t, n, v)

\* A browser a stored request is, or was until it logged in, bound to.
Bound(b, s) == Has(b, "binding", s) \/ \E u \in Users : Has(b, "login", [user |-> u, sid |-> s])

\* The state of a flow is nowhere else, or nowhere.
Begun(b, f) == f \in shared \/ \A a \in Browsers : Has(a, "state", f) => a = b
Arrived(b, f) ==
  (\A o \in Tabs : ~Gives(o, "state", f)) /\ (\A a \in Browsers : jar[a].state = f => a = b)
Spent(f) == \A a \in Browsers : ~Has(a, "state", f)

\* A user who may have a session in the browser.
May(b, u) == u \in entered[b] \/ \E c \in settled : codes[c].flow \in shared /\ codes[c].user = u

\* Who gets a code for a flow may have a session where its state is.
FlowOf(f, u) == f \in shared \/ \A b \in Browsers : Has(b, "state", f) => May(b, u)

InRange(loc) ==
  /\ loc.at = "authorize" => loc.id \in 1..flows
  /\ loc.at \in {"login", "loginError", "form", "formError"} => loc.id \in 0..Len(request)
  /\ loc.at = "resume" => loc.id \in 1..Len(request)
  /\ loc.at = "callback" => loc.id \in 1..Len(codes)
Place(b, loc) == InRange(loc) /\ (loc.at = "authorize" => Begun(b, loc.id))

LoginOk(b, login) ==
  \/ login = NoLogin
  \/ login \in LoginCookies /\ login.user \in entered[b] /\ login.sid \in 0..Len(request)

\* The exchange has succeeded, and its answer is under way.
Finishing(t) == Served(t) /\ tab[t].loc.at = "callback" /\ tab[t].reply.to.at = "app"
Finished(t) == codes[tab[t].loc.id]

TabOk(t) ==
  /\ Place(home[t], tab[t].loc)
  /\ Served(t) => Place(home[t], tab[t].reply.to)
  /\ \A f : Gives(t, "state", f) => f \in 0..flows
  /\ \A s : Gives(t, "binding", s) => s \in 0..Len(request)
  /\ \A login : Gives(t, "login", login) => LoginOk(home[t], login)
  /\ \A u : Gives(t, "session", u) /\ u # Nobody =>
       Finishing(t) /\ u = Finished(t).user /\ (Finished(t).flow \in shared \/ May(home[t], u))
  /\ Finishing(t) => Gives(t, "state", 0) /\ Arrived(home[t], Finished(t).flow)

JarOk(b) ==
  /\ jar[b].state \in 0..flows /\ jar[b].binding \in 0..Len(request)
  /\ LoginOk(b, jar[b].login)
  /\ jar[b].session = Nobody \/ May(b, jar[b].session)

\* A state is in one browser, on its way or there.
StateOnce(f) ==
  /\ \A a, b \in Browsers : jar[a].state = f /\ jar[b].state = f => a = b
  /\ \A t \in Tabs : Gives(t, "state", f) =>
       /\ \A b \in Browsers : jar[b].state # f
       /\ \A o \in Tabs : Gives(o, "state", f) => o = t

RequestOk(s) ==
  /\ request[s].flow \in 1..flows
  /\ \A b \in Browsers : Bound(b, s) =>
       Begun(b, request[s].flow) /\ \A a \in Browsers : Bound(a, s) => a = b

CodeOk(c) ==
  /\ codes[c].flow \in 1..flows /\ FlowOf(codes[c].flow, codes[c].user)
  /\ c \in settled => Spent(codes[c].flow)

FlowInv ==
  /\ FlowType
  /\ \A t \in Tabs : TabOk(t)
  /\ \A b \in Browsers : JarOk(b)
  /\ \A f \in 1..flows : StateOnce(f)
  /\ \A s \in 1..Len(request) : RequestOk(s)
  /\ \A c \in 1..Len(codes) : CodeOk(c)

-----------------------------------------------------------------------------
\* What a step adds to, or leaves.
Adds ==
  /\ home' = home /\ flows' \in Nat /\ flows <= flows'
  /\ Len(request') \in Nat /\ Len(request) <= Len(request')
  /\ \A s \in 1..Len(request) : request'[s].flow = request[s].flow
  /\ Len(codes') \in Nat /\ Len(codes) <= Len(codes')
  /\ \A c \in 1..Len(codes) : codes'[c].flow = codes[c].flow /\ codes'[c].user = codes[c].user
  /\ \A b \in Browsers : entered[b] \subseteq entered'[b]
  /\ shared \subseteq shared' /\ settled \subseteq settled'

\* Nor does a step bring a state or a binding where it was not.
Grows ==
  /\ Adds
  /\ \A t \in Tabs : \A f \in 1..flows : Gives(t, "state", f)' => Gives(t, "state", f)
  /\ \A b \in Browsers : \A f \in 1..flows : jar'[b].state = f =>
       jar[b].state = f
         \/ \E t \in Tabs : home[t] = b /\ Gives(t, "state", f) /\ ~Gives(t, "state", f)'
  /\ \A b \in Browsers : \A s \in 1..Len(request) : Bound(b, s)' => Bound(b, s)

LEMMA GrowsHas ==
  ASSUME Grows, NEW b \in Browsers, NEW f \in 1..flows, Has(b, "state", f)'
  PROVE  Has(b, "state", f)
BY DEF Grows, Adds, Has

LEMMA GrowsBegun ==
  ASSUME Grows, NEW b \in Browsers, NEW f \in 1..flows, Begun(b, f) PROVE Begun(b, f)'
BY GrowsHas DEF Grows, Adds, Begun

LEMMA GrowsMay ==
  ASSUME FlowType, Grows, NEW b \in Browsers, NEW u, May(b, u) PROVE May(b, u)'
<1>1. \A c \in settled : c \in 1..Len(codes)
  BY DEF FlowType
<1> QED BY <1>1 DEF Grows, Adds, May

LEMMA GrowsArrived ==
  ASSUME Grows, NEW b \in Browsers, NEW f \in 1..flows, Arrived(b, f) PROVE Arrived(b, f)'
BY DEF Grows, Adds, Arrived

LEMMA GrowsSpent ==
  ASSUME Grows, NEW f \in 1..flows, Spent(f) PROVE Spent(f)'
BY GrowsHas DEF Spent

LEMMA GrowsStateOnce ==
  ASSUME Grows, NEW f \in 1..flows, StateOnce(f) PROVE StateOnce(f)'
BY DEF Grows, Adds, StateOnce

LEMMA GrowsRequest ==
  ASSUME FlowInv, Grows, NEW s \in 1..Len(request) PROVE RequestOk(s)'
<1>1. RequestOk(s) /\ request[s].flow \in 1..flows /\ request'[s].flow = request[s].flow
  BY DEF FlowInv, RequestOk, Grows, Adds
<1>2. \A b \in Browsers : Bound(b, s)' => Bound(b, s)
  BY DEF Grows, Adds
<1>3. request'[s].flow \in 1..flows'
  BY <1>1 DEF Grows, Adds, FlowInv, FlowType
<1>4. ASSUME NEW b \in Browsers, Bound(b, s)'
      PROVE  Begun(b, request[s].flow)' /\ \A a \in Browsers : Bound(a, s)' => a = b
  <2>1. Begun(b, request[s].flow) /\ \A a \in Browsers : Bound(a, s) => a = b
    BY <1>1, <1>2, <1>4 DEF RequestOk
  <2>2. PICK f \in 1..flows : f = request[s].flow
    BY <1>1
  <2>3. Begun(b, f)'
    BY <2>1, <2>2, GrowsBegun
  <2> QED BY <1>1, <1>2, <2>1, <2>2, <2>3
<1> QED BY <1>1, <1>3, <1>4 DEF RequestOk

LEMMA GrowsFlowOf ==
  ASSUME FlowType, Grows, NEW f \in 1..flows, NEW u, FlowOf(f, u) PROVE FlowOf(f, u)'
<1>1. CASE f \in shared
  BY <1>1 DEF FlowOf, Grows, Adds
<1>2. CASE f \notin shared
  <2>1. ASSUME NEW b \in Browsers, Has(b, "state", f)' PROVE May(b, u)'
    <3>1. May(b, u)
      BY <1>2, <2>1, GrowsHas DEF FlowOf
    <3> QED BY <3>1, GrowsMay
  <2> QED BY <2>1 DEF FlowOf
<1> QED BY <1>1, <1>2

LEMMA GrowsCode ==
  ASSUME FlowInv, Grows, NEW c \in 1..Len(codes), c \in settled' => c \in settled \/ Spent(codes[c].flow)'
  PROVE  CodeOk(c)'
<1>1. CodeOk(c) /\ codes'[c].flow = codes[c].flow /\ codes'[c].user = codes[c].user
  BY DEF FlowInv, Grows, Adds
<1>2. PICK f \in 1..flows : f = codes[c].flow
  BY <1>1 DEF CodeOk
<1>3. PICK u : u = codes[c].user
  OBVIOUS
<1>4. FlowOf(f, u)'
  BY <1>1, <1>2, <1>3, GrowsFlowOf DEF CodeOk, FlowInv
<1>5. f \in 1..flows'
  BY DEF Grows, Adds, FlowInv, FlowType
<1>6. c \in settled' => Spent(f)'
  BY <1>1, <1>2, GrowsSpent DEF CodeOk
<1> QED BY <1>1, <1>2, <1>3, <1>4, <1>5, <1>6 DEF CodeOk

LEMMA GrowsLogin ==
  ASSUME FlowType, Grows, NEW b \in Browsers, NEW login, LoginOk(b, login) PROVE LoginOk(b, login)'
BY DEF FlowType, Grows, Adds, LoginOk

LEMMA GrowsJar ==
  ASSUME FlowInv, Grows, NEW b \in Browsers, jar'[b] = jar[b] PROVE JarOk(b)'
<1>1. JarOk(b) /\ FlowType
  BY DEF FlowInv
<1>2. LoginOk(b, jar[b].login)' /\ (jar'[b].session = Nobody \/ May(b, jar[b].session)')
  <2>1. PICK l, u : l = jar[b].login /\ u = jar[b].session
    OBVIOUS
  <2>2. LoginOk(b, l)' /\ (u = Nobody \/ May(b, u)')
    BY <1>1, <2>1, GrowsLogin, GrowsMay DEF JarOk
  <2> QED BY <2>1, <2>2
<1>3. jar'[b].state \in 0..flows' /\ jar'[b].binding \in 0..Len(request')
  BY <1>1 DEF JarOk, Grows, Adds, FlowType
<1> QED BY <1>2, <1>3 DEF JarOk

LEMMA GrowsPlace ==
  ASSUME FlowInv, Grows, NEW b \in Browsers, NEW loc, Place(b, loc) PROVE Place(b, loc)'
<1>1. InRange(loc)'
  BY DEF FlowInv, FlowType, Grows, Adds, Place, InRange
<1>2. loc.at = "authorize" => Begun(b, loc.id)'
  BY GrowsBegun DEF Place, InRange
<1> QED BY <1>1, <1>2 DEF Place

LEMMA GrowsTab ==
  ASSUME FlowInv, Grows, NEW t \in Tabs, tab'[t] = tab[t] PROVE TabOk(t)'
<1> DEFINE b == home[t]
<1>1. TabOk(t) /\ FlowType /\ b \in Browsers /\ home'[t] = b
  BY DEF FlowInv, FlowType, Grows, Adds
<1>2. Served(t)' <=> Served(t)
  BY DEF Served
<1>3. ASSUME NEW n, NEW v PROVE Gives(t, n, v)' <=> Gives(t, n, v)
  BY DEF Served, Gives
<1>4. Place(home[t], tab[t].loc)' /\ (Served(t)' => Place(home[t], tab[t].reply.to)')
  <2>1. PICK loc, to : loc = tab[t].loc /\ to = tab[t].reply.to
    OBVIOUS
  <2>2. Place(b, loc)' /\ (Served(t) => Place(b, to)')
    BY <1>1, <2>1, GrowsPlace DEF TabOk
  <2> QED BY <1>1, <1>2, <2>1, <2>2
<1>5. \A f : Gives(t, "state", f)' => f \in 0..flows'
  BY <1>1, <1>3 DEF TabOk, Grows, Adds, FlowType
<1>6. \A s : Gives(t, "binding", s)' => s \in 0..Len(request')
  BY <1>1, <1>3 DEF TabOk, Grows, Adds, FlowType
<1>7. \A login : Gives(t, "login", login)' => LoginOk(home[t], login)'
  BY <1>1, <1>3, GrowsLogin DEF TabOk
<1>8. Finishing(t)' <=> Finishing(t)
  BY <1>2 DEF Finishing
<1>9. ASSUME Finishing(t)
      PROVE  /\ Finished(t)'.user = Finished(t).user /\ Finished(t)'.flow = Finished(t).flow
             /\ Finished(t).flow \in 1..flows
  <2>1. tab[t].loc.id \in 1..Len(codes)
    BY <1>1, <1>9 DEF TabOk, Place, InRange, Finishing
  <2> QED BY <2>1 DEF FlowInv, CodeOk, Grows, Adds, Finished
<1>10. \A u : Gives(t, "session", u)' /\ u # Nobody =>
         /\ Finishing(t)' /\ u = Finished(t)'.user
         /\ Finished(t)'.flow \in shared' \/ May(home[t], u)'
  BY <1>1, <1>3, <1>8, <1>9, GrowsMay DEF TabOk, Grows, Adds
<1>11. Finishing(t)' => Gives(t, "state", 0)' /\ Arrived(home[t], Finished(t).flow)'
  <2> SUFFICES ASSUME Finishing(t) PROVE Gives(t, "state", 0)' /\ Arrived(home[t], Finished(t).flow)'
    BY <1>8
  <2>1. PICK f \in 1..flows : f = Finished(t).flow /\ Finished(t)'.flow = f
    BY <1>9
  <2>2. Gives(t, "state", 0) /\ Arrived(b, f)
    BY <1>1, <2>1 DEF TabOk
  <2>3. Arrived(b, f)'
    BY <1>1, <2>2, GrowsArrived
  <2> QED BY <1>1, <1>3, <2>1, <2>2, <2>3
<1> QED BY <1>1, <1>4, <1>5, <1>6, <1>7, <1>8, <1>10, <1>11 DEF TabOk

LEMMA FlowAssembles ==
  ASSUME FlowInv, FlowType', Grows,
         \A o \in Tabs : tab'[o] = tab[o] \/ TabOk(o)',
         \A b \in Browsers : jar'[b] = jar[b] \/ JarOk(b)',
         \A f \in 1..flows' : f \in 1..flows \/ StateOnce(f)',
         \A s \in 1..Len(request') : s \in 1..Len(request) \/ RequestOk(s)',
         \A c \in 1..Len(codes') : c \in 1..Len(codes) \/ CodeOk(c)',
         \A c \in 1..Len(codes) : c \in settled' => c \in settled \/ Spent(codes[c].flow)'
  PROVE  FlowInv'
<1>1. \A o \in Tabs : TabOk(o)'
  BY GrowsTab
<1>2. \A b \in Browsers : JarOk(b)'
  BY GrowsJar
<1>3. \A f \in 1..flows' : StateOnce(f)'
  BY GrowsStateOnce DEF FlowInv
<1>4. \A s \in 1..Len(request') : RequestOk(s)'
  BY GrowsRequest
<1>5. \A c \in 1..Len(codes') : CodeOk(c)'
  BY GrowsCode
<1> QED BY <1>1, <1>2, <1>3, <1>4, <1>5 DEF FlowInv

-----------------------------------------------------------------------------
LEMMA AskGives ==
  ASSUME FlowType, NEW t \in Tabs, NEW loc \in Locs, Ask(t, loc)
  PROVE  /\ ~Served(t)' /\ \A n, v : ~Gives(t, n, v)'
         /\ \A o \in Tabs \ {t} : \A n, v : Gives(o, n, v)' <=> Gives(o, n, v)
BY AskTab DEF Gives, Served

LEMMA ReplyGives ==
  ASSUME FlowType, NEW t \in Tabs, NEW to \in Locs, NEW set \in CookieSets, Reply(t, to, set)
  PROVE  /\ Served(t)' /\ \A n, v : Gives(t, n, v)' <=> n \in DOMAIN set /\ set[n] = v
         /\ \A o \in Tabs \ {t} : \A n, v : Gives(o, n, v)' <=> Gives(o, n, v)
BY ReplyTab DEF Gives, Served

LEMMA AskGrows ==
  ASSUME FlowInv, NEW t \in Tabs, NEW loc \in Locs, Ask(t, loc), Adds, jar' = jar
  PROVE  Grows
<1>1. FlowType
  BY DEF FlowInv
<1>2. \A o \in Tabs : \A n, v : Gives(o, n, v)' => Gives(o, n, v)
  BY <1>1, AskGives
<1>3. \A b, n, v : Has(b, n, v)' => Has(b, n, v)
  BY <1>2 DEF Has, Adds
<1>4. \A b, s : Bound(b, s)' => Bound(b, s)
  BY <1>3 DEF Bound
<1> QED BY <1>2, <1>4 DEF Grows, Adds

\* Of cookies that are set only new ones, or those that bind what is bound.
Harmless(b, set) ==
  /\ "state" \in DOMAIN set => set["state"] \notin 1..flows
  /\ "binding" \in DOMAIN set => set["binding"] \notin 1..Len(request)
  /\ "login" \in DOMAIN set => set["login"].sid = 0 \/ Bound(b, set["login"].sid)

LEMMA ReplyGrows ==
  ASSUME FlowInv, NEW t \in Tabs, NEW to \in Locs, NEW set \in CookieSets, Reply(t, to, set), Adds,
         jar' = jar, Harmless(home[t], set)
  PROVE  Grows
<1>1. FlowType
  BY DEF FlowInv
<1>2. \A o \in Tabs : \A n, v : Gives(o, n, v)' =>
        Gives(o, n, v) \/ (o = t /\ n \in DOMAIN set /\ set[n] = v)
  BY <1>1, ReplyGives
<1>3. \A b, n, v : Has(b, n, v)' =>
        Has(b, n, v) \/ (b = home[t] /\ n \in DOMAIN set /\ set[n] = v)
  BY <1>2 DEF Has, Adds
<1>4. ASSUME NEW b \in Browsers, NEW s \in 1..Len(request), Bound(b, s)' PROVE Bound(b, s)
  <2>1. CASE Has(b, "binding", s)'
    BY <1>3, <2>1 DEF Bound, Harmless
  <2>2. ASSUME NEW u \in Users, Has(b, "login", [user |-> u, sid |-> s])' PROVE Bound(b, s)
    BY <1>3, <2>2 DEF Bound, Harmless
  <2> QED BY <1>4, <2>1, <2>2 DEF Bound
<1>5. \A o \in Tabs : \A f \in 1..flows : Gives(o, "state", f)' => Gives(o, "state", f)
  BY <1>2 DEF Harmless
<1> QED BY <1>4, <1>5 DEF Grows, Adds

\* A tab that asks is all right where its place is.
LEMMA AskTabOk ==
  ASSUME FlowInv, NEW t \in Tabs, NEW loc \in Locs, Ask(t, loc), home' = home, Place(home[t], loc)'
  PROVE  TabOk(t)'
<1>1. tab'[t].loc = loc /\ ~Served(t)' /\ \A n, v : ~Gives(t, n, v)'
  BY AskTab, AskGives DEF FlowInv
<1>2. Place(home[t], tab[t].loc)'
  BY <1>1
<1>3. ~Finishing(t)'
  BY <1>1 DEF Finishing
<1> QED BY <1>1, <1>2, <1>3 DEF TabOk

LEMMA AskKeeps ==
  ASSUME FlowInv, NEW t \in Tabs, NEW loc \in Locs, Ask(t, loc),
         UNCHANGED <<home, jar, flows, request, codes, entered, settled>>, shared \subseteq shared',
         excused' \in [Browsers -> BOOLEAN],
         InRange(loc), loc.at = "authorize" => Begun(home[t], loc.id) \/ loc.id \in shared'
  PROVE  FlowInv'
<1>1. FlowType /\ FlowType'
  BY AskTab DEF FlowInv, FlowType
<1>2. Adds
  BY <1>1 DEF Adds, FlowType
<1>3. Grows
  BY <1>2, AskGrows
<1>4. InRange(loc)'
  BY DEF InRange
<1>5. loc.at = "authorize" => Begun(home[t], loc.id)'
  <2>1. CASE loc.at = "authorize" /\ Begun(home[t], loc.id)
    <3>1. home[t] \in Browsers /\ loc.id \in 1..flows
      BY <1>1, <2>1 DEF FlowType, InRange
    <3> QED BY <2>1, <3>1, <1>3, GrowsBegun
  <2>2. CASE loc.id \in shared'
    BY <2>2 DEF Begun
  <2> QED BY <2>1, <2>2
<1>6. TabOk(t)'
  BY <1>4, <1>5, AskTabOk DEF Place
<1>7. \A o \in Tabs : tab'[o] = tab[o] \/ TabOk(o)'
  BY <1>1, <1>6, AskTab
<1> QED BY <1>1, <1>3, <1>7, FlowAssembles

LEMMA ReplyTabOk ==
  ASSUME FlowInv, NEW t \in Tabs, NEW to \in Locs, NEW set \in CookieSets, Reply(t, to, set), Grows,
         Place(home[t], to)',
         "state" \in DOMAIN set => set["state"] \in 0..flows',
         "binding" \in DOMAIN set => set["binding"] \in 0..Len(request'),
         "login" \in DOMAIN set => LoginOk(home[t], set["login"])',
         "session" \in DOMAIN set => set["session"] = Nobody,
         ~(tab[t].loc.at = "callback" /\ to.at = "app")
  PROVE  TabOk(t)'
<1> DEFINE b == home[t]
<1>1. /\ FlowType /\ b \in Browsers /\ home'[t] = b
      /\ tab'[t].loc = tab[t].loc /\ tab'[t].reply.to = to /\ Served(t)'
      /\ \A n, v : Gives(t, n, v)' <=> n \in DOMAIN set /\ set[n] = v
  BY ReplyTab, ReplyGives DEF FlowInv, FlowType, Grows, Adds
<1>2. Place(b, tab[t].loc)'
  <2>1. PICK loc : loc = tab[t].loc
    OBVIOUS
  <2>2. Place(b, loc)'
    BY <1>1, <2>1, GrowsPlace DEF FlowInv, TabOk
  <2> QED BY <1>1, <2>1, <2>2
<1>3. Place(b, tab[t].reply.to)'
  BY <1>1
<1>4. ~Finishing(t)'
  BY <1>1 DEF Finishing
<1>5. \A login : Gives(t, "login", login)' => LoginOk(home[t], login)'
  BY <1>1
<1> QED BY <1>1, <1>2, <1>3, <1>4, <1>5 DEF TabOk

\* An answer that only sends the tab on, and clears or binds cookies.
LEMMA ReplyKeeps ==
  ASSUME FlowInv, NEW t \in Tabs, NEW to \in Locs, NEW set \in CookieSets, Reply(t, to, set),
         FlowType', Adds, jar' = jar, flows' = flows, Len(request') = Len(request),
         Len(codes') = Len(codes), settled' = settled,
         InRange(to), to.at = "authorize" => Begun(home[t], to.id),
         Harmless(home[t], set),
         "state" \in DOMAIN set => set["state"] = 0,
         "binding" \in DOMAIN set => set["binding"] = 0,
         "login" \in DOMAIN set => LoginOk(home[t], set["login"])',
         "session" \in DOMAIN set => set["session"] = Nobody,
         ~(tab[t].loc.at = "callback" /\ to.at = "app")
  PROVE  FlowInv'
<1>1. FlowType /\ home[t] \in Browsers /\ home' = home
  BY DEF FlowInv, FlowType, Adds
<1>2. Grows
  BY ReplyGrows
<1>3. Place(home[t], to)'
  BY <1>1, <1>2, GrowsPlace DEF Place
<1>6. 0 \in 0..flows' /\ 0 \in 0..Len(request')
  BY <1>1 DEF FlowType
<1>4. TabOk(t)'
  BY <1>2, <1>3, <1>6, ReplyTabOk
<1>5. \A o \in Tabs : tab'[o] = tab[o] \/ TabOk(o)'
  BY <1>1, <1>4, ReplyTab
<1> QED BY <1>1, <1>2, <1>5, FlowAssembles

-----------------------------------------------------------------------------
\* The browser's steps.
LEMMA PlaceTypes ==
  ASSUME NEW n \in Nat, NEW at \in Places
  PROVE  At(at, n) \in Locs /\ At(at, n).at = at /\ At(at, n).id = n
BY DEF At, Locs

LEMMA VisitKeeps == ASSUME FlowInv, NEW t \in Tabs, Visit(t) PROVE FlowInv'
<1>1. PICK loc \in Locs : loc = At("app", 0) /\ loc.at = "app"
  BY PlaceTypes DEF Places
<1>2. excused' \in [Browsers -> BOOLEAN]
  BY DEF Visit, Excuse, FlowInv, FlowType
<1> QED BY <1>1, <1>2, AskKeeps DEF Visit, InRange

LEMMA ReloadKeeps == ASSUME FlowInv, NEW t \in Tabs, Reload(t) PROVE FlowInv'
<1>1. /\ tab[t].loc.at \in {"form", "formError"} /\ tab[t].loc.id \in 0..Len(request)
      /\ tab[t].loc.id \in Nat
  BY DEF Reload, FlowInv, FlowType, TabOk, Place, InRange
<1>2. PICK loc \in Locs :
        /\ loc = At(IF tab[t].loc.at = "form" THEN "login" ELSE "loginError", tab[t].loc.id)
        /\ loc.at \in {"login", "loginError"} /\ loc.id = tab[t].loc.id
  BY <1>1, PlaceTypes DEF Places
<1>3. excused' \in [Browsers -> BOOLEAN]
  BY DEF Reload, Excuse, FlowInv, FlowType
<1>4. InRange(loc) /\ loc.at # "authorize"
  BY <1>1, <1>2 DEF InRange
<1> QED BY <1>2, <1>3, <1>4, AskKeeps DEF Reload

\* A URL of a flow that is not this browser's makes the flow a shared one.
LEMMA RevisitKeeps == ASSUME FlowInv, NEW t \in Tabs, Revisit(t) PROVE FlowInv'
<1>1. PICK url \in OldUrls :
        /\ Ask(t, url)
        /\ shared' = IF url.at = "authorize" /\ Jar(t).state # url.id
                       THEN shared \cup {url.id} ELSE shared
  BY DEF Revisit
<1>2. FlowType /\ home[t] \in Browsers
  BY DEF FlowInv, FlowType
<1>3. url \in Locs /\ InRange(url)
  BY <1>2 DEF OldUrls, FlowType, Locs, Places, InRange
<1>4. excused' \in [Browsers -> BOOLEAN]
  BY DEF Revisit, Excuse, FlowInv, FlowType
<1>5. shared \subseteq shared'
  BY <1>1
<1>6. url.at = "authorize" => Begun(home[t], url.id) \/ url.id \in shared'
  <2> SUFFICES ASSUME url.at = "authorize", url.id \notin shared' PROVE Begun(home[t], url.id)
    OBVIOUS
  <2>1. jar[home[t]].state = url.id /\ StateOnce(url.id)
    BY <1>1, <1>3 DEF Jar, FlowInv, InRange
  <2> QED BY <1>2, <2>1 DEF Begun, Has, StateOnce
<1> QED BY <1>1, <1>3, <1>4, <1>5, <1>6, AskKeeps DEF Revisit

LEMMA LogOutKeeps == ASSUME FlowInv, NEW t \in Tabs, LogOut(t) PROVE FlowInv'
<1>1. PICK to \in Locs : to = At("login", 0) /\ to.at = "login" /\ to.id = 0
  BY PlaceTypes DEF Places
<1>2. FlowType /\ NoLogin \in LoginCookies /\ NoLogin.sid = 0
  BY DEF FlowInv, NoLogin, LoginCookies
<1>11. \A l \in LoginCookies, f \in Nat, s \in Users \cup {Nobody} :
         [session |-> s, login |-> l, binding |-> f] \in CookieSets
  BY SetTypes
<1>12. [session |-> Nobody, login |-> NoLogin, binding |-> 0] \in CookieSets
  BY <1>2, <1>11, Nobody \in Users \cup {Nobody}, 0 \in Nat
<1>3. PICK set \in CookieSets : set = [session |-> Nobody, login |-> NoLogin, binding |-> 0]
  BY <1>12
<1>4. Reply(t, to, set) /\ tab[t].loc.at = "in"
  BY <1>1, <1>3 DEF LogOut, Reply
<1>5. FlowType'
  BY <1>2, <1>4, ReplyTab DEF FlowType, LogOut, Excuse
<1>6. Adds
  BY <1>2 DEF Adds, FlowType, LogOut
<1>7. /\ DOMAIN set = {"session", "login", "binding"} /\ set["session"] = Nobody
      /\ set["login"] = NoLogin /\ set["binding"] = 0
  BY <1>3
<1>8. Harmless(home[t], set) /\ LoginOk(home[t], set["login"])'
  BY <1>2, <1>7 DEF Harmless, LoginOk
<1>9. InRange(to)
  BY <1>1, <1>2 DEF InRange, FlowType
<1>10. UNCHANGED <<jar, flows, request, codes, settled>>
  BY DEF LogOut
<1> QED BY <1>1, <1>4, <1>5, <1>6, <1>7, <1>8, <1>9, <1>10, ReplyKeeps

\* An answer that is lost has set nothing.
LEMMA LoseReplyKeeps == ASSUME FlowInv, NEW t \in Tabs, LoseReply(t) PROVE FlowInv'
<1>1. FlowType /\ home[t] \in Browsers
  BY DEF FlowInv, FlowType
<1>2. PICK r \in [to : Locs, set : CookieSets] : r = NoReply
  <2>1. At("start", 0) \in Locs
    BY PlaceTypes DEF Places
  <2> QED BY <2>1, NoCookies DEF NoReply
<1>3. tab' = [tab EXCEPT ![t] = [tab[t] EXCEPT !.phase = "rest", !.reply = r]]
  BY <1>2 DEF LoseReply
<1>4. \A q \in TabStates :
        LET a == [q EXCEPT !.phase = "rest", !.reply = r]
        IN a \in TabStates /\ a.loc = q.loc /\ a.phase = "rest"
  BY DEF TabStates, TabPhases
<1>5. /\ tab' \in [Tabs -> TabStates] /\ \A o \in Tabs \ {t} : tab'[o] = tab[o]
      /\ tab'[t].loc = tab[t].loc /\ tab'[t].phase = "rest"
  BY <1>1, <1>3, <1>4 DEF FlowType
<1>6. FlowType' /\ Adds
  BY <1>1, <1>5 DEF LoseReply, Excuse, FlowType, Adds
<1>7. /\ ~Served(t)' /\ \A n, v : ~Gives(t, n, v)'
      /\ \A o \in Tabs : \A n, v : Gives(o, n, v)' => Gives(o, n, v)
  BY <1>5 DEF Served, Gives
<1>8. home' = home /\ jar' = jar
  BY DEF LoseReply
<1>9. \A b, n, v : Has(b, n, v)' => Has(b, n, v)
  BY <1>7, <1>8 DEF Has
<1>10. Grows
  BY <1>6, <1>7, <1>8, <1>9 DEF Grows, Bound
<1>11. PICK loc : loc = tab[t].loc
  OBVIOUS
<1>12. Place(home[t], loc)'
  BY <1>1, <1>8, <1>10, <1>11, GrowsPlace DEF FlowInv, TabOk
<1>13. TabOk(t)'
  BY <1>5, <1>7, <1>11, <1>12 DEF TabOk, Finishing
<1>14. \A o \in Tabs : tab'[o] = tab[o] \/ TabOk(o)'
  BY <1>5, <1>13
<1>15. UNCHANGED <<flows, request, codes, settled>>
  BY DEF LoseReply
<1> QED BY <1>6, <1>8, <1>10, <1>14, <1>15, FlowAssembles

\* A stored request that is gone stays the request it was.
LEMMA TakenAway ==
  ASSUME FlowType, NEW s \in 1..Len(request), request' = [request EXCEPT ![s].there = FALSE]
  PROVE  /\ request' \in Seq(StoredRequests) /\ Len(request') = Len(request)
         /\ \A r \in 1..Len(request) : request'[r].flow = request[r].flow
         /\ ~request'[s].there /\ \A r \in (1..Len(request)) \ {s} : request'[r] = request[r]
<1>1. \A q \in StoredRequests, h \in BOOLEAN :
        LET r == [q EXCEPT !.there = h]
        IN r \in StoredRequests /\ r.flow = q.flow /\ r.there = h
  BY DEF StoredRequests
<1>2. request[s] \in StoredRequests
  BY DEF FlowType
<1>3. PICK r \in StoredRequests :
        r = [request[s] EXCEPT !.there = FALSE] /\ r.flow = request[s].flow /\ r.there = FALSE
  BY <1>1, <1>2, FALSE \in BOOLEAN, ZenonT(20)
<1>4. request' = [request EXCEPT ![s] = r]
  BY <1>3
<1> QED BY <1>3, <1>4 DEF FlowType

LEMMA LapseKeeps == FlowInv /\ Lapse => FlowInv'
<1> SUFFICES ASSUME FlowInv, Lapse PROVE FlowInv'
  OBVIOUS
<1>1. FlowType
  BY DEF FlowInv
<1>2. /\ UNCHANGED <<home, tab, flows, codes, entered, shared, settled>>
      /\ excused' \in [Browsers -> BOOLEAN]
  BY DEF Lapse
<1>3. \A o \in Tabs : \A n, v : Gives(o, n, v)' <=> Gives(o, n, v)
  BY <1>2 DEF Served, Gives
<1>4. CASE \E s \in DOMAIN request :
             request' = [request EXCEPT ![s].there = FALSE] /\ UNCHANGED jar
  <2>1. PICK s \in DOMAIN request : request' = [request EXCEPT ![s].there = FALSE]
    BY <1>4
  <2>2. /\ request' \in Seq(StoredRequests) /\ Len(request') = Len(request)
        /\ \A r \in 1..Len(request) : request'[r].flow = request[r].flow
    <3>1. s \in 1..Len(request)
      BY <1>1 DEF FlowType
    <3> QED BY <1>1, <2>1, <3>1, TakenAway
  <2>3. FlowType' /\ Adds
    BY <1>1, <1>2, <1>4, <2>2 DEF FlowType, Adds
  <2>4. \A b, n, v : Has(b, n, v)' => Has(b, n, v)
    BY <1>2, <1>3, <1>4 DEF Has
  <2>5. Grows
    BY <1>3, <1>4, <2>3, <2>4 DEF Grows, Bound
  <2> QED BY <1>2, <1>4, <2>2, <2>3, <2>5, FlowAssembles
<1>5. ASSUME NEW b \in Browsers, NEW name \in DOMAIN EmptyJar,
             jar' = [jar EXCEPT ![b][name] = EmptyJar[name]], UNCHANGED request
      PROVE  FlowInv'
  <2>1. name \in CookieNames
    BY DEF EmptyJar, CookieNames
  <2>2. PICK j \in Jars :
          /\ jar' = [jar EXCEPT ![b] = j]
          /\ j[name] = EmptyJar[name] /\ \A n \in CookieNames \ {name} : j[n] = jar[b][n]
    <3>1. jar[b] \in Jars /\ jar' = [jar EXCEPT ![b] = [jar[b] EXCEPT ![name] = EmptyJar[name]]]
      BY <1>1, <1>5 DEF FlowType
    <3>2. \A q \in Jars :
            LET j == [q EXCEPT ![name] = EmptyJar[name]]
            IN /\ j \in Jars /\ j[name] = EmptyJar[name]
               /\ \A n \in CookieNames \ {name} : j[n] = q[n]
      BY <2>1 DEF Jars, CookieNames, EmptyJar, NoLogin, LoginCookies
    <3> QED BY <3>1, <3>2
  <2>3. FlowType' /\ Adds
    <3>1. jar' \in [Browsers -> Jars]
      BY <1>1, <2>2 DEF FlowType
    <3> QED BY <1>1, <1>2, <1>5, <3>1 DEF FlowType, Adds
  <2>4. \A a \in Browsers, n \in CookieNames : jar'[a][n] = jar[a][n] \/ jar'[a][n] = EmptyJar[n]
    BY <1>1, <2>2 DEF FlowType
  <2>5. \A a \in Browsers, n \in CookieNames : \A v : Has(a, n, v)' => Has(a, n, v) \/ v = EmptyJar[n]
    BY <1>2, <1>3, <2>4 DEF Has
  <2>6. Grows
    <3>1. \A a \in Browsers : \A r \in 1..Len(request) : Bound(a, r)' => Bound(a, r)
      BY <2>5 DEF Bound, EmptyJar, NoLogin, CookieNames
    <3>2. \A a \in Browsers : \A f \in 1..flows : jar'[a].state = f => jar[a].state = f
      BY <2>4 DEF EmptyJar, CookieNames
    <3> QED BY <1>3, <2>3, <3>1, <3>2 DEF Grows
  <2>7. ASSUME NEW a \in Browsers PROVE JarOk(a)'
    <3>1. JarOk(a) /\ UNCHANGED <<flows, request, codes, entered, shared, settled>>
      BY <1>2, <1>5 DEF FlowInv
    <3>2. \A n \in CookieNames : jar'[a][n] \in {jar[a][n], EmptyJar[n]}
      BY <2>4
    <3>3. /\ jar'[a].state \in {jar[a].state, 0} /\ jar'[a].binding \in {jar[a].binding, 0}
          /\ jar'[a].login \in {jar[a].login, NoLogin} /\ jar'[a].session \in {jar[a].session, Nobody}
      BY <3>2 DEF CookieNames, EmptyJar
    <3>4. \A u : May(a, u) => May(a, u)'
      BY <1>1, <2>6, GrowsMay
    <3> QED BY <1>1, <3>1, <3>3, <3>4 DEF JarOk, LoginOk, FlowType
  <2> QED BY <1>2, <1>5, <2>3, <2>6, <2>7, FlowAssembles
<1> QED BY <1>4, <1>5 DEF Lapse

-----------------------------------------------------------------------------
\* The servers' steps.
LEMMA EmptyReplyKeeps ==
  ASSUME FlowInv, NEW t \in Tabs, NEW to \in Locs, Reply(t, to, << >>), InRange(to),
         to.at # "authorize", ~(tab[t].loc.at = "callback" /\ to.at = "app"),
         FlowType', Adds, UNCHANGED <<jar, flows, settled>>,
         Len(request') = Len(request), Len(codes') = Len(codes)
  PROVE  FlowInv'
<1>1. PICK set \in CookieSets : set = << >> /\ DOMAIN set = {}
  BY NoCookies
<1>2. Harmless(home[t], set)
  BY <1>1 DEF Harmless
<1> QED BY <1>1, <1>2, ReplyKeeps

\* The state of a new flow goes to one browser.
LEMMA ServeAppKeeps == ASSUME FlowInv, NEW t \in Tabs, ServeApp(t) PROVE FlowInv'
<1>1. /\ FlowType /\ tab[t].loc.at = "app"
      /\ UNCHANGED <<home, jar, request, codes, entered, excused, shared, settled>>
  BY DEF FlowInv, ServeApp, Asks
<1>2. CASE Reply(t, At("in", 0), << >>) /\ UNCHANGED flows
  <2>1. PICK to \in Locs : to = At("in", 0) /\ to.at = "in"
    BY PlaceTypes DEF Places
  <2>2. Reply(t, to, << >>) /\ InRange(to)
    BY <1>2, <2>1 DEF InRange
  <2>3. FlowType' /\ Adds
    BY <1>1, <1>2, <2>2, NoCookies, ReplyTab DEF FlowType, Adds
  <2> QED BY <1>1, <1>2, <2>1, <2>2, <2>3, EmptyReplyKeeps
<1>3. CASE flows' = flows + 1 /\ Reply(t, At("authorize", flows'), [state |-> flows'])
  <2>1. PICK f \in Nat : f = flows + 1 /\ f = flows' /\ f \notin 1..flows
    BY <1>1, <1>3 DEF FlowType
  <2>2. PICK to \in Locs : to = At("authorize", f) /\ to.at = "authorize" /\ to.id = f
    BY PlaceTypes DEF Places
  <2>3. [state |-> f] \in CookieSets
    BY [state |-> f] \in [{"state"} -> Values] DEF CookieSets, CookieNames, Values
  <2>4. PICK set \in CookieSets :
          set = [state |-> f] /\ DOMAIN set = {"state"} /\ set["state"] = f
    BY <2>3
  <2>5. Reply(t, to, set)
    BY <1>3, <2>1, <2>2, <2>4
  <2>6. FlowType' /\ Adds
    BY <1>1, <1>3, <2>5, ReplyTab DEF FlowType, Adds
  <2>7. Harmless(home[t], set)
    BY <2>1, <2>4 DEF Harmless
  <2>8. Grows
    BY <1>1, <2>5, <2>6, <2>7, ReplyGrows
  <2>9. \A o \in Tabs \ {t} : ~Gives(o, "state", f)
    BY <1>1, <2>1 DEF FlowInv, TabOk, FlowType
  <2>10. \A b \in Browsers : jar[b].state # f
    BY <1>1, <2>1 DEF FlowInv, JarOk, FlowType
  <2>11. \A o \in Tabs : Gives(o, "state", f)' <=> o = t
    BY <1>1, <2>4, <2>5, <2>9, ReplyGives
  <2>12. StateOnce(f)'
    BY <1>1, <2>10, <2>11 DEF StateOnce
  <2>13. Place(home[t], to)'
    <3>1. Begun(home[t], f)'
      BY <1>1, <2>10, <2>11 DEF Begun, Has
    <3>2. InRange(to)'
      BY <1>1, <2>1, <2>2 DEF InRange, FlowType
    <3>3. to.id = f
      BY <2>2
    <3> QED BY <3>1, <3>2, <3>3 DEF Place
  <2>14. set["state"] \in 0..flows'
    BY <2>1, <2>4
  <2>15. TabOk(t)'
    BY <1>1, <2>4, <2>5, <2>8, <2>13, <2>14, ReplyTabOk
  <2>16. \A o \in Tabs : tab'[o] = tab[o] \/ TabOk(o)'
    BY <1>1, <2>5, <2>15, ReplyTab
  <2>17. \A g \in 1..flows' : g \in 1..flows \/ StateOnce(g)'
    BY <1>1, <2>1, <2>12 DEF FlowType
  <2> QED BY <1>1, <2>6, <2>8, <2>16, <2>17, FlowAssembles
<1> QED BY <1>2, <1>3 DEF ServeApp, BuildOAuthState

LEMMA LoginContentKeeps == ASSUME FlowInv, NEW t \in Tabs, LoginContent(t) PROVE FlowInv'
<1> DEFINE sid == tab[t].loc.id
           at == IF Jar(t).session # Nobody THEN IF sid # 0 THEN "resume" ELSE "app"
                 ELSE IF tab[t].loc.at = "login" THEN "form" ELSE "formError"
<1>1. /\ FlowType /\ tab[t].loc.at \in {"login", "loginError"}
      /\ UNCHANGED <<home, jar, flows, request, codes, entered, excused, shared, settled>>
      /\ sid \in 0..Len(request) /\ Len(request) \in Nat
  BY DEF FlowInv, LoginContent, Asks, TabOk, Place, InRange, FlowType
<1>2. Reply(t, At(at, IF at = "app" THEN 0 ELSE sid), << >>)
  BY DEF LoginContent, Reply
<1>3. PICK to \in Locs :
        /\ to = At(at, IF at = "app" THEN 0 ELSE sid) /\ to.at = at
        /\ to.id = (IF at = "app" THEN 0 ELSE sid)
  BY <1>1, PlaceTypes DEF Places
<1>4. InRange(to) /\ to.at # "authorize"
  BY <1>1, <1>3 DEF InRange
<1>5. Reply(t, to, << >>)
  BY <1>2, <1>3
<1>6. FlowType' /\ Adds
  BY <1>1, <1>5, NoCookies, ReplyTab DEF FlowType, Adds
<1> QED BY <1>1, <1>4, <1>5, <1>6, EmptyReplyKeeps

\* An error goes to the login page, and the cookies of the flow go.
LEMMA ErrorRedirectKeeps ==
  ASSUME FlowInv, NEW t \in Tabs, OAuthErrorRedirect(t),
         UNCHANGED <<home, jar, flows, request, entered, shared, settled>>,
         excused' \in [Browsers -> BOOLEAN], codes' \in Seq(IssuedCodes), Len(codes') = Len(codes),
         \A c \in 1..Len(codes) : codes'[c].flow = codes[c].flow /\ codes'[c].user = codes[c].user
  PROVE  FlowInv'
<1>1. PICK to \in Locs : to = At("loginError", 0) /\ to.at = "loginError" /\ to.id = 0
  BY PlaceTypes DEF Places
<1>2. [state |-> 0] \in CookieSets
  BY [state |-> 0] \in [{"state"} -> Values] DEF CookieSets, CookieNames, Values
<1>3. PICK set \in CookieSets : set = [state |-> 0] /\ DOMAIN set = {"state"} /\ set["state"] = 0
  BY <1>2
<1>4. Reply(t, to, set) /\ FlowType
  BY <1>1, <1>3 DEF OAuthErrorRedirect, ClearOAuthCookies, FlowInv
<1>5. FlowType' /\ Adds
  BY <1>4, ReplyTab DEF FlowType, Adds
<1>6. Harmless(home[t], set) /\ InRange(to)
  BY <1>1, <1>3, <1>4 DEF Harmless, InRange, FlowType
<1> QED BY <1>1, <1>3, <1>4, <1>5, <1>6, ReplyKeeps

LEMMA DeniedKeeps == ASSUME FlowInv, NEW t \in Tabs, Denied(t) PROVE FlowInv'
BY ErrorRedirectKeeps DEF Denied, FlowInv, FlowType

\* The login is tied to the stored request its browser is bound to.
LEMMA LogInKeeps == ASSUME FlowInv, NEW t \in Tabs, LogIn(t) PROVE FlowInv'
<1> DEFINE sid == tab[t].loc.id
           bound == IF sid # 0 /\ Jar(t).binding = sid /\ request[sid].there THEN sid ELSE 0
           at == IF bound # 0 THEN "resume" ELSE "app"
<1>1. /\ FlowType /\ tab[t].loc.at \in {"form", "formError"} /\ home[t] \in Browsers
      /\ UNCHANGED <<home, jar, flows, request, codes, shared, settled>>
      /\ sid \in 0..Len(request) /\ Len(request) \in Nat
  BY DEF FlowInv, LogIn, PeekStoredAuthRequest, TabOk, Place, InRange, FlowType
<1>2. PICK user \in Users :
        /\ Reply(t, At(at, bound), [login |-> [user |-> user, sid |-> bound]])
        /\ entered' = [entered EXCEPT ![home[t]] = @ \cup {user}]
  BY DEF LogIn
<1>3. PICK s \in 0..Len(request) : s = bound /\ (s # 0 => Has(home[t], "binding", s))
  BY <1>1 DEF Has, Jar
<1>14. s \in Nat /\ at = (IF s # 0 THEN "resume" ELSE "app")
  BY <1>1, <1>3
<1>4. PICK to \in Locs : to = At(at, s) /\ to.at = (IF s # 0 THEN "resume" ELSE "app") /\ to.id = s
  BY <1>14, PlaceTypes DEF Places
<1>15. [user |-> user, sid |-> s] \in LoginCookies
  BY <1>14 DEF LoginCookies
<1>5. PICK login \in LoginCookies : login = [user |-> user, sid |-> s] /\ login.user = user /\ login.sid = s
  BY <1>15
<1>6. [login |-> login] \in CookieSets
  BY [login |-> login] \in [{"login"} -> Values] DEF CookieSets, CookieNames, Values
<1>7. PICK set \in CookieSets : set = [login |-> login] /\ DOMAIN set = {"login"} /\ set["login"] = login
  BY <1>6
<1>8. Reply(t, to, set)
  BY <1>2, <1>3, <1>4, <1>5, <1>7
<1>9. /\ entered' \in [Browsers -> SUBSET Users] /\ \A b \in Browsers : entered[b] \subseteq entered'[b]
      /\ user \in entered'[home[t]]
  BY <1>1, <1>2 DEF FlowType
<1>10. FlowType' /\ Adds
  <2>1. excused' \in [Browsers -> BOOLEAN]
    BY <1>1 DEF LogIn, Excuse, FlowType
  <2> QED BY <1>1, <1>8, <1>9, <2>1, ReplyTab DEF FlowType, Adds
<1>11. LoginOk(home[t], login)'
  BY <1>1, <1>5, <1>9 DEF LoginOk
<1>12. Harmless(home[t], set)
  BY <1>3, <1>5, <1>7 DEF Harmless, Bound
<1>13. InRange(to) /\ to.at # "authorize"
  <2>1. s # 0 => s \in 1..Len(request)
    BY <1>1, <1>3
  <2> HIDE DEF at, bound, sid
  <2> QED BY <2>1, <1>4 DEF InRange
<1> QED BY <1>1, <1>7, <1>8, <1>10, <1>11, <1>12, <1>13, ReplyKeeps

\* A code is of a user who may have a session where the flow began.
LEMMA IssueCodeKeeps ==
  ASSUME FlowInv, NEW t \in Tabs, NEW f \in 1..flows, NEW user \in Users, FlowOf(f, user),
         IssueCodeAndRedirect(t, f, user), tab[t].loc.at # "callback",
         UNCHANGED <<home, jar, flows, entered, shared, settled>>,
         request' \in Seq(StoredRequests), Len(request') = Len(request),
         \A s \in 1..Len(request) : request'[s].flow = request[s].flow
  PROVE  FlowInv'
<1>1. FlowType /\ home[t] \in Browsers /\ f \in Nat
  BY DEF FlowInv, FlowType
<1>2. CASE user \in Refused
  <2>1. PICK to \in Locs : to = At("callbackError", 0) /\ to.at = "callbackError"
    BY PlaceTypes DEF Places
  <2>2. Reply(t, to, << >>) /\ codes' = codes /\ InRange(to)
    BY <1>2, <2>1 DEF IssueCodeAndRedirect, InRange
  <2>3. excused' \in [Browsers -> BOOLEAN]
    BY <1>1, <1>2 DEF IssueCodeAndRedirect, Excuse, FlowType
  <2>4. FlowType' /\ Adds
    BY <1>1, <2>2, <2>3, NoCookies, ReplyTab DEF FlowType, Adds
  <2> QED BY <1>1, <2>1, <2>2, <2>4, EmptyReplyKeeps
<1>3. CASE user \notin Refused
  <2>18. PICK n \in Nat : n = Len(codes) + 1
    BY <1>1 DEF FlowType
  <2> DEFINE issued == [flow |-> f, user |-> user, used |-> FALSE]
  <2>1. /\ codes' = Append(codes, issued)
        /\ Reply(t, At("callback", n), [login |-> NoLogin, binding |-> 0])
        /\ excused' = excused
    BY <1>3, <2>18 DEF IssueCodeAndRedirect
  <2>2. issued \in IssuedCodes /\ issued.flow = f /\ issued.user = user
    BY <1>1 DEF IssuedCodes
  <2>3. /\ codes' \in Seq(IssuedCodes) /\ Len(codes') = n /\ codes'[n] = issued
        /\ \A c \in 1..Len(codes) : codes'[c] = codes[c]
        /\ Len(codes) \in Nat /\ n \in Nat
    <3> HIDE DEF issued
    <3> QED BY <1>1, <2>1, <2>2, <2>18 DEF FlowType
  <2>4. PICK to \in Locs : to = At("callback", n) /\ to.at = "callback" /\ to.id = n
    BY <2>3, PlaceTypes DEF Places
  <2>5. NoLogin \in LoginCookies /\ NoLogin.sid = 0
    BY DEF NoLogin, LoginCookies
  <2>6. [login |-> NoLogin, binding |-> 0] \in CookieSets
    BY <2>5, [login |-> NoLogin, binding |-> 0] \in [{"login", "binding"} -> Values]
    DEF CookieSets, CookieNames, Values
  <2>7. PICK set \in CookieSets :
          /\ set = [login |-> NoLogin, binding |-> 0] /\ DOMAIN set = {"login", "binding"}
          /\ set["login"] = NoLogin /\ set["binding"] = 0
    BY <2>6
  <2>8. Reply(t, to, set)
    BY <2>1, <2>4, <2>7
  <2>9. FlowType' /\ Adds
    <3>1. DOMAIN codes \subseteq DOMAIN codes'
      BY <1>1, <2>3, <2>18 DEF FlowType
    <3> HIDE DEF issued
    <3> QED BY <1>1, <2>1, <2>3, <2>8, <3>1, ReplyTab DEF FlowType, Adds
  <2>10. Harmless(home[t], set)
    BY <2>5, <2>7 DEF Harmless
  <2>11. Grows
    BY <1>1, <2>8, <2>9, <2>10, ReplyGrows
  <2>12. Place(home[t], to)'
    BY <2>3, <2>4, <2>18 DEF Place, InRange
  <2>13. set["binding"] \in 0..Len(request') /\ LoginOk(home[t], set["login"])'
    BY <1>1, <2>7 DEF LoginOk, FlowType
  <2>14. TabOk(t)'
    BY <2>7, <2>8, <2>11, <2>12, <2>13, ReplyTabOk
  <2>15. \A o \in Tabs : tab'[o] = tab[o] \/ TabOk(o)'
    BY <1>1, <2>8, <2>14, ReplyTab
  <2>16. CodeOk(n)'
    <3>1. codes'[n].flow = f /\ codes'[n].user = user
      BY <2>2, <2>3
    <3>2. FlowOf(f, user)'
      BY <1>1, <2>11, GrowsFlowOf
    <3>3. n \notin settled'
      BY <1>1, <2>3, <2>18 DEF FlowType
    <3>4. f \in 1..flows'
      OBVIOUS
    <3> QED BY <3>1, <3>2, <3>3, <3>4 DEF CodeOk
  <2>17. \A c \in 1..Len(codes') : c \in 1..Len(codes) \/ CodeOk(c)'
    BY <2>3, <2>16, <2>18
  <2> QED BY <1>1, <2>9, <2>11, <2>15, <2>17, FlowAssembles
<1> QED BY <1>2, <1>3

LEMMA KnownUser ==
  ASSUME FlowInv, NEW b \in Browsers
  PROVE  /\ jar[b].login # NoLogin => jar[b].login.user \in Users /\ May(b, jar[b].login.user)
         /\ jar[b].session # Nobody => jar[b].session \in Users /\ May(b, jar[b].session)
BY DEF FlowInv, FlowType, JarOk, LoginOk, May, Jars

LEMMA BegunFlowOf ==
  ASSUME NEW b \in Browsers, NEW f, NEW u, Begun(b, f), May(b, u) PROVE FlowOf(f, u)
BY DEF Begun, FlowOf

LEMMA FullParamsKeeps == ASSUME FlowInv, NEW t \in Tabs, HandleFullParams(t) PROVE FlowInv'
<1> DEFINE b == home[t]
           user == IF Jar(t).login # NoLogin THEN Jar(t).login.user ELSE Jar(t).session
<1>1. /\ FlowType /\ tab[t].loc.at = "authorize" /\ b \in Browsers
      /\ UNCHANGED <<home, jar, flows, entered, shared, settled>>
  BY DEF FlowInv, HandleFullParams, Asks, FlowType
<1>2. PICK f \in 1..flows : f = tab[t].loc.id /\ Begun(b, f)
  BY <1>1 DEF FlowInv, TabOk, Place, InRange
<1>3. CASE user # Nobody
  <2>1. PICK u \in Users : u = user /\ May(b, u)
    BY <1>1, <1>3, KnownUser DEF Jar
  <2>2. FlowOf(f, u)
    BY <1>1, <1>2, <2>1, BegunFlowOf
  <2>3. IssueCodeAndRedirect(t, f, u) /\ UNCHANGED request
    BY <1>2, <1>3, <2>1 DEF HandleFullParams
  <2> QED BY <1>1, <2>2, <2>3, IssueCodeKeeps DEF FlowType
<1>4. CASE user = Nobody
  <2>1. PICK n \in Nat : n = Len(request) + 1 /\ Len(request) \in Nat
    BY <1>1 DEF FlowType
  <2>2. PICK r \in StoredRequests : r = [flow |-> f, there |-> TRUE] /\ r.flow = f
    <3>1. [flow |-> f, there |-> TRUE] \in StoredRequests
      BY <1>1 DEF StoredRequests, FlowType
    <3> QED BY <3>1
  <2>3. /\ request' = Append(request, r)
        /\ Reply(t, At("login", Len(request')), [binding |-> Len(request')])
        /\ UNCHANGED <<codes, excused>>
    BY <1>2, <1>4, <2>2 DEF HandleFullParams
  <2>4. /\ request' \in Seq(StoredRequests) /\ Len(request') = n /\ request'[n] = r
        /\ \A s \in 1..Len(request) : request'[s] = request[s]
    BY <1>1, <2>1, <2>3 DEF FlowType
  <2>5. PICK to \in Locs : to = At("login", n) /\ to.at = "login" /\ to.id = n
    BY PlaceTypes DEF Places
  <2>6. [binding |-> n] \in CookieSets
    BY [binding |-> n] \in [{"binding"} -> Values] DEF CookieSets, CookieNames, Values
  <2>7. PICK set \in CookieSets : set = [binding |-> n] /\ DOMAIN set = {"binding"} /\ set["binding"] = n
    BY <2>6
  <2>8. Reply(t, to, set)
    BY <2>3, <2>4, <2>5, <2>7
  <2>9. FlowType' /\ Adds
    BY <1>1, <2>1, <2>3, <2>4, <2>8, ReplyTab DEF FlowType, Adds
  <2>10. Harmless(b, set)
    BY <2>1, <2>7 DEF Harmless
  <2>11. Grows
    BY <1>1, <2>8, <2>9, <2>10, ReplyGrows
  <2>12. Place(b, to)' /\ set["binding"] \in 0..Len(request')
    BY <2>1, <2>4, <2>5, <2>7 DEF Place, InRange
  <2>13. TabOk(t)'
    BY <1>1, <2>7, <2>8, <2>11, <2>12, ReplyTabOk
  <2>14. \A o \in Tabs : tab'[o] = tab[o] \/ TabOk(o)'
    BY <1>1, <2>8, <2>13, ReplyTab
  <2>15. \A a \in Browsers : Bound(a, n)' => a = b
    <3> SUFFICES ASSUME NEW a \in Browsers, Bound(a, n)', a # b PROVE FALSE
      OBVIOUS
    <3>1. \A o \in Tabs : \A m, v : home[o] = a /\ Gives(o, m, v)' => Gives(o, m, v)
      BY <1>1, <2>8, ReplyGives
    <3>2. \A m, v : Has(a, m, v)' => Has(a, m, v)
      BY <1>1, <3>1 DEF Has
    <3>3. n \notin 0..Len(request)
      BY <2>1
    <3>4. CASE Has(a, "binding", n)'
      BY <1>1, <3>2, <3>3, <3>4 DEF Has, FlowInv, JarOk, TabOk
    <3>5. ASSUME NEW u \in Users, Has(a, "login", [user |-> u, sid |-> n])' PROVE FALSE
      <4>3. [user |-> u, sid |-> n].sid = n
        OBVIOUS
      <4>4. n # 0
        BY <2>1
      <4>1. PICK l : l = [user |-> u, sid |-> n] /\ l.sid = n /\ n # 0
        BY <4>3, <4>4, Zenon
      <4>2. LoginOk(a, l)
        BY <1>1, <3>2, <3>5, <4>1 DEF Has, FlowInv, JarOk, TabOk
      <4> QED BY <3>3, <4>1, <4>2 DEF LoginOk, NoLogin
    <3> QED BY <3>4, <3>5 DEF Bound
  <2>16. RequestOk(n)'
    <3>1. request'[n].flow = f /\ f \in 1..flows'
      BY <1>1, <2>2, <2>4
    <3>2. Begun(b, f)'
      BY <1>1, <1>2, <2>11, GrowsBegun
    <3>3. \A a \in Browsers : Bound(a, n)' => Begun(a, f)'
      BY <1>1, <2>15, <3>2
    <3>4. \A a \in Browsers : Bound(a, n)' => \A c \in Browsers : Bound(c, n)' => c = a
      BY <2>15
    <3> QED BY <3>1, <3>3, <3>4 DEF RequestOk
  <2>17. \A s \in 1..Len(request') : s \in 1..Len(request) \/ RequestOk(s)'
    BY <2>1, <2>4, <2>16
  <2> QED BY <1>1, <2>3, <2>9, <2>11, <2>14, <2>17, FlowAssembles
<1> QED BY <1>3, <1>4

\* The stored request goes on as what began at the browser it is bound to.
LEMMA SessionIdKeeps == ASSUME FlowInv, NEW t \in Tabs, HandleSessionId(t) PROVE FlowInv'
<1> DEFINE b == home[t]
           cookies == Jar(t)
<1>1. /\ FlowType /\ tab[t].loc.at = "resume" /\ b \in Browsers
      /\ UNCHANGED <<home, jar, flows, entered, shared, settled>>
  BY DEF FlowInv, HandleSessionId, Asks, FlowType
<1>2. PICK s \in 1..Len(request) : s = tab[t].loc.id /\ s \in Nat
  BY <1>1 DEF FlowInv, TabOk, Place, InRange, FlowType
<1>3. request' = request \/ request' = [request EXCEPT ![s].there = FALSE]
  BY <1>2 DEF HandleSessionId
<1>4. /\ request' \in Seq(StoredRequests) /\ Len(request') = Len(request)
      /\ \A r \in 1..Len(request) : request'[r].flow = request[r].flow
  BY <1>1, <1>3, TakenAway DEF FlowType
<1>5. CASE \E at \in {"login", "error"} :
             Reply(t, At(at, IF at = "error" THEN 0 ELSE s), << >>) /\ UNCHANGED <<codes, excused>>
  <2>1. PICK at \in {"login", "error"} :
          Reply(t, At(at, IF at = "error" THEN 0 ELSE s), << >>) /\ UNCHANGED <<codes, excused>>
    BY <1>5
  <2>2. PICK to \in Locs :
          /\ to = At(at, IF at = "error" THEN 0 ELSE s) /\ to.at = at
          /\ to.id = (IF at = "error" THEN 0 ELSE s)
    BY <1>2, PlaceTypes DEF Places
  <2>3. Reply(t, to, << >>) /\ InRange(to) /\ to.at # "authorize"
    BY <1>2, <2>1, <2>2 DEF InRange
  <2>4. FlowType' /\ Adds
    BY <1>1, <1>4, <2>1, <2>3, NoCookies, ReplyTab DEF FlowType, Adds
  <2> QED BY <1>1, <1>4, <2>1, <2>3, <2>4, EmptyReplyKeeps
<1>6. CASE /\ cookies.login # NoLogin /\ cookies.login.sid = s
           /\ IssueCodeAndRedirect(t, request[s].flow, cookies.login.user)
  <2>1. PICK u \in Users : u = jar[b].login.user /\ May(b, u)
    BY <1>1, <1>6, KnownUser DEF Jar
  <2>2. PICK f \in 1..flows : f = request[s].flow
    BY DEF FlowInv, RequestOk
  <2>3. Bound(b, s)
    <3>1. jar[b].login = [user |-> u, sid |-> s]
      BY <1>1, <1>6, <2>1 DEF FlowType, Jars, LoginCookies, Jar
    <3> QED BY <3>1 DEF Bound, Has
  <2>4. FlowOf(f, u)
    BY <1>1, <2>1, <2>2, <2>3, BegunFlowOf DEF FlowInv, RequestOk
  <2>5. IssueCodeAndRedirect(t, f, u)
    BY <1>6, <2>1, <2>2 DEF Jar
  <2> QED BY <1>1, <1>4, <2>4, <2>5, IssueCodeKeeps
<1> QED BY <1>2, <1>5, <1>6 DEF HandleSessionId

\* A code that is used stays the code it was.
LEMMA UsedUp ==
  ASSUME FlowType, NEW c \in 1..Len(codes), codes' = [codes EXCEPT ![c].used = TRUE]
  PROVE  /\ codes' \in Seq(IssuedCodes) /\ Len(codes') = Len(codes)
         /\ \A d \in 1..Len(codes) : codes'[d].flow = codes[d].flow /\ codes'[d].user = codes[d].user
         /\ \A d \in (1..Len(codes)) \ {c} : codes'[d] = codes[d]
<1>1. \A q \in IssuedCodes, h \in BOOLEAN :
        LET r == [q EXCEPT !.used = h]
        IN r \in IssuedCodes /\ r.flow = q.flow /\ r.user = q.user
  BY DEF IssuedCodes
<1>2. codes[c] \in IssuedCodes
  BY DEF FlowType
<1>3. PICK r \in IssuedCodes :
        r = [codes[c] EXCEPT !.used = TRUE] /\ r.flow = codes[c].flow /\ r.user = codes[c].user
  BY <1>1, <1>2, TRUE \in BOOLEAN, ZenonT(20)
<1>4. codes' = [codes EXCEPT ![c] = r]
  BY <1>3
<1> QED BY <1>3, <1>4 DEF FlowType

\* A code goes to the browser its flow began in, or to one it was shared with.
LEMMA CallbackKeeps == ASSUME FlowInv, NEW t \in Tabs, HandleOAuthCallback(t) PROVE FlowInv'
<1> DEFINE b == home[t]
<1>1. /\ FlowType /\ tab[t].loc.at = "callback" /\ b \in Browsers
      /\ UNCHANGED <<home, jar, flows, request, entered, shared, settled>>
  BY DEF FlowInv, HandleOAuthCallback, Asks, FlowType
<1>2. PICK c \in 1..Len(codes) : c = tab[t].loc.id
  BY <1>1 DEF FlowInv, TabOk, Place, InRange
<1>3. PICK f \in 1..flows, u \in Users : f = codes[c].flow /\ u = codes[c].user /\ FlowOf(f, u) /\ f # 0
  <2>1. codes[c] \in IssuedCodes /\ CodeOk(c)
    BY <1>1 DEF FlowInv, FlowType
  <2>2. codes[c].flow \in 1..flows /\ codes[c].user \in Users /\ FlowOf(codes[c].flow, codes[c].user)
    BY <2>1 DEF CodeOk, IssuedCodes
  <2>3. \A f \in 1..flows : f # 0
    BY <1>1 DEF FlowType
  <2> QED BY <2>2, <2>3
<1>4. excused' \in [Browsers -> BOOLEAN]
  BY <1>1 DEF HandleOAuthCallback, Exchange, Excuse, FlowType
<1>5. /\ codes' \in Seq(IssuedCodes) /\ Len(codes') = Len(codes)
      /\ \A d \in 1..Len(codes) : codes'[d].flow = codes[d].flow /\ codes'[d].user = codes[d].user
  <2>1. codes' = codes \/ codes' = [codes EXCEPT ![c].used = TRUE]
    BY <1>2 DEF HandleOAuthCallback, Exchange
  <2> QED BY <1>1, <2>1, UsedUp DEF FlowType
<1>6. CASE OAuthErrorRedirect(t)
  BY <1>1, <1>4, <1>5, <1>6, ErrorRedirectKeeps
<1>7. CASE /\ Jar(t).state = f
           /\ Reply(t, At("app", 0), Over(ClearOAuthCookies, [session |-> u]))
  <2>1. PICK to \in Locs : to = At("app", 0) /\ to.at = "app"
    BY PlaceTypes DEF Places
  <2>2. PICK set \in CookieSets :
          /\ set = Over([state |-> 0], [session |-> u])
          /\ DOMAIN set = {"state", "session"} /\ set["state"] = 0 /\ set["session"] = u
    <3>1. \A x \in Nat, y \in Users \cup {Nobody} : Over([state |-> x], [session |-> y]) \in CookieSets
      BY SetTypes, NoLogin \in LoginCookies DEF NoLogin, LoginCookies
    <3>2. Over([state |-> 0], [session |-> u]) \in CookieSets
      BY <3>1
    <3> QED BY <3>2 DEF Over
  <2>3. Reply(t, to, set)
    BY <1>7, <2>1, <2>2 DEF ClearOAuthCookies
  <2>4. FlowType' /\ Adds
    BY <1>1, <1>4, <1>5, <2>3, ReplyTab DEF FlowType, Adds
  <2>5. Harmless(b, set)
    BY <2>2 DEF Harmless
  <2>6. Grows
    BY <1>1, <2>3, <2>4, <2>5, ReplyGrows
  <2>7. /\ Served(t)' /\ tab'[t].loc = tab[t].loc /\ tab'[t].reply.to = to
        /\ \A n, v : Gives(t, n, v)' <=> n \in DOMAIN set /\ set[n] = v
    BY <1>1, <2>3, ReplyTab, ReplyGives
  <2>8. Place(b, tab[t].loc)' /\ Place(b, tab[t].reply.to)'
    <3>1. PICK loc : loc = tab[t].loc
      OBVIOUS
    <3>2. Place(b, loc)'
      BY <1>1, <2>6, <3>1, GrowsPlace DEF FlowInv, TabOk
    <3>3. Place(b, to)'
      BY <2>1 DEF Place, InRange
    <3> QED BY <1>1, <2>7, <3>1, <3>2, <3>3
  <2>9. Finishing(t)' /\ Finished(t)'.flow = f /\ Finished(t)'.user = u
    BY <1>1, <1>2, <1>3, <1>5, <2>1, <2>7 DEF Finishing, Finished
  <2>10. f \in shared' \/ May(b, u)'
    <3>1. f \in shared \/ May(b, u)
      BY <1>1, <1>3, <1>7 DEF FlowOf, Has, Jar
    <3> QED BY <1>1, <2>6, <3>1, GrowsMay
  <2>11. Arrived(b, f)'
    <3>1. jar[b].state = f /\ StateOnce(f)
      BY <1>7 DEF Jar, FlowInv
    <3>2. Arrived(b, f)
      BY <1>1, <3>1 DEF StateOnce, Arrived
    <3> QED BY <1>1, <2>6, <3>2, GrowsArrived
  <2>12. TabOk(t)'
    <3>1. Gives(t, "state", 0)' /\ \A v : Gives(t, "session", v)' => v = u
      BY <2>2, <2>7
    <3>2. \A v : ~Gives(t, "binding", v)' /\ ~Gives(t, "login", v)' /\ (Gives(t, "state", v)' => v = 0)
      BY <2>2, <2>7
    <3>3. 0 \in 0..flows'
      BY <1>1 DEF FlowType
    <3>4. Arrived(home[t], Finished(t).flow)'
      BY <1>1, <2>9, <2>11
    <3>5. \A v : Gives(t, "session", v)' /\ v # Nobody =>
            /\ Finishing(t)' /\ v = Finished(t)'.user
            /\ Finished(t)'.flow \in shared' \/ May(home[t], v)'
      BY <1>1, <2>9, <2>10, <3>1
    <3> QED BY <1>1, <2>7, <2>8, <2>9, <3>1, <3>2, <3>3, <3>4, <3>5 DEF TabOk
  <2>13. \A o \in Tabs : tab'[o] = tab[o] \/ TabOk(o)'
    BY <1>1, <2>3, <2>12, ReplyTab
  <2> QED BY <1>1, <1>5, <2>4, <2>6, <2>13, FlowAssembles
<1> QED BY <1>2, <1>3, <1>6, <1>7
  DEF HandleOAuthCallback, CheckCallback, StateMatches, Exchange

\* What arrives moves to the browser, and only there.
LEMMA ArriveKeeps == ASSUME FlowInv, NEW t \in Tabs, Arrive(t) PROVE FlowInv'
<1> DEFINE b == home[t]
           set == tab[t].reply.set
           to == tab[t].reply.to
<1>1. /\ FlowType /\ Served(t) /\ TabOk(t) /\ b \in Browsers /\ to \in Locs /\ set \in CookieSets
      /\ UNCHANGED <<home, flows, request, codes, entered, excused, shared>>
      /\ jar' = [jar EXCEPT ![b] = Over(set, jar[b])]
      /\ settled' = IF tab[t].loc.at = "callback" /\ to.at = "app"
                      THEN settled \cup {tab[t].loc.id} ELSE settled
  BY DEF FlowInv, Arrive, FlowType, Served, TabStates
<1>2. /\ tab' \in [Tabs -> TabStates] /\ \A o \in Tabs \ {t} : tab'[o] = tab[o]
      /\ tab'[t].loc = to /\ tab'[t].phase \in {"rest", "sent"}
  <2>1. At("start", 0) \in Locs
    BY PlaceTypes DEF Places
  <2>2. NoReply \in [to : Locs, set : CookieSets]
    BY <2>1, NoCookies DEF NoReply
  <2>4. PICK phase \in {"rest", "sent"} :
          tab' = [tab EXCEPT ![t] = [loc |-> to, reply |-> NoReply, phase |-> phase]]
    BY DEF Arrive
  <2>5. [loc |-> to, reply |-> NoReply, phase |-> phase] \in TabStates
    BY <1>1, <2>2 DEF TabStates, TabPhases
  <2>3. PICK q \in TabStates : /\ tab' = [tab EXCEPT ![t] = q]
                               /\ q.loc = to /\ q.phase \in {"rest", "sent"}
    BY <2>4, <2>5
  <2> QED BY <1>1, <2>3 DEF FlowType
<1>3. /\ ~Served(t)' /\ \A n, v : ~Gives(t, n, v)'
      /\ \A o \in Tabs \ {t} : \A n, v : Gives(o, n, v)' <=> Gives(o, n, v)
  BY <1>2 DEF Served, Gives
<1>4. jar[b] \in Jars /\ DOMAIN jar[b] = CookieNames /\ DOMAIN set \subseteq CookieNames
  BY <1>1 DEF FlowType, Jars, CookieNames, CookieSets
<1>5. /\ \A a \in Browsers \ {b} : jar'[a] = jar[a]
      /\ jar'[b] = [n \in CookieNames |-> IF n \in DOMAIN set THEN set[n] ELSE jar[b][n]]
  BY <1>1, <1>4 DEF FlowType, Over
<1>6. \A n \in CookieNames :
        \/ Gives(t, n, jar'[b][n])
        \/ jar'[b][n] = jar[b][n] /\ n \notin DOMAIN set
  BY <1>1, <1>5 DEF Gives
<1>7. ASSUME NEW n \in CookieNames, NEW v, Gives(t, n, v) PROVE jar'[b][n] = v
  BY <1>5, <1>7 DEF Gives
<1>8. JarOk(b)
  BY <1>1 DEF FlowInv
<1>9. jar'[b].state \in 0..flows /\ jar'[b].binding \in 0..Len(request)
  BY <1>1, <1>6, <1>8 DEF TabOk, JarOk, CookieNames
<1>10. LoginOk(b, jar'[b].login)
  BY <1>1, <1>6, <1>8 DEF TabOk, JarOk, CookieNames
<1>11. Finishing(t) => tab[t].loc.id \in 1..Len(codes) /\ Finished(t) \in IssuedCodes /\ CodeOk(tab[t].loc.id)
  BY <1>1 DEF Finishing, Finished, TabOk, Place, InRange, FlowInv, FlowType
<1>12. jar'[b].session = Nobody
         \/ (jar'[b].session \in Users /\ May(b, jar'[b].session))
         \/ (Finishing(t) /\ jar'[b].session = Finished(t).user
               /\ (Finished(t).flow \in shared \/ May(b, jar'[b].session)))
  BY <1>1, <1>4, <1>6, <1>8 DEF TabOk, JarOk, CookieNames, Jars
<1>13. jar'[b] \in Jars
  <2>1. jar'[b].session \in Users \cup {Nobody}
    BY <1>11, <1>12 DEF IssuedCodes
  <2>2. jar'[b].login \in LoginCookies
    BY <1>10 DEF LoginOk, NoLogin, LoginCookies
  <2>3. jar'[b].state \in Nat /\ jar'[b].binding \in Nat
    BY <1>1, <1>9 DEF FlowType
  <2> QED BY <1>5, <2>1, <2>2, <2>3 DEF Jars, CookieNames
<1>14. settled \subseteq settled' /\ settled' \subseteq DOMAIN codes
  BY <1>1, <1>11 DEF Finishing, FlowType
<1>15. FlowType' /\ Adds
  <2>1. jar' \in [Browsers -> Jars]
    BY <1>1, <1>13 DEF FlowType
  <2> QED BY <1>1, <1>2, <1>14, <2>1 DEF FlowType, Adds
<1>16. Grows
  <2>1. ASSUME NEW a \in Browsers, NEW f \in 1..flows, jar'[a].state = f
        PROVE  jar[a].state = f
                 \/ \E o \in Tabs : home[o] = a /\ Gives(o, "state", f) /\ ~Gives(o, "state", f)'
    BY <1>3, <1>5, <1>6, <2>1 DEF CookieNames
  <2>2. ASSUME NEW a \in Browsers, NEW n \in CookieNames, NEW v, Has(a, n, v)' PROVE Has(a, n, v)
    BY <1>1, <1>3, <1>5, <1>6, <2>2 DEF Has
  <2>3. \A a \in Browsers : \A s \in 1..Len(request) : Bound(a, s)' => Bound(a, s)
    BY <2>2 DEF Bound, CookieNames
  <2> QED BY <1>3, <1>15, <2>1, <2>3 DEF Grows
<1>17. ASSUME NEW a \in Browsers, a = b PROVE JarOk(a)'
  <2>1. PICK l, u : l = jar'[a].login /\ u = jar'[a].session
    OBVIOUS
  <2>2. LoginOk(a, l)'
    BY <1>1, <1>10, <1>16, <1>17, <2>1, GrowsLogin
  <2>3. u = Nobody \/ May(a, u)'
    <3>1. CASE May(b, u)
      BY <1>1, <1>16, <1>17, <3>1, GrowsMay
    <3>2. CASE Finishing(t) /\ u = Finished(t).user /\ Finished(t).flow \in shared
      BY <1>1, <3>2 DEF Finishing, Finished, May
    <3> QED BY <1>12, <1>17, <2>1, <3>1, <3>2
  <2>4. jar'[a].state \in 0..flows' /\ jar'[a].binding \in 0..Len(request')
    BY <1>1, <1>9, <1>17
  <2> QED BY <2>1, <2>2, <2>3, <2>4 DEF JarOk
<1>18. \A a \in Browsers : jar'[a] = jar[a] \/ JarOk(a)'
  BY <1>5, <1>17
<1>19. TabOk(t)'
  <2>1. PICK loc : loc = to
    OBVIOUS
  <2>2. Place(b, loc)'
    BY <1>1, <1>16, <2>1, GrowsPlace DEF TabOk
  <2>3. Place(home[t], tab[t].loc)'
    BY <1>1, <1>2, <2>1, <2>2
  <2> QED BY <1>3, <2>3 DEF TabOk, Finishing
<1>20. \A o \in Tabs : tab'[o] = tab[o] \/ TabOk(o)'
  BY <1>2, <1>19
<1>21. ASSUME NEW c \in 1..Len(codes), c \in settled', c \notin settled PROVE Spent(codes[c].flow)'
  <2>1. Finishing(t) /\ c = tab[t].loc.id
    BY <1>1, <1>21 DEF Finishing
  <2>2. PICK f \in 1..flows : f = codes[c].flow /\ f # 0
    <3>1. \A f \in 1..flows : f # 0
      BY <1>1 DEF FlowType
    <3> QED BY <1>11, <2>1, <3>1 DEF CodeOk
  <2>3. Gives(t, "state", 0) /\ Arrived(b, f)
    BY <1>1, <2>1, <2>2 DEF TabOk, Finished
  <2>4. jar'[b].state = 0 /\ \A a \in Browsers \ {b} : jar'[a].state # f
    BY <1>1, <1>5, <1>7, <2>3 DEF Arrived, CookieNames
  <2>5. \A o \in Tabs : ~Gives(o, "state", f)'
    BY <1>3, <2>3 DEF Arrived
  <2>6. Spent(f)'
    BY <2>2, <2>4, <2>5 DEF Spent, Has
  <2> QED BY <1>1, <2>2, <2>6
<1> QED BY <1>1, <1>15, <1>16, <1>18, <1>20, <1>21, FlowAssembles

LEMMA FlowInitially == FlowInit => FlowInv
<1> SUFFICES ASSUME FlowInit PROVE FlowInv
  OBVIOUS
<1>1. At("start", 0) \in Locs
  BY PlaceTypes DEF Places
<1>2. NoReply \in [to : Locs, set : CookieSets] /\ NoLogin \in LoginCookies /\ EmptyJar \in Jars
  BY <1>1, NoCookies DEF NoReply, NoLogin, LoginCookies, EmptyJar, Jars
<1>3. [loc |-> At("start", 0), phase |-> "rest", reply |-> NoReply] \in TabStates
  BY <1>1, <1>2 DEF TabStates, TabPhases
<1>4. FlowType
  BY <1>2, <1>3 DEF FlowInit, FlowType
<1>5. /\ \A t \in Tabs : tab[t].phase = "rest" /\ tab[t].loc.at = "start"
      /\ \A b \in Browsers : jar[b] = EmptyJar
  BY DEF FlowInit, At
<1>6. \A t \in Tabs : ~Served(t) /\ \A n, v : ~Gives(t, n, v)
  BY <1>5 DEF Served, Gives
<1>7. \A t \in Tabs : TabOk(t)
  BY <1>5, <1>6 DEF TabOk, Place, InRange, Finishing
<1>8. \A b \in Browsers : JarOk(b)
  BY <1>5 DEF JarOk, EmptyJar, LoginOk, FlowInit
<1>9. flows = 0 /\ Len(request) = 0 /\ Len(codes) = 0
  BY DEF FlowInit
<1> QED BY <1>4, <1>7, <1>8, <1>9 DEF FlowInv

LEMMA FlowKeeps == FlowInv /\ [FlowNext]_flowVars => FlowInv'
<1> SUFFICES ASSUME FlowInv, [FlowNext]_flowVars PROVE FlowInv'
  OBVIOUS
<1>1. CASE UNCHANGED flowVars
  <2>1. FlowType' /\ Adds
    BY <1>1 DEF flowVars, FlowInv, FlowType, Adds
  <2>2. \A t \in Tabs : \A n, v : Gives(t, n, v)' <=> Gives(t, n, v)
    BY <1>1 DEF flowVars, Gives, Served
  <2>3. \A b, n, v : Has(b, n, v)' <=> Has(b, n, v)
    BY <1>1, <2>2 DEF flowVars, Has
  <2>4. Grows
    BY <1>1, <2>1, <2>2, <2>3 DEF Grows, Bound, flowVars
  <2> QED BY <1>1, <2>1, <2>4, FlowAssembles DEF flowVars
<1>2. CASE FlowNext
  BY <1>2, VisitKeeps, ReloadKeeps, RevisitKeeps, LogInKeeps, LogOutKeeps, ArriveKeeps, LoseReplyKeeps,
     ServeAppKeeps, FullParamsKeeps, LoginContentKeeps, SessionIdKeeps, CallbackKeeps, DeniedKeeps,
     LapseKeeps
  DEF FlowNext, Serve
<1> QED BY <1>1, <1>2

LEMMA FlowInvSuffices == FlowInv => SessionIsOfTheBrowser
BY DEF FlowInv, JarOk, May, SessionIsOfTheBrowser

\* What is exchanged has its state in the browser, what has settled is spent.
LEMMA SettledRest == FlowInv /\ [FlowNext]_flowVars => [SettledCodesRest]_flowVars
<1> SUFFICES ASSUME FlowInv, FlowNext PROVE SettledCodesRest
  BY DEF SettledCodesRest, flowVars
<1>1. CASE replayed' = replayed
  BY <1>1 DEF SettledCodesRest
<1>2. ASSUME NEW t \in Tabs, HandleOAuthCallback(t), replayed' # replayed PROVE SettledCodesRest
  <2>1. PICK c \in 1..Len(codes) : c = tab[t].loc.id /\ home[t] \in Browsers
    BY <1>2 DEF HandleOAuthCallback, Asks, FlowInv, FlowType, TabOk, Place, InRange
  <2>2. replayed' = replayed \cup {c} /\ jar[home[t]].state = codes[c].flow
    BY <1>2, <2>1 DEF HandleOAuthCallback, Exchange, CheckCallback, StateMatches, Jar
  <2>3. c \notin settled
    BY <2>1, <2>2 DEF FlowInv, CodeOk, Spent, Has
  <2> QED BY <2>2, <2>3 DEF SettledCodesRest
<1> QED
  BY <1>1, <1>2
  DEF FlowNext, Serve, Visit, Reload, Revisit, LogIn, LogOut, Arrive, LoseReply, ServeApp,
      HandleFullParams, LoginContent, HandleSessionId, Denied, Lapse

LEMMA OnlyFlowSteps == [Next]_vars => [FlowNext]_flowVars
BY DEF Next, vars, flowVars, FlowStep, AttemptStep, SigningStep, JwksStep, CertStep, RequestStep,
       AppStep

\* SessionIsOfTheBrowser (oauth_flow.rs check_callback, authorize/route.ts):
\* whatever the tabs of the two browsers do with their old URLs, a session is of
\* a user who entered the password there, or is owed to a flow that was shared.
THEOREM SignedInHere == Spec => []SessionIsOfTheBrowser
<1>1. Init => FlowInv
  BY FlowInitially DEF Init
<1>2. FlowInv /\ [Next]_vars => FlowInv'
  BY OnlyFlowSteps, FlowKeeps
<1> QED BY <1>1, <1>2, FlowInvSuffices, PTL DEF Spec

\* NoSettledReplay (oauth_flow.rs, oauth-grant.ts): a code whose session has
\* arrived is not exchanged again, as the state of its flow is nowhere any more.
THEOREM SettledForGood == Spec => NoSettledReplay
<1>1. Init => FlowInv
  BY FlowInitially DEF Init
<1>2. FlowInv /\ [Next]_vars => FlowInv'
  BY OnlyFlowSteps, FlowKeeps
<1>3. FlowInv /\ [Next]_vars => [SettledCodesRest]_flowVars
  BY OnlyFlowSteps, SettledRest
<1> QED BY <1>1, <1>2, <1>3, PTL DEF Spec, NoSettledReplay

-----------------------------------------------------------------------------
-----------------------------------------------------------------------------
\* What a browser has once the answer under way is there, and where the tab is.
After(t) == IF Served(t) THEN Over(tab[t].reply.set, jar[home[t]]) ELSE jar[home[t]]
Going(t) == IF Served(t) THEN tab[t].reply.to ELSE tab[t].loc

Pending(s, cookies) ==
  /\ s \in 1..Len(request) /\ request[s].there
  /\ cookies.binding = s /\ cookies.state = request[s].flow

\* The cookies are those the next end point asks for.
Fits(loc, cookies) ==
  \/ loc.at \in {"start", "in", "app"}
  \/ loc.at = "authorize" /\ cookies.state = loc.id
  \/ /\ loc.at \in {"login", "form"} /\ cookies.session = Nobody
     /\ loc.id # 0 => Pending(loc.id, cookies)
  \/ loc.at = "resume" /\ Pending(loc.id, cookies) /\ cookies.login # NoLogin /\ cookies.login.sid = loc.id
  \/ /\ loc.at = "callback" /\ cookies.state = codes[loc.id].flow
     /\ ~codes[loc.id].used

Stage(t) == Fits(Going(t), After(t))
Fine(t) == tab[t].loc.at \notin {"error", "formError"}
Alone(t) == \A o \in Tabs : home[o] = home[t] /\ Busy(t) /\ Busy(o) => o = t

\* Where nothing excuses an error, tabs work one at a time and each with its own cookies.
CauseInv == \A t \in Tabs : ~excused[home[t]] => Alone(t) /\ Stage(t) /\ Fine(t)

LEMMA AfterHas ==
  ASSUME FlowInv, NEW t \in Tabs
  PROVE  Has(home[t], "state", After(t).state) /\ Has(home[t], "binding", After(t).binding)
<1>1. jar[home[t]] \in Jars /\ tab[t].reply.set \in CookieSets /\ home[t] \in Browsers
  BY DEF FlowInv, FlowType, TabStates
<1>2. DOMAIN jar[home[t]] = CookieNames /\ DOMAIN tab[t].reply.set \subseteq CookieNames
  BY <1>1 DEF Jars, CookieNames, CookieSets
<1> QED BY <1>1, <1>2 DEF After, Has, Gives, Over, CookieNames

\* The other tabs, over a step of t: a request that is used up was bound to the
\* browser of t, a code that is used has its state there.
Apart(t) ==
  /\ home' = home /\ \A o \in Tabs \ {t} : tab'[o] = tab[o]
  /\ tab'[t].loc = tab[t].loc \/ ~Served(t)'
  /\ \A b \in Browsers : excused[b] => excused'[b]
  /\ \A b \in Browsers : jar'[b] = jar[b] \/ (b = home[t] /\ Busy(t))
  /\ Len(request') >= Len(request) /\ Len(codes') >= Len(codes)
  /\ \A s \in 1..Len(request) :
       \/ request'[s] = request[s]
       \/ request'[s].flow = request[s].flow /\ Bound(home[t], s) /\ Busy(t)
  /\ \A c \in 1..Len(codes) :
       \/ codes'[c] = codes[c]
       \/ codes'[c].flow = codes[c].flow /\ jar[home[t]].state = codes[c].flow /\ Busy(t)

LEMMA OthersStay ==
  ASSUME FlowInv, CauseInv, NEW t \in Tabs, NEW o \in Tabs \ {t}, Apart(t), ~excused'[home[o]]
  PROVE  Stage(o)'
<1>1. /\ FlowType /\ home[o] \in Browsers /\ home[t] \in Browsers /\ ~excused[home[o]]
      /\ Stage(o) /\ Alone(o) /\ tab'[o] = tab[o] /\ home'[o] = home[o]
  BY DEF FlowInv, FlowType, CauseInv, Apart
<1>2. Going(o)' = Going(o) /\ (Served(o)' <=> Served(o))
  BY <1>1 DEF Going, Served
<1>3. PICK loc : loc = Going(o)
  OBVIOUS
<1>4. CASE ~Busy(o)
  <2>1. Going(o) = tab[o].loc /\ tab[o].loc.at \in {"start", "in", "error"}
    BY <1>4 DEF Busy, Going, Served
  <2>2. tab[o].loc.at \in {"start", "in"}
    BY <1>1, <2>1 DEF Stage, Fits
  <2> QED BY <1>2, <2>1, <2>2 DEF Stage, Fits
<1>5. CASE Busy(o)
  <2>1. jar'[home[o]] = jar[home[o]]
    BY <1>1, <1>5 DEF Apart, Alone
  <2>2. After(o)' = After(o)
    BY <1>1, <1>2, <2>1 DEF After
  <2>3. PICK j : j = After(o) /\ Has(home[o], "state", j.state) /\ Has(home[o], "binding", j.binding)
    BY AfterHas
  <2>4. ASSUME NEW s, Pending(s, j) PROVE Pending(s, j)'
    <3>1. s \in 1..Len(request) /\ j.binding = s /\ Bound(home[o], s)
      BY <2>3, <2>4 DEF Pending, Bound
    <3>2. request'[s] = request[s]
      <4>1. CASE home[o] = home[t]
        BY <1>1, <1>5, <3>1, <4>1 DEF Apart, Alone
      <4>2. CASE home[o] # home[t]
        BY <1>1, <3>1, <4>2 DEF Apart, FlowInv, RequestOk
      <4> QED BY <4>1, <4>2
    <3>3. s \in 1..Len(request')
      BY <1>1, <3>1 DEF Apart, FlowType
    <3> QED BY <2>4, <3>1, <3>2, <3>3 DEF Pending
  <2>5. ASSUME NEW c \in 1..Len(codes), j.state = codes[c].flow
        PROVE  codes'[c] = codes[c]
    <3>1. CASE home[o] = home[t]
      BY <1>1, <1>5, <3>1 DEF Apart, Alone
    <3>2. CASE home[o] # home[t]
      <4>1. PICK f \in 1..flows : f = codes[c].flow
        BY DEF FlowInv, CodeOk
      <4>2. jar[home[t]].state # f
        BY <1>1, <2>3, <2>5, <3>2, <4>1 DEF FlowInv, StateOnce, Has
      <4> QED BY <1>1, <4>1, <4>2 DEF Apart
    <3> QED BY <3>1, <3>2
  <2>6. loc.at = "callback" => loc.id \in 1..Len(codes)
    BY <1>3 DEF FlowInv, TabOk, Place, InRange, Going
  <2>7. Fits(loc, j)
    BY <1>1, <1>3, <2>3 DEF Stage
  <2>8. Fits(loc, j)'
    BY <2>4, <2>5, <2>6, <2>7 DEF Fits
  <2> QED BY <1>2, <1>3, <2>2, <2>3, <2>8 DEF Stage
<1> QED BY <1>4, <1>5

LEMMA CauseAssembles ==
  ASSUME FlowInv, CauseInv, NEW t \in Tabs, Apart(t),
         Busy(t)' => Busy(t) \/ ~Overlaps(t) \/ excused'[home[t]],
         ~excused'[home[t]] => Stage(t)'
  PROVE  CauseInv'
<1>1. /\ FlowType /\ home' = home /\ \A o \in Tabs \ {t} : Busy(o)' <=> Busy(o)
      /\ \A o \in Tabs : home[o] \in Browsers
  BY DEF FlowInv, FlowType, Apart, Busy
<1>2. ASSUME NEW o \in Tabs, ~excused'[home[o]] PROVE Stage(o)'
  <2>1. CASE o = t
    BY <1>1, <1>2, <2>1
  <2>2. CASE o # t
    BY <1>2, <2>2, OthersStay
  <2> QED BY <2>1, <2>2
<1>3. ASSUME NEW o \in Tabs, ~excused'[home[o]] PROVE Alone(o)'
  <2>1. ~excused[home[o]] /\ Alone(o)
    BY <1>1, <1>3 DEF CauseInv, Apart
  <2>2. ASSUME NEW p \in Tabs, home[p] = home[o], Busy(o)', Busy(p)' PROVE p = o
    <3>1. CASE Busy(t) \/ home[t] # home[o]
      BY <1>1, <2>1, <2>2, <3>1 DEF Alone
    <3>2. CASE ~Busy(t) /\ home[t] = home[o]
      BY <1>1, <1>3, <2>1, <2>2, <3>2 DEF Alone, Overlaps
    <3> QED BY <3>1, <3>2
  <2> QED BY <1>1, <2>2 DEF Alone
<1>4. ASSUME NEW o \in Tabs, ~excused'[home[o]] PROVE Fine(o)'
  <2>1. Fine(o)
    BY <1>1, <1>4 DEF CauseInv, Apart
  <2>2. CASE tab'[o].loc = tab[o].loc
    BY <2>1, <2>2 DEF Fine
  <2>3. CASE o = t /\ ~Served(t)'
    <3>1. PICK loc, j : loc = tab'[t].loc /\ Fits(loc, j)'
      BY <1>4, <2>3 DEF Stage, Going
    <3> QED BY <2>3, <3>1 DEF Fits, Fine
  <2> QED BY <2>2, <2>3 DEF Apart
<1> QED BY <1>1, <1>2, <1>3, <1>4 DEF CauseInv
-----------------------------------------------------------------------------
LEMMA Excused ==
  ASSUME FlowType, NEW t \in Tabs, NEW why \in BOOLEAN, Excuse(t, why)
  PROVE  /\ \A b \in Browsers : excused[b] => excused'[b]
         /\ excused'[home[t]] <=> excused[home[t]] \/ why
<1>1. home[t] \in Browsers /\ excused \in [Browsers -> BOOLEAN]
  BY DEF FlowType
<1>2. PICK is \in BOOLEAN : is <=> excused[home[t]] \/ why
  OBVIOUS
<1>3. excused' = [excused EXCEPT ![home[t]] = is]
  BY <1>1, <1>2 DEF Excuse
<1> QED BY <1>1, <1>2, <1>3

\* What the user does, or what is lost, is excused, or is at a tab of its own.
LEMMA AskStage ==
  ASSUME FlowInv, NEW t \in Tabs, NEW loc \in Locs, Ask(t, loc),
         UNCHANGED <<home, jar, request, codes>>, Fits(loc, jar[home[t]])
  PROVE  Stage(t)'
<1>1. tab'[t].loc = loc /\ ~Served(t)'
  BY AskTab, AskGives DEF FlowInv
<1>2. PICK j : j = jar[home[t]]
  OBVIOUS
<1>3. Fits(loc, j)'
  BY <1>2 DEF Fits, Pending
<1>4. Going(t)' = loc /\ After(t)' = j
  BY <1>1, <1>2 DEF Going, After
<1> QED BY <1>3, <1>4 DEF Stage

LEMMA AskApart ==
  ASSUME FlowInv, NEW t \in Tabs, NEW loc \in Locs, Ask(t, loc),
         UNCHANGED <<home, jar, request, codes>>, \A b \in Browsers : excused[b] => excused'[b]
  PROVE  Apart(t)
BY AskTab, AskGives DEF Apart, FlowInv, FlowType

LEMMA VisitCause == ASSUME FlowInv, CauseInv, NEW t \in Tabs, Visit(t) PROVE CauseInv'
<1>1. FlowType /\ UNCHANGED <<home, jar, request, codes>> /\ Excuse(t, Overlaps(t))
  BY DEF FlowInv, Visit
<1>2. PICK loc \in Locs : loc = At("app", 0) /\ loc.at = "app"
  BY PlaceTypes DEF Places
<1>3. Ask(t, loc) /\ Fits(loc, jar[home[t]])
  BY <1>2 DEF Visit, Fits
<1>4. Apart(t)
  <2>1. \A b \in Browsers : excused[b] => excused'[b]
    BY <1>1, Excused, Overlaps(t) \in BOOLEAN DEF Overlaps
  <2> QED BY <1>1, <1>3, <2>1, AskApart
<1>5. ~Overlaps(t) \/ excused'[home[t]]
  BY <1>1, Excused, Overlaps(t) \in BOOLEAN DEF Overlaps
<1> QED BY <1>1, <1>3, <1>4, <1>5, AskStage, CauseAssembles

LEMMA ReloadCause == ASSUME FlowInv, CauseInv, NEW t \in Tabs, Reload(t) PROVE CauseInv'
<1>1. /\ FlowType /\ UNCHANGED <<home, jar, request, codes>> /\ Excuse(t, Overlaps(t))
      /\ ~Served(t) /\ tab[t].loc.at \in {"form", "formError"} /\ tab[t].loc.id \in Nat
  BY DEF FlowInv, Reload, AtRest, Served, FlowType, TabStates, Locs
<1>2. PICK loc \in Locs :
        /\ loc = At(IF tab[t].loc.at = "form" THEN "login" ELSE "loginError", tab[t].loc.id)
        /\ loc.at = (IF tab[t].loc.at = "form" THEN "login" ELSE "loginError") /\ loc.id = tab[t].loc.id
  BY <1>1, PlaceTypes DEF Places
<1>3. Ask(t, loc)
  BY <1>2 DEF Reload
<1>4. Apart(t)
  <2>1. \A b \in Browsers : excused[b] => excused'[b]
    BY <1>1, Excused, Overlaps(t) \in BOOLEAN DEF Overlaps
  <2> QED BY <1>1, <1>3, <2>1, AskApart
<1>5. ~Overlaps(t) \/ excused'[home[t]]
  BY <1>1, Excused, Overlaps(t) \in BOOLEAN DEF Overlaps
<1>6. ~excused'[home[t]] => Fits(loc, jar[home[t]])
  <2>1. ~excused'[home[t]] => Fits(tab[t].loc, jar[home[t]])
    BY <1>1, <1>4 DEF CauseInv, Stage, Going, After, Apart, FlowType
  <2> QED BY <1>1, <1>2, <2>1 DEF Fits
<1> QED BY <1>1, <1>3, <1>4, <1>5, <1>6, AskStage, CauseAssembles

LEMMA RevisitCause == ASSUME FlowInv, CauseInv, NEW t \in Tabs, Revisit(t) PROVE CauseInv'
<1>1. FlowType /\ UNCHANGED <<home, jar, request, codes>> /\ Excuse(t, TRUE)
  BY DEF FlowInv, Revisit
<1>2. PICK url \in OldUrls : Ask(t, url)
  BY DEF Revisit
<1>3. url \in Locs
  BY <1>1 DEF OldUrls, FlowType, Locs, Places
<1>4. Apart(t) /\ excused'[home[t]]
  <2>1. (\A b \in Browsers : excused[b] => excused'[b]) /\ excused'[home[t]]
    BY <1>1, Excused, TRUE \in BOOLEAN
  <2> QED BY <1>1, <1>2, <1>3, <2>1, AskApart
<1> QED BY <1>4, CauseAssembles

LEMMA LoseReplyCause == ASSUME FlowInv, CauseInv, NEW t \in Tabs, LoseReply(t) PROVE CauseInv'
<1>1. FlowType /\ UNCHANGED <<home, jar, request, codes>> /\ Excuse(t, TRUE)
  BY DEF FlowInv, LoseReply
<1>2. ~Served(t)' /\ \A o \in Tabs \ {t} : tab'[o] = tab[o]
  BY <1>1 DEF LoseReply, FlowType, Served
<1>3. Apart(t) /\ excused'[home[t]]
  <2>1. (\A b \in Browsers : excused[b] => excused'[b]) /\ excused'[home[t]]
    BY <1>1, Excused, TRUE \in BOOLEAN
  <2> QED BY <1>1, <1>2, <2>1 DEF Apart, FlowType
<1> QED BY <1>3, CauseAssembles

LEMMA LapseCause == FlowInv /\ CauseInv /\ Lapse => CauseInv'
BY DEF Lapse, CauseInv, FlowInv, FlowType

\* An answer, with what the tab has when it is there.
LEMMA ReplyStage ==
  ASSUME FlowInv, NEW t \in Tabs, NEW to \in Locs, NEW set \in CookieSets, Reply(t, to, set),
         UNCHANGED <<home, jar>>, Fits(to, Over(set, jar[home[t]]))'
  PROVE  Stage(t)'
<1>1. Served(t)' /\ tab'[t].reply.to = to /\ tab'[t].reply.set = set
  BY ReplyTab, ReplyGives DEF FlowInv
<1>2. Going(t)' = to /\ After(t)' = Over(set, jar'[home'[t]])
  BY <1>1 DEF Going, After
<1> QED BY <1>2 DEF Stage

LEMMA ReplyApart ==
  ASSUME FlowInv, NEW t \in Tabs, NEW to \in Locs, NEW set \in CookieSets, Reply(t, to, set),
         UNCHANGED <<home, jar, request, codes>>, \A b \in Browsers : excused[b] => excused'[b]
  PROVE  Apart(t)
BY ReplyTab DEF Apart, FlowInv, FlowType

LEMMA LogOutCause == ASSUME FlowInv, CauseInv, NEW t \in Tabs, LogOut(t) PROVE CauseInv'
<1>1. FlowType /\ UNCHANGED <<home, jar, request, codes>> /\ Excuse(t, Overlaps(t))
  BY DEF FlowInv, LogOut
<1>2. PICK to \in Locs : to = At("login", 0) /\ to.at = "login" /\ to.id = 0
  BY PlaceTypes DEF Places
<1>3. [session |-> Nobody, login |-> NoLogin, binding |-> 0] \in CookieSets
  BY SetTypes, NoLogin \in LoginCookies, Nobody \in Users \cup {Nobody}, 0 \in Nat DEF NoLogin, LoginCookies
<1>4. PICK set \in CookieSets :
        /\ set = [session |-> Nobody, login |-> NoLogin, binding |-> 0]
        /\ DOMAIN set = {"session", "login", "binding"} /\ set["session"] = Nobody
  BY <1>3
<1>5. Reply(t, to, set)
  BY <1>2, <1>4 DEF LogOut, Reply
<1>6. Fits(to, Over(set, jar[home[t]]))'
  BY <1>2, <1>4 DEF Fits, Over
<1>7. Apart(t) /\ (~Overlaps(t) \/ excused'[home[t]])
  BY <1>1, <1>5, ReplyApart, Excused, Overlaps(t) \in BOOLEAN DEF Overlaps
<1> QED BY <1>1, <1>5, <1>6, <1>7, ReplyStage, CauseAssembles

\* The cookies of a browser under those of an answer.
LEMMA OverJar ==
  ASSUME FlowInv, NEW t \in Tabs, NEW set, DOMAIN set \subseteq CookieNames
  PROVE  \A n \in CookieNames :
           Over(set, jar[home[t]])[n] = IF n \in DOMAIN set THEN set[n] ELSE jar[home[t]][n]
BY DEF FlowInv, FlowType, Jars, CookieNames, Over

LEMMA ArriveCause == ASSUME FlowInv, CauseInv, NEW t \in Tabs, Arrive(t) PROVE CauseInv'
<1> DEFINE b == home[t]
<1>1. /\ FlowType /\ Served(t) /\ b \in Browsers /\ tab[t].reply.to \in Locs
      /\ UNCHANGED <<home, request, codes, excused>>
      /\ jar' = [jar EXCEPT ![b] = Over(tab[t].reply.set, jar[b])]
  BY DEF FlowInv, Arrive, FlowType, Served, TabStates
<1>2. Busy(t)
  BY <1>1 DEF Busy, Served
<1>3. PICK phase \in {"rest", "sent"} :
        tab' = [tab EXCEPT ![t] = [loc |-> tab[t].reply.to, reply |-> NoReply, phase |-> phase]]
  BY DEF Arrive
<1>4. ~Served(t)' /\ tab'[t].loc = tab[t].reply.to /\ \A o \in Tabs \ {t} : tab'[o] = tab[o]
  BY <1>1, <1>3 DEF FlowType, Served
<1>5. Apart(t)
  BY <1>1, <1>2, <1>4 DEF Apart, FlowType
<1>6. jar'[b] = After(t) /\ Going(t) = tab[t].reply.to
  BY <1>1 DEF FlowType, After, Going
<1>7. After(t)' = After(t) /\ Going(t)' = Going(t)
  BY <1>1, <1>4, <1>6 DEF After, Going
<1>8. ~excused'[home[t]] => Stage(t)'
  BY <1>1, <1>7 DEF CauseInv, Stage, Fits, Pending
<1> QED BY <1>2, <1>5, <1>8, CauseAssembles

LEMMA ServeAppCause == ASSUME FlowInv, CauseInv, NEW t \in Tabs, ServeApp(t) PROVE CauseInv'
<1>1. /\ FlowType /\ UNCHANGED <<home, jar, request, codes, excused>> /\ Busy(t)
  BY DEF FlowInv, ServeApp, Asks, Busy
<1>2. CASE Reply(t, At("in", 0), << >>)
  <2>1. PICK to \in Locs : to = At("in", 0) /\ to.at = "in"
    BY PlaceTypes DEF Places
  <2>2. Reply(t, to, << >>) /\ Apart(t)
    BY <1>1, <1>2, <2>1, NoCookies, ReplyApart
  <2>3. Fits(to, Over(<< >>, jar[home[t]]))'
    BY <2>1 DEF Fits
  <2> QED BY <1>1, <2>2, <2>3, NoCookies, ReplyStage, CauseAssembles
<1>3. CASE flows' = flows + 1 /\ Reply(t, At("authorize", flows'), [state |-> flows'])
  <2>1. PICK f \in Nat : f = flows'
    BY <1>1, <1>3 DEF FlowType
  <2>2. PICK to \in Locs : to = At("authorize", f) /\ to.at = "authorize" /\ to.id = f
    BY PlaceTypes DEF Places
  <2>3. [state |-> f] \in CookieSets
    BY [state |-> f] \in [{"state"} -> Values] DEF CookieSets, CookieNames, Values
  <2>4. PICK set \in CookieSets :
          set = [state |-> f] /\ DOMAIN set = {"state"} /\ set["state"] = f
    BY <2>3
  <2>5. Reply(t, to, set)
    BY <1>3, <2>1, <2>2, <2>4
  <2>6. Fits(to, Over(set, jar[home[t]]))'
    BY <2>2, <2>4 DEF Fits, Over
  <2> QED BY <1>1, <2>5, <2>6, ReplyApart, ReplyStage, CauseAssembles
<1> QED BY <1>2, <1>3 DEF ServeApp, BuildOAuthState

LEMMA LoginContentCause == ASSUME FlowInv, CauseInv, NEW t \in Tabs, LoginContent(t) PROVE CauseInv'
<1>1. /\ FlowType /\ UNCHANGED <<home, jar, request, codes, excused>> /\ Busy(t) /\ ~Served(t)
      /\ tab[t].loc.at \in {"login", "loginError"} /\ tab[t].loc \in Locs
  BY DEF FlowInv, LoginContent, Asks, Busy, Served, FlowType, TabStates
<1>2. PICK to \in Locs : Reply(t, to, << >>)
        /\ ((tab[t].loc.at = "login" /\ jar[home[t]].session = Nobody) => to.at = "form" /\ to.id = tab[t].loc.id)
  <2>1. CASE jar[home[t]].session # Nobody
    BY <1>1, <2>1, PlaceTypes DEF LoginContent, Jar, Places, Locs, Reply
  <2>2. CASE jar[home[t]].session = Nobody
    <3>1. PICK at \in Places : at = IF tab[t].loc.at = "login" THEN "form" ELSE "formError"
      BY DEF Places
    <3>2. PICK to \in Locs : to = At(at, tab[t].loc.id) /\ to.at = at /\ to.id = tab[t].loc.id
      BY <1>1, PlaceTypes DEF Locs
    <3>3. Reply(t, to, << >>)
      BY <1>1, <2>2, <3>1, <3>2 DEF LoginContent, Jar
    <3> QED BY <3>1, <3>2, <3>3
  <2> QED BY <2>1, <2>2
<1>3. Apart(t)
  BY <1>1, <1>2, NoCookies, ReplyApart
<1>4. ASSUME ~excused'[home[t]] PROVE Stage(t)'
  <2>1. Fits(tab[t].loc, jar[home[t]])
    BY <1>1, <1>4 DEF CauseInv, Stage, Going, After
  <2>2. to.at = "form" /\ to.id = tab[t].loc.id
    BY <1>1, <1>2, <2>1 DEF Fits
  <2>3. PICK j : j = jar[home[t]]
    OBVIOUS
  <2>4. Over(<< >>, j) = j
    BY <1>1, <2>3, NoCookies DEF Over, FlowType, Jars
  <2>5. Fits(to, j)'
    BY <1>1, <2>1, <2>2, <2>3 DEF Fits, Pending
  <2>6. Fits(to, Over(<< >>, jar[home[t]]))'
    BY <1>1, <2>3, <2>4, <2>5
  <2> QED BY <1>1, <1>2, <2>6, NoCookies, ReplyStage
<1> QED BY <1>1, <1>3, <1>4, CauseAssembles

\* The login is for the request the browser is bound to.
LEMMA LogInCause == ASSUME FlowInv, CauseInv, NEW t \in Tabs, LogIn(t) PROVE CauseInv'
<1> DEFINE sid == tab[t].loc.id
           bound == IF sid # 0 /\ Jar(t).binding = sid /\ request[sid].there THEN sid ELSE 0
           at == IF bound # 0 THEN "resume" ELSE "app"
<1>1. /\ FlowType /\ UNCHANGED <<home, jar, request, codes>> /\ Excuse(t, Overlaps(t)) /\ ~Served(t)
      /\ tab[t].loc.at \in {"form", "formError"} /\ sid \in Nat
  BY DEF FlowInv, LogIn, AtRest, Served, PeekStoredAuthRequest, FlowType, TabStates, Locs
<1>2. PICK user \in Users : Reply(t, At(at, bound), [login |-> [user |-> user, sid |-> bound]])
  BY DEF LogIn
<1>3. PICK n \in Nat : n = bound
  BY <1>1
<1>4. PICK to \in Locs : to = At(at, n) /\ to.at = (IF n # 0 THEN "resume" ELSE "app") /\ to.id = n
  BY <1>3, PlaceTypes DEF Places
<1>5. [user |-> user, sid |-> n] \in LoginCookies
  BY DEF LoginCookies
<1>6. PICK login \in LoginCookies :
        login = [user |-> user, sid |-> n] /\ login.user = user /\ login.sid = n /\ login # NoLogin
  <2>1. user # Nobody
    BY FlowAssumption
  <2> QED BY <1>5, <2>1 DEF NoLogin
<1>7. [login |-> login] \in CookieSets
  BY [login |-> login] \in [{"login"} -> Values] DEF CookieSets, CookieNames, Values
<1>8. PICK set \in CookieSets : set = [login |-> login] /\ DOMAIN set = {"login"} /\ set["login"] = login
  BY <1>7
<1>9. Reply(t, to, set)
  BY <1>2, <1>3, <1>4, <1>6, <1>8
<1>10. Apart(t) /\ (~Overlaps(t) \/ excused'[home[t]])
  BY <1>1, <1>9, ReplyApart, Excused, Overlaps(t) \in BOOLEAN DEF Overlaps
<1>11. ASSUME ~excused'[home[t]] PROVE Stage(t)'
  <2>1. tab[t].loc.at = "form" /\ Fits(tab[t].loc, jar[home[t]])
    BY <1>1, <1>10, <1>11 DEF CauseInv, Stage, Fine, Going, After, Apart, FlowType
  <2>2. n # 0 => n = sid /\ Pending(n, jar[home[t]])
    BY <1>3, <2>1 DEF Fits
  <2>3. PICK j : j = Over(set, jar[home[t]])
    OBVIOUS
  <2>4. j.state = jar[home[t]].state /\ j.binding = jar[home[t]].binding /\ j.login = login
    BY <1>8, <2>3, OverJar DEF CookieNames
  <2>5. n # 0 => Pending(n, j)'
    BY <1>1, <2>2, <2>4 DEF Pending
  <2>6. Fits(to, j)'
    BY <1>4, <1>6, <2>4, <2>5 DEF Fits
  <2>7. Fits(to, Over(set, jar[home[t]]))'
    BY <1>1, <2>3, <2>6
  <2> QED BY <1>1, <1>9, <2>7, ReplyStage
<1> QED BY <1>10, <1>11, CauseAssembles

\* A code is for the browser the flow is in, or none is issued and that is why.
LEMMA IssueCodeCause ==
  ASSUME FlowInv, CauseInv, NEW t \in Tabs, NEW f \in Nat, NEW user \in Users,
         IssueCodeAndRedirect(t, f, user), Busy(t), UNCHANGED <<home, jar>>,
         ~excused[home[t]] => jar[home[t]].state = f,
         request' \in Seq(StoredRequests), Len(request') = Len(request),
         \A s \in 1..Len(request) :
           request'[s] = request[s] \/ (request'[s].flow = request[s].flow /\ Bound(home[t], s))
  PROVE  CauseInv'
<1>1. FlowType /\ home[t] \in Browsers /\ Len(request) \in Nat /\ Len(codes) \in Nat
  BY DEF FlowInv, FlowType
<1>2. CASE user \in Refused
  <2>1. PICK to \in Locs : to = At("callbackError", 0)
    BY PlaceTypes DEF Places
  <2>2. Reply(t, to, << >>) /\ codes' = codes /\ Excuse(t, TRUE)
    BY <1>2, <2>1 DEF IssueCodeAndRedirect
  <2>3. (\A b \in Browsers : excused[b] => excused'[b]) /\ excused'[home[t]]
    BY <1>1, <2>2, Excused, TRUE \in BOOLEAN
  <2>4. Apart(t)
    BY <1>1, <2>2, <2>3, NoCookies, ReplyTab DEF Apart
  <2> QED BY <2>3, <2>4, CauseAssembles
<1>3. CASE user \notin Refused
  <2>1. PICK n \in Nat : n = Len(codes) + 1
    BY <1>1
  <2>2. [flow |-> f, user |-> user, used |-> FALSE] \in IssuedCodes
    BY DEF IssuedCodes
  <2>3. PICK issued \in IssuedCodes :
          issued = [flow |-> f, user |-> user, used |-> FALSE] /\ issued.flow = f /\ issued.used = FALSE
    BY <2>2
  <2>4. /\ codes' = Append(codes, issued) /\ excused' = excused
        /\ Reply(t, At("callback", n), [login |-> NoLogin, binding |-> 0])
    BY <1>3, <2>1, <2>3 DEF IssueCodeAndRedirect
  <2>5. /\ Len(codes') = n /\ codes'[n] = issued /\ \A c \in 1..Len(codes) : codes'[c] = codes[c]
    BY <1>1, <2>1, <2>4 DEF FlowType
  <2>6. PICK to \in Locs : to = At("callback", n) /\ to.at = "callback" /\ to.id = n
    BY PlaceTypes DEF Places
  <2>7. [login |-> NoLogin, binding |-> 0] \in CookieSets
    BY NoLogin \in LoginCookies, [login |-> NoLogin, binding |-> 0] \in [{"login", "binding"} -> Values]
    DEF CookieSets, CookieNames, Values, NoLogin, LoginCookies
  <2>8. PICK set \in CookieSets :
          set = [login |-> NoLogin, binding |-> 0] /\ DOMAIN set = {"login", "binding"}
    BY <2>7
  <2>9. Reply(t, to, set)
    BY <2>4, <2>6, <2>8
  <2>10. Apart(t)
    BY <1>1, <2>1, <2>4, <2>5, <2>9, ReplyTab DEF Apart
  <2>11. ASSUME ~excused'[home[t]] PROVE Stage(t)'
    <3>4. jar[home[t]].state = f
      BY <2>4, <2>11
    <3>5. "state" \notin DOMAIN set /\ DOMAIN set \subseteq CookieNames /\ "state" \in CookieNames
      BY <2>8 DEF CookieNames
    <3>1. PICK j : j = Over(set, jar[home[t]]) /\ j.state = f
      BY <3>4, <3>5, OverJar
    <3>2. Fits(to, j)'
      BY <2>3, <2>5, <2>6, <3>1 DEF Fits
    <3>3. Fits(to, Over(set, jar[home[t]]))'
      BY <3>1, <3>2
    <3> QED BY <2>9, <3>3, ReplyStage
  <2> QED BY <2>10, <2>11, CauseAssembles
<1> QED BY <1>2, <1>3

LEMMA FullParamsCause == ASSUME FlowInv, CauseInv, NEW t \in Tabs, HandleFullParams(t) PROVE CauseInv'
<1> DEFINE b == home[t]
           user == IF Jar(t).login # NoLogin THEN Jar(t).login.user ELSE Jar(t).session
<1>1. /\ FlowType /\ tab[t].loc.at = "authorize" /\ b \in Browsers /\ Busy(t) /\ ~Served(t)
      /\ UNCHANGED <<home, jar>>
  BY DEF FlowInv, HandleFullParams, Asks, FlowType, Busy, Served
<1>2. PICK f \in 1..flows : f = tab[t].loc.id /\ f \in Nat
  BY <1>1 DEF FlowInv, TabOk, Place, InRange, FlowType
<1>3. ~excused[b] => jar[b].state = f
  BY <1>1, <1>2 DEF CauseInv, Stage, Fits, Going, After
<1>4. CASE user # Nobody
  <2>1. PICK u \in Users : u = user
    BY <1>1, <1>4, KnownUser DEF Jar
  <2>2. IssueCodeAndRedirect(t, f, u) /\ UNCHANGED request
    BY <1>2, <1>4, <2>1 DEF HandleFullParams
  <2> QED BY <1>1, <1>2, <1>3, <2>2, IssueCodeCause DEF FlowType
<1>5. CASE user = Nobody
  <2>1. PICK n \in Nat : n = Len(request) + 1 /\ Len(request) \in Nat
    BY <1>1 DEF FlowType
  <2>2. [flow |-> f, there |-> TRUE] \in StoredRequests
    BY <1>2 DEF StoredRequests
  <2>3. PICK r \in StoredRequests : r = [flow |-> f, there |-> TRUE] /\ r.flow = f /\ r.there
    BY <2>2
  <2>4. /\ request' = Append(request, r)
        /\ Reply(t, At("login", Len(request')), [binding |-> Len(request')])
        /\ UNCHANGED <<codes, excused>>
    BY <1>2, <1>5, <2>3 DEF HandleFullParams
  <2>5. /\ Len(request') = n /\ request'[n] = r
        /\ \A s \in 1..Len(request) : request'[s] = request[s]
    BY <1>1, <2>1, <2>4 DEF FlowType
  <2>6. PICK to \in Locs : to = At("login", n) /\ to.at = "login" /\ to.id = n
    BY PlaceTypes DEF Places
  <2>7. [binding |-> n] \in CookieSets
    BY [binding |-> n] \in [{"binding"} -> Values] DEF CookieSets, CookieNames, Values
  <2>8. PICK set \in CookieSets : set = [binding |-> n] /\ DOMAIN set = {"binding"} /\ set["binding"] = n
    BY <2>7
  <2>9. Reply(t, to, set)
    BY <2>4, <2>5, <2>6, <2>8
  <2>10. Apart(t)
    BY <1>1, <2>1, <2>4, <2>5, <2>9, ReplyTab DEF Apart, FlowType
  <2>11. ASSUME ~excused'[home[t]] PROVE Stage(t)'
    <3>1. jar[b].session = Nobody
      BY <1>1, <1>5, KnownUser, FlowAssumption DEF Jar
    <3>2. PICK j : j = Over(set, jar[b]) /\ j.state = f /\ j.session = Nobody /\ j.binding = n
      BY <1>1, <1>3, <2>4, <2>8, <2>11, <3>1, OverJar DEF CookieNames
    <3>3. Fits(to, j)'
      BY <2>1, <2>3, <2>5, <2>6, <3>2 DEF Fits, Pending
    <3>4. Fits(to, Over(set, jar[home[t]]))'
      BY <1>1, <3>2, <3>3
    <3> QED BY <1>1, <2>9, <3>4, ReplyStage
  <2> QED BY <1>1, <2>10, <2>11, CauseAssembles
<1> QED BY <1>4, <1>5

LEMMA SessionIdCause == ASSUME FlowInv, CauseInv, NEW t \in Tabs, HandleSessionId(t) PROVE CauseInv'
<1> DEFINE b == home[t]
<1>1. /\ FlowType /\ tab[t].loc.at = "resume" /\ b \in Browsers /\ Busy(t) /\ ~Served(t)
      /\ UNCHANGED <<home, jar>>
  BY DEF FlowInv, HandleSessionId, Asks, FlowType, Busy, Served
<1>2. PICK s \in 1..Len(request) : s = tab[t].loc.id /\ s \in Nat
  BY <1>1 DEF FlowInv, TabOk, Place, InRange, FlowType
<1>3. ~excused[b] => Pending(s, jar[b]) /\ jar[b].login # NoLogin /\ jar[b].login.sid = s
  BY <1>1, <1>2 DEF CauseInv, Stage, Fits, Going, After
<1>4. /\ request' \in Seq(StoredRequests) /\ Len(request') = Len(request)
      /\ \A r \in 1..Len(request) :
           request'[r] = request[r] \/ (request'[r].flow = request[r].flow /\ Bound(b, r))
  <2>1. CASE request' = request
    BY <1>1, <2>1 DEF FlowType
  <2>2. CASE request' # request
    <3>1. request' = [request EXCEPT ![s].there = FALSE] /\ jar[b].login # NoLogin /\ jar[b].login.sid = s
      BY <1>2, <2>2 DEF HandleSessionId, Jar
    <3>2. PICK u \in Users : jar[b].login = [user |-> u, sid |-> s]
      <4>1. jar[b].login \in LoginCookies /\ jar[b].login.user \in Users
        BY <1>1, <3>1, KnownUser DEF FlowType, Jars
      <4> QED BY <3>1, <4>1 DEF LoginCookies
    <3>3. Bound(b, s)
      BY <3>2 DEF Bound, Has
    <3> QED BY <1>1, <3>1, <3>3, TakenAway DEF FlowType
  <2> QED BY <2>1, <2>2
<1>5. CASE ~excused[b]
  <2>1. PICK u \in Users : u = jar[b].login.user
    BY <1>1, <1>3, <1>5, KnownUser
  <2>2. PICK f \in Nat : f = request[s].flow /\ jar[b].state = f
    BY <1>1, <1>3, <1>5 DEF Pending, FlowType, Jars
  <2>3. IssueCodeAndRedirect(t, f, u)
    BY <1>1, <1>2, <1>3, <1>5, <2>1, <2>2 DEF HandleSessionId, Pending, Jar
  <2> QED BY <1>1, <1>4, <2>2, <2>3, IssueCodeCause
<1>6. CASE excused[b]
  <2>1. (\A a \in Browsers : excused[a] => excused'[a]) /\ codes' \in Seq(IssuedCodes)
        /\ Len(codes') >= Len(codes) /\ \A c \in 1..Len(codes) : codes'[c] = codes[c]
    <3>1. CASE UNCHANGED <<codes, excused>>
      BY <1>1, <3>1 DEF FlowType
    <3>2. CASE jar[b].login # NoLogin /\ IssueCodeAndRedirect(t, request[s].flow, jar[b].login.user)
      <4>1. PICK u \in Users : u = jar[b].login.user
        BY <1>1, <3>2, KnownUser
      <4>2. PICK f \in 1..flows : f = request[s].flow /\ f \in Nat
        BY <1>1 DEF FlowInv, RequestOk, FlowType
      <4>3. CASE u \in Refused
        <5>1. codes' = codes /\ Excuse(t, TRUE)
          BY <3>2, <4>1, <4>3 DEF IssueCodeAndRedirect
        <5>2. \A a \in Browsers : excused[a] => excused'[a]
          BY <1>1, <5>1, Excused, TRUE \in BOOLEAN
        <5> QED BY <1>1, <5>1, <5>2 DEF FlowType
      <4>4. CASE u \notin Refused
        <5>1. [flow |-> f, user |-> u, used |-> FALSE] \in IssuedCodes
          BY DEF IssuedCodes
        <5>2. PICK issued \in IssuedCodes : issued = [flow |-> f, user |-> u, used |-> FALSE]
          BY <5>1
        <5>3. codes' = Append(codes, issued) /\ excused' = excused
          BY <3>2, <4>1, <4>2, <4>4, <5>2 DEF IssueCodeAndRedirect
        <5> QED BY <1>1, <5>3 DEF FlowType
      <4> QED BY <4>3, <4>4
    <3> QED BY <1>2, <3>1, <3>2 DEF HandleSessionId, Jar
  <2>2. \A o \in Tabs \ {t} : tab'[o] = tab[o]
    <3>1. PICK loc, set : Reply(t, loc, set)
      BY DEF HandleSessionId, IssueCodeAndRedirect
    <3> QED BY <1>1, <3>1 DEF Reply, FlowType
  <2>3. tab'[t].loc = tab[t].loc
    <3>1. PICK loc, set : Reply(t, loc, set)
      BY DEF HandleSessionId, IssueCodeAndRedirect
    <3>2. \A q \in TabStates : [q EXCEPT !.phase = "served", !.reply = [to |-> loc, set |-> set]].loc = q.loc
      BY DEF TabStates
    <3> QED BY <1>1, <3>1, <3>2 DEF Reply, FlowType
  <2>4. Apart(t)
    BY <1>1, <1>4, <2>1, <2>2, <2>3 DEF Apart, FlowType
  <2> QED BY <1>1, <1>6, <2>1, <2>4, CauseAssembles
<1> QED BY <1>5, <1>6

\* An error at the callback is of a tab that had not its cookies, or of a fault.
LEMMA ErrorRedirectApart ==
  ASSUME FlowInv, NEW t \in Tabs, OAuthErrorRedirect(t), home' = home, jar' = jar,
         Len(request') >= Len(request), \A s \in 1..Len(request) : request'[s] = request[s],
         Len(codes') >= Len(codes), Busy(t), \A b \in Browsers : excused[b] => excused'[b],
         \A c \in 1..Len(codes) :
           codes'[c] = codes[c]
             \/ (codes'[c].flow = codes[c].flow /\ jar[home[t]].state = codes[c].flow)
  PROVE  Apart(t)
<1>1. PICK to \in Locs : to = At("loginError", 0)
  BY PlaceTypes DEF Places
<1>2. [state |-> 0] \in CookieSets
  BY [state |-> 0] \in [{"state"} -> Values] DEF CookieSets, CookieNames, Values
<1>3. Reply(t, to, [state |-> 0])
  BY <1>1 DEF OAuthErrorRedirect, ClearOAuthCookies
<1> QED BY <1>2, <1>3, ReplyTab DEF Apart, FlowInv

LEMMA DeniedCause == ASSUME FlowInv, CauseInv, NEW t \in Tabs, Denied(t) PROVE CauseInv'
<1>1. /\ FlowType /\ tab[t].loc.at = "callbackError" /\ Busy(t) /\ ~Served(t) /\ OAuthErrorRedirect(t)
      /\ UNCHANGED <<home, jar, request, codes, excused>>
  BY DEF FlowInv, Denied, Asks, Busy, Served
<1>2. Apart(t)
  BY <1>1, ErrorRedirectApart DEF FlowType
<1>3. excused'[home[t]]
  BY <1>1 DEF CauseInv, Stage, Fits, Going
<1> QED BY <1>2, <1>3, CauseAssembles

LEMMA CallbackCause == ASSUME FlowInv, CauseInv, NEW t \in Tabs, HandleOAuthCallback(t) PROVE CauseInv'
<1> DEFINE b == home[t]
<1>1. /\ FlowType /\ tab[t].loc.at = "callback" /\ b \in Browsers /\ Busy(t) /\ ~Served(t)
      /\ UNCHANGED <<home, jar, request>>
  BY DEF FlowInv, HandleOAuthCallback, Asks, FlowType, Busy, Served
<1>2. PICK c \in 1..Len(codes) : c = tab[t].loc.id
  BY <1>1 DEF FlowInv, TabOk, Place, InRange
<1>3. PICK f \in 1..flows, u \in Users : f = codes[c].flow /\ u = codes[c].user /\ f # 0
  <2>1. codes[c] \in IssuedCodes /\ CodeOk(c)
    BY <1>1 DEF FlowInv, FlowType
  <2>2. \A f \in 1..flows : f # 0
    BY <1>1 DEF FlowType
  <2> QED BY <2>1, <2>2 DEF CodeOk, IssuedCodes
<1>4. ~excused[b] => jar[b].state = f /\ ~codes[c].used
  BY <1>1, <1>2, <1>3 DEF CauseInv, Stage, Fits, Going, After
<1>5. CASE jar[b].state # f
  <2>1. OAuthErrorRedirect(t) /\ UNCHANGED <<codes, excused>>
    BY <1>2, <1>3, <1>5 DEF HandleOAuthCallback, CheckCallback, StateMatches, Jar
  <2> QED BY <1>1, <1>4, <1>5, <2>1, ErrorRedirectApart, CauseAssembles DEF FlowType
<1>6. CASE jar[b].state = f
  <2>1. PICK claimed, answered \in BOOLEAN : Exchange(t, c, claimed, answered)
    BY <1>2, <1>3, <1>6 DEF HandleOAuthCallback, CheckCallback, StateMatches, Jar
  <2>2. /\ \A a \in Browsers : excused[a] => excused'[a]
        /\ excused'[b] <=> excused[b] \/ claimed \/ ~answered
    <3>1. PICK fault \in BOOLEAN : fault <=> claimed \/ ~answered
      OBVIOUS
    <3>2. Excuse(t, fault)
      <4>1. fault = (claimed \/ ~answered)
        BY <3>1
      <4> QED BY <2>1, <4>1 DEF Exchange
    <3> QED BY <1>1, <3>1, <3>2, Excused
  <2>3. /\ Len(codes') = Len(codes)
        /\ \A d \in 1..Len(codes) :
             codes'[d] = codes[d] \/ (codes'[d].flow = codes[d].flow /\ jar[b].state = codes[d].flow)
    <3>1. CASE codes' = codes
      BY <3>1
    <3>2. CASE codes' = [codes EXCEPT ![c].used = TRUE]
      BY <1>1, <1>3, <1>6, <3>2, UsedUp
    <3> QED BY <2>1, <3>1, <3>2 DEF Exchange
  <2>4. CASE OAuthErrorRedirect(t) /\ excused'[b]
    <3>1. Apart(t)
      BY <1>1, <2>2, <2>3, <2>4, ErrorRedirectApart DEF FlowType
    <3> QED BY <2>4, <3>1, CauseAssembles
  <2>5. CASE Reply(t, At("app", 0), Over(ClearOAuthCookies, [session |-> u]))
    <3>1. PICK to \in Locs : to = At("app", 0) /\ to.at = "app"
      BY PlaceTypes DEF Places
    <3>2. PICK set \in CookieSets : set = Over([state |-> 0], [session |-> u])
      <4>1. \A x \in Nat, y \in Users \cup {Nobody} : Over([state |-> x], [session |-> y]) \in CookieSets
        BY SetTypes, NoLogin \in LoginCookies DEF NoLogin, LoginCookies
      <4> QED BY <4>1
    <3>3. Reply(t, to, set)
      BY <2>5, <3>1, <3>2 DEF ClearOAuthCookies
    <3>4. Apart(t)
      BY <1>1, <2>2, <2>3, <3>3, ReplyTab DEF Apart, FlowType
    <3>5. Fits(to, Over(set, jar[home[t]]))'
      BY <3>1 DEF Fits
    <3> QED BY <1>1, <3>3, <3>4, <3>5, ReplyStage, CauseAssembles
  <2>6. CASE ~(OAuthErrorRedirect(t) /\ excused'[b])
    <3>1. CASE answered /\ ~(codes[c].used /\ (claimed \/ answered)) /\ ~(claimed /\ answered)
      BY <1>3, <2>1, <2>5, <3>1 DEF Exchange
    <3>2. CASE ~answered \/ claimed
      BY <2>1, <2>2, <2>4, <3>2 DEF Exchange
    <3>3. CASE answered /\ ~claimed /\ codes[c].used
      BY <1>4, <2>1, <2>2, <2>4, <3>3 DEF Exchange
    <3> QED BY <3>1, <3>2, <3>3
  <2> QED BY <2>4, <2>6
<1> QED BY <1>5, <1>6

LEMMA CauseInitially == FlowInit => CauseInv
<1> SUFFICES ASSUME FlowInit PROVE CauseInv
  OBVIOUS
<1>1. \A t \in Tabs : tab[t].phase = "rest" /\ tab[t].loc.at = "start"
  BY DEF FlowInit, At
<1> QED BY <1>1 DEF CauseInv, Alone, Busy, Stage, Fits, Fine, Going, Served

LEMMA CauseKeeps == FlowInv /\ CauseInv /\ [FlowNext]_flowVars => CauseInv'
<1> SUFFICES ASSUME FlowInv, CauseInv, [FlowNext]_flowVars PROVE CauseInv'
  OBVIOUS
<1>1. CASE UNCHANGED flowVars
  <2>1. ASSUME NEW t \in Tabs PROVE (Alone(t)' <=> Alone(t)) /\ (Fine(t)' <=> Fine(t)) /\ (Stage(t)' <=> Stage(t))
    BY <1>1 DEF flowVars, Alone, Busy, Fine, Stage, Fits, Pending, Going, After, Served
  <2> QED BY <1>1, <2>1 DEF flowVars, CauseInv
<1>2. CASE FlowNext
  BY <1>2, VisitCause, ReloadCause, RevisitCause, LogInCause, LogOutCause, ArriveCause, LoseReplyCause,
     ServeAppCause, FullParamsCause, LoginContentCause, SessionIdCause, CallbackCause, DeniedCause,
     LapseCause
  DEF FlowNext, Serve
<1> QED BY <1>1, <1>2

\* ErrorsHaveCause (gateway.rs, authorize/route.ts, login/page.tsx): a tab that
\* works alone in its browser, with nothing lost and no old URL opened, has at
\* every redirect the cookies the next end point asks for.
THEOREM ErrorsAreExcused == Spec => []ErrorsHaveCause
<1>1. Init => FlowInv /\ CauseInv
  BY FlowInitially, CauseInitially DEF Init
<1>2. FlowInv /\ CauseInv /\ [Next]_vars => (FlowInv /\ CauseInv)'
  BY OnlyFlowSteps, FlowKeeps, CauseKeeps
<1>3. CauseInv => ErrorsHaveCause
  BY DEF CauseInv, Fine, ErrorsHaveCause
<1> QED BY <1>1, <1>2, <1>3, PTL DEF Spec
=============================================================================

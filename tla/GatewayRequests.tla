--------------------------- MODULE GatewayRequests ---------------------------
(***************************************************************************)
(* A request through the Gateway (gateway.rs): the checks before anything  *)
(* else, the class of its path (path_matcher.rs), the rate limit, who it   *)
(* is from and the refresh of the access token (authenticate.rs), and what *)
(* the upstream and the browser get to see.  The callback is followed in   *)
(* AuthorizeFlow, the steps of a refresh in GatewayRefresh.                *)
(***************************************************************************)
EXTENDS Naturals

CONSTANTS
  AuthMax, TokenMax,      \* requests of an address in a window
  MaxRefused              \* bound: refused in a window

ASSUME MaximaAssumption == AuthMax \in Nat \ {0} /\ TokenMax \in Nat \ {0}

VARIABLES
  stage,       \* where the request is
  ask,         \* the request
  class,       \* the class of its path
  identity,    \* ctx.identity: the token it was taken from
  refreshed,   \* ctx.refreshed_tokens: a new pair, and if its payload can be read
  upstream,    \* what the upstream is sent
  answer,      \* what the browser gets, and if it brings the new pair
  counts       \* requests of the address in this window

requestVars == <<stage, ask, class, identity, refreshed, upstream, answer, counts>>

-----------------------------------------------------------------------------
\* The paths that are told apart: where they begin, whether a prefix of the
\* configuration makes them public, and whether they end like a file.
Starts == {"static", "health", "metrics", "callback", "token", "auth", "api", "v1", "v1auth", "page"}
Paths == [start : Starts, listed : BOOLEAN, file : BOOLEAN]
Tokens == {"none", "unreadable", "unknownKey", "revoked", "valid", "near", "expired"}

\* A request: its path, if it has a host and no dot segments, is a page
\* navigation, its cookies, and if it brings headers of identity, or an
\* Authorization, of its own.
Inbound ==
  [path : Paths, sound : BOOLEAN, page : BOOLEAN, at : Tokens, rt : BOOLEAN, claims : BOOLEAN]

Nothing == "nothing"

RequestInit ==
  /\ stage = "idle" /\ ask = Nothing /\ class = "Protected"
  /\ identity = Nothing /\ refreshed = Nothing /\ upstream = Nothing /\ answer = Nothing
  /\ counts = [k \in {"auth", "token"} |-> 0]

-----------------------------------------------------------------------------
IsMicroservice(p) == p.start = "v1"
IsAsset(p) == p.file /\ p.start = "page"

Classify(p) ==
  CASE p.start = "static" -> "Static"
    [] p.start # "static" /\ p.listed -> "Public"
    [] p.start # "static" /\ ~p.listed /\ IsMicroservice(p) -> "Microservice"
    [] OTHER -> IF IsAsset(p) THEN "Public" ELSE "Protected"

Answer(what, pair) ==
  answer' = [status |-> what, pair |-> pair] /\ stage' = "answered"

\* A request arrives: one without a host or with dot segments, the health and
\* the metrics page are answered; others are classified.
Receive ==
  /\ stage = "idle"
  /\ ask' \in Inbound
  /\ class' = Classify(ask'.path)
  /\ IF ~ask'.sound
       THEN Answer("400", FALSE)
       ELSE IF ask'.path.start = "health"
       THEN Answer("health", FALSE)
       ELSE IF ask'.path.start = "metrics"
       THEN \E secret \in BOOLEAN : Answer(IF secret THEN "metrics" ELSE "401", FALSE)
       ELSE /\ stage' = IF class' = "Static" THEN "forward" ELSE "limit"
            /\ UNCHANGED answer
  /\ UNCHANGED <<identity, refreshed, upstream, counts>>

\* What the path counts for, if anything.
Counter(p) == IF p.start = "token" THEN "token" ELSE IF p.start \in {"auth", "callback"} THEN "auth" ELSE "none"
Limit(k) == IF k = "token" THEN TokenMax ELSE AuthMax

\* Refused requests count as well.
Observe ==
  /\ stage = "limit"
  /\ LET k == Counter(ask.path) IN
     IF k = "none"
       THEN stage' = "route" /\ UNCHANGED <<counts, answer>>
       ELSE /\ counts[k] < Limit(k) + MaxRefused
            /\ counts' = [counts EXCEPT ![k] = @ + 1]
            /\ IF counts'[k] <= Limit(k)
                 THEN stage' = "route" /\ UNCHANGED answer
                 ELSE Answer("429", FALSE)
  /\ UNCHANGED <<ask, class, identity, refreshed, upstream>>

LimitWindowOver ==
  /\ stage = "idle" /\ counts # [k \in {"auth", "token"} |-> 0]
  /\ counts' = [k \in {"auth", "token"} |-> 0]
  /\ UNCHANGED <<stage, ask, class, identity, refreshed, upstream, answer>>

\* The callback with a code or an error.
Intercepts(outcome) == outcome # "NotIntercepted" => ask.path.start = "callback"

\* It is answered here, whatever its class.
Intercept ==
  /\ stage = "route"
  /\ \E outcome \in {"NotIntercepted", "Denied", "Handle"} :
       /\ Intercepts(outcome)
       /\ IF outcome # "NotIntercepted"
            THEN Answer(outcome, FALSE)
            ELSE /\ stage' = IF class = "Public" THEN "forward" ELSE "authenticate"
                 /\ UNCHANGED answer
  /\ UNCHANGED <<ask, class, identity, refreshed, upstream, counts>>

\* To /authorize, and back to the page after the login.
PkceRequired(pair) == Answer("authorize", pair)

\* A page is sent to /authorize, anything else gets a 401.
AuthFailureDecision(pair) == IF ask.page THEN PkceRequired(pair) ELSE Answer("401", pair)

\* Mutant: a refresh that succeeded lets the request through.
BlocksUnrefreshed(at, pair) == at = "expired" /\ pair = Nothing

\* What of a refresh stops the request: an expired token without a new
\* identity, be it that there is no new pair or that it cannot be read.
Blocks(at, pair) == at = "expired" /\ pair # "readable"

\* The token is verified; the refresh of one that is about to end, or has
\* ended, may fail or be skipped.
Authenticate ==
  /\ stage = "authenticate"
  /\ IF ask.at \in {"none", "unreadable", "unknownKey", "revoked"}
       THEN AuthFailureDecision(FALSE) /\ UNCHANGED <<identity, refreshed>>
       ELSE \E pair \in {Nothing, "readable", "unreadable"} :
            /\ pair # Nothing => ask.at # "valid" /\ ask.rt
            /\ refreshed' = pair
            /\ identity' = IF pair = "readable" THEN "new" ELSE ask.at
            /\ IF Blocks(ask.at, pair)
                 THEN AuthFailureDecision(pair # Nothing)
                 ELSE stage' = "forward" /\ UNCHANGED answer
  /\ UNCHANGED <<ask, class, upstream, counts>>

\* Headers of identity that the request brought are dropped, but for the
\* Authorization of a public path.
StripIdentityHeaders == IF ask.claims /\ class = "Public" THEN "own" ELSE Nothing

\* The refresh token is taken out, the new access token put in.
RewriteProtectedCookies(old) ==
  [at |-> IF refreshed # Nothing THEN "new" ELSE old.at, rt |-> FALSE]

RewriteUpstreamCookies ==
  LET old == [at |-> IF ask.at = "none" THEN Nothing ELSE ask.at, rt |-> ask.rt]
  IN CASE class = "Microservice" -> [at |-> Nothing, rt |-> FALSE]
       [] class = "Protected" -> RewriteProtectedCookies(old)
       [] OTHER -> old

\* A node of the route is chosen, if there is one.
UpstreamPeer ==
  /\ stage = "forward"
  /\ (stage' = "connect" /\ UNCHANGED answer) \/ Answer("502", FALSE)
  /\ UNCHANGED <<ask, class, identity, refreshed, upstream, counts>>

UpstreamRequestFilter ==
  /\ stage = "connect"
  /\ upstream' = [user |-> identity,
                  authorization |-> IF identity # Nothing THEN identity ELSE StripIdentityHeaders,
                  cookies |-> RewriteUpstreamCookies]
  /\ stage' = "upstream"
  /\ UNCHANGED <<ask, class, identity, refreshed, answer, counts>>

\* The upstream answers, or none of its nodes does.
ResponseFilter ==
  /\ stage = "upstream"
  /\ \/ Answer("upstream", refreshed # Nothing)
     \/ Answer("502", FALSE)
  /\ UNCHANGED <<ask, class, identity, refreshed, upstream, counts>>

\* The request is over, the next begins with a context of its own.
NewCtx ==
  /\ stage = "answered"
  /\ stage' = "idle" /\ ask' = Nothing /\ class' = "Protected"
  /\ identity' = Nothing /\ refreshed' = Nothing /\ upstream' = Nothing /\ answer' = Nothing
  /\ UNCHANGED counts

RequestNext ==
  \/ Receive \/ Observe \/ LimitWindowOver \/ Intercept \/ Authenticate \/ UpstreamPeer
  \/ UpstreamRequestFilter \/ ResponseFilter \/ NewCtx

RequestSpec == RequestInit /\ [][RequestNext]_requestVars

-----------------------------------------------------------------------------
\* What an upstream takes for the user is a token that was verified and has
\* not ended, or the one it was refreshed to, in every path of the check; no
\* request without one reaches a protected path, and its refresh token stays
\* at the Gateway (gateway.rs strip_identity_headers, authenticate.rs
\* refresh_effect).
UpstreamSeesVerified ==
  stage = "upstream" =>
    /\ upstream.user \in {Nothing, "valid", "near", "new"}
    /\ upstream.authorization = "own" => class = "Public"
    /\ class \in {"Protected", "Microservice"} =>
         upstream.user # Nothing /\ upstream.authorization = upstream.user /\ ~upstream.cookies.rt
=============================================================================

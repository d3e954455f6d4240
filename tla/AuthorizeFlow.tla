---------------------------- MODULE AuthorizeFlow ----------------------------
(***************************************************************************)
(* The sign-in of a browser, from the page asked of the Gateway to the     *)
(* session cookies: Gateway (gateway.rs, oauth_flow.rs), /authorize, the   *)
(* login page and POST /api/auth/login, the callback and the exchange.     *)
(*                                                                         *)
(* A tab follows redirects; a request is served with the cookies its       *)
(* browser holds, and the reply sets cookies when it arrives, so that the  *)
(* tabs of one browser overwrite each other's.  A location is the name of  *)
(* an end point and the id its query carries: the flow (state, PKCE pair   *)
(* and nonce of one redirect of the Gateway), the stored request, or the   *)
(* code.  The binding of a stored request is its session_id here.          *)
(***************************************************************************)
EXTENDS Naturals, Sequences

CONSTANTS
  Tabs, FirstTab,     \* FirstTab is one of the browser "one", the others of either
  Users, Nobody,
  Refused,            \* users without a role that may use the application
  MaxFlows, MaxRequests, MaxCodes,     \* bounds: redirects, stored requests, codes
  MaxMishaps          \* bound (less one in one browser): reloads and old URLs opened, expiries, lost replies

ASSUME FlowAssumption == FirstTab \in Tabs /\ Nobody \notin Users /\ Refused \subseteq Users

VARIABLES
  home,         \* the browser of each tab
  tab,          \* location, phase and reply under way of each tab
  jar,          \* the cookies of a browser
  flows,        \* how many states the Gateway has handed out
  request,      \* auth_request:<session_id> in Redis: the flow, and if it is there
  codes,        \* authorization_codes: flow, user, used
  entered,      \* history: whose password was entered in a browser
  excused,      \* history: the browser's tabs overlapped or opened an old URL,
                \* something of it lapsed, was lost or refused
  shared,       \* history: flows whose /authorize was opened in the other browser
  settled,      \* history: codes whose session reached the browser
  replayed,     \* history: codes exchanged again, which ends the user's sessions
  mishaps       \* bound

flowVars == <<home, tab, jar, flows, request, codes, entered, excused, shared, settled, replayed,
              mishaps>>

-----------------------------------------------------------------------------
Browsers == {"one", "other"}
Jar(t) == jar[home[t]]

At(place, id) == [at |-> place, id |-> id]
NoLogin == [user |-> Nobody, sid |-> 0]
NoReply == [to |-> At("start", 0), set |-> << >>]
EmptyJar == [state |-> 0, binding |-> 0, login |-> NoLogin, session |-> Nobody]

\* Cookies that are set over those that are there.
Over(new, old) ==
  [n \in DOMAIN new \cup DOMAIN old |-> IF n \in DOMAIN new THEN new[n] ELSE old[n]]

\* What is shown; every other location is asked for at once.
Pages == {"start", "in", "form", "formError", "error"}

FlowInit ==
  /\ home \in {h \in [Tabs -> Browsers] : h[FirstTab] = "one"}
  /\ tab = [t \in Tabs |-> [loc |-> At("start", 0), phase |-> "rest", reply |-> NoReply]]
  /\ jar = [b \in Browsers |-> EmptyJar]
  /\ flows = 0 /\ request = << >> /\ codes = << >>
  /\ entered = [b \in Browsers |-> {}] /\ excused = [b \in Browsers |-> FALSE]
  /\ shared = {} /\ settled = {} /\ replayed = {}
  /\ mishaps = IF \E t \in Tabs : home[t] = "other" THEN 0 ELSE 1   \* one browser: one fewer

-----------------------------------------------------------------------------
\* The browser: what the user does with a tab at rest, and replies.

Busy(t) == tab[t].phase # "rest" \/ tab[t].loc.at \notin {"start", "in", "error"}
Overlaps(t) == \E o \in Tabs \ {t} : home[o] = home[t] /\ Busy(o)
Excuse(t, why) == excused' = [excused EXCEPT ![home[t]] = @ \/ why]

Ask(t, loc) == tab' = [tab EXCEPT ![t].loc = loc, ![t].phase = "sent"]
AtRest(t) == tab[t].phase = "rest"

\* A page of the application is opened.
Visit(t) ==
  /\ AtRest(t) /\ flows < MaxFlows
  /\ Ask(t, At("app", 0)) /\ Excuse(t, Overlaps(t))
  /\ UNCHANGED <<home, jar, flows, request, codes, entered, shared, settled, replayed, mishaps>>

\* The login page is reloaded, with the query it has.
Reload(t) ==
  /\ AtRest(t) /\ tab[t].loc.at \in {"form", "formError"}
  /\ mishaps < MaxMishaps /\ mishaps' = mishaps + 1
  /\ Ask(t, At(IF tab[t].loc.at = "form" THEN "login" ELSE "loginError", tab[t].loc.id))
  /\ Excuse(t, Overlaps(t))
  /\ UNCHANGED <<home, jar, flows, request, codes, entered, shared, settled, replayed>>

OldUrls ==
  [at : {"authorize"}, id : 1..flows] \cup [at : {"login", "resume"}, id : 1..Len(request)]
  \cup [at : {"callback"}, id : 1..Len(codes)]

\* An old URL is opened again, by Back, from the history, or copied from the
\* other browser.
Revisit(t) ==
  /\ AtRest(t) /\ mishaps < MaxMishaps /\ mishaps' = mishaps + 1
  /\ \E url \in OldUrls :
       /\ Ask(t, url)
       /\ shared' = IF url.at = "authorize" /\ Jar(t).state # url.id
                      THEN shared \cup {url.id} ELSE shared
  /\ Excuse(t, TRUE)
  /\ UNCHANGED <<home, jar, flows, request, codes, entered, settled, replayed>>

\* POST /api/auth/logout of a signed-in page.
LogOut(t) ==
  /\ AtRest(t) /\ tab[t].loc.at = "in"
  /\ tab' = [tab EXCEPT ![t].phase = "served", ![t].reply =
       [to |-> At("login", 0), set |-> [session |-> Nobody, login |-> NoLogin, binding |-> 0]]]
  /\ Excuse(t, Overlaps(t))
  /\ UNCHANGED <<home, jar, flows, request, codes, entered, shared, settled, replayed, mishaps>>

Arrive(t) ==
  /\ tab[t].phase = "served"
  /\ LET r == tab[t].reply IN
     /\ jar' = [jar EXCEPT ![home[t]] = Over(r.set, @)]
     /\ tab' = [tab EXCEPT ![t] = [loc |-> r.to, reply |-> NoReply,
                                   phase |-> IF r.to.at \in Pages THEN "rest" ELSE "sent"]]
     /\ settled' = IF tab[t].loc.at = "callback" /\ r.to.at = "app"
                     THEN settled \cup {tab[t].loc.id} ELSE settled
  /\ UNCHANGED <<home, flows, request, codes, entered, excused, shared, replayed, mishaps>>

\* The answer is lost, the tab stays where it was.
LoseReply(t) ==
  /\ tab[t].phase = "served" /\ mishaps < MaxMishaps /\ mishaps' = mishaps + 1
  /\ tab' = [tab EXCEPT ![t].phase = "rest", ![t].reply = NoReply]
  /\ Excuse(t, TRUE)
  /\ UNCHANGED <<home, jar, flows, request, codes, entered, shared, settled, replayed>>

\* A cookie or a stored request reaches the end of its time.
Lapse ==
  /\ mishaps < MaxMishaps /\ mishaps' = mishaps + 1
  /\ excused' = [b \in Browsers |-> TRUE]
  /\ \/ \E b \in Browsers, name \in DOMAIN EmptyJar :
          /\ jar[b][name] # EmptyJar[name]
          /\ jar' = [jar EXCEPT ![b][name] = EmptyJar[name]] /\ UNCHANGED request
     \/ \E s \in DOMAIN request :
          /\ request[s].there
          /\ request' = [request EXCEPT ![s].there = FALSE] /\ UNCHANGED jar
  /\ UNCHANGED <<home, tab, flows, codes, entered, shared, settled, replayed>>

-----------------------------------------------------------------------------
\* The servers.

Asks(t, place) == tab[t].phase = "sent" /\ tab[t].loc.at = place

Reply(t, loc, cookies) ==
  tab' = [tab EXCEPT ![t].phase = "served", ![t].reply = [to |-> loc, set |-> cookies]]

\* Mutant: the cookies of a finished flow stay in the browser.
KeptOAuthCookies == << >>

ClearOAuthCookies == [state |-> 0]

\* A fresh state, with a PKCE pair and a nonce of its own.
BuildOAuthState == flows + 1

\* The Gateway on a protected page: through with a session, else to
\* /authorize with a new flow.
ServeApp(t) ==
  /\ Asks(t, "app")
  /\ IF Jar(t).session # Nobody
       THEN Reply(t, At("in", 0), << >>) /\ UNCHANGED flows
       ELSE /\ flows < MaxFlows /\ flows' = BuildOAuthState
            /\ Reply(t, At("authorize", flows'), [state |-> flows'])
  /\ UNCHANGED <<home, jar, request, codes, entered, excused, shared, settled, replayed, mishaps>>

\* A code for the flow f, or the refusal, to the callback of the Gateway.
IssueCodeAndRedirect(t, f, user) ==
  IF user \in Refused
    THEN /\ Reply(t, At("callbackError", 0), << >>)
         /\ Excuse(t, TRUE) /\ UNCHANGED codes
    ELSE /\ Len(codes) < MaxCodes
         /\ codes' = Append(codes, [flow |-> f, user |-> user, used |-> FALSE])
         /\ Reply(t, At("callback", Len(codes) + 1), [login |-> NoLogin, binding |-> 0])
         /\ UNCHANGED excused

\* GET /authorize with all parameters: a user is known by the login cookie,
\* else by the session; without one the request is stored.
HandleFullParams(t) ==
  /\ Asks(t, "authorize")
  /\ LET f == tab[t].loc.id
         user == IF Jar(t).login # NoLogin THEN Jar(t).login.user ELSE Jar(t).session
     IN IF user # Nobody
          THEN IssueCodeAndRedirect(t, f, user) /\ UNCHANGED request
          ELSE /\ Len(request) < MaxRequests
               /\ request' = Append(request, [flow |-> f, there |-> TRUE])
               /\ Reply(t, At("login", Len(request')), [binding |-> Len(request')])
               /\ UNCHANGED <<codes, excused>>
  /\ UNCHANGED <<home, jar, flows, entered, shared, settled, replayed, mishaps>>

\* GET /login: the form, or on for who has a session.
LoginContent(t) ==
  /\ Asks(t, "login") \/ Asks(t, "loginError")
  /\ LET sid == tab[t].loc.id IN
     Reply(t, IF Jar(t).session # Nobody
                THEN IF sid # 0 THEN At("resume", sid) ELSE At("app", 0)
                ELSE At(IF tab[t].loc.at = "login" THEN "form" ELSE "formError", sid), << >>)
  /\ UNCHANGED <<home, jar, flows, request, codes, entered, excused, shared, settled, replayed,
                 mishaps>>

\* Mutant: the login takes the request away.
TakenRequest(sid) == [request EXCEPT ![sid].there = FALSE]

\* The login only looks at the request.
PeekStoredAuthRequest(sid) == request

\* POST /api/auth/login of the form, with the right password (see
\* LoginAttempts for the others): the login cookie, and on to /authorize if
\* the request is bound to this browser.
LogIn(t) ==
  /\ AtRest(t) /\ tab[t].loc.at \in {"form", "formError"}
  /\ \E user \in Users :
       LET sid == tab[t].loc.id
           bound == IF sid # 0 /\ Jar(t).binding = sid /\ request[sid].there THEN sid ELSE 0
       IN /\ Reply(t, IF bound # 0 THEN At("resume", bound) ELSE At("app", 0),
                   [login |-> [user |-> user, sid |-> bound]])
          /\ request' = IF sid # 0 THEN PeekStoredAuthRequest(sid) ELSE request
          /\ entered' = [entered EXCEPT ![home[t]] = @ \cup {user}]
  /\ Excuse(t, Overlaps(t))
  /\ UNCHANGED <<home, jar, flows, codes, shared, settled, replayed, mishaps>>

\* GET /authorize?session_id: only after the login that was bound to this
\* request, in the browser that has it; the request is used up before the
\* binding is compared.
HandleSessionId(t) ==
  /\ Asks(t, "resume")
  /\ LET sid == tab[t].loc.id
         cookies == Jar(t)
         fails(place) == Reply(t, At(place, IF place = "error" THEN 0 ELSE sid), << >>)
                         /\ UNCHANGED <<codes, excused>>
     IN IF cookies.login = NoLogin
          THEN fails("login") /\ UNCHANGED request
          ELSE IF cookies.login.sid # sid \/ cookies.binding = 0
          THEN fails("error") /\ UNCHANGED request
          ELSE /\ request' = [request EXCEPT ![sid].there = FALSE]
               /\ IF request[sid].there /\ cookies.binding = sid
                    THEN IssueCodeAndRedirect(t, request[sid].flow, cookies.login.user)
                    ELSE fails("error")
  /\ UNCHANGED <<home, jar, flows, entered, shared, settled, replayed, mishaps>>

\* Mutant: a callback is taken without its state.
AnyState(cookie, state) == TRUE

StateMatches(cookie, state) == cookie = state

\* State, verifier and nonce are cookies of one flow, set and cleared
\* together, so that one comparison stands for those of the three.
CheckCallback(cookies, c) == cookies.state # 0 /\ StateMatches(cookies.state, codes[c].flow)

OAuthErrorRedirect(t) == Reply(t, At("loginError", 0), ClearOAuthCookies)

\* The exchange goes to one node after another while the connection fails,
\* with the same code: a node may have claimed it before its connection
\* failed, and all may be out of reach.
Exchange(t, c, claimed, answered) ==
  LET fault == claimed \/ ~answered
      again == (codes[c].used /\ (claimed \/ answered)) \/ (claimed /\ answered)
  IN /\ fault => mishaps < MaxMishaps
     /\ mishaps' = IF fault THEN mishaps + 1 ELSE mishaps
     /\ Excuse(t, fault)
     /\ codes' = IF claimed \/ answered THEN [codes EXCEPT ![c].used = TRUE] ELSE codes
     /\ replayed' = IF again THEN replayed \cup {c} ELSE replayed
     /\ IF answered /\ ~again
          THEN Reply(t, At("app", 0), Over(ClearOAuthCookies, [session |-> codes[c].user]))
          ELSE OAuthErrorRedirect(t)

\* The callback at the Gateway.
HandleOAuthCallback(t) ==
  /\ Asks(t, "callback")
  /\ LET c == tab[t].loc.id IN
     IF CheckCallback(Jar(t), c)
       THEN \E claimed, answered \in BOOLEAN : Exchange(t, c, claimed, answered)
       ELSE OAuthErrorRedirect(t) /\ UNCHANGED <<codes, excused, replayed, mishaps>>
  /\ UNCHANGED <<home, jar, flows, request, entered, shared, settled>>

\* The callback with an error parameter.
Denied(t) ==
  /\ Asks(t, "callbackError")
  /\ OAuthErrorRedirect(t)
  /\ UNCHANGED <<home, jar, flows, request, codes, entered, excused, shared, settled, replayed,
                 mishaps>>

Serve(t) ==
  \/ ServeApp(t) \/ HandleFullParams(t) \/ LoginContent(t) \/ HandleSessionId(t)
  \/ HandleOAuthCallback(t) \/ Denied(t)

FlowNext ==
  \/ \E t \in Tabs :
       \/ Visit(t) \/ Reload(t) \/ Revisit(t) \/ LogIn(t) \/ LogOut(t)
       \/ Arrive(t) \/ LoseReply(t) \/ Serve(t)
  \/ Lapse

FlowSpec == FlowInit /\ [][FlowNext]_flowVars

\* Requests are served and answers arrive, each tab's for itself; what the
\* user does is up to the user.
FairFlowSpec == FlowSpec /\ \A t \in Tabs : WF_flowVars(Serve(t)) /\ WF_flowVars(Arrive(t))

-----------------------------------------------------------------------------
\* The session of a browser is of a user who entered the password in this
\* browser, whatever URL was carried from the other one, unless the browser
\* began the flow, had the other one sign in to it and took the code back
\* (oauth_flow.rs check_callback, authorize/route.ts H-02).
SessionIsOfTheBrowser ==
  \A b \in Browsers :
    jar[b].session = Nobody \/ jar[b].session \in entered[b]
      \/ \E c \in settled : codes[c].flow \in shared /\ codes[c].user = jar[b].session

\* A sign-in ends on an error only if tabs of the same browser overlapped, an
\* old URL was opened in it, something lapsed, was lost, or the user was
\* refused: nothing that happens in the other browser, and no reload of the
\* form, breaks it.
ErrorsHaveCause ==
  \A t \in Tabs : tab[t].loc.at \in {"error", "formError"} => excused[home[t]]

\* Step of: a code whose session has arrived is never exchanged again, so
\* that opening an old callback URL does not end the sessions of the user
\* (oauth-grant.ts revokeRefreshTokenFamily on a replay).
SettledCodesRest == \A c \in replayed' \ replayed : c \notin settled

\* A tab that resumes a stored request gets beyond /login and /authorize
\* (login/page.tsx: who is signed in resumes the request and gets a code).
ResumptionEnds ==
  \A t \in Tabs : tab[t].loc.at = "resume" ~> tab[t].loc.at \notin {"login", "resume"}
=============================================================================

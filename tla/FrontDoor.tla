------------------------------ MODULE FrontDoor ------------------------------
(***************************************************************************)
(* What a request meets before the work it asks for: the sign-in over      *)
(* Gateway and portal, the limits on passwords, the keys tokens are signed *)
(* and verified with, the Gateway's certificate and its request filters,   *)
(* and the applications that may ask for tokens.                           *)
(* The parts share no state; so that a behaviour works in one section,     *)
(* chosen at the start, while the others rest.                             *)
(***************************************************************************)
EXTENDS AuthorizeFlow, LoginAttempts, SigningKeys, JwksCache, Certificates, GatewayRequests,
        OAuthClients

VARIABLE section

vars == <<section, flowVars, attemptVars, keyVars, jwksVars, certVars, requestVars, appVars>>

Sections == {"flow", "attempts", "signing", "jwks", "certs", "requests", "apps"}

-----------------------------------------------------------------------------
\* What a part starts with varies only in the section that is at work.
Init ==
  /\ section \in Sections
  /\ FlowInit /\ (section # "flow" => \A t \in Tabs : home[t] = "one")
  /\ AttemptInit /\ (section # "attempts" => redis)
  /\ KeyInit
  /\ section # "signing" => process = [h \in Handlers |-> CHOOSE p \in Processes : TRUE]
  /\ JwksInit
  /\ CertInit /\ (section # "certs" => stored = 0)
  /\ RequestInit /\ AppInit

AtWork(s) == section = s /\ section' = s

FlowStep ==
  /\ AtWork("flow") /\ FlowNext
  /\ UNCHANGED <<attemptVars, keyVars, jwksVars, certVars, requestVars, appVars>>
AttemptStep ==
  /\ AtWork("attempts") /\ AttemptNext
  /\ UNCHANGED <<flowVars, keyVars, jwksVars, certVars, requestVars, appVars>>
SigningStep ==
  /\ AtWork("signing") /\ KeyNext
  /\ UNCHANGED <<flowVars, attemptVars, jwksVars, certVars, requestVars, appVars>>
JwksStep ==
  /\ AtWork("jwks") /\ JwksNext
  /\ UNCHANGED <<flowVars, attemptVars, keyVars, certVars, requestVars, appVars>>
CertStep ==
  /\ AtWork("certs") /\ CertNext
  /\ UNCHANGED <<flowVars, attemptVars, keyVars, jwksVars, requestVars, appVars>>
RequestStep ==
  /\ AtWork("requests") /\ RequestNext
  /\ UNCHANGED <<flowVars, attemptVars, keyVars, jwksVars, certVars, appVars>>
AppStep ==
  /\ AtWork("apps") /\ AppNext
  /\ UNCHANGED <<flowVars, attemptVars, keyVars, jwksVars, certVars, requestVars>>

Next ==
  \/ FlowStep \/ AttemptStep \/ SigningStep \/ JwksStep \/ CertStep \/ RequestStep \/ AppStep

Spec == Init /\ [][Next]_vars

-----------------------------------------------------------------------------
\* A code whose session has arrived is not exchanged again, which would end
\* the user's sessions: see AuthorizeFlow.
NoSettledReplay == [][SettledCodesRest]_flowVars
=============================================================================

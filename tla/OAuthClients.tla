----------------------------- MODULE OAuthClients -----------------------------
(***************************************************************************)
(* The applications: administrators register, edit, disable and delete     *)
(* them and rotate their secrets (clients/actions.ts and its pages), while *)
(* the applications use /authorize, the token endpoint, introspection and  *)
(* revocation (oauth-helpers.ts and the routes).                           *)
(*                                                                         *)
(* An action of the console and a request of an application read the row   *)
(* of the application first and write later, without a lock, so that both  *)
(* overlap freely.  The Portal's own application, which these actions      *)
(* refuse to touch, is left out.  A deletion takes the codes and tokens    *)
(* with it (ON DELETE CASCADE) and no row goes in for an application that  *)
(* is gone (the foreign key).  One code and one refresh token stand for    *)
(* those of an application: RefreshTokens follows them one by one.         *)
(***************************************************************************)
EXTENDS Naturals

CONSTANTS
  Apps, FirstApp,       \* applications; one is there from the start
  Admins, Callers,      \* consoles, and requests of applications at once
  MaxAppCalls,          \* bound: actions of the console
  MaxSecrets            \* bound: secrets

ASSUME AppAssumption == FirstApp \in Apps /\ MaxSecrets \in Nat \ {0}

VARIABLES
  client,        \* the row: status, if its redirect URIs and scopes admit what
                 \* the application asks for, the secret
  code, token,   \* its authorization code and its refresh token
  screen,        \* of a console: the page, the application it is of, the
                 \* secret it shows, if its button is disabled
  admin,         \* the action of a console that is under way
  caller,        \* the request of an application that is under way
  secrets,       \* how many secrets were made
  superseded,    \* history: secrets replaced by a rotation
  known,         \* history: secrets that were shown, or whose answer found no page
  wanted,        \* history: applications that were last registered or enabled,
                 \* not disabled or deleted
  appCalls       \* bound

appVars == <<client, code, token, screen, admin, caller, secrets, superseded, known, wanted,
             appCalls>>

-----------------------------------------------------------------------------
NoApp == [status |-> "none", fits |-> FALSE, secret |-> 0]
Deleted == [NoApp EXCEPT !.status = "deleted"]
IsApp(c) == client[c].status \in {"ACTIVE", "DISABLED"}

ListPage == [page |-> "list", of |-> FirstApp, shows |-> 0, disabled |-> FALSE]
NoAction == [pc |-> "idle", kind |-> "none", of |-> FirstApp, patch |-> << >>, base |-> NoApp,
             secret |-> 0, here |-> FALSE, crossed |-> FALSE]
NoCaller == [pc |-> "idle", kind |-> "none", of |-> FirstApp, secret |-> 0, good |-> FALSE,
             late |-> {}]

CreateClient(secret) == [status |-> "ACTIVE", fits |-> TRUE, secret |-> secret]

AppInit ==
  /\ client = [c \in Apps |-> IF c = FirstApp THEN CreateClient(1) ELSE NoApp]
  /\ code = [c \in Apps |-> "none"] /\ token = [c \in Apps |-> "none"]
  /\ screen = [a \in Admins |-> ListPage] /\ admin = [a \in Admins |-> NoAction]
  /\ caller = [q \in Callers |-> NoCaller]
  /\ secrets = 1 /\ superseded = {} /\ known = {1} /\ wanted = {FirstApp}
  /\ appCalls = 0

-----------------------------------------------------------------------------
\* The console.

\* The page is left: what it showed is gone, and an answer under way finds
\* nobody.
LeavePage(a) ==
  /\ screen[a] # ListPage /\ screen' = [screen EXCEPT ![a] = ListPage]
  /\ admin' = [admin EXCEPT ![a].here = FALSE]
  /\ UNCHANGED <<client, code, token, caller, secrets, superseded, known, wanted, appCalls>>

\* A page is opened, unless it is open, and its button pressed.
Start(a, page, kind, c, patch) ==
  /\ admin[a].pc = "idle" /\ ~screen[a].disabled
  /\ screen[a] = ListPage \/ (screen[a].page = page /\ screen[a].of = c)
  /\ appCalls < MaxAppCalls /\ appCalls' = appCalls + 1
  /\ admin' = [admin EXCEPT ![a] = [NoAction EXCEPT !.pc = "sent", !.kind = kind, !.of = c,
                                                    !.patch = patch, !.here = TRUE]]
  /\ screen' = [screen EXCEPT ![a].page = page, ![a].of = c, ![a].disabled = TRUE]
  /\ UNCHANGED <<client, code, token, caller, secrets, superseded, known, wanted>>

\* handleCreate of a valid form; the id is a new one.
HandleCreate(a) ==
  \E c \in Apps :
    /\ client[c] = NoApp /\ \A b \in Admins : admin[b].of # c
    /\ Start(a, "new", "create", c, << >>)

\* handleSave and the confirmed actions of the application's page.
HandleSave(a, c) ==
  IsApp(c) /\ \E fits \in BOOLEAN : Start(a, "client", "update", c, [fits |-> fits])

RunPendingAction(a, c) ==
  /\ IsApp(c)
  /\ \/ \E s \in {"ACTIVE", "DISABLED"} : Start(a, "client", "update", c, [status |-> s])
     \/ Start(a, "client", "rotate", c, << >>)

\* The button is there only for an application with tokens.
RevokeTokens(a, c) == token[c] = "live" /\ Start(a, "client", "revoke", c, << >>)

HandleDelete(a, c) == IsApp(c) /\ Start(a, "list", "delete", c, << >>)

\* The answer: the new secret is shown once, if the page is still there.  The
\* page of a new application leaves its button disabled if it is lost.
AnswerAdmin(a, arrives) ==
  /\ admin[a].pc \in {"done", "failed"}
  /\ LET shows == arrives /\ admin[a].here /\ admin[a].pc = "done" IN
     /\ known' = IF admin[a].pc = "done" THEN known \cup ({admin[a].secret} \ {0}) ELSE known
     /\ screen' = IF ~admin[a].here THEN screen
                  ELSE [screen EXCEPT ![a].disabled = ~arrives /\ screen[a].page = "new",
                          ![a].shows = IF shows /\ admin[a].secret # 0 THEN admin[a].secret ELSE @]
  /\ admin' = [admin EXCEPT ![a] = NoAction]
  /\ UNCHANGED <<client, code, token, caller, secrets, superseded, wanted, appCalls>>

-----------------------------------------------------------------------------
\* The actions on the server: the row is read, a new secret made and hashed,
\* the row written.
LoadClient(a) ==
  /\ admin[a].pc = "sent"
  /\ LET c == admin[a].of
         new == IF admin[a].kind \in {"create", "rotate"} THEN secrets + 1 ELSE 0
     IN IF admin[a].kind # "create" /\ ~IsApp(c)
          THEN admin' = [admin EXCEPT ![a].pc = "failed"] /\ UNCHANGED secrets
          ELSE /\ new <= MaxSecrets /\ secrets' = IF new = 0 THEN secrets ELSE new
               /\ admin' = [admin EXCEPT ![a].pc = "loaded", ![a].base = client[c],
                                         ![a].secret = new]
  /\ UNCHANGED <<client, code, token, screen, caller, superseded, known, wanted, appCalls>>

Ended(call, pc) == [call EXCEPT !.pc = pc, !.base = NoApp, !.patch = << >>, !.crossed = FALSE]

\* Who had it disabled or enabled decides for the requests under way, too.
Decide(c, open) ==
  /\ wanted' = IF open THEN wanted \cup {c} ELSE wanted \ {c}
  /\ caller' = [q \in Callers |-> IF open /\ caller[q].of = c
                                    THEN [caller[q] EXCEPT !.late = @ \ {"shut"}] ELSE caller[q]]

\* A row with the columns of a patch.
Patched(base, patch) == [f \in DOMAIN base |-> IF f \in DOMAIN patch THEN patch[f] ELSE base[f]]

\* Mutant: the row is written back with the secret it was read with.
UpdateRowWithSecret(now, base, patch) == Patched(base, patch)

\* applyClientUpdate and clientToUpdateRow: every column of the row that was
\* read, but for the secret.
UpdateRow(now, base, patch) == [Patched(base, patch) EXCEPT !.secret = now.secret]

\* An edit that a disabling crossed brings the status back that it had read.
UpdateClient(a) ==
  LET c == admin[a].of
      call == admin[a]
      row == UpdateRow(client[c], call.base, call.patch)
      disables == "status" \in DOMAIN call.patch /\ row.status = "DISABLED"
  IN
  /\ call.pc = "loaded" /\ call.kind = "update"
  /\ IF ~IsApp(c) THEN UNCHANGED <<client, wanted, caller>>
     ELSE /\ client' = [client EXCEPT ![c] = row]
          /\ IF "status" \in DOMAIN call.patch \/ (call.crossed /\ row.status = "ACTIVE")
               THEN Decide(c, row.status = "ACTIVE")
               ELSE UNCHANGED <<wanted, caller>>
  /\ admin' = [b \in Admins |->
       IF b = a THEN Ended(call, "done")
       ELSE IF disables /\ IsApp(c) /\ admin[b].of = c /\ admin[b].pc = "loaded"
              THEN [admin[b] EXCEPT !.crossed = TRUE] ELSE admin[b]]
  /\ UNCHANGED <<code, token, screen, secrets, superseded, known, appCalls>>

Writes(a, kind) ==
  /\ admin[a].pc = "loaded" /\ admin[a].kind = kind
  /\ admin' = [admin EXCEPT ![a] = Ended(@, "done")]
  /\ UNCHANGED <<screen, secrets, known, appCalls>>

InsertClient(a) ==
  /\ Writes(a, "create")
  /\ client' = [client EXCEPT ![admin[a].of] = CreateClient(admin[a].secret)]
  /\ Decide(admin[a].of, TRUE)
  /\ UNCHANGED <<code, token, superseded>>

\* No row, no error: the secret is answered all the same.
RotateSecret(a) ==
  LET c == admin[a].of IN
  /\ Writes(a, "rotate")
  /\ IF IsApp(c)
       THEN /\ client' = [client EXCEPT ![c].secret = admin[a].secret]
            /\ superseded' = superseded \cup {client[c].secret}
       ELSE UNCHANGED <<client, superseded>>
  /\ UNCHANGED <<code, token, wanted, caller>>

Revoked(c) == [token EXCEPT ![c] = IF @ = "live" THEN "revoked" ELSE @]

RevokeClientTokens(a) ==
  /\ Writes(a, "revoke")
  /\ token' = Revoked(admin[a].of)
  /\ UNCHANGED <<client, code, superseded, wanted, caller>>

DeleteClient(a) ==
  LET c == admin[a].of IN
  /\ Writes(a, "delete")
  /\ client' = [client EXCEPT ![c] = Deleted]
  /\ code' = [code EXCEPT ![c] = "none"] /\ token' = [token EXCEPT ![c] = "none"]
  /\ Decide(c, FALSE) /\ UNCHANGED superseded

\* The statement or the transaction fails: a lock, the database, the audit log.
AdminFails(a) ==
  /\ admin[a].pc = "loaded" /\ admin' = [admin EXCEPT ![a] = Ended(@, "failed")]
  /\ UNCHANGED <<client, code, token, screen, caller, secrets, superseded, known, wanted, appCalls>>

-----------------------------------------------------------------------------
\* The requests of the applications.

\* Who asks at /authorize: one role or none, its status, if it is the
\* administrator's, and the applications of its active permissions.
Accounts ==
  [status : {"ACTIVE", "DISABLED"},
   roles : {{}} \cup {{r} : r \in [status : {"ACTIVE", "DISABLED"}, admin : BOOLEAN,
                                   clientIds : SUBSET Apps]}]

ValidateAuthorization(user, c) ==
  LET active == {r \in user.roles : r.status = "ACTIVE"} IN
  user.status = "ACTIVE" /\ \E r \in active : r.admin \/ c \in r.clientIds

Kinds == {"authorize", "code", "refresh", "introspect", "revoke"}

\* A request begins, with a secret that somebody was shown; late: history, why it is to be refused.
Call(q, kind, c, secret) ==
  /\ caller[q].pc = "idle"
  /\ caller' = [caller EXCEPT ![q] =
       [NoCaller EXCEPT !.pc = "check", !.kind = kind, !.of = c, !.secret = secret,
        !.late = (IF c \in wanted THEN {} ELSE {"shut"})
                 \cup (IF kind # "authorize" /\ secret \in superseded THEN {"secret"} ELSE {})]]
  /\ UNCHANGED <<client, code, token, screen, admin, secrets, superseded, known, wanted, appCalls>>

Step(q, pc, good) ==
  caller' = [caller EXCEPT ![q] = IF pc = "idle" THEN NoCaller
                                   ELSE [@ EXCEPT !.pc = pc, !.good = good, !.secret = 0]]

\* Mutant: a disabled application is resolved like an active one.
ResolveAnyClient(c) == IsApp(c)

ResolveActiveClient(c) == IsApp(c) /\ client[c].status = "ACTIVE"

AuthenticateOAuthClient(c, secret) == ResolveActiveClient(c) /\ client[c].secret = secret

\* The checks before anything else; at /authorize those of the user as well.
CheckCaller(q) ==
  /\ caller[q].pc = "check"
  /\ LET c == caller[q].of IN
     \/ /\ caller[q].kind = "authorize"
        /\ \E admitted \in {ValidateAuthorization(user, c) : user \in Accounts} :
             Step(q, IF ResolveActiveClient(c) /\ client[c].fits /\ admitted
                       THEN "work" ELSE "idle", FALSE)
     \/ /\ caller[q].kind # "authorize"
        /\ Step(q, IF AuthenticateOAuthClient(c, caller[q].secret) THEN "work" ELSE "idle", FALSE)
  /\ UNCHANGED <<client, code, token, screen, admin, secrets, superseded, known, wanted, appCalls>>

AtWorkOn(q, kind) ==
  /\ caller[q].pc = "work" /\ caller[q].kind = kind
  /\ UNCHANGED <<client, screen, admin, secrets, superseded, known, wanted, appCalls>>

InsertCode(q) ==
  LET c == caller[q].of IN
  /\ AtWorkOn(q, "authorize")
  /\ Step(q, IF IsApp(c) THEN "answer" ELSE "idle", TRUE)
  /\ code' = IF IsApp(c) THEN [code EXCEPT ![c] = "live"] ELSE code
  /\ UNCHANGED token

\* The code is claimed; a used one revokes the family.
ExchangeCode(q) ==
  LET c == caller[q].of IN
  /\ AtWorkOn(q, "code")
  /\ Step(q, IF code[c] = "live" THEN "issue" ELSE "idle", FALSE)
  /\ code' = [code EXCEPT ![c] = IF @ = "live" THEN "used" ELSE @]
  /\ token' = IF code[c] = "used" THEN Revoked(c) ELSE token

\* The newest refresh token, or one that was rotated away before, which
\* revokes the family.
RotateToken(q) ==
  LET c == caller[q].of IN
  /\ AtWorkOn(q, "refresh")
  /\ \/ token[c] = "live" /\ Step(q, "answer", TRUE) /\ UNCHANGED token
     \/ Step(q, "idle", FALSE) /\ token' = Revoked(c)
  /\ UNCHANGED code

\* Of a refresh token; an access token's half is in AccessTokens.
Introspect(q) ==
  /\ AtWorkOn(q, "introspect")
  /\ Step(q, "answer", token[caller[q].of] = "live")
  /\ UNCHANGED <<code, token>>

RevokeToken(q) ==
  /\ AtWorkOn(q, "revoke")
  /\ Step(q, "answer", FALSE) /\ token' = Revoked(caller[q].of)
  /\ UNCHANGED code

\* The refresh token of a redeemed code goes in, unless the application is
\* gone by then.
IssueTokens(q) ==
  /\ caller[q].pc = "issue"
  /\ LET c == caller[q].of IN
     /\ Step(q, IF IsApp(c) THEN "answer" ELSE "idle", TRUE)
     /\ token' = IF IsApp(c) THEN [token EXCEPT ![c] = "live"] ELSE token
  /\ UNCHANGED <<client, code, screen, admin, secrets, superseded, known, wanted, appCalls>>

AnswerCaller(q) ==
  /\ caller[q].pc = "answer" /\ Step(q, "idle", FALSE)
  /\ UNCHANGED <<client, code, token, screen, admin, secrets, superseded, known, wanted, appCalls>>

AppNext ==
  \/ \E a \in Admins :
       \/ LeavePage(a) \/ HandleCreate(a)
       \/ \E c \in Apps :
            HandleSave(a, c) \/ RunPendingAction(a, c) \/ RevokeTokens(a, c) \/ HandleDelete(a, c)
       \/ \E arrives \in BOOLEAN : AnswerAdmin(a, arrives)
       \/ LoadClient(a) \/ UpdateClient(a) \/ InsertClient(a) \/ RotateSecret(a)
       \/ RevokeClientTokens(a) \/ DeleteClient(a) \/ AdminFails(a)
  \/ \E q \in Callers :
       \/ \E c \in Apps, s \in known : \E kind \in Kinds \ {"authorize"} : Call(q, kind, c, s)
       \/ \E c \in Apps : Call(q, "authorize", c, 0)
       \/ CheckCaller(q) \/ InsertCode(q) \/ ExchangeCode(q) \/ RotateToken(q) \/ Introspect(q)
       \/ RevokeToken(q) \/ IssueTokens(q) \/ AnswerCaller(q)

AppSpec == AppInit /\ [][AppNext]_appVars

-----------------------------------------------------------------------------
\* The secret a console shows is the one in force, until a rotation or a
\* deletion, whatever else writes the row (clientToUpdateRow, which leaves
\* the secret out); and the one in force was shown, or is on its way, or its
\* answer found no page.
SecretsAreKnown ==
  /\ \A a \in Admins :
       LET c == screen[a].of
           s == screen[a].shows
       IN s # 0 /\ IsApp(c) => client[c].secret = s \/ s \in superseded
  /\ \A c \in Apps :
       IsApp(c) => \/ client[c].secret \in known
                   \/ \E a \in Admins : admin[a].of = c /\ admin[a].secret = client[c].secret

\* A request that begins after its application was disabled or deleted, or
\* its secret replaced, gets no code and no token, nor an active answer of
\* introspection, unless the application is enabled meanwhile, or by an edit
\* that had read the row before it was disabled and writes it back
\* (updateClientAction reads without a lock).
ShutOutStaysOut ==
  \A q \in Callers : caller[q].pc = "answer" /\ caller[q].good => caller[q].late = {}
=============================================================================

------------------------ MODULE AccountSecurityProofs ------------------------
(***************************************************************************)
(* Proofs about AccountSecurity, for any number of handlers, browsers and  *)
(* passwords, any length of the history, with and without faults.          *)
(*                                                                         *)
(* Sessions: OldSessionsEnd needs to know that nobody who is old is about  *)
(* to get tokens unless that was noted (EntriesAreKnown), that a browser   *)
(* signs in once at a time (LoginAlone), and that the rows a forced        *)
(* log-out has locked stay as they were until it commits (LocksHold).      *)
(* Passwords: as long as no writer overtook another, the row remembers     *)
(* what was in force (HistoryIsPast), and a handler that is about to write *)
(* holds a password that differs from what it read (NewIsNew).             *)
(***************************************************************************)
EXTENDS AccountSecurity, TLAPS

-----------------------------------------------------------------------------
(* Types *)

Hashes == Passwords \cup {None}
Rows == [hash : Hashes, history : Seq(Passwords)]
Requests == [pc : {"idle", "login", "write", "sweep", "block", "commit", "own", "clear"},
             kind : {"none", "change", "reset", "force", "logout", "unknown"},
             seen : Rows, new : Hashes, who : SUBSET Browsers, rows : SUBSET Browsers]

SessionType ==
  /\ signin \in [Browsers -> {"out", "verified", "code", "in"}]
  /\ rt \in [Browsers -> {"none", "live", "revoked"}]
  /\ at \in [Browsers -> {"none", "valid", "blocked"}]
  /\ old \subseteq Browsers /\ underway \subseteq Browsers /\ byToken \subseteq Browsers
  /\ failed \in BOOLEAN

RowType == row \in Rows /\ past \in Seq(Hashes) /\ raced \in BOOLEAN

AccType == SessionType /\ RowType /\ req \in [Workers -> Requests]

\* A browser that signs in belongs to one login, and has no session yet.
LoginAlone ==
  \A w \in Workers : req[w].pc = "login" => \A b \in req[w].who :
    /\ signin[b] = "out"
    /\ \A v \in Workers : req[v].pc = "login" /\ b \in req[v].who => v = w

\* A browser that signed in before sessions were ended is not about to get
\* tokens, unless it is known to be.
EntriesAreKnown ==
  \A b \in old :
    signin[b] \in {"verified", "code"} \/ (\E w \in Workers : req[w].pc = "login" /\ b \in req[w].who)
      => b \in underway \cup byToken

\* The rows a forced log-out has locked: whoever is not to be ended is not
\* signed in, and no access token is issued for them meanwhile.
LocksHold ==
  \A w \in Workers : req[w].pc = "commit" => \A b \in req[w].rows :
    /\ b \notin req[w].who => b \notin SigningIn
    /\ ~failed => at[b] # "valid"

SessInv == LoginAlone /\ EntriesAreKnown /\ LocksHold /\ OldSessionsEnd

\* What a new password is compared with are the last ones, as long as no writer
\* overtook another.
HistoryIsPast ==
  ~raced => \A i \in 1..HistoryMax : i \in DOMAIN past =>
    past[i] = None \/ (i \in DOMAIN row.history /\ row.history[i] = past[i])

NewIsNew ==
  \A w \in Workers : req[w].pc = "write" =>
    req[w].new \in Passwords /\ ~Reused(req[w].new, req[w].seen)

HistInv == (row.hash = None => past = << >>) /\ HistoryIsPast /\ NewIsNew

-----------------------------------------------------------------------------
(* Records of handlers *)

LEMMA IdleType ==
  /\ Idle \in Requests /\ Idle.pc = "idle" /\ Idle.who = {} /\ Idle.rows = {}
  /\ NoRow \in Rows
<1>1. NoRow \in Rows
  BY DEF NoRow, Rows, Hashes
<1> QED BY <1>1 DEF Idle, Requests, Hashes

LEMMA LoginType ==
  ASSUME NEW b \in Browsers
  PROVE  \E r \in Requests : /\ r = [Idle EXCEPT !.pc = "login", !.who = {b}]
                             /\ r.pc = "login" /\ r.who = {b} /\ r.rows = {}
<1>1. [Idle EXCEPT !.pc = "login", !.who = {b}] \in Requests
  BY IdleType DEF Requests
<1> QED BY <1>1 DEF Idle

LEMMA WriteType ==
  ASSUME NEW seen \in Rows, NEW new \in Passwords
  PROVE  /\ \E r \in Requests :
              /\ r = [Idle EXCEPT !.pc = "write", !.kind = "change", !.seen = seen, !.new = new]
              /\ r.pc = "write" /\ r.seen = seen /\ r.new = new
         /\ \E r \in Requests :
              /\ r = [Idle EXCEPT !.pc = "write", !.kind = "reset", !.seen = seen, !.new = new]
              /\ r.pc = "write" /\ r.seen = seen /\ r.new = new
<1>1. [Idle EXCEPT !.pc = "write", !.kind = "change", !.seen = seen, !.new = new] \in Requests
  BY IdleType DEF Requests, Hashes
<1>2. [Idle EXCEPT !.pc = "write", !.kind = "reset", !.seen = seen, !.new = new] \in Requests
  BY IdleType DEF Requests, Hashes
<1> QED BY <1>1, <1>2 DEF Idle

LEMMA NextType ==
  ASSUME NEW kind \in {"change", "reset"}, NEW pc \in {"sweep", "block"}
  PROVE  \E r \in Requests : r = [Idle EXCEPT !.pc = pc, !.kind = kind] /\ r.pc = pc
<1>1. [Idle EXCEPT !.pc = pc, !.kind = kind] \in Requests
  BY IdleType DEF Requests
<1> QED BY <1>1 DEF Idle

LEMMA ForceType ==
  ASSUME NEW who \in SUBSET Browsers, NEW rows \in SUBSET Browsers
  PROVE  \E r \in Requests :
           /\ r = [Idle EXCEPT !.pc = "commit", !.kind = "force", !.who = who, !.rows = rows]
           /\ r.pc = "commit" /\ r.who = who /\ r.rows = rows
<1>1. [Idle EXCEPT !.pc = "commit", !.kind = "force", !.who = who, !.rows = rows] \in Requests
  BY IdleType DEF Requests
<1> QED BY <1>1 DEF Idle

LEMMA LogoutType ==
  ASSUME NEW b \in Browsers, NEW kind \in {"logout", "unknown"}
  PROVE  \E r \in Requests :
           r = [Idle EXCEPT !.pc = "own", !.kind = kind, !.who = {b}] /\ r.pc = "own"
<1>1. [Idle EXCEPT !.pc = "own", !.kind = kind, !.who = {b}] \in Requests
  BY IdleType DEF Requests
<1> QED BY <1>1 DEF Idle

LEMMA AdvanceType ==
  ASSUME NEW q \in Requests, NEW pc \in {"sweep", "block", "clear"}
  PROVE  \E r \in Requests : r = [q EXCEPT !.pc = pc] /\ r.pc = pc
<1>1. [q EXCEPT !.pc = pc] \in Requests
  BY DEF Requests
<1> QED BY <1>1 DEF Requests

LEMMA LessType ==
  ASSUME NEW q \in Requests, NEW b
  PROVE  /\ \E r \in Requests : /\ r = [q EXCEPT !.who = @ \ {b}, !.rows = @ \ {b}]
                                /\ r.pc = q.pc /\ r.who = q.who \ {b} /\ r.rows = q.rows \ {b}
                                /\ r.seen = q.seen /\ r.new = q.new
         /\ \E r \in Requests : /\ r = [q EXCEPT !.rows = @ \ {b}]
                                /\ r.pc = q.pc /\ r.who = q.who /\ r.rows = q.rows \ {b}
                                /\ r.seen = q.seen /\ r.new = q.new
<1>1. [q EXCEPT !.who = @ \ {b}, !.rows = @ \ {b}] \in Requests
  BY DEF Requests
<1>2. [q EXCEPT !.rows = @ \ {b}] \in Requests
  BY DEF Requests
<1> QED BY <1>1, <1>2 DEF Requests

-----------------------------------------------------------------------------
(* Sessions *)

\* A handler goes on, and no session changes.
LEMMA QuietKeeps ==
  ASSUME AccType, SessInv, NEW w \in Workers, NEW r \in Requests, Become(w, r),
         r.pc \notin {"login", "commit"}, req[w].pc = "block" => r.pc = "block",
         UNCHANGED <<signin, rt, at, old, underway, byToken, failed>>
  PROVE  SessInv'
<1>1. req'[w] = r /\ \A v \in Workers \ {w} : req'[v] = req[v]
  BY DEF AccType, Become
<1>2. LoginAlone' /\ EntriesAreKnown'
  BY <1>1 DEF SessInv, LoginAlone, EntriesAreKnown
<1>3. SigningIn' \subseteq SigningIn
  BY <1>1 DEF SigningIn
<1>4. LocksHold'
  BY <1>1, <1>3 DEF SessInv, LocksHold
<1>5. OldSessionsEnd'
  BY <1>1 DEF SessInv, OldSessionsEnd
<1> QED BY <1>2, <1>4, <1>5 DEF SessInv

\* An UPDATE of all live rows ends the session of whoever is signed in.
LEMMA SweepKeeps ==
  ASSUME AccType, SessInv, NEW w \in Workers, NEW r \in Requests, Become(w, r),
         r.pc = "block", SweepRows(LiveRows, SigningIn), UNCHANGED <<signin, at, failed>>
  PROVE  SessInv'
<1>1. req'[w] = r /\ \A v \in Workers \ {w} : req'[v] = req[v]
  BY DEF AccType, Become
<1>2. LoginAlone'
  BY <1>1 DEF SessInv, LoginAlone
<1>3. SigningIn' \subseteq SigningIn
  BY <1>1 DEF SigningIn
<1>4. LocksHold'
  BY <1>1, <1>3 DEF SessInv, LocksHold
<1>5. EntriesAreKnown'
  <2> SUFFICES ASSUME NEW b \in old',
                      signin'[b] \in {"verified", "code"}
                        \/ \E v \in Workers : req'[v].pc = "login" /\ b \in req'[v].who
               PROVE  b \in underway' \cup byToken'
    BY DEF EntriesAreKnown
  <2>1. b \in Browsers
    BY DEF AccType, SessionType, SweepRows, Ended, SigningIn, Requests
  <2>2. b \in SigningIn
    BY <1>1, <2>1 DEF SigningIn
  <2>3. signin[b] # "in"
    BY <1>1 DEF SessInv, LoginAlone
  <2> QED BY <2>2, <2>3 DEF SweepRows, Ended
<1>6. OldSessionsEnd'
  <2> SUFFICES ASSUME NEW b \in old' \ (underway' \cup byToken') PROVE rt'[b] # "live"
    BY <1>1 DEF OldSessionsEnd
  <2>1. b \in Browsers
    BY DEF AccType, SessionType, SweepRows, Ended, SigningIn, Requests
  <2> QED BY <2>1 DEF SweepRows, LiveRows
<1> QED BY <1>2, <1>4, <1>5, <1>6 DEF SessInv

\* Every access token goes on the blocklist, or the failure is noted.
LEMMA BlockKeeps ==
  ASSUME AccType, SessInv, NEW w \in Workers, NEW r \in Requests, Become(w, r),
         r.pc \notin {"login", "commit"}, BlockAll, UNCHANGED <<signin, rt, old, underway, byToken>>
  PROVE  SessInv'
<1>1. req'[w] = r /\ \A v \in Workers \ {w} : req'[v] = req[v]
  BY DEF AccType, Become
<1>2. LoginAlone' /\ EntriesAreKnown'
  BY <1>1 DEF SessInv, LoginAlone, EntriesAreKnown
<1>3. SigningIn' \subseteq SigningIn
  BY <1>1 DEF SigningIn
<1>4. ~failed' => \A b \in Browsers : at'[b] # "valid"
  BY DEF BlockAll
<1>5. LocksHold'
  BY <1>1, <1>3, <1>4 DEF SessInv, LocksHold, AccType, Requests
<1>6. OldSessionsEnd'
  BY <1>1, <1>4 DEF SessInv, OldSessionsEnd, AccType, SessionType
<1> QED BY <1>2, <1>5, <1>6 DEF SessInv

LEMMA LoginReadsKeeps ==
  ASSUME AccType, SessInv, NEW w \in Workers, NEW b \in Browsers, LoginReads(w, b)
  PROVE  SessInv'
<1>1. PICK r \in Requests : /\ r = [Idle EXCEPT !.pc = "login", !.who = {b}]
                            /\ r.pc = "login" /\ r.who = {b} /\ r.rows = {}
  BY LoginType
<1>2. /\ req'[w] = r /\ req[w].pc = "idle"
      /\ \A v \in Workers \ {w} :
           req'[v] = IF req[v].pc = "commit"
                       THEN [req[v] EXCEPT !.who = @ \ {b}, !.rows = @ \ {b}] ELSE req[v]
  BY <1>1 DEF LoginReads
<1>3. \A v \in Workers \ {w} :
        /\ req'[v].pc = req[v].pc
        /\ req[v].pc # "commit" => req'[v] = req[v]
        /\ req[v].pc = "commit" =>
             req'[v].who = req[v].who \ {b} /\ req'[v].rows = req[v].rows \ {b}
  <2> SUFFICES ASSUME NEW v \in Workers \ {w}
               PROVE  /\ req'[v].pc = req[v].pc
                      /\ req[v].pc # "commit" => req'[v] = req[v]
                      /\ req[v].pc = "commit" =>
                           req'[v].who = req[v].who \ {b} /\ req'[v].rows = req[v].rows \ {b}
    OBVIOUS
  <2>1. PICK q \in Requests : q = req[v]
    BY DEF AccType
  <2>2. PICK p \in Requests :
          /\ p = [q EXCEPT !.who = @ \ {b}, !.rows = @ \ {b}]
          /\ p.pc = q.pc /\ p.who = q.who \ {b} /\ p.rows = q.rows \ {b}
          /\ p.seen = q.seen /\ p.new = q.new
    BY LessType, Zenon
  <2>3. req[v].pc = "commit" => req'[v] = p
    BY <1>2, <2>1, <2>2
  <2>4. req[v].pc # "commit" => req'[v] = req[v]
    BY <1>2
  <2> QED BY <2>1, <2>2, <2>3, <2>4
<1>4. b \notin SigningIn
  BY DEF LoginReads
<1>5. /\ signin[b] = "out"
      /\ \A v \in Workers : req[v].pc = "login" => b \notin req[v].who
  BY <1>4 DEF SigningIn
<1>6. /\ signin' = signin /\ failed' = failed
      /\ old' = old \ {b} /\ underway' = underway \ {b} /\ byToken' = byToken \ {b}
      /\ rt'[b] = "none" /\ at'[b] = "none"
      /\ \A x \in Browsers \ {b} : rt'[x] = rt[x] /\ at'[x] = at[x]
  BY DEF LoginReads, AccType, SessionType
<1>7. /\ \A v \in Workers \ {w} : req[v].pc = "login" => req'[v] = req[v]
      /\ \A v \in Workers \ {w} : req'[v].pc = "login" <=> req[v].pc = "login"
      /\ \A v \in Workers : req'[v].pc = "block" <=> req[v].pc = "block"
      /\ \A v \in Workers : req'[v].pc = "commit" =>
           /\ v # w /\ req[v].pc = "commit"
           /\ req'[v].who = req[v].who \ {b} /\ req'[v].rows = req[v].rows \ {b}
  BY <1>1, <1>2, <1>3
<1>8. LoginAlone'
  <2> SUFFICES ASSUME NEW v \in Workers, req'[v].pc = "login", NEW x \in req'[v].who
               PROVE  /\ signin[x] = "out"
                      /\ \A u \in Workers : req'[u].pc = "login" /\ x \in req'[u].who => u = v
    BY <1>6 DEF LoginAlone
  <2>1. CASE v = w
    <3>1. x = b
      BY <1>1, <1>2, <2>1
    <3> QED BY <1>5, <1>7, <2>1, <3>1
  <2>2. CASE v # w
    <3>1. req[v].pc = "login" /\ x \in req[v].who
      BY <1>7, <2>2
    <3>2. x # b
      BY <1>5, <3>1
    <3>3. \A u \in Workers \ {w} : req'[u].pc = "login" /\ x \in req'[u].who => u = v
      BY <1>7, <3>1 DEF SessInv, LoginAlone
    <3>4. x \notin req'[w].who
      BY <1>1, <1>2, <3>2
    <3> QED BY <3>1, <3>3, <3>4 DEF SessInv, LoginAlone
  <2> QED BY <2>1, <2>2
<1>9. EntriesAreKnown'
  <2> SUFFICES ASSUME NEW x \in old,  x # b,
                      signin[x] \in {"verified", "code"}
                        \/ \E v \in Workers : req'[v].pc = "login" /\ x \in req'[v].who
               PROVE  x \in underway \cup byToken
    BY <1>6 DEF EntriesAreKnown
  <2>1. signin[x] \in {"verified", "code"}
          \/ \E v \in Workers : req[v].pc = "login" /\ x \in req[v].who
    <3>1. x \notin req'[w].who
      BY <1>1, <1>2
    <3> QED BY <1>7, <3>1
  <2> QED BY <2>1 DEF SessInv, EntriesAreKnown
<1>10. SigningIn' \subseteq SigningIn \cup {b}
  <2> SUFFICES ASSUME NEW x, x \in SigningIn', x # b PROVE x \in SigningIn
    OBVIOUS
  <2>1. (x \in Browsers /\ signin[x] # "out")
          \/ \E v \in Workers : req'[v].pc = "login" /\ x \in req'[v].who
    BY <1>6 DEF SigningIn
  <2>2. CASE x \in Browsers /\ signin[x] # "out"
    BY <2>2 DEF SigningIn
  <2>3. CASE \E v \in Workers : req'[v].pc = "login" /\ x \in req'[v].who
    <3>1. \E v \in Workers : req[v].pc = "login" /\ x \in req[v].who
      BY <1>1, <1>2, <1>7, <2>3, ZenonT(60)
    <3> QED BY <3>1 DEF SigningIn
  <2> QED BY <2>1, <2>2, <2>3
<1>11. LocksHold'
  <2> SUFFICES ASSUME NEW v \in Workers, req'[v].pc = "commit", NEW x \in req'[v].rows
               PROVE  /\ x \notin req'[v].who => x \notin SigningIn'
                      /\ ~failed' => at'[x] # "valid"
    BY DEF LocksHold
  <2>1. /\ req[v].pc = "commit" /\ x # b /\ x \in req[v].rows
        /\ x \notin req'[v].who => x \notin req[v].who
    BY <1>7
  <2>2. x \in Browsers
    BY <2>1 DEF AccType, Requests
  <2> QED BY <1>6, <1>10, <2>1, <2>2 DEF SessInv, LocksHold
<1>12. OldSessionsEnd'
  <2> SUFFICES ASSUME NEW x \in old, x # b, x \notin underway \cup byToken
               PROVE  /\ rt'[x] # "live"
                      /\ (\A v \in Workers : req[v].pc # "block") /\ ~failed => at'[x] # "valid"
    BY <1>6, <1>7 DEF OldSessionsEnd
  <2>1. x \in Browsers
    BY DEF AccType, SessionType
  <2> QED BY <1>6, <2>1 DEF SessInv, OldSessionsEnd
<1> QED BY <1>8, <1>9, <1>11, <1>12 DEF SessInv

LEMMA LoginSignsKeeps ==
  ASSUME AccType, SessInv, NEW w \in Workers, LoginSigns(w) PROVE SessInv'
<1>1. /\ req'[w] = Idle /\ Idle.pc = "idle" /\ req[w].pc = "login"
      /\ \A v \in Workers \ {w} : req'[v] = req[v]
      /\ \A b \in Browsers : signin'[b] = IF b \in req[w].who THEN "verified" ELSE signin[b]
      /\ UNCHANGED <<rt, at, old, underway, byToken, failed>>
  BY IdleType DEF LoginSigns, Become, AccType
<1>2. LoginAlone'
  BY <1>1 DEF SessInv, LoginAlone, AccType, Requests
<1>3. EntriesAreKnown'
  BY <1>1 DEF SessInv, EntriesAreKnown, AccType, SessionType
<1>4. SigningIn' \subseteq SigningIn
  BY <1>1 DEF SigningIn
<1>5. LocksHold'
  BY <1>1, <1>4 DEF SessInv, LocksHold
<1>6. OldSessionsEnd'
  BY <1>1 DEF SessInv, OldSessionsEnd
<1> QED BY <1>2, <1>3, <1>5, <1>6 DEF SessInv

LEMMA BrowserKeeps ==
  ASSUME AccType, SessInv, NEW b \in Browsers, IssueCode(b) \/ Reauthorize(b) \/ Rotate(b)
  PROVE  SessInv'
<1>1. CASE IssueCode(b)
  <2>1. /\ signin[b] = "verified" /\ signin' = [signin EXCEPT ![b] = "code"]
        /\ UNCHANGED <<rt, at, req, old, underway, byToken, failed>>
    BY <1>1 DEF IssueCode
  <2>2. LoginAlone' /\ EntriesAreKnown'
    BY <2>1 DEF SessInv, LoginAlone, EntriesAreKnown, AccType, SessionType, Requests
  <2>3. SigningIn' \subseteq SigningIn
    BY <2>1 DEF SigningIn, AccType, SessionType
  <2>4. LocksHold' /\ OldSessionsEnd'
    BY <2>1, <2>3 DEF SessInv, LocksHold, OldSessionsEnd
  <2> QED BY <2>2, <2>4 DEF SessInv
<1>2. CASE Reauthorize(b)
  <2>1. /\ signin[b] = "in" /\ at[b] = "valid" /\ signin' = [signin EXCEPT ![b] = "code"]
        /\ byToken' = IF b \in old /\ (failed \/ b \in underway \/ \E w \in Workers : req[w].pc = "block")
                        THEN byToken \cup {b} ELSE byToken
        /\ UNCHANGED <<rt, at, req, old, underway, failed>>
    BY <1>2 DEF Reauthorize
  <2>2. b \in old => b \in underway \cup byToken'
    BY <2>1 DEF SessInv, OldSessionsEnd
  <2>3. LoginAlone' /\ EntriesAreKnown'
    BY <2>1, <2>2 DEF SessInv, LoginAlone, EntriesAreKnown, AccType, SessionType, Requests
  <2>4. SigningIn' \subseteq SigningIn
    BY <2>1 DEF SigningIn, AccType, SessionType
  <2>5. LocksHold' /\ OldSessionsEnd'
    BY <2>1, <2>4 DEF SessInv, LocksHold, OldSessionsEnd
  <2> QED BY <2>3, <2>5 DEF SessInv
<1>3. CASE Rotate(b)
  <2>1. /\ rt[b] = "live" /\ Unlocked({b}) /\ at' = [at EXCEPT ![b] = "valid"]
        /\ UNCHANGED <<signin, rt, req, old, underway, byToken, failed>>
    BY <1>3 DEF Rotate
  <2>2. LoginAlone' /\ EntriesAreKnown'
    BY <2>1 DEF SessInv, LoginAlone, EntriesAreKnown
  <2>3. SigningIn' = SigningIn
    BY <2>1 DEF SigningIn
  <2>4. LocksHold'
    BY <2>1, <2>3 DEF SessInv, LocksHold, Unlocked, AccType, SessionType, Requests
  <2>5. OldSessionsEnd'
    BY <2>1 DEF SessInv, OldSessionsEnd, AccType, SessionType
  <2> QED BY <2>2, <2>4, <2>5 DEF SessInv
<1> QED BY <1>1, <1>2, <1>3

LEMMA RedeemKeeps ==
  ASSUME AccType, SessInv, NEW b \in Browsers, RedeemCode(b) PROVE SessInv'
<1>1. /\ signin[b] = "code" /\ signin'[b] = "in"
      /\ rt' = [rt EXCEPT ![b] = "live"] /\ at' = [at EXCEPT ![b] = "valid"]
      /\ \A x \in Browsers \ {b} : signin'[x] = signin[x] /\ rt'[x] = rt[x] /\ at'[x] = at[x]
      /\ UNCHANGED <<old, underway, byToken, failed>>
  BY DEF RedeemCode, AccType, SessionType
<1>2. \A v \in Workers :
        /\ req'[v].pc = req[v].pc /\ req'[v].who = req[v].who
        /\ req[v].pc = "commit" => req'[v].rows = req[v].rows \ {b}
  <2> SUFFICES ASSUME NEW v \in Workers
               PROVE  /\ req'[v].pc = req[v].pc /\ req'[v].who = req[v].who
                      /\ req[v].pc = "commit" => req'[v].rows = req[v].rows \ {b}
    OBVIOUS
  <2>1. PICK q \in Requests : q = req[v]
    BY DEF AccType
  <2>2. PICK p \in Requests : /\ p = [q EXCEPT !.rows = @ \ {b}]
                              /\ p.pc = q.pc /\ p.who = q.who /\ p.rows = q.rows \ {b}
                              /\ p.seen = q.seen /\ p.new = q.new
    BY LessType, Zenon
  <2>3. req'[v] = IF req[v].pc = "commit" THEN [req[v] EXCEPT !.rows = @ \ {b}] ELSE req[v]
    BY DEF RedeemCode
  <2> QED BY <2>1, <2>2, <2>3
<1>3. LoginAlone'
  BY <1>1, <1>2 DEF SessInv, LoginAlone, AccType, Requests
<1>4. EntriesAreKnown'
  <2> SUFFICES ASSUME NEW x \in old,
                      signin'[x] \in {"verified", "code"}
                        \/ \E v \in Workers : req'[v].pc = "login" /\ x \in req'[v].who
               PROVE  x \in underway \cup byToken
    BY <1>1 DEF EntriesAreKnown
  <2>1. x \in Browsers
    BY DEF AccType, SessionType
  <2>2. signin[x] \in {"verified", "code"}
          \/ \E v \in Workers : req[v].pc = "login" /\ x \in req[v].who
    BY <1>1, <1>2, <2>1
  <2> QED BY <2>2 DEF SessInv, EntriesAreKnown
<1>5. SigningIn' \subseteq SigningIn
  <2> SUFFICES ASSUME NEW x, x \in SigningIn' PROVE x \in SigningIn
    OBVIOUS
  <2>1. (x \in Browsers /\ signin'[x] # "out")
          \/ \E v \in Workers : req'[v].pc = "login" /\ x \in req'[v].who
    BY DEF SigningIn
  <2>2. (x \in Browsers /\ signin[x] # "out")
          \/ \E v \in Workers : req[v].pc = "login" /\ x \in req[v].who
    BY <1>1, <1>2, <2>1
  <2> QED BY <2>2 DEF SigningIn
<1>6. LocksHold'
  <2> SUFFICES ASSUME NEW v \in Workers, req'[v].pc = "commit", NEW x \in req'[v].rows
               PROVE  /\ x \notin req'[v].who => x \notin SigningIn'
                      /\ ~failed' => at'[x] # "valid"
    BY DEF LocksHold
  <2>1. req[v].pc = "commit" /\ x # b /\ x \in req[v].rows /\ req'[v].who = req[v].who
    BY <1>2
  <2>2. x \in Browsers
    BY <2>1 DEF AccType, Requests
  <2> QED BY <1>1, <1>5, <2>1, <2>2 DEF SessInv, LocksHold
<1>7. b \in old => b \in underway \cup byToken
  BY <1>1 DEF SessInv, EntriesAreKnown
<1>8. OldSessionsEnd'
  <2> SUFFICES ASSUME NEW x \in old, x \notin underway \cup byToken
               PROVE  /\ rt'[x] # "live"
                      /\ (\A v \in Workers : req[v].pc # "block") /\ ~failed => at'[x] # "valid"
    BY <1>1, <1>2 DEF OldSessionsEnd
  <2>1. x \in Browsers /\ x # b
    BY <1>7 DEF AccType, SessionType
  <2> QED BY <1>1, <2>1 DEF SessInv, OldSessionsEnd
<1> QED BY <1>3, <1>4, <1>6, <1>8 DEF SessInv

LEMMA ForceRevokesKeeps ==
  ASSUME AccType, SessInv, NEW w \in Workers, ForceRevokes(w) PROVE SessInv'
<1>1. SigningIn \in SUBSET Browsers /\ LiveRows \in SUBSET Browsers
  BY DEF SigningIn, LiveRows, AccType, Requests
<1>2. PICK r \in Requests :
        /\ r = [Idle EXCEPT !.pc = "commit", !.kind = "force", !.who = SigningIn, !.rows = LiveRows]
        /\ r.pc = "commit" /\ r.who = SigningIn /\ r.rows = LiveRows
  BY <1>1, ForceType
<1>3. /\ req'[w] = r /\ req[w].pc = "idle" /\ \A v \in Workers \ {w} : req'[v] = req[v]
      /\ BlockAll /\ UNCHANGED <<signin, rt, old, underway, byToken>>
  BY <1>2 DEF ForceRevokes, Become, AccType
<1>4. ~failed' => \A b \in Browsers : at'[b] # "valid"
  BY <1>3 DEF BlockAll
<1>0. req'[w].pc = "commit" /\ \A v \in Workers \ {w} : req'[v] = req[v]
  BY <1>2, <1>3
<1>5. LoginAlone' /\ EntriesAreKnown'
  BY <1>0, <1>3 DEF SessInv, LoginAlone, EntriesAreKnown
<1>6. SigningIn' \subseteq SigningIn
  BY <1>0, <1>3 DEF SigningIn
<1>7. LocksHold'
  <2> SUFFICES ASSUME NEW v \in Workers, req'[v].pc = "commit", NEW x \in req'[v].rows
               PROVE  /\ x \notin req'[v].who => x \notin SigningIn'
                      /\ ~failed' => at'[x] # "valid"
    BY DEF LocksHold
  <2>1. CASE v = w
    BY <1>1, <1>2, <1>3, <1>4, <1>6, <2>1
  <2>2. CASE v # w
    <3>1. x \in Browsers
      BY <1>3, <2>2 DEF AccType, Requests
    <3> QED BY <1>3, <1>4, <1>6, <2>2, <3>1 DEF SessInv, LocksHold
  <2> QED BY <2>1, <2>2
<1>8. OldSessionsEnd'
  BY <1>2, <1>3, <1>4 DEF SessInv, OldSessionsEnd, AccType, SessionType
<1> QED BY <1>5, <1>7, <1>8 DEF SessInv

\* The rows locked are those of the browsers to be ended, and of some that are
\* not signed in.
LEMMA ForceCommitsKeeps ==
  ASSUME AccType, SessInv, NEW w \in Workers, ForceCommits(w) PROVE SessInv'
<1>1. PICK q \in Requests : q = req[w]
  BY DEF AccType
<1>2. /\ q.pc = "commit" /\ req'[w] = Idle /\ Idle.pc = "idle"
      /\ \A v \in Workers \ {w} : req'[v] = req[v]
      /\ SweepRows(q.rows, q.who) /\ UNCHANGED <<signin, at, failed>>
      /\ q.rows \subseteq Browsers /\ q.who \subseteq Browsers
  BY <1>1, IdleType DEF ForceCommits, Become, AccType, Requests
<1>3. PICK reached \in SUBSET Browsers :
        /\ reached = {b \in q.rows : signin[b] = "in"}
        /\ rt' = [b \in Browsers |-> IF b \in q.rows THEN "revoked" ELSE rt[b]]
        /\ old' = old \cup q.who
        /\ underway' = (underway \ reached) \cup (q.who \ reached)
        /\ byToken' = byToken \ q.who
  <2>1. {b \in q.rows : signin[b] = "in"} \in SUBSET Browsers
    BY <1>2
  <2> QED BY <1>2, <2>1 DEF SweepRows, Ended
<1>4. reached \subseteq q.who
  <2> SUFFICES ASSUME NEW b \in reached, b \notin q.who PROVE FALSE
    OBVIOUS
  <2>1. b \notin SigningIn
    BY <1>1, <1>2, <1>3 DEF SessInv, LocksHold
  <2> QED BY <1>3, <2>1 DEF SigningIn
<1>5. LoginAlone'
  BY <1>2 DEF SessInv, LoginAlone
<1>6. EntriesAreKnown'
  <2> SUFFICES ASSUME NEW b \in old \cup q.who,
                      signin[b] \in {"verified", "code"}
                        \/ \E v \in Workers : req'[v].pc = "login" /\ b \in req'[v].who
               PROVE  b \in underway' \cup byToken'
    BY <1>2, <1>3 DEF EntriesAreKnown
  <2>1. signin[b] \in {"verified", "code"}
          \/ \E v \in Workers : req[v].pc = "login" /\ b \in req[v].who
    BY <1>2
  <2>2. signin[b] # "in"
    BY <2>1 DEF SessInv, LoginAlone
  <2>3. b \notin reached
    BY <1>3, <2>2
  <2>4. CASE b \in q.who
    BY <1>3, <2>3, <2>4
  <2>5. CASE b \notin q.who
    <3>1. b \in underway \cup byToken
      BY <2>1, <2>5 DEF SessInv, EntriesAreKnown
    <3> QED BY <1>3, <2>3, <2>5, <3>1
  <2> QED BY <2>4, <2>5
<1>7. SigningIn' \subseteq SigningIn
  BY <1>2 DEF SigningIn
<1>8. LocksHold'
  BY <1>2, <1>7 DEF SessInv, LocksHold
<1>9. OldSessionsEnd'
  <2> SUFFICES ASSUME NEW b \in old \cup q.who, b \notin underway' \cup byToken'
               PROVE  /\ rt'[b] # "live"
                      /\ (\A v \in Workers : req'[v].pc # "block") /\ ~failed => at[b] # "valid"
    BY <1>2, <1>3 DEF OldSessionsEnd
  <2>1. b \in Browsers
    BY <1>2 DEF AccType, SessionType
  <2>2. CASE b \in q.who
    <3>1. b \in q.rows
      BY <1>3, <2>2
    <3> QED BY <1>1, <1>2, <1>3, <2>1, <3>1 DEF SessInv, LocksHold
  <2>3. CASE b \notin q.who
    <3>1. b \in old \ (underway \cup byToken)
      BY <1>3, <1>4, <2>3
    <3>2. (\A v \in Workers : req'[v].pc # "block") => \A v \in Workers : req[v].pc # "block"
      BY <1>1, <1>2
    <3> QED BY <1>3, <2>1, <3>1, <3>2 DEF SessInv, OldSessionsEnd
  <2> QED BY <2>2, <2>3
<1> QED BY <1>5, <1>6, <1>8, <1>9 DEF SessInv

\* The log-out of one browser.
LEMMA LogoutKeeps ==
  ASSUME AccType, SessInv, NEW w \in Workers,
         (\E b \in Browsers : LogoutStarts(w, b)) \/ LogoutRevokesOwn(w) \/ LogoutClears(w)
  PROVE  SessInv'
<1>1. CASE \E b \in Browsers : LogoutStarts(w, b)
  <2>1. PICK b \in Browsers : LogoutStarts(w, b)
    BY <1>1
  <2>2. PICK r \in Requests : r.pc = "own" /\ Become(w, r)
    BY <2>1, LogoutType DEF LogoutStarts
  <2>3. /\ req'[w] = r /\ req[w].pc = "idle" /\ \A v \in Workers \ {w} : req'[v] = req[v]
        /\ UNCHANGED <<signin, rt, old, underway, byToken, failed>>
    BY <2>1, <2>2 DEF LogoutStarts, Become, AccType
  <2>4. \A x \in Browsers : at'[x] = "valid" => at[x] = "valid"
    BY <2>1 DEF LogoutStarts, AccType, SessionType
  <2>5. LoginAlone' /\ EntriesAreKnown'
    BY <2>2, <2>3 DEF SessInv, LoginAlone, EntriesAreKnown
  <2>6. SigningIn' \subseteq SigningIn
    BY <2>2, <2>3 DEF SigningIn
  <2>7. LocksHold'
    BY <2>2, <2>3, <2>4, <2>6 DEF SessInv, LocksHold, AccType, Requests
  <2>8. OldSessionsEnd'
    BY <2>2, <2>3, <2>4 DEF SessInv, OldSessionsEnd, AccType, SessionType
  <2> QED BY <2>5, <2>7, <2>8 DEF SessInv
<1>2. CASE LogoutRevokesOwn(w)
  <2>1. PICK q \in Requests : q = req[w]
    BY DEF AccType
  <2>2. PICK r \in Requests : r.pc \in {"sweep", "clear"} /\ Become(w, r)
    BY <1>2, <2>1, AdvanceType DEF LogoutRevokesOwn, Advance
  <2>3. /\ req'[w] = r /\ req[w].pc = "own" /\ \A v \in Workers \ {w} : req'[v] = req[v]
        /\ UNCHANGED <<signin, at, old, underway, byToken, failed>>
        /\ \A x \in Browsers : rt'[x] = "live" => rt[x] = "live"
    BY <1>2, <2>2 DEF LogoutRevokesOwn, Become, AccType, SessionType
  <2>4. LoginAlone' /\ EntriesAreKnown'
    BY <2>2, <2>3 DEF SessInv, LoginAlone, EntriesAreKnown
  <2>5. SigningIn' \subseteq SigningIn
    BY <2>2, <2>3 DEF SigningIn
  <2>6. LocksHold'
    BY <2>2, <2>3, <2>5 DEF SessInv, LocksHold
  <2>7. OldSessionsEnd'
    BY <2>2, <2>3 DEF SessInv, OldSessionsEnd, AccType, SessionType
  <2> QED BY <2>4, <2>6, <2>7 DEF SessInv
<1>3. CASE LogoutClears(w)
  <2>1. /\ req'[w] = Idle /\ Idle.pc = "idle" /\ req[w].pc = "clear"
        /\ \A v \in Workers \ {w} : req'[v] = req[v]
        /\ UNCHANGED <<rt, at, old, underway, byToken, failed>>
        /\ \A x \in Browsers : signin'[x] = signin[x] \/ signin'[x] = "out"
    BY <1>3, IdleType DEF LogoutClears, Become, AccType
  <2>2. LoginAlone'
    BY <2>1 DEF SessInv, LoginAlone, AccType, Requests
  <2>3. EntriesAreKnown'
    BY <2>1 DEF SessInv, EntriesAreKnown, AccType, SessionType
  <2>4. SigningIn' \subseteq SigningIn
    BY <2>1 DEF SigningIn
  <2>5. LocksHold'
    BY <2>1, <2>4 DEF SessInv, LocksHold
  <2>6. OldSessionsEnd'
    BY <2>1 DEF SessInv, OldSessionsEnd
  <2> QED BY <2>2, <2>3, <2>5, <2>6 DEF SessInv
<1> QED BY <1>1, <1>2, <1>3

LEMMA RevokeOwnKeeps ==
  ASSUME AccType, SessInv, NEW b \in Browsers, NEW s \in Browsers, RevokeOwnSession(b, s)
  PROVE  SessInv'
<1>1. /\ \A x \in Browsers : rt'[x] = "live" => rt[x] = "live"
      /\ UNCHANGED <<signin, at, req, old, underway, byToken, failed>>
  BY DEF RevokeOwnSession, AccType, SessionType
<1>2. SigningIn' = SigningIn
  BY <1>1 DEF SigningIn
<1>3. LoginAlone' /\ EntriesAreKnown' /\ LocksHold'
  BY <1>1, <1>2 DEF SessInv, LoginAlone, EntriesAreKnown, LocksHold
<1>4. OldSessionsEnd'
  BY <1>1 DEF SessInv, OldSessionsEnd, AccType, SessionType
<1> QED BY <1>3, <1>4 DEF SessInv

-----------------------------------------------------------------------------
(* Sequences of passwords *)

LEMMA NewestIs ==
  ASSUME NEW S, NEW s \in Seq(S), NEW n \in Nat
  PROVE  \E m \in Nat : /\ m <= Len(s) /\ m <= n /\ (m = Len(s) \/ m = n)
                        /\ Newest(s, n) \in Seq(S) /\ Len(Newest(s, n)) = m
                        /\ DOMAIN Newest(s, n) = 1..m
                        /\ \A i \in 1..m : Newest(s, n)[i] = s[i]
<1> DEFINE m == IF Len(s) < n THEN Len(s) ELSE n
<1>1. m \in Nat /\ m <= Len(s) /\ m <= n /\ (m = Len(s) \/ m = n)
  OBVIOUS
<1>2. Newest(s, n) = SubSeq(s, 1, m)
  BY DEF Newest
<1> HIDE DEF m
<1>3. /\ SubSeq(s, 1, m) \in Seq(S) /\ Len(SubSeq(s, 1, m)) = m
      /\ DOMAIN SubSeq(s, 1, m) = 1..m
      /\ \A i \in 1..m : SubSeq(s, 1, m)[i] = s[i]
  BY <1>1
<1> QED BY <1>1, <1>2, <1>3

LEMMA PrependIs ==
  ASSUME NEW S, NEW s \in Seq(S), NEW x \in S
  PROVE  /\ <<x>> \o s \in Seq(S) /\ Len(<<x>> \o s) = Len(s) + 1
         /\ (<<x>> \o s)[1] = x
         /\ \A i \in 2..(Len(s) + 1) : (<<x>> \o s)[i] = s[i - 1]
OBVIOUS

LEMMA NextHistoryType == ASSUME NEW seen \in Rows PROVE NextHistory(seen) \in Seq(Passwords)
<1>1. seen.history \in Seq(Passwords) /\ seen.hash \in Passwords \cup {None}
  BY DEF Rows, Hashes
<1>2. CASE seen.hash = None
  BY <1>1, <1>2 DEF NextHistory
<1>3. CASE seen.hash # None
  <2>1. <<seen.hash>> \o seen.history \in Seq(Passwords)
    BY <1>1, <1>3, PrependIs
  <2>2. Newest(<<seen.hash>> \o seen.history, HistoryMax) \in Seq(Passwords)
    BY <2>1, NewestIs, HistoryAssumption
  <2> QED BY <1>3, <2>2 DEF NextHistory
<1> QED BY <1>2, <1>3

-----------------------------------------------------------------------------
(* Types *)

LEMMA BecomeType ==
  ASSUME AccType, NEW w \in Workers, NEW r \in Requests, Become(w, r)
  PROVE  /\ req' \in [Workers -> Requests]
         /\ req'[w] = r /\ \A v \in Workers \ {w} : req'[v] = req[v]
BY DEF AccType, Become

LEMMA WriteKeepsType ==
  ASSUME AccType, NEW w \in Workers, WritePassword(req[w]), req[w].new \in Passwords
  PROVE  RowType' /\ row'.hash = req[w].new /\ row'.history = NextHistory(req[w].seen)
<1>1. PICK q \in Requests : q = req[w]
  BY DEF AccType
<1>2. q.seen \in Rows /\ q.new \in Passwords
  BY <1>1 DEF Requests
<1>3. NextHistory(q.seen) \in Seq(Passwords)
  BY <1>2, NextHistoryType
<1>4. row' = [hash |-> q.new, history |-> NextHistory(q.seen)]
  BY <1>1 DEF WritePassword
<1>5. row' \in Rows
  BY <1>2, <1>3, <1>4 DEF Rows, Hashes
<1>6. past' \in Seq(Hashes)
  <2>1. row.hash \in Hashes /\ past \in Seq(Hashes)
    BY DEF AccType, RowType, Rows
  <2> QED BY <2>1, PrependIs DEF WritePassword
<1>7. raced' \in BOOLEAN
  BY DEF WritePassword
<1> QED BY <1>1, <1>4, <1>5, <1>6, <1>7 DEF RowType

LEMMA SweepType ==
  ASSUME AccType, NEW rows \in SUBSET Browsers, NEW who \in SUBSET Browsers, SweepRows(rows, who),
         UNCHANGED <<signin, at, failed>>
  PROVE  SessionType'
BY DEF AccType, SessionType, SweepRows, Ended

LEMMA BlockType ==
  ASSUME AccType, BlockAll, UNCHANGED <<signin, rt, old, underway, byToken>>
  PROVE  SessionType'
BY DEF AccType, SessionType, BlockAll

LEMMA SetsType ==
  ASSUME AccType
  PROVE  SigningIn \in SUBSET Browsers /\ LiveRows \in SUBSET Browsers
BY DEF SigningIn, LiveRows, AccType, Requests

\* What a handler's record becomes in every step of a change, a reset, a forced
\* log-out or a log-out, and at the end of a login.
LEMMA HandlerSteps ==
  ASSUME AccType, NEW w \in Workers
  PROVE  /\ LoginSigns(w) => Become(w, Idle)
         /\ \A b \in Browsers, p \in Passwords : ChangeReads(w, b, p) =>
              \E r \in Requests : Become(w, r) /\ r.pc = "write" /\ r.seen = row /\ r.new = p
         /\ ChangeWrites(w) => \E r \in Requests : Become(w, r) /\ r.pc = "sweep"
         /\ ChangeSweeps(w) => \E r \in Requests : Become(w, r) /\ r.pc = "block"
         /\ \A p \in Passwords : ResetReads(w, p) =>
              \E r \in Requests : Become(w, r) /\ r.pc = "write" /\ r.seen = row /\ r.new = p
         /\ \A p \in Passwords : ResetRefused(w, p) => \E r \in Requests : Become(w, r) /\ r.pc = "block"
         /\ ResetCommits(w) => \E r \in Requests : Become(w, r) /\ r.pc = "block"
         /\ LogoutRevokesOwn(w) => \E r \in Requests : Become(w, r) /\ r.pc \in {"sweep", "clear"}
         /\ LogoutSweeps(w) => \E r \in Requests : Become(w, r) /\ r.pc = "block"
         /\ LogoutBlocks(w) => \E r \in Requests : Become(w, r) /\ r.pc = "clear"
<1>0. PICK q \in Requests : q = req[w]
  BY DEF AccType
<1>1. row \in Rows
  BY DEF AccType, RowType
<1>2. ASSUME NEW p \in Passwords
      PROVE  /\ \A b \in Browsers : ChangeReads(w, b, p) =>
                  \E r \in Requests : Become(w, r) /\ r.pc = "write" /\ r.seen = row /\ r.new = p
             /\ ResetReads(w, p) =>
                  \E r \in Requests : Become(w, r) /\ r.pc = "write" /\ r.seen = row /\ r.new = p
             /\ ResetRefused(w, p) => \E r \in Requests : Become(w, r) /\ r.pc = "block"
  <2>1. PICK r1 \in Requests :
          /\ r1 = [Idle EXCEPT !.pc = "write", !.kind = "change", !.seen = row, !.new = p]
          /\ r1.pc = "write" /\ r1.seen = row /\ r1.new = p
    BY <1>1, WriteType
  <2>2. PICK r2 \in Requests :
          /\ r2 = [Idle EXCEPT !.pc = "write", !.kind = "reset", !.seen = row, !.new = p]
          /\ r2.pc = "write" /\ r2.seen = row /\ r2.new = p
    BY <1>1, WriteType
  <2>3. PICK r3 \in Requests : r3 = [Idle EXCEPT !.pc = "block", !.kind = "reset"] /\ r3.pc = "block"
    BY NextType
  <2> QED BY <2>1, <2>2, <2>3 DEF ChangeReads, ResetReads, ResetRefused
<1>3. PICK r4 \in Requests : r4 = [Idle EXCEPT !.pc = "sweep", !.kind = "change"] /\ r4.pc = "sweep"
  BY NextType
<1>4. PICK r5 \in Requests : r5 = [Idle EXCEPT !.pc = "block", !.kind = "reset"] /\ r5.pc = "block"
  BY NextType
<1>5. \A pc \in {"sweep", "block", "clear"} : \E r \in Requests : r = [req[w] EXCEPT !.pc = pc] /\ r.pc = pc
  BY <1>0, AdvanceType
<1>6. ChangeWrites(w) => \E r \in Requests : Become(w, r) /\ r.pc = "sweep"
  BY <1>3 DEF ChangeWrites
<1>7. ResetCommits(w) => \E r \in Requests : Become(w, r) /\ r.pc = "block"
  BY <1>4 DEF ResetCommits
<1>8. /\ ChangeSweeps(w) => \E r \in Requests : Become(w, r) /\ r.pc = "block"
      /\ LogoutSweeps(w) => \E r \in Requests : Become(w, r) /\ r.pc = "block"
      /\ LogoutBlocks(w) => \E r \in Requests : Become(w, r) /\ r.pc = "clear"
  BY <1>5 DEF ChangeSweeps, LogoutSweeps, LogoutBlocks, Advance
<1>9. LogoutRevokesOwn(w) => \E r \in Requests : Become(w, r) /\ r.pc \in {"sweep", "clear"}
  BY <1>5 DEF LogoutRevokesOwn, Advance
<1>10. LoginSigns(w) => Become(w, Idle)
  BY DEF LoginSigns
<1> QED BY <1>2, <1>6, <1>7, <1>8, <1>9, <1>10

LEMMA QuietType ==
  ASSUME AccType, UNCHANGED sessionVars PROVE SessionType'
BY DEF AccType, SessionType, sessionVars

LEMMA RowQuietType ==
  ASSUME AccType, UNCHANGED rowVars PROVE RowType'
BY DEF AccType, RowType, rowVars

LEMMA LoginReadsType ==
  ASSUME AccType, NEW w \in Workers, NEW b \in Browsers, LoginReads(w, b) PROVE AccType'
<1>1. SessionType'
  BY DEF LoginReads, AccType, SessionType
<1>2. RowType'
  BY RowQuietType DEF LoginReads
<1>3. PICK r \in Requests : /\ r = [Idle EXCEPT !.pc = "login", !.who = {b}]
                            /\ r.pc = "login" /\ r.who = {b} /\ r.rows = {}
  BY LoginType
<1>4. \A v \in Workers : req[v] \in Requests /\ [req[v] EXCEPT !.who = @ \ {b}, !.rows = @ \ {b}] \in Requests
  <2> SUFFICES ASSUME NEW v \in Workers
               PROVE req[v] \in Requests /\ [req[v] EXCEPT !.who = @ \ {b}, !.rows = @ \ {b}] \in Requests
    OBVIOUS
  <2>1. PICK q \in Requests : q = req[v]
    BY DEF AccType
  <2>2. [q EXCEPT !.who = @ \ {b}, !.rows = @ \ {b}] \in Requests
    BY DEF Requests
  <2> QED BY <2>1, <2>2
<1>5. req' = [v \in Workers |->
               IF v = w THEN r
               ELSE IF req[v].pc = "commit"
               THEN [req[v] EXCEPT !.who = @ \ {b}, !.rows = @ \ {b}] ELSE req[v]]
  BY <1>3 DEF LoginReads
<1>6. req' \in [Workers -> Requests]
  BY <1>4, <1>5
<1> QED BY <1>1, <1>2, <1>6 DEF AccType

LEMMA RedeemType ==
  ASSUME AccType, NEW b \in Browsers, RedeemCode(b) PROVE AccType'
<1>1. SessionType'
  BY DEF RedeemCode, AccType, SessionType
<1>2. RowType'
  BY RowQuietType DEF RedeemCode
<1>3. \A v \in Workers : req[v] \in Requests /\ [req[v] EXCEPT !.rows = @ \ {b}] \in Requests
  <2> SUFFICES ASSUME NEW v \in Workers
               PROVE req[v] \in Requests /\ [req[v] EXCEPT !.rows = @ \ {b}] \in Requests
    OBVIOUS
  <2>1. PICK q \in Requests : q = req[v]
    BY DEF AccType
  <2>2. [q EXCEPT !.rows = @ \ {b}] \in Requests
    BY DEF Requests
  <2> QED BY <2>1, <2>2
<1>4. req' \in [Workers -> Requests]
  BY <1>3 DEF RedeemCode
<1> QED BY <1>1, <1>2, <1>4 DEF AccType

LEMMA NextKeepsType == ASSUME AccType, NewIsNew, [Next]_vars PROVE AccType'
<1>1. Idle \in Requests
  BY IdleType
<1>2. CASE UNCHANGED vars
  BY <1>2 DEF vars, AccType, SessionType, RowType
<1>3. ASSUME NEW w \in Workers, SignIn(w) PROVE AccType'
  <2>1. CASE \E b \in Browsers : LoginReads(w, b)
    BY <2>1, LoginReadsType
  <2>2. CASE LoginSigns(w)
    <3>1. SessionType'
      BY <2>2 DEF LoginSigns, AccType, SessionType
    <3>2. req' \in [Workers -> Requests]
      BY <1>1, <2>2, BecomeType DEF LoginSigns
    <3> QED BY <2>2, <3>1, <3>2, RowQuietType DEF LoginSigns, AccType
  <2> QED BY <1>3, <2>1, <2>2 DEF SignIn
<1>4. ASSUME NEW w \in Workers, Change(w) PROVE AccType'
  <2>1. CASE \E b \in Browsers, p \in Passwords : ChangeReads(w, b, p)
    <3>1. PICK r \in Requests : Become(w, r)
      BY <2>1, HandlerSteps
    <3> QED BY <2>1, <3>1, BecomeType, QuietType, RowQuietType DEF ChangeReads, AccType
  <2>2. CASE ChangeWrites(w)
    <3>1. PICK r \in Requests : Become(w, r)
      BY <2>2, HandlerSteps
    <3>2. RowType'
      BY <2>2, WriteKeepsType DEF ChangeWrites, NewIsNew
    <3> QED BY <2>2, <3>1, <3>2, BecomeType, QuietType DEF ChangeWrites, AccType
  <2>3. CASE ChangeSweeps(w)
    <3>1. PICK r \in Requests : Become(w, r)
      BY <2>3, HandlerSteps
    <3>2. UNCHANGED rowVars /\ UNCHANGED <<signin, at, failed>>
      BY <2>3 DEF ChangeSweeps, rowVars
    <3>3. SweepRows(LiveRows, SigningIn) \/ UNCHANGED <<rt, old, underway, byToken>>
      BY <2>3 DEF ChangeSweeps
    <3>4. SessionType'
      BY <3>2, <3>3, SetsType, SweepType, QuietType DEF sessionVars
    <3> QED BY <3>1, <3>2, <3>4, BecomeType, RowQuietType DEF AccType
  <2>4. CASE Blocks(w)
    <3>1. BlockAll /\ Become(w, Idle) /\ UNCHANGED rowVars
            /\ UNCHANGED <<signin, rt, old, underway, byToken>>
      BY <2>4 DEF Blocks, rowVars
    <3> QED BY <1>1, <3>1, BecomeType, BlockType, RowQuietType DEF AccType
  <2> QED BY <1>4, <2>1, <2>2, <2>3, <2>4 DEF Change
<1>5. ASSUME NEW w \in Workers, Reset(w) PROVE AccType'
  <2>1. CASE \E p \in Passwords : ResetReads(w, p) \/ ResetRefused(w, p)
    <3>1. PICK r \in Requests : Become(w, r)
      BY <2>1, HandlerSteps
    <3>2. UNCHANGED rowVars /\ UNCHANGED sessionVars
      BY <2>1 DEF ResetReads, ResetRefused, rowVars, sessionVars
    <3> QED BY <3>1, <3>2, BecomeType, QuietType, RowQuietType DEF AccType
  <2>2. CASE ResetCommits(w)
    <3>1. PICK r \in Requests : Become(w, r)
      BY <2>2, HandlerSteps
    <3>2. RowType'
      BY <2>2, WriteKeepsType DEF ResetCommits, NewIsNew
    <3>3. SessionType'
      BY <2>2, SetsType, SweepType DEF ResetCommits
    <3> QED BY <3>1, <3>2, <3>3, BecomeType DEF AccType
  <2>3. CASE ResetAborts(w)
    BY <1>1, <2>3, BecomeType, QuietType, RowQuietType DEF ResetAborts, AccType
  <2> QED BY <1>5, <2>1, <2>2, <2>3 DEF Reset
<1>6. ASSUME NEW w \in Workers, ForceLogout(w) PROVE AccType'
  <2>1. CASE ForceRevokes(w)
    <3>1. PICK r \in Requests :
            /\ r = [Idle EXCEPT !.pc = "commit", !.kind = "force", !.who = SigningIn, !.rows = LiveRows]
            /\ r.pc = "commit" /\ r.who = SigningIn /\ r.rows = LiveRows
      BY SetsType, ForceType
    <3>2. BlockAll /\ Become(w, r) /\ UNCHANGED rowVars
            /\ UNCHANGED <<signin, rt, old, underway, byToken>>
      BY <2>1, <3>1 DEF ForceRevokes, rowVars
    <3> QED BY <3>2, BecomeType, BlockType, RowQuietType DEF AccType
  <2>2. CASE ForceCommits(w)
    <3>1. req[w].rows \in SUBSET Browsers /\ req[w].who \in SUBSET Browsers
      BY DEF AccType, Requests
    <3>2. SessionType'
      BY <2>2, <3>1, SweepType DEF ForceCommits
    <3> QED BY <1>1, <2>2, <3>2, BecomeType, RowQuietType DEF ForceCommits, AccType
  <2>3. CASE ForceAborts(w)
    BY <1>1, <2>3, BecomeType, QuietType, RowQuietType DEF ForceAborts, AccType
  <2> QED BY <1>6, <2>1, <2>2, <2>3 DEF ForceLogout
<1>7. ASSUME NEW w \in Workers, Logout(w) PROVE AccType'
  <2>1. CASE \E b \in Browsers : LogoutStarts(w, b)
    <3>1. PICK b \in Browsers : LogoutStarts(w, b)
      BY <2>1
    <3>2. PICK r \in Requests : Become(w, r)
      BY <3>1, LogoutType DEF LogoutStarts
    <3>3. SessionType'
      BY <3>1 DEF LogoutStarts, AccType, SessionType
    <3> QED BY <3>1, <3>2, <3>3, BecomeType, RowQuietType DEF LogoutStarts, AccType
  <2>2. CASE LogoutRevokesOwn(w)
    <3>1. PICK r \in Requests : Become(w, r)
      BY <2>2, HandlerSteps
    <3>2. SessionType'
      BY <2>2 DEF LogoutRevokesOwn, AccType, SessionType
    <3> QED BY <2>2, <3>1, <3>2, BecomeType, RowQuietType DEF LogoutRevokesOwn, AccType
  <2>3. CASE LogoutSweeps(w)
    <3>1. PICK r \in Requests : Become(w, r)
      BY <2>3, HandlerSteps
    <3>2. UNCHANGED rowVars /\ UNCHANGED <<signin, at, failed>>
      BY <2>3 DEF LogoutSweeps, rowVars
    <3>3. SweepRows(LiveRows, SigningIn) \/ UNCHANGED <<rt, old, underway, byToken>>
      BY <2>3 DEF LogoutSweeps
    <3>4. SessionType'
      BY <3>2, <3>3, SetsType, SweepType, QuietType DEF sessionVars
    <3> QED BY <3>1, <3>2, <3>4, BecomeType, RowQuietType DEF AccType
  <2>4. CASE LogoutBlocks(w)
    <3>1. PICK r \in Requests : Become(w, r)
      BY <2>4, HandlerSteps
    <3>2. BlockAll /\ UNCHANGED rowVars /\ UNCHANGED <<signin, rt, old, underway, byToken>>
      BY <2>4 DEF LogoutBlocks, rowVars
    <3> QED BY <3>1, <3>2, BecomeType, BlockType, RowQuietType DEF AccType
  <2>5. CASE LogoutClears(w)
    <3>1. SessionType'
      BY <2>5 DEF LogoutClears, AccType, SessionType
    <3> QED BY <1>1, <2>5, <3>1, BecomeType, RowQuietType DEF LogoutClears, AccType
  <2> QED BY <1>7, <2>1, <2>2, <2>3, <2>4, <2>5 DEF Logout
<1>8. ASSUME NEW b \in Browsers, IssueCode(b) \/ Reauthorize(b) \/ RedeemCode(b) \/ Rotate(b) PROVE AccType'
  <2>1. CASE RedeemCode(b)
    BY <2>1, RedeemType
  <2>2. CASE IssueCode(b) \/ Reauthorize(b) \/ Rotate(b)
    <3>1. SessionType'
      BY <2>2 DEF IssueCode, Reauthorize, Rotate, AccType, SessionType
    <3>2. UNCHANGED rowVars /\ UNCHANGED req
      BY <2>2 DEF IssueCode, Reauthorize, Rotate, rowVars
    <3> QED BY <3>1, <3>2, RowQuietType DEF AccType
  <2> QED BY <1>8, <2>1, <2>2
<1>9. ASSUME NEW b \in Browsers, NEW s \in Browsers, RevokeOwnSession(b, s) PROVE AccType'
  <2>1. SessionType'
    BY <1>9 DEF RevokeOwnSession, AccType, SessionType
  <2> QED BY <1>9, <2>1, RowQuietType DEF RevokeOwnSession, AccType
<1> QED BY <1>2, <1>3, <1>4, <1>5, <1>6, <1>7, <1>8, <1>9 DEF Next

-----------------------------------------------------------------------------
(* Sessions, whole steps *)

\* A handler goes on to another step than a login or a lock, and no session changes.
LEMMA QuietSteps ==
  ASSUME AccType, SessInv, NEW w \in Workers, UNCHANGED sessionVars,
         \E r \in Requests : /\ Become(w, r) /\ r.pc \notin {"login", "commit"}
                             /\ req[w].pc = "block" => r.pc = "block"
  PROVE  SessInv'
BY QuietKeeps DEF sessionVars

LEMMA NextKeepsSess == ASSUME AccType, SessInv, [Next]_vars PROVE SessInv'
<1>1. Idle \in Requests /\ Idle.pc = "idle"
  BY IdleType
<1>2. CASE UNCHANGED vars
  <2>1. SigningIn' = SigningIn
    BY <1>2 DEF vars, SigningIn
  <2> QED BY <1>2, <2>1 DEF vars, SessInv, LoginAlone, EntriesAreKnown, LocksHold, OldSessionsEnd
<1>3. ASSUME NEW w \in Workers, SignIn(w) PROVE SessInv'
  BY <1>3, LoginReadsKeeps, LoginSignsKeeps DEF SignIn
<1>4. ASSUME NEW w \in Workers, Change(w) PROVE SessInv'
  <2>1. CASE \E b \in Browsers, p \in Passwords : ChangeReads(w, b, p)
    <3>1. PICK r \in Requests : Become(w, r) /\ r.pc = "write"
      BY <2>1, HandlerSteps
    <3>2. UNCHANGED sessionVars /\ req[w].pc = "idle"
      BY <2>1 DEF ChangeReads
    <3> QED BY <3>1, <3>2, QuietSteps
  <2>2. CASE ChangeWrites(w)
    <3>1. PICK r \in Requests : Become(w, r) /\ r.pc = "sweep"
      BY <2>2, HandlerSteps
    <3>2. UNCHANGED sessionVars /\ req[w].pc = "write"
      BY <2>2 DEF ChangeWrites
    <3> QED BY <3>1, <3>2, QuietSteps
  <2>3. CASE ChangeSweeps(w)
    <3>1. PICK r \in Requests : Become(w, r) /\ r.pc = "block"
      BY <2>3, HandlerSteps
    <3>2. UNCHANGED <<signin, at, failed>> /\ req[w].pc = "sweep"
      BY <2>3 DEF ChangeSweeps
    <3>3. CASE SweepRows(LiveRows, SigningIn)
      BY <3>1, <3>2, <3>3, SweepKeeps
    <3>4. CASE UNCHANGED <<rt, old, underway, byToken>>
      BY <3>1, <3>2, <3>4, QuietSteps DEF sessionVars
    <3> QED BY <2>3, <3>3, <3>4 DEF ChangeSweeps
  <2>4. CASE Blocks(w)
    BY <1>1, <2>4, BlockKeeps DEF Blocks
  <2> QED BY <1>4, <2>1, <2>2, <2>3, <2>4 DEF Change
<1>5. ASSUME NEW w \in Workers, Reset(w) PROVE SessInv'
  <2>1. CASE \E p \in Passwords : ResetReads(w, p)
    <3>1. PICK r \in Requests : Become(w, r) /\ r.pc = "write"
      BY <2>1, HandlerSteps
    <3>2. UNCHANGED sessionVars /\ req[w].pc = "idle"
      BY <2>1 DEF ResetReads
    <3> QED BY <3>1, <3>2, QuietSteps
  <2>2. CASE \E p \in Passwords : ResetRefused(w, p)
    <3>1. PICK r \in Requests : Become(w, r) /\ r.pc = "block"
      BY <2>2, HandlerSteps
    <3>2. UNCHANGED sessionVars /\ req[w].pc = "idle"
      BY <2>2 DEF ResetRefused
    <3> QED BY <3>1, <3>2, QuietSteps
  <2>3. CASE ResetCommits(w)
    <3>1. PICK r \in Requests : Become(w, r) /\ r.pc = "block"
      BY <2>3, HandlerSteps
    <3> QED BY <2>3, <3>1, SweepKeeps DEF ResetCommits
  <2>4. CASE ResetAborts(w)
    <3>1. req[w].pc = "write" /\ Become(w, Idle) /\ UNCHANGED sessionVars
      BY <2>4 DEF ResetAborts
    <3> QED BY <1>1, <3>1, QuietSteps
  <2> QED BY <1>5, <2>1, <2>2, <2>3, <2>4 DEF Reset
<1>6. ASSUME NEW w \in Workers, ForceLogout(w) PROVE SessInv'
  <2>1. CASE ForceAborts(w)
    <3>1. req[w].pc = "commit" /\ Become(w, Idle) /\ UNCHANGED sessionVars
      BY <2>1 DEF ForceAborts
    <3> QED BY <1>1, <3>1, QuietSteps
  <2> QED BY <1>6, <2>1, ForceRevokesKeeps, ForceCommitsKeeps DEF ForceLogout
<1>7. ASSUME NEW w \in Workers, Logout(w) PROVE SessInv'
  <2>1. CASE LogoutSweeps(w)
    <3>1. PICK r \in Requests : Become(w, r) /\ r.pc = "block"
      BY <2>1, HandlerSteps
    <3>2. UNCHANGED <<signin, at, failed>> /\ req[w].pc = "sweep"
      BY <2>1 DEF LogoutSweeps
    <3>3. CASE SweepRows(LiveRows, SigningIn)
      BY <3>1, <3>2, <3>3, SweepKeeps
    <3>4. CASE UNCHANGED <<rt, old, underway, byToken>>
      BY <3>1, <3>2, <3>4, QuietSteps DEF sessionVars
    <3> QED BY <2>1, <3>3, <3>4 DEF LogoutSweeps
  <2>2. CASE LogoutBlocks(w)
    <3>1. PICK r \in Requests : Become(w, r) /\ r.pc = "clear"
      BY <2>2, HandlerSteps
    <3> QED BY <2>2, <3>1, BlockKeeps DEF LogoutBlocks
  <2> QED BY <1>7, <2>1, <2>2, LogoutKeeps DEF Logout
<1> QED BY <1>2, <1>3, <1>4, <1>5, <1>6, <1>7, BrowserKeeps, RedeemKeeps, RevokeOwnKeeps DEF Next

-----------------------------------------------------------------------------
(* The password history *)

\* The passwords the new one is compared with are the ones that were in force last.
LEMMA HistoryHolds ==
  ASSUME AccType, HistInv, NEW w \in Workers, req[w].pc = "write", WritePassword(req[w])
  PROVE  (row'.hash = None => past' = << >>) /\ HistoryIsPast'
<1>1. PICK q \in Requests : q = req[w]
  BY DEF AccType
<1>2. q.new \in Passwords /\ row' = [hash |-> q.new, history |-> NextHistory(q.seen)]
  BY <1>1 DEF HistInv, NewIsNew, WritePassword
<1>3. row'.hash # None
  BY <1>2, PasswordAssumption
<1>4. HistoryIsPast'
  <2> SUFFICES ASSUME ~raced', NEW i \in 1..HistoryMax, i \in DOMAIN past', past'[i] # None
               PROVE  i \in DOMAIN row'.history /\ row'.history[i] = past'[i]
    BY DEF HistoryIsPast
  <2>1. ~raced /\ q.seen = row
    BY <1>1 DEF WritePassword
  <2>2. PICK h \in Seq(Passwords) : h = row.history
    BY DEF AccType, RowType, Rows
  <2>3. PICK p \in Seq(Hashes) : p = past
    BY DEF AccType, RowType
  <2>4. PICK c \in Hashes : c = row.hash
    BY DEF AccType, RowType, Rows
  <2>5. past' = <<c>> \o p
    BY <2>3, <2>4 DEF WritePassword
  <2>6. \/ i = 1 /\ past'[i] = c
        \/ i \in 2..(Len(p) + 1) /\ past'[i] = p[i - 1]
    <3>1. /\ past' \in Seq(Hashes) /\ Len(past') = Len(p) + 1 /\ past'[1] = c
          /\ \A k \in 2..(Len(p) + 1) : past'[k] = p[k - 1]
      <4>1. /\ <<c>> \o p \in Seq(Hashes) /\ Len(<<c>> \o p) = Len(p) + 1
            /\ (<<c>> \o p)[1] = c
            /\ \A k \in 2..(Len(p) + 1) : (<<c>> \o p)[k] = p[k - 1]
        BY PrependIs
      <4> QED BY <2>5, <4>1, Zenon
    <3>2. PICK a \in Seq(Hashes) : a = past'
      BY <3>1
    <3>3. i \in 1..Len(a)
      BY <3>2
    <3>4. Len(a) = Len(p) + 1 /\ Len(p) \in Nat
      BY <3>1, <3>2
    <3>5. i = 1 \/ i \in 2..(Len(p) + 1)
      BY <3>3, <3>4
    <3>6. CASE i = 1
      BY <3>1, <3>6, Zenon
    <3>7. CASE i \in 2..(Len(p) + 1)
      BY <3>1, <3>7, Zenon
    <3> QED BY <3>5, <3>6, <3>7, Zenon
  <2>7. CASE c = None
    <3>1. p = << >>
      BY <2>3, <2>4, <2>7 DEF HistInv
    <3> QED BY <2>6, <2>7, <3>1
  <2>8. CASE c # None
    <3>1. c \in Passwords
      BY <2>8 DEF Hashes
    <3>2. PICK all \in Seq(Passwords) : all = <<c>> \o h
      BY <3>1, PrependIs
    <3>3. /\ Len(all) = Len(h) + 1 /\ all[1] = c
          /\ \A k \in 2..(Len(h) + 1) : all[k] = h[k - 1]
      BY <3>1, <3>2, PrependIs
    <3>4. row'.history = Newest(all, HistoryMax)
      BY <1>2, <2>1, <2>2, <2>4, <2>8, <3>2 DEF NextHistory
    <3>5. PICK m \in Nat : /\ m = Len(all) \/ m = HistoryMax
                           /\ DOMAIN Newest(all, HistoryMax) = 1..m
                           /\ \A k \in 1..m : Newest(all, HistoryMax)[k] = all[k]
      BY NewestIs, HistoryAssumption, ZenonT(60)
    <3>6. CASE i = 1
      BY <2>6, <3>3, <3>4, <3>5, <3>6, HistoryAssumption
    <3>7. CASE i # 1
      <4>1. i \in 2..(Len(p) + 1) /\ past'[i] = p[i - 1]
        BY <2>6, <3>7
      <4>2. i - 1 \in 1..HistoryMax /\ i - 1 \in DOMAIN past /\ past[i - 1] # None
        BY <2>3, <4>1, HistoryAssumption
      <4>3. i - 1 \in DOMAIN h /\ h[i - 1] = p[i - 1]
        BY <2>1, <2>2, <2>3, <4>2 DEF HistInv, HistoryIsPast
      <4>4. i \in 2..(Len(h) + 1) /\ all[i] = p[i - 1]
        BY <3>3, <4>1, <4>3
      <4>5. i \in 1..m
        BY <3>3, <3>5, <4>4
      <4> QED BY <3>4, <3>5, <4>1, <4>4, <4>5
    <3> QED BY <3>6, <3>7
  <2> QED BY <2>7, <2>8
<1> QED BY <1>3, <1>4

\* No handler has a new password that it did not compare.
LEMMA NewStays ==
  ASSUME NewIsNew,
         \A v \in Workers : req'[v].pc = "write" =>
           \/ req'[v] = req[v]
           \/ /\ req'[v].seen = row /\ req'[v].new \in Passwords
              /\ ~Reused(req'[v].new, row)
  PROVE  NewIsNew'
<1> SUFFICES ASSUME NEW v \in Workers, req'[v].pc = "write"
             PROVE  req'[v].new \in Passwords /\ ~Reused(req'[v].new, req'[v].seen)
  BY DEF NewIsNew
<1>1. CASE req'[v] = req[v]
  BY <1>1, Zenon DEF NewIsNew
<1>2. CASE /\ req'[v].seen = row /\ req'[v].new \in Passwords
           /\ ~Reused(req'[v].new, row)
  BY <1>2, Zenon
<1> QED BY <1>1, <1>2

LEMMA NewStaysWorker ==
  ASSUME AccType, NewIsNew, NEW w \in Workers, NEW r \in Requests, Become(w, r),
         r.pc = "write" => r.seen = row /\ r.new \in Passwords /\ ~Reused(r.new, row)
  PROVE  NewIsNew'
<1>1. req'[w] = r /\ \A v \in Workers \ {w} : req'[v] = req[v]
  BY BecomeType
<1> SUFFICES ASSUME NEW v \in Workers, req'[v].pc = "write"
             PROVE \/ req'[v] = req[v]
                   \/ /\ req'[v].seen = row /\ req'[v].new \in Passwords
                      /\ ~Reused(req'[v].new, row)
  BY NewStays
<1>2. CASE v = w
  BY <1>1, <1>2, Zenon
<1>3. CASE v # w
  BY <1>1, <1>3
<1> QED BY <1>2, <1>3

LEMMA RowStays ==
  ASSUME HistInv, UNCHANGED rowVars, NewIsNew' PROVE HistInv'
BY DEF HistInv, HistoryIsPast, rowVars

LEMMA NextKeepsHist == ASSUME AccType, HistInv, [Next]_vars PROVE HistInv'
<1>1. Idle \in Requests /\ Idle.pc = "idle"
  BY IdleType
<1>2. NewIsNew
  BY DEF HistInv
<1>3. CASE UNCHANGED vars
  <2>1. NewIsNew'
    BY <1>2, <1>3, NewStays DEF vars
  <2> QED BY <1>3, <2>1, RowStays DEF vars, rowVars
<1>4. ASSUME NEW w \in Workers, NEW r \in Requests, Become(w, r), r.pc # "write", UNCHANGED rowVars
      PROVE  HistInv'
  BY <1>2, <1>4, NewStaysWorker, RowStays
<1>5. ASSUME NEW w \in Workers, NEW r \in Requests, Become(w, r), r.pc # "write",
             req[w].pc = "write", WritePassword(req[w])
      PROVE  HistInv'
  <2>1. NewIsNew'
    BY <1>2, <1>5, NewStaysWorker
  <2> QED BY <1>5, <2>1, HistoryHolds DEF HistInv
<1>6. ASSUME NEW w \in Workers, NEW r \in Requests, NEW p \in Passwords, Become(w, r),
             r.seen = row, r.new = p, ~Reused(p, row), UNCHANGED rowVars
      PROVE  HistInv'
  <2>1. ~Reused(r.new, row) /\ r.new \in Passwords
    BY <1>6, Zenon
  <2>2. NewIsNew'
    BY <1>2, <1>6, <2>1, NewStaysWorker
  <2> QED BY <1>6, <2>2, RowStays
<1>7. ASSUME NEW w \in Workers, SignIn(w) PROVE HistInv'
  <2>1. CASE \E b \in Browsers : LoginReads(w, b)
    <3>1. PICK b \in Browsers : LoginReads(w, b)
      BY <2>1
    <3>2. PICK r \in Requests : /\ r = [Idle EXCEPT !.pc = "login", !.who = {b}]
                                /\ r.pc = "login" /\ r.who = {b} /\ r.rows = {}
      BY LoginType
    <3>3. ASSUME NEW v \in Workers, req'[v].pc = "write" PROVE req'[v] = req[v]
      <4>1. PICK q \in Requests : q = req[v]
        BY DEF AccType
      <4>2. PICK s \in Requests :
              /\ s = [q EXCEPT !.who = @ \ {b}, !.rows = @ \ {b}]
              /\ s.pc = q.pc /\ s.who = q.who \ {b} /\ s.rows = q.rows \ {b}
              /\ s.seen = q.seen /\ s.new = q.new
        BY LessType, Zenon
      <4>3. req'[v] = IF v = w THEN r ELSE IF q.pc = "commit" THEN s ELSE q
        BY <3>1, <3>2, <4>1, <4>2 DEF LoginReads
      <4> QED BY <3>2, <3>3, <4>1, <4>2, <4>3
    <3>4. NewIsNew'
      BY <1>2, <3>3, NewStays
    <3> QED BY <3>1, <3>4, RowStays DEF LoginReads
  <2>2. CASE LoginSigns(w)
    BY <1>1, <1>4, <2>2 DEF LoginSigns
  <2> QED BY <1>7, <2>1, <2>2 DEF SignIn
<1>8. ASSUME NEW w \in Workers, Change(w) PROVE HistInv'
  <2>1. CASE \E b \in Browsers, p \in Passwords : ChangeReads(w, b, p)
    <3>1. PICK b \in Browsers, p \in Passwords : ChangeReads(w, b, p)
      BY <2>1
    <3>2. PICK r \in Requests : Become(w, r) /\ r.pc = "write" /\ r.seen = row /\ r.new = p
      BY <3>1, HandlerSteps
    <3> QED BY <1>6, <3>1, <3>2 DEF ChangeReads
  <2>2. CASE ChangeWrites(w)
    <3>1. PICK r \in Requests : Become(w, r) /\ r.pc = "sweep"
      BY <2>2, HandlerSteps
    <3> QED BY <1>5, <2>2, <3>1 DEF ChangeWrites
  <2>3. CASE ChangeSweeps(w)
    <3>1. PICK r \in Requests : Become(w, r) /\ r.pc = "block"
      BY <2>3, HandlerSteps
    <3> QED BY <1>4, <2>3, <3>1 DEF ChangeSweeps
  <2>4. CASE Blocks(w)
    BY <1>1, <1>4, <2>4 DEF Blocks
  <2> QED BY <1>8, <2>1, <2>2, <2>3, <2>4 DEF Change
<1>9. ASSUME NEW w \in Workers, Reset(w) PROVE HistInv'
  <2>1. CASE \E p \in Passwords : ResetReads(w, p)
    <3>1. PICK p \in Passwords : ResetReads(w, p)
      BY <2>1
    <3>2. PICK r \in Requests : Become(w, r) /\ r.pc = "write" /\ r.seen = row /\ r.new = p
      BY <3>1, HandlerSteps
    <3> QED BY <1>6, <3>1, <3>2 DEF ResetReads
  <2>2. CASE \E p \in Passwords : ResetRefused(w, p)
    <3>1. PICK r \in Requests : Become(w, r) /\ r.pc = "block"
      BY <2>2, HandlerSteps
    <3> QED BY <1>4, <2>2, <3>1 DEF ResetRefused
  <2>3. CASE ResetCommits(w)
    <3>1. PICK r \in Requests : Become(w, r) /\ r.pc = "block"
      BY <2>3, HandlerSteps
    <3> QED BY <1>5, <2>3, <3>1 DEF ResetCommits
  <2>4. CASE ResetAborts(w)
    BY <1>1, <1>4, <2>4 DEF ResetAborts
  <2> QED BY <1>9, <2>1, <2>2, <2>3, <2>4 DEF Reset
<1>10. ASSUME NEW w \in Workers, ForceLogout(w) PROVE HistInv'
  <2>1. CASE ForceRevokes(w)
    <3>1. PICK r \in Requests :
            /\ r = [Idle EXCEPT !.pc = "commit", !.kind = "force", !.who = SigningIn, !.rows = LiveRows]
            /\ r.pc = "commit" /\ r.who = SigningIn /\ r.rows = LiveRows
      BY SetsType, ForceType
    <3>2. Become(w, r) /\ UNCHANGED rowVars
      BY <2>1, <3>1 DEF ForceRevokes
    <3>3. r.pc # "write"
      BY <3>1
    <3> QED BY <1>4, <3>2, <3>3
  <2>2. CASE ForceCommits(w) \/ ForceAborts(w)
    <3>1. Become(w, Idle) /\ UNCHANGED rowVars
      BY <2>2 DEF ForceCommits, ForceAborts
    <3> QED BY <1>1, <1>4, <3>1
  <2> QED BY <1>10, <2>1, <2>2 DEF ForceLogout
<1>11. ASSUME NEW w \in Workers, Logout(w) PROVE HistInv'
  <2>1. CASE \E b \in Browsers : LogoutStarts(w, b)
    <3>1. PICK r \in Requests : r.pc = "own" /\ Become(w, r)
      BY <2>1, LogoutType DEF LogoutStarts
    <3> QED BY <1>4, <2>1, <3>1 DEF LogoutStarts
  <2>2. CASE LogoutRevokesOwn(w) \/ LogoutSweeps(w) \/ LogoutBlocks(w)
    <3>1. \E r \in Requests : Become(w, r) /\ r.pc \in {"sweep", "clear", "block"}
      BY <2>2, HandlerSteps
    <3>2. UNCHANGED rowVars
      BY <2>2 DEF LogoutRevokesOwn, LogoutSweeps, LogoutBlocks
    <3> QED BY <1>4, <3>1, <3>2
  <2>3. CASE LogoutClears(w)
    BY <1>1, <1>4, <2>3 DEF LogoutClears
  <2> QED BY <1>11, <2>1, <2>2, <2>3 DEF Logout
<1>12. ASSUME NEW b \in Browsers, RedeemCode(b) PROVE HistInv'
  <2>1. ASSUME NEW v \in Workers, req'[v].pc = "write" PROVE req'[v] = req[v]
    <3>1. PICK q \in Requests : q = req[v]
      BY DEF AccType
    <3>2. PICK s \in Requests : /\ s = [q EXCEPT !.rows = @ \ {b}]
                                /\ s.pc = q.pc /\ s.who = q.who /\ s.rows = q.rows \ {b}
                                /\ s.seen = q.seen /\ s.new = q.new
      BY LessType, Zenon
    <3>3. req'[v] = IF q.pc = "commit" THEN s ELSE q
      BY <1>12, <3>1, <3>2 DEF RedeemCode
    <3> QED BY <2>1, <3>1, <3>2, <3>3
  <2>2. NewIsNew'
    BY <1>2, <2>1, NewStays
  <2> QED BY <1>12, <2>2, RowStays DEF RedeemCode
<1>13. ASSUME UNCHANGED <<rowVars, req>> PROVE HistInv'
  <2>1. NewIsNew'
    BY <1>2, <1>13, NewStays
  <2> QED BY <1>13, <2>1, RowStays
<1>14. ASSUME NEW b \in Browsers, IssueCode(b) \/ Reauthorize(b) \/ Rotate(b) PROVE HistInv'
  BY <1>13, <1>14 DEF IssueCode, Reauthorize, Rotate
<1>15. ASSUME NEW b \in Browsers, NEW s \in Browsers, RevokeOwnSession(b, s) PROVE HistInv'
  BY <1>13, <1>15 DEF RevokeOwnSession
<1> QED BY <1>3, <1>7, <1>8, <1>9, <1>10, <1>11, <1>12, <1>14, <1>15 DEF Next

-----------------------------------------------------------------------------

AccInv == AccType /\ SessInv /\ HistInv

LEMMA AccInit == Init => AccInv
<1> SUFFICES ASSUME Init PROVE AccInv
  OBVIOUS
<1>1. SessionType
  BY DEF Init, SessionType
<1>2. RowType
  <2>1. [hash |-> Initial, history |-> << >>] \in Rows
    BY PasswordAssumption DEF Rows, Hashes
  <2>2. row \in Rows /\ past = << >> /\ raced = FALSE
    BY <2>1, Zenon DEF Init
  <2>3. << >> \in Seq(Hashes)
    OBVIOUS
  <2> QED BY <2>2, <2>3, Zenon DEF RowType
<1>3. req \in [Workers -> Requests] /\ \A w \in Workers : req[w].pc = "idle"
  BY IdleType DEF Init
<1>4. SessInv
  BY <1>3 DEF Init, SessInv, LoginAlone, EntriesAreKnown, LocksHold, OldSessionsEnd
<1>5. HistInv
  BY <1>3 DEF Init, HistInv, HistoryIsPast, NewIsNew
<1> QED BY <1>1, <1>2, <1>3, <1>4, <1>5 DEF AccInv, AccType

LEMMA AccStep == AccInv /\ [Next]_vars => AccInv'
BY NextKeepsType, NextKeepsSess, NextKeepsHist DEF AccInv, HistInv

LEMMA AccHolds == Spec => []AccInv
BY AccInit, AccStep, PTL DEF Spec

\* Once a reset, a change or a log-out has ended the user's sessions, no browser
\* goes on but for the two named reasons (OldSessionsEnd): revokeAllUserSessions
\* and revokeRefreshTokensByUser, whatever order handlers, logins and rotations
\* come in.
THEOREM OldSessionsDoEnd == Spec => []OldSessionsEnd
<1>1. AccInv => OldSessionsEnd
  BY DEF AccInv, SessInv
<1> QED BY <1>1, AccHolds, PTL

\* No step writes a password in any other way than a change or a reset does.
LEMMA OnlyWritersWrite ==
  ASSUME [Next]_vars, past' # past
  PROVE  \E w \in Workers : req[w].pc = "write" /\ WritePassword(req[w])
<1>1. ~UNCHANGED rowVars
  BY DEF rowVars
<1>2. CASE UNCHANGED vars
  BY <1>2 DEF vars
<1>3. ASSUME NEW w \in Workers, SignIn(w) \/ Change(w) \/ Reset(w) \/ ForceLogout(w) \/ Logout(w)
      PROVE  ChangeWrites(w) \/ ResetCommits(w)
  BY <1>1, <1>3 DEF SignIn, LoginReads, LoginSigns, Change, ChangeReads, ChangeSweeps, Blocks,
     Reset, ResetReads, ResetRefused, ResetAborts, ForceLogout, ForceRevokes, ForceCommits, ForceAborts,
     Logout, LogoutStarts, LogoutRevokesOwn, LogoutSweeps, LogoutBlocks, LogoutClears
<1>4. ASSUME NEW b \in Browsers, IssueCode(b) \/ Reauthorize(b) \/ RedeemCode(b) \/ Rotate(b) PROVE FALSE
  BY <1>1, <1>4 DEF IssueCode, Reauthorize, RedeemCode, Rotate
<1>5. ASSUME NEW b \in Browsers, NEW s \in Browsers, RevokeOwnSession(b, s) PROVE FALSE
  BY <1>1, <1>5 DEF RevokeOwnSession
<1> QED BY <1>2, <1>3, <1>4, <1>5 DEF Next, ChangeWrites, ResetCommits

\* A new password differs from the one in force and from the last HistoryMax before
\* it, unless two writers overlapped (NoRecentPasswordReturns): the comparison and
\* the history of the change and of the reset.
THEOREM RecentPasswordsStayAway == Spec => NoRecentPasswordReturns
<1> DEFINE A == past' # past /\ ~raced' =>
       row'.hash \notin {row.hash} \cup {past[i] : i \in DOMAIN Newest(past, HistoryMax)}
<1>1. AccInv /\ [Next]_vars => [A]_vars
  <2> SUFFICES ASSUME AccInv, [Next]_vars, past' # past, ~raced',
                      row'.hash \in {row.hash} \cup {past[i] : i \in DOMAIN Newest(past, HistoryMax)}
               PROVE  FALSE
    OBVIOUS
  <2>1. PICK w \in Workers : req[w].pc = "write" /\ WritePassword(req[w])
    BY OnlyWritersWrite
  <2>2. PICK q \in Requests : q = req[w]
    BY DEF AccInv, AccType
  <2>3. ~raced /\ q.seen = row /\ row'.hash = q.new
    BY <2>1, <2>2 DEF WritePassword
  <2>4. q.new \in Passwords /\ ~Reused(q.new, row)
    <3>1. q.new \in Passwords /\ ~Reused(q.new, q.seen)
      BY <2>1, <2>2, Zenon DEF AccInv, HistInv, NewIsNew
    <3> QED BY <2>3, <3>1, Zenon
  <2>5. q.new # row.hash /\ \A i \in DOMAIN row.history : q.new # row.history[i]
    BY <2>4 DEF Reused
  <2>6. PICK i \in DOMAIN Newest(past, HistoryMax) : q.new = past[i]
    BY <2>3, <2>5
  <2>7. PICK p \in Seq(Hashes) : p = past
    BY DEF AccInv, AccType, RowType
  <2>8. i \in 1..HistoryMax /\ i \in DOMAIN past
    <3>1. PICK m \in Nat : m <= Len(p) /\ m <= HistoryMax /\ DOMAIN Newest(p, HistoryMax) = 1..m
      BY NewestIs, HistoryAssumption
    <3>2. i \in 1..m
      BY <2>7, <3>1
    <3>3. DOMAIN past = 1..Len(p)
      BY <2>7
    <3> QED BY <3>1, <3>2, <3>3, HistoryAssumption
  <2>9. past[i] = None \/ (i \in DOMAIN row.history /\ row.history[i] = past[i])
    BY <2>3, <2>8 DEF AccInv, HistInv, HistoryIsPast
  <2> QED BY <2>4, <2>5, <2>6, <2>9, PasswordAssumption
<1> QED BY <1>1, AccHolds, PTL DEF Spec, NoRecentPasswordReturns
==============================================================================

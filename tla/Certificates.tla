----------------------------- MODULE Certificates -----------------------------
(***************************************************************************)
(* The Gateway's own TLS certificate (acme.rs, tls.rs, redirect.rs): when  *)
(* it is renewed, the order with its HTTP-01 challenge, the file it is     *)
(* saved in and the snapshot that is served, over failures of the CA and   *)
(* deaths of the process.  A certificate is the day it was issued.  A run  *)
(* of the task is over before the second day after its start.              *)
(***************************************************************************)
EXTENDS Naturals

CONSTANTS
  LifeDays,                  \* of a certificate
  CheckInterval,             \* the longest wait without ARI
  MaxRetryDelay,             \* cap of the delay after a failure
  LastDay, MaxFaults         \* bounds

\* The wait between two looks at a certificate is shorter than the time until
\* it is due, and the time from then to its end is longer than all the failures
\* take: every one costs its delay, the day its run takes and the one it shows on.
ASSUME LifeAssumption ==
  /\ {LifeDays, CheckInterval, LastDay, MaxFaults} \subseteq Nat /\ MaxRetryDelay \in Nat \ {0}
  /\ CheckInterval < (LifeDays * 2) \div 3
  /\ LifeDays - (LifeDays * 2) \div 3 > MaxFaults * (MaxRetryDelay + 1) + 1

VARIABLES
  day,
  served,     \* the certificate in TlsCertificateStore, 0 if there is none
  stored,     \* certificate.json, 0 if there is none
  task,       \* the ACME task: where it is, the start of this run, until when it waits,
              \* its retry delay, if it has the account, the certificate it has got
  challenge,  \* a challenge is answered at the HTTP port
  newest,     \* history: the newest certificate ever served
  faults      \* bound

certVars == <<day, served, stored, task, challenge, newest, faults>>

-----------------------------------------------------------------------------
MinRetryDelay == 1
Doing(pc) == task.pc = pc
GoOn(pc) == task' = [task EXCEPT !.pc = pc]
Starting == [pc |-> "account", since |-> day, due |-> 0, retry |-> MinRetryDelay,
             account |-> FALSE, cert |-> 0]
Later(a, b) == IF a > b THEN a ELSE b
Sooner(a, b) == IF a < b THEN a ELSE b

CertInit ==
  /\ day = 1 /\ stored \in {0, 1} /\ served = stored /\ newest = stored
  /\ task = Starting
  /\ challenge = FALSE /\ faults = 0

\* The process comes up with the stored certificate, however old.
LoadCertificate ==
  /\ Doing("down")
  /\ served' = stored /\ newest' = Later(newest, stored)
  /\ task' = Starting
  /\ UNCHANGED <<day, stored, challenge, faults>>

LoadOrCreateAccount ==
  /\ Doing("account")
  /\ task' = [task EXCEPT !.pc = "check", !.account = TRUE, !.retry = MinRetryDelay]
  /\ UNCHANGED <<day, served, stored, challenge, newest, faults>>

TaskWakes ==
  /\ Doing("wait") /\ day >= task.due
  /\ task' = [task EXCEPT !.pc = IF task.account THEN "check" ELSE "account", !.since = day]
  /\ UNCHANGED <<day, served, stored, challenge, newest, faults>>

FallbackRenewAt(cert) == cert + (LifeDays * 2) \div 3

\* The CA tells its window and when to ask again, or the life of the
\* certificate decides.  Of the CA it is assumed that its window is no later
\* than that and its Retry-After no longer than the interval.
EvaluateRenewal ==
  /\ Doing("check")
  /\ \E ari \in BOOLEAN : \E at, again \in 1..LastDay :
       LET renewAt == IF ari THEN at ELSE FallbackRenewAt(served)
           delay == Sooner(IF ari THEN again ELSE CheckInterval, renewAt - day)
       IN /\ IF ari THEN served < at /\ at <= FallbackRenewAt(served) /\ again <= CheckInterval
                    ELSE at = 1 /\ again = 1
          /\ IF served = 0 \/ day >= renewAt
               THEN GoOn("order")
               ELSE task' = [task EXCEPT !.pc = "wait", !.due = day + delay,
                                         !.retry = MinRetryDelay]
  /\ UNCHANGED <<day, served, stored, challenge, newest, faults>>

\* The order is made and its challenge installed, if the CA does not still
\* hold the last authorization for valid.
IssueCertificate ==
  /\ Doing("order")
  /\ challenge' \in BOOLEAN /\ GoOn(IF challenge' THEN "validation" ELSE "ready")
  /\ UNCHANGED <<day, served, stored, newest, faults>>

\* The CA finds the challenge at the HTTP port; the lease is dropped, and the
\* certificate finalized and downloaded.
Finalize ==
  /\ (Doing("validation") /\ challenge) \/ Doing("ready")
  /\ challenge' = FALSE
  /\ task' = [task EXCEPT !.pc = "write", !.cert = day]
  /\ UNCHANGED <<day, served, stored, newest, faults>>

\* Mutant: the file is written in place.
Truncated == 0

\* What the file holds while the next one is written beside it.
WhileWriting == stored

WriteAtomic ==
  /\ Doing("write")
  /\ stored' = WhileWriting /\ GoOn("rename")
  /\ UNCHANGED <<day, served, challenge, newest, faults>>

SaveCertificate ==
  /\ Doing("rename")
  /\ stored' = task.cert /\ GoOn("install")
  /\ UNCHANGED <<day, served, challenge, newest, faults>>

InstallPem ==
  /\ Doing("install")
  /\ served' = task.cert /\ newest' = Later(newest, task.cert)
  /\ task' = [task EXCEPT !.pc = "wait", !.due = day + CheckInterval, !.retry = MinRetryDelay]
  /\ UNCHANGED <<day, stored, challenge, faults>>

Fault == faults < MaxFaults /\ faults' = faults + 1

\* The CA, the network or the disk fails: the lease is dropped, what is
\* served goes on being served, and the task waits, each time longer.
TaskRetries ==
  /\ Fault /\ task.pc \in {"account", "order", "validation", "ready", "write", "rename"}
  /\ challenge' = FALSE
  /\ task' = [task EXCEPT !.pc = "wait", !.due = day + task.retry,
                          !.retry = Sooner(2 * @, MaxRetryDelay)]
  /\ UNCHANGED <<day, served, stored, newest>>

GatewayDies ==
  /\ Fault /\ ~Doing("down")
  /\ served' = 0 /\ challenge' = FALSE
  /\ task' = [task EXCEPT !.pc = "down", !.since = day]
  /\ UNCHANGED <<day, stored, newest>>

NextDay ==
  /\ day < LastDay /\ day' = day + 1
  /\ IF Doing("wait") THEN day < task.due ELSE task.since = day
  /\ UNCHANGED <<served, stored, task, challenge, newest, faults>>

CertNext ==
  \/ LoadCertificate \/ LoadOrCreateAccount \/ TaskWakes \/ EvaluateRenewal \/ IssueCertificate
  \/ Finalize \/ WriteAtomic \/ SaveCertificate \/ InstallPem \/ TaskRetries \/ GatewayDies \/ NextDay

CertSpec == CertInit /\ [][CertNext]_certVars

-----------------------------------------------------------------------------
\* Once a certificate has been served, a running Gateway serves one that is
\* no older and has not ended: no death between the steps of a renewal takes
\* it back (acme.rs issue_certificate, write_atomic_sync), and failures that
\* do not last are made up for before it ends (evaluate_renewal).
CertificateStays ==
  newest # 0 /\ ~Doing("down") => served >= newest /\ day < served + LifeDays
=============================================================================

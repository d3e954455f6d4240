------------------------------ MODULE EditForms ------------------------------
(***************************************************************************)
(* The forms that edit a record in the console, in one tab: the pages of a *)
(* user, a client and a permission, and the dialogs over the rows of a     *)
(* list (roles, departments, one's own profile).                           *)
(*                                                                         *)
(* A form is filled once, from what was rendered; a save sends every field *)
(* the form has, edited or not.  The server loads the row, patches it and  *)
(* writes the whole of it back; the tab's actions run one after another.   *)
(* Between the rendering and the write lie the buttons beside the form     *)
(* (unlock, enable, disable), edits made while a save runs, a list not yet *)
(* refreshed, and other administrators.                                    *)
(***************************************************************************)
EXTENDS Naturals

CONSTANTS
  Records,     \* rows of the list
  Names,       \* values of a field, standing for all that are not the status
  NoRecord,    \* no form is open
  MaxEdits,    \* bound: fields edited
  MaxCalls,    \* bound: actions started
  MaxOthers    \* bound: writes of others

VARIABLES
  page,        \* which form it is
  db,          \* the rows
  shown,       \* the rows as they were last rendered
  open,        \* the row the form is open for
  form, saved, \* the form, and what it counts as saved
  action,      \* the calls of the form ("save") and of the button ("status")
               \* (may: history, what it may change)
  edited,      \* history: the fields edited since they were last saved
  stale,       \* history: the fields in which the form was left behind
  edits, calls, others   \* bounds

formVars == <<page, db, shown, open, form, saved, action, edited, stale, edits, calls, others>>

-----------------------------------------------------------------------------
Fields == {"name", "status"}
Pages == {"user", "client", "permission"}
Dialogs == {"role", "dept", "profile"}
Statuses == IF page = "user" THEN {"ACTIVE", "DISABLED", "LOCKED"} ELSE {"ACTIVE", "DISABLED"}
Row == [name : Names, status : Statuses]

\* What a form holds and sends: a client's status has a button of its own,
\* and nobody sets the status of the own profile.
Sent == IF page \in {"client", "profile"} THEN {"name"} ELSE Fields

\* The permission's page is read from the database when it is entered, a
\* dialog takes the row of the list.
Source(r) == IF page = "permission" THEN db[r] ELSE shown[r]

NoCall == [pc |-> "idle", on |-> NoRecord, what |-> NoRecord, may |-> {}, base |-> NoRecord,
           ok |-> FALSE]
Busy(k) == action[k].pc # "idle"
Saving == IF page = "client" THEN Busy("save") ELSE Busy("save") \/ Busy("status")
IsDirty == \E f \in Sent : form[f] # saved[f]

FormInit ==
  /\ page \in Pages \cup Dialogs
  /\ \E row \in Row : row.name = (CHOOSE n \in Names : TRUE) /\ db = [r \in Records |-> row]
  /\ shown = db
  /\ open = IF page \in Pages THEN CHOOSE r \in Records : TRUE ELSE NoRecord
  /\ form = db[CHOOSE r \in Records : TRUE] /\ saved = form
  /\ action = [k \in {"save", "status"} |-> NoCall]
  /\ edited = {} /\ stale = {} /\ edits = 0 /\ calls = 0 /\ others = 0

-----------------------------------------------------------------------------
\* openEdit, or the permission's page entered.
Open(r) ==
  /\ open = NoRecord /\ open' = r
  /\ form' = Source(r) /\ saved' = Source(r)
  /\ edited' = {} /\ stale' = {f \in Fields : Source(r)[f] # db[r][f]}
  /\ UNCHANGED <<page, db, shown, action, edits, calls, others>>

\* Cancel or Escape; a request that runs goes on.  Of a page, the way back,
\* unless the page is only hidden and comes back as it was (cacheComponents):
\* then its form was never left.
Close ==
  /\ page \notin {"user", "client"} /\ open # NoRecord /\ open' = NoRecord
  /\ UNCHANGED <<page, db, shown, form, saved, action, edited, stale, edits, calls, others>>

\* A locked user's status is not offered.  Nothing is disabled while saving.
Edit(f, v) ==
  /\ open # NoRecord /\ edits < MaxEdits /\ f \in Sent /\ form[f] # v
  /\ f = "status" /\ page = "user" => shown[open].status # "LOCKED"
  /\ form' = [form EXCEPT ![f] = v] /\ edited' = edited \cup {f}
  /\ edits' = edits + 1
  /\ UNCHANGED <<page, db, shown, open, saved, action, stale, calls, others>>

Discard ==
  /\ page \in {"user", "client"} /\ IsDirty /\ ~Saving
  /\ form' = saved /\ edited' = {}
  /\ UNCHANGED <<page, db, shown, open, saved, action, stale, edits, calls, others>>

Start(k, what) ==
  /\ calls < MaxCalls /\ calls' = calls + 1
  /\ action' = [action EXCEPT ![k] = [NoCall EXCEPT !.pc = "sent", !.on = open,
                                                    !.what = what, !.may = edited \cup stale]]
  /\ UNCHANGED <<page, db, shown, open, form, saved, edited, stale, edits, others>>

\* handleUpdate, handleSave, handleSubmit.
Save ==
  /\ open # NoRecord /\ ~Saving
  /\ page \in {"user", "client"} => IsDirty
  /\ Start("save", form)

\* handleUnlock; the client's toggle, through its dialog.
PressStatus ==
  /\ ~Saving /\ ~Busy("status")
  /\ \/ page = "user" /\ shown[open].status = "LOCKED"
     \/ page = "client"
  /\ Start("status", [form EXCEPT !.status =
                        IF shown[open].status = "ACTIVE" THEN "DISABLED" ELSE "ACTIVE"])

Load(k) ==
  /\ action[k].pc = "sent"
  /\ \A j \in DOMAIN action : action[j].pc \in {"idle", "sent"}
  /\ action' = [action EXCEPT ![k] = [@ EXCEPT !.pc = "loaded", !.base = db[action[k].on]]]
  /\ UNCHANGED <<page, db, shown, open, form, saved, edited, stale, edits, calls, others>>

\* Mutant: the client's status is sent along with its form.
PatchAll(k) ==
  [f \in Fields |-> IF k = "save" \/ f = "status" THEN action[k].what[f] ELSE action[k].base[f]]

Patch(k) ==
  LET F == IF k = "save" THEN Sent ELSE {"status"} IN
  [f \in Fields |-> IF f \in F THEN action[k].what[f] ELSE action[k].base[f]]

\* A locked user leaves that state by the unlock action only, which is for
\* no other user.
Allowed(k) ==
  \/ page # "user"
  \/ k = "save" /\ (action[k].base.status = "LOCKED" => action[k].what.status = "LOCKED")
  \/ k = "status" /\ action[k].base.status = "LOCKED"

\* The whole row is written back; only the profile's action sets the fields
\* it was sent.
Write(k) ==
  LET r == action[k].on IN
  /\ action[k].pc = "loaded" /\ Allowed(k)
  /\ db' = [db EXCEPT ![r] = IF page = "profile" THEN [@ EXCEPT !.name = Patch(k).name]
                                                 ELSE Patch(k)]
  /\ action' = [action EXCEPT ![k] = [@ EXCEPT !.pc = "done", !.ok = TRUE]]
  /\ stale' = IF open = r /\ page \notin {"user", "client"}
               THEN stale \cup {f \in Fields : Patch(k)[f] # db[r][f]} ELSE stale
  /\ UNCHANGED <<page, shown, open, form, saved, edited, edits, calls, others>>

\* Refused: by the rule above, by a validation or by the scope.
Refuse(k) ==
  /\ action[k].pc = "loaded"
  /\ action' = [action EXCEPT ![k] = [@ EXCEPT !.pc = "done", !.ok = FALSE]]
  /\ UNCHANGED <<page, db, shown, open, form, saved, edited, stale, edits, calls, others>>

\* The convergence after the commit throws, or the answer is lost.
FailAfter(k) ==
  /\ action[k].pc = "done" /\ action[k].ok
  /\ action' = [action EXCEPT ![k].ok = FALSE]
  /\ stale' = IF open # action[k].on THEN stale
               ELSE stale \cup (IF k = "save" THEN Sent ELSE {"status"})
  /\ UNCHANGED <<page, db, shown, open, form, saved, edited, edits, calls, others>>

\* setSavedForm of the closure: the form as it was sent.
SavedAfter(k) == action[k].what

Unlocked(rec) == [rec EXCEPT !.status = "ACTIVE"]

\* The answer of a save: the user's and the client's page keep the form, the
\* permission's is left, and a dialog closes, whichever row it is open for.
AnswerSave ==
  /\ action["save"].pc = "done"
  /\ action' = [action EXCEPT !["save"] = NoCall]
  /\ IF ~action["save"].ok THEN UNCHANGED <<open, saved, edited>>
     ELSE IF page \in {"user", "client"}
       THEN /\ saved' = SavedAfter("save")
            /\ edited' = {f \in Sent : form[f] # action["save"].what[f]}
            /\ UNCHANGED open
       ELSE open' = NoRecord /\ UNCHANGED <<saved, edited>>
  /\ UNCHANGED <<page, db, shown, form, stale, edits, calls, others>>

AnswerStatus ==
  /\ action["status"].pc = "done"
  /\ action' = [action EXCEPT !["status"] = NoCall]
  /\ IF action["status"].ok /\ page = "user"
       THEN form' = Unlocked(form) /\ saved' = Unlocked(saved)
       ELSE UNCHANGED <<form, saved>>
  /\ UNCHANGED <<page, db, shown, open, edited, stale, edits, calls, others>>

\* router.refresh arrives; the state of a form does not follow.
Refresh ==
  /\ shown # db /\ shown' = db
  /\ UNCHANGED <<page, db, open, form, saved, action, edited, stale, edits, calls, others>>

Other(r, f, v) ==
  /\ others < MaxOthers /\ v # db[r][f] /\ (page \in {"user", "client"} => r = open)
  /\ db' = [db EXCEPT ![r][f] = v] /\ others' = others + 1
  /\ stale' = IF open = r THEN stale \cup {f} ELSE stale
  /\ action' = [k \in DOMAIN action |->
                  IF action[k].on = r THEN [action[k] EXCEPT !.may = @ \cup {f}] ELSE action[k]]
  /\ UNCHANGED <<page, shown, open, form, saved, edited, edits, calls>>

FormNext ==
  \/ \E r \in Records : Open(r)
  \/ Close \/ Discard \/ Save \/ PressStatus
  \/ \E v \in Names : Edit("name", v)
  \/ \E v \in Statuses : Edit("status", v)
  \/ \E k \in DOMAIN action : Load(k) \/ Write(k) \/ Refuse(k) \/ FailAfter(k)
  \/ AnswerSave \/ AnswerStatus \/ Refresh
  \/ \E r \in Records : (\E v \in Names : Other(r, "name", v))
                          \/ \E v \in Statuses : Other(r, "status", v)

-----------------------------------------------------------------------------
\* A save sends every field, yet changes none but those the administrator
\* edited in that form: not what the form was filled with before a button
\* beside it changed the row, nor the fields of another row.  The exceptions
\* are fields the form was left behind in: by others, also while its page was
\* hidden with the form it had, by a list that was not refreshed yet, by a
\* save still running when the dialog was opened again, or by an action that
\* failed after its commit.
ChangesWhatWasEdited ==
  Write("save") =>
     LET c == action["save"] IN
     \A f \in Fields :
       \/ db'[c.on][f] = db[c.on][f]
       \/ f \in c.may
=============================================================================

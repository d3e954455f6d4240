------------------------------ MODULE UserTable ------------------------------
(***************************************************************************)
(* The status buttons of the user list (UserTable.tsx) in one tab, and the *)
(* actions they call (toggleUserStatusAction, unlockUserAction,            *)
(* bulkUpdateUserStatusAction).                                            *)
(*                                                                         *)
(* A button shows what it will do, from the row as the list shows it; the  *)
(* action behind it FLIPS the row as the database has it.  Between the two *)
(* lie a dialog that keeps the row it was opened for, the actions of the   *)
(* tab that still wait (they run one after another), answers that are      *)
(* lost, a list mounted anew while its actions run, and other              *)
(* administrators.                                                         *)
(***************************************************************************)
EXTENDS Naturals, Sequences, FiniteSets

CONSTANTS
  Rows,         \* users in the list, without the administrator
  MaxClicks,    \* bound: actions started
  MaxElsewhere  \* bound: changes by others

VARIABLES
  status,     \* the users' status in the database
  seen,       \* the rows the list was rendered from
  queue,      \* the list's actions: rows, the call, what the button promised
  adrift,     \* actions under way whose list is gone
  dialog,     \* the row, or the bulk target, waiting for a confirmation
  selected,   \* the selected rows
  moved,      \* history: rows that others, or an action other than the button's,
              \* may have changed since they were rendered or promised for
  clicks, elsewhere  \* bounds

tableVars == <<status, seen, queue, adrift, dialog, selected, moved, clicks, elsewhere>>

-----------------------------------------------------------------------------
Statuses == {"ACTIVE", "DISABLED", "LOCKED"}
Flip(s) == IF s = "ACTIVE" THEN "DISABLED" ELSE "ACTIVE"
NoDialog == [kind |-> "none", row |-> "none", was |-> "none"]

\* isPending covers the flips (transitions) until their refresh is there, not
\* a bulk action.  While it does, the list shows no row, only placeholders:
\* the optimistic rows are never seen.
IsPending == \E i \in DOMAIN queue : queue[i].kind = "flip"
RowsAreShown == ~IsPending
Bulking == \E i \in DOMAIN queue : queue[i].kind = "bulk"

\* performToggleStatus chooses the action by the row it was handed.
Flipping(r, was) ==
  [kind |-> "flip", call |-> IF was = "LOCKED" THEN "unlock" ELSE "toggle",
   rows |-> {r}, goal |-> Flip(was), no |-> clicks, ran |-> FALSE, ok |-> FALSE]
Setting(R, goal) ==
  [kind |-> "bulk", call |-> "set",
   rows |-> R, goal |-> goal, no |-> clicks, ran |-> FALSE, ok |-> FALSE]

\* What the server makes of a row: toggle refuses a locked user, unlock any
\* other, and the bulk action leaves a locked user out when disabling.
Applies(a, s) ==
  CASE a.call = "toggle" -> s # "LOCKED"
    [] a.call = "unlock" -> s = "LOCKED"
    [] OTHER -> s # a.goal /\ ~(s = "LOCKED" /\ a.goal = "DISABLED")
After(a, s) == IF a.call = "set" THEN a.goal ELSE Flip(s)

-----------------------------------------------------------------------------
TableInit ==
  /\ status \in [Rows -> Statuses] /\ seen = status
  /\ queue = << >> /\ adrift = {} /\ dialog = NoDialog /\ selected = {}
  /\ moved = {} /\ clicks = 0 /\ elsewhere = 0

Start(a) == clicks < MaxClicks /\ queue' = Append(queue, a) /\ clicks' = clicks + 1

\* handleToggleStatus, of the button and of the menu on small screens: an
\* active user is disabled only after a dialog, which keeps the row.
Click(r) ==
  /\ dialog = NoDialog /\ RowsAreShown
  /\ IF seen[r] = "ACTIVE"
       THEN /\ dialog' = [kind |-> "flip", row |-> r, was |-> seen[r]]
            /\ UNCHANGED <<queue, clicks>>
       ELSE Start(Flipping(r, seen[r])) /\ UNCHANGED dialog
  /\ UNCHANGED <<status, seen, adrift, selected, moved, elsewhere>>

ConfirmFlip ==
  /\ dialog.kind = "flip"
  /\ Start(Flipping(dialog.row, dialog.was))
  /\ dialog' = NoDialog
  /\ UNCHANGED <<status, seen, adrift, selected, moved, elsewhere>>

Dismiss ==
  /\ dialog # NoDialog /\ dialog' = NoDialog
  /\ UNCHANGED <<status, seen, queue, adrift, selected, moved, clicks, elsewhere>>

Select(r) ==
  /\ dialog = NoDialog /\ RowsAreShown
  /\ selected' = IF r \in selected THEN selected \ {r} ELSE selected \cup {r}
  /\ UNCHANGED <<status, seen, queue, adrift, dialog, moved, clicks, elsewhere>>

\* The box above the list and the bar of the selection are there all the time.
SelectAll(R) ==
  /\ dialog = NoDialog /\ selected' = R
  /\ UNCHANGED <<status, seen, queue, adrift, dialog, moved, clicks, elsewhere>>

AskBulk(goal) ==
  /\ dialog = NoDialog /\ selected # {}
  /\ dialog' = [kind |-> "bulk", row |-> "none", was |-> goal]
  /\ UNCHANGED <<status, seen, queue, adrift, selected, moved, clicks, elsewhere>>

\* runBulk.  The dialog stays, with its button disabled, until the answer;
\* Escape closes it, and the list can be used meanwhile.
ConfirmBulk ==
  /\ dialog.kind = "bulk" /\ ~Bulking
  /\ dialog.was = "DISABLED" => \E r \in selected : seen[r] # "LOCKED"
  /\ Start(Setting(selected, dialog.was))
  /\ UNCHANGED <<status, seen, adrift, dialog, selected, moved, elsewhere>>

-----------------------------------------------------------------------------
\* What an action does on the server; it may also be refused there.
Served(a, ok) ==
  LET on == {r \in a.rows : Applies(a, status[r])} IN
  /\ ok => a.call = "set" \/ on # {}
  /\ status' = IF ok THEN [r \in Rows |-> IF r \in on THEN After(a, status[r]) ELSE status[r]]
                     ELSE status

\* The server runs the list's first action.
Run(ok) ==
  LET a == Head(queue) IN
  /\ queue # << >> /\ ~a.ran /\ Served(a, ok)
  /\ queue' = [queue EXCEPT ![1].ran = TRUE, ![1].ok = ok]
  /\ moved' = IF ok /\ a.kind = "bulk" THEN moved \cup a.rows ELSE moved
  /\ UNCHANGED <<seen, adrift, dialog, selected, clicks, elsewhere>>

\* Rows that a waiting flip, or an open dialog, has promised something for.
Promised(q, d) ==
  {r \in Rows : \/ d.kind = "flip" /\ d.row = r
                \/ \E i \in DOMAIN q : q[i].kind = "flip" /\ r \in q[i].rows}

\* router.refresh: the rows as they are by now.
Refresh == seen' = status /\ moved' = moved \cap Promised(queue', dialog')

\* A successful bulk action ends the selection and closes its dialog.
Done(a) ==
  /\ selected' = IF a.kind = "bulk" /\ a.ok THEN {} ELSE selected
  /\ dialog' = IF a.kind = "bulk" /\ a.ok /\ dialog.kind = "bulk" THEN NoDialog ELSE dialog

\* Mutant: a success does not refresh the list.
AnswerOnly ==
  LET a == Head(queue) IN
  /\ queue # << >> /\ a.ran
  /\ queue' = Tail(queue) /\ Done(a)
  /\ UNCHANGED <<status, seen, moved, adrift, clicks, elsewhere>>

Answer ==
  LET a == Head(queue) IN
  /\ queue # << >> /\ a.ran
  /\ queue' = Tail(queue) /\ Done(a)
  /\ IF a.ok THEN Refresh ELSE UNCHANGED <<seen, moved>>
  /\ UNCHANGED <<status, adrift, clicks, elsewhere>>

\* No answer comes.  A flip ends at the error page, whose retry mounts the
\* list anew with the rows it had; a bulk action leaves the list as it is.
Lose ==
  LET a == Head(queue) IN
  /\ queue # << >> /\ a.ran
  /\ moved' = IF a.ok THEN moved \cup a.rows ELSE moved
  /\ IF a.kind = "flip"
       THEN /\ queue' = << >> /\ adrift' = adrift \cup {queue[i] : i \in 2..Len(queue)}
            /\ dialog' = NoDialog /\ selected' = {}
       ELSE queue' = Tail(queue) /\ UNCHANGED <<adrift, dialog, selected>>
  /\ UNCHANGED <<status, seen, clicks, elsewhere>>

\* A search, a filter or a page mounts the list anew, with new rows.  It does
\* not wait for the actions under way, and the new list knows nothing of them.
Navigate ==
  /\ seen' = status /\ moved' = {}
  /\ queue' = << >> /\ adrift' = adrift \cup {queue[i] : i \in DOMAIN queue}
  /\ dialog' = NoDialog /\ selected' = {}
  /\ UNCHANGED <<status, clicks, elsewhere>>

\* An action whose list is gone runs, and refreshes the list that is there.
RunAdrift(a, ok) ==
  /\ ~a.ran /\ Served(a, ok)
  /\ adrift' = (adrift \ {a}) \cup {[a EXCEPT !.ran = TRUE, !.ok = ok]}
  /\ moved' = IF ok THEN moved \cup a.rows ELSE moved
  /\ UNCHANGED <<seen, queue, dialog, selected, clicks, elsewhere>>

AnswerAdrift(a) ==
  /\ a.ran /\ adrift' = adrift \ {a}
  /\ UNCHANGED <<queue, dialog>>
  /\ IF a.ok THEN Refresh ELSE UNCHANGED <<seen, moved>>
  /\ UNCHANGED <<status, selected, clicks, elsewhere>>

\* Another administrator, or the same one on another page.
Elsewhere(r, s) ==
  /\ elsewhere < MaxElsewhere /\ s # status[r]
  /\ status' = [status EXCEPT ![r] = s] /\ moved' = moved \cup {r}
  /\ elsewhere' = elsewhere + 1
  /\ UNCHANGED <<seen, queue, adrift, dialog, selected, clicks>>

TableNext ==
  \/ \E r \in Rows : Click(r) \/ Select(r)
  \/ ConfirmFlip \/ Dismiss
  \/ \E R \in {Rows, {}} : SelectAll(R)
  \/ \E goal \in {"ACTIVE", "DISABLED"} : AskBulk(goal)
  \/ ConfirmBulk
  \/ \E ok \in BOOLEAN : Run(ok)
  \/ Answer \/ Lose \/ Navigate
  \/ \E a \in adrift, ok \in BOOLEAN : RunAdrift(a, ok)
  \/ \E a \in adrift : AnswerAdrift(a)
  \/ \E r \in Rows, s \in Statuses : Elsewhere(r, s)

-----------------------------------------------------------------------------
\* A status button does what it promised when it was pressed, though the
\* action behind it only flips: the server neither refuses it for the state
\* the user is in nor turns the user the other way.  "Disable" can restore
\* only a user whom somebody else, a bulk action of the tab, an action whose
\* answer was lost or one whose list is gone has changed in between.
KeepsPromise ==
  \A ok \in BOOLEAN : Run(ok) =>
     LET a == Head(queue) IN
     a.kind = "flip" /\ a.rows \cap moved = {} =>
       \A r \in a.rows : Applies(a, status[r]) /\ (ok => status'[r] = a.goal)
=============================================================================

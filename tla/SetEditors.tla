------------------------------ MODULE SetEditors ------------------------------
(***************************************************************************)
(* The pages that assign a set: the permissions of a role                  *)
(* (permissions-client.tsx) and the roles of a user (roles-client.tsx).    *)
(*                                                                         *)
(* A page loads what may be assigned and what is, lets the administrator   *)
(* tick and untick, shows the difference in a dialog, and sends the whole  *)
(* set; the server checks it and replaces the old one.  The user's page    *)
(* shows the active roles of the user's department only, and carries the   *)
(* others along.                                                           *)
(***************************************************************************)
EXTENDS FiniteSets, Naturals

CONSTANTS
  Items,       \* permissions, or roles
  MaxTicks,    \* bound: changes to the selection
  MaxSaves,    \* bound: saves
  MaxElse      \* bound: changes by others

VARIABLES
  editor,     \* "role" or "user"
  held,       \* what is assigned, in the database
  usable,     \* what is active (and of the user's department)
  offered,    \* what the page lists
  ticked, kept,  \* assignedIds and savedIds
  loaded,     \* the page has its data
  asking,     \* the dialog is open
  saving,     \* the save under way
  excusedSet, \* history: others changed the set since the page has its data,
              \* or the page took an error for the empty set
  ticks, saves, elses  \* bounds

setVars == <<editor, held, usable, offered, ticked, kept, loaded, asking, saving, excusedSet,
             ticks, saves, elses>>

-----------------------------------------------------------------------------
NoSave == [pc |-> "idle", what |-> {}, added |-> {}, removed |-> {}, ok |-> FALSE]
Added == ticked \ kept
Removed == kept \ ticked
Changed == Added \cup Removed # {}

SetInit ==
  /\ editor \in {"role", "user"}
  /\ held \in SUBSET Items /\ usable \in SUBSET Items
  /\ editor = "user" => held # {}
  /\ offered = {} /\ ticked = {} /\ kept = {}
  /\ loaded = FALSE /\ asking = FALSE /\ saving = NoSave /\ excusedSet = FALSE
  /\ ticks = 0 /\ saves = 0 /\ elses = 0

-----------------------------------------------------------------------------
\* loadData.  The answer with the assigned set is not checked for an error:
\* an error is read as the empty set.
LoadData(fails) ==
  /\ ~loaded /\ loaded' = TRUE
  /\ offered' = IF editor = "user" THEN usable ELSE Items
  /\ ticked' = (IF fails THEN {} ELSE held) /\ kept' = ticked'
  /\ excusedSet' = (fails /\ held # {})
  /\ UNCHANGED <<editor, held, usable, asking, saving, ticks, saves, elses>>

Ticking == loaded /\ ~asking /\ ticks < MaxTicks /\ ticks' = ticks + 1
TickOnly(S) ==
  /\ S # ticked /\ ticked' = S
  /\ UNCHANGED <<editor, held, usable, offered, kept, loaded, asking, saving, excusedSet, saves,
                 elses>>

\* toggle, toggleRole: the last role of a user stays.
Toggle(i) ==
  /\ Ticking /\ i \in offered
  /\ ~(editor = "user" /\ ticked = {i})
  /\ TickOnly(IF i \in ticked THEN ticked \ {i} ELSE ticked \cup {i})

\* The items the scope, the search and the filters leave: all of them are
\* ticked or, for a role, unticked.
TickScope(S) == Ticking /\ TickOnly(ticked \cup S)
UntickScope(S) == Ticking /\ editor = "role" /\ TickOnly(ticked \ S)

\* A template replaces the selection; the user's page can take it back.
Template(S) == Ticking /\ editor = "role" /\ TickOnly(S)
TakeBack == Ticking /\ editor = "user" /\ Changed /\ TickOnly(kept)

Ask ==
  /\ loaded /\ ~asking /\ Changed /\ saving.pc = "idle" /\ asking' = TRUE
  /\ UNCHANGED <<editor, held, usable, offered, ticked, kept, loaded, saving, excusedSet, ticks,
                 saves, elses>>

\* Cancel; Escape also while the save runs.
Dismiss ==
  /\ asking /\ asking' = FALSE
  /\ UNCHANGED <<editor, held, usable, offered, ticked, kept, loaded, saving, excusedSet, ticks,
                 saves, elses>>

\* Mutant: what the page does not list is not sent.
ToSendOffered == ticked \cap offered

ToSend == ticked

\* handleSave; a user's selection is not empty.
Submit ==
  /\ asking /\ saving.pc = "idle" /\ saves < MaxSaves
  /\ editor = "user" => ticked # {}
  /\ saving' = [pc |-> "sent", what |-> ToSend, added |-> Added, removed |-> Removed, ok |-> FALSE]
  /\ saves' = saves + 1
  /\ UNCHANGED <<editor, held, usable, offered, ticked, kept, loaded, asking, excusedSet, ticks,
                 elses>>

\* The server refuses a set with anything inactive, or without a right, and
\* else replaces the old set by it.
Replace ==
  /\ saving.pc = "sent" /\ saving.what \subseteq usable
  /\ held' = saving.what
  /\ saving' = [saving EXCEPT !.pc = "done", !.ok = TRUE]
  /\ UNCHANGED <<editor, usable, offered, ticked, kept, loaded, asking, excusedSet, ticks, saves,
                 elses>>

RefuseSet ==
  /\ saving.pc = "sent" /\ saving' = [saving EXCEPT !.pc = "done"]
  /\ UNCHANGED <<editor, held, usable, offered, ticked, kept, loaded, asking, excusedSet, ticks,
                 saves, elses>>

\* The refresh of the bound users throws after the commit.
ThrowAfter ==
  /\ saving.pc = "done" /\ saving.ok
  /\ saving' = [saving EXCEPT !.ok = FALSE] /\ excusedSet' = TRUE
  /\ UNCHANGED <<editor, held, usable, offered, ticked, kept, loaded, asking, ticks, saves, elses>>

KeptAfter == saving.what

AnswerSet ==
  /\ saving.pc = "done" /\ saving' = NoSave
  /\ kept' = IF saving.ok THEN KeptAfter ELSE kept
  /\ asking' = (asking /\ ~saving.ok)
  /\ UNCHANGED <<editor, held, usable, offered, ticked, loaded, excusedSet, ticks, saves, elses>>

Elsewhere(i) ==
  /\ elses < MaxElse /\ elses' = elses + 1
  /\ \/ /\ held' = IF i \in held THEN held \ {i} ELSE held \cup {i}
        /\ excusedSet' = (excusedSet \/ loaded) /\ UNCHANGED usable
     \/ /\ usable' = IF i \in usable THEN usable \ {i} ELSE usable \cup {i}
        /\ UNCHANGED <<held, excusedSet>>
  /\ UNCHANGED <<editor, offered, ticked, kept, loaded, asking, saving, ticks, saves>>

SetNext ==
  \/ \E fails \in BOOLEAN : LoadData(fails)
  \/ \E i \in Items : Toggle(i) \/ Elsewhere(i)
  \/ \E S \in SUBSET offered : TickScope(S) \/ UntickScope(S) \/ Template(S)
  \/ TakeBack \/ Ask \/ Dismiss \/ Submit \/ Replace \/ RefuseSet \/ ThrowAfter \/ AnswerSet

-----------------------------------------------------------------------------
\* The server replaces the whole set, yet a save adds and removes exactly
\* what the dialog listed, items the page does not show included.  The
\* exceptions: others changed the set since it was loaded, and an error
\* that was read as the empty set (permissions-client.tsx:128,
\* roles-client.tsx:88).
DoesWhatWasShown ==
  Replace => excusedSet \/ held' = (held \ saving.removed) \cup saving.added
=============================================================================

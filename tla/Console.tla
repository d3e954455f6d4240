------------------------------- MODULE Console -------------------------------
(***************************************************************************)
(* The administration console: the parts of it that a session of one       *)
(* administrator is made of.  They share no state but the database, which  *)
(* each part sees through what it shows; so that a behaviour works in one  *)
(* section, chosen at the start, while the others rest.                    *)
(***************************************************************************)
EXTENDS Naturals, FiniteSets

CONSTANTS
  Handlers, MaxCommits,                                        \* PageCache
  Words, NoWord, Filters, NoFilter, MaxInputs,                 \* ListControls
  Rows, MaxClicks, MaxElsewhere,                               \* UserTable
  Records, Names, NoRecord, MaxEdits, MaxCalls, MaxOthers,     \* EditForms
  Items, MaxTicks, MaxSaves, MaxElse,                          \* SetEditors
  MaxMoves,                                                    \* LeaveGuard
  Writers, PageSize, ExportMax, MaxRetries, OldRows, NewRows   \* AuditLog

ASSUME ConsoleAssumption ==
  /\ NoWord \in Words /\ NoFilter \in Filters /\ Records # {} /\ NoRecord \notin Records
  /\ IsFiniteSet(Rows) /\ IsFiniteSet(Items)
  /\ {MaxCommits, MaxInputs, MaxClicks, MaxElsewhere, MaxEdits, MaxCalls, MaxOthers,
      MaxTicks, MaxSaves, MaxElse, MaxMoves, ExportMax, MaxRetries, OldRows, NewRows} \subseteq Nat
  /\ PageSize \in Nat \ {0}

VARIABLES
  section,
  view, entry, call, explained, commits,
  list, url, typed, timer, pushed, parked, inputs,
  status, seen, queue, adrift, dialog, selected, moved, clicks, elsewhere,
  page, db, shown, open, form, saved, action, edited, stale, edits, calls, others,
  editor, held, usable, offered, ticked, kept, loaded, asking, saving, excusedSet, ticks, saves,
  elses,
  stack, pos, isDirty, dirtyRef, prompt, ownBack, away, strayed, moves,
  table, log, clock, cutoff, work, export, unsent, shifted, begun

Cache == INSTANCE PageCache
Controls == INSTANCE ListControls
Table == INSTANCE UserTable
Forms == INSTANCE EditForms
Sets == INSTANCE SetEditors
Guard == INSTANCE LeaveGuard
Audit == INSTANCE AuditLog

cacheVars == <<view, entry, call, explained, commits>>
listVars == <<list, url, typed, timer, pushed, parked, inputs>>
tableVars == <<status, seen, queue, adrift, dialog, selected, moved, clicks, elsewhere>>
formVars == <<page, db, shown, open, form, saved, action, edited, stale, edits, calls, others>>
setVars == <<editor, held, usable, offered, ticked, kept, loaded, asking, saving, excusedSet,
             ticks, saves, elses>>
guardVars == <<stack, pos, isDirty, dirtyRef, prompt, ownBack, away, strayed, moves>>
auditVars == <<table, log, clock, cutoff, work, export, unsent, shifted, begun>>
vars == <<section, cacheVars, listVars, tableVars, formVars, setVars, guardVars, auditVars>>

Sections == {"cache", "lists", "table", "forms", "sets", "guard", "audit"}

-----------------------------------------------------------------------------
\* What a part starts with varies only in the section that is at work.
Init ==
  /\ section \in Sections
  /\ Cache!CacheInit /\ (section # "cache" => view = "users")
  /\ Controls!ListInit /\ (section # "lists" => list = "users")
  /\ IF section = "table" THEN Table!TableInit
                          ELSE Table!TableInit /\ status = [r \in Rows |-> "ACTIVE"]
  /\ Forms!FormInit /\ (section # "forms" => page = "user" /\ \A r \in Records : db[r].status = "ACTIVE")
  /\ Sets!SetInit /\ (section # "sets" => editor = "role" /\ held = {} /\ usable = {})
  /\ Guard!GuardInit
  /\ Audit!AuditInit /\ (section # "audit" => table = "login" /\ log = {})

AtWork(s) == section = s /\ section' = s

CacheStep ==
  /\ AtWork("cache") /\ Cache!CacheNext
  /\ UNCHANGED <<listVars, tableVars, formVars, setVars, guardVars, auditVars>>
ControlsStep ==
  /\ AtWork("lists") /\ Controls!ListNext
  /\ UNCHANGED <<cacheVars, tableVars, formVars, setVars, guardVars, auditVars>>
TableStep ==
  /\ AtWork("table") /\ Table!TableNext
  /\ UNCHANGED <<cacheVars, listVars, formVars, setVars, guardVars, auditVars>>
FormsStep ==
  /\ AtWork("forms") /\ Forms!FormNext
  /\ UNCHANGED <<cacheVars, listVars, tableVars, setVars, guardVars, auditVars>>
SetsStep ==
  /\ AtWork("sets") /\ Sets!SetNext
  /\ UNCHANGED <<cacheVars, listVars, tableVars, formVars, guardVars, auditVars>>
GuardStep ==
  /\ AtWork("guard") /\ Guard!GuardNext
  /\ UNCHANGED <<cacheVars, listVars, tableVars, formVars, setVars, auditVars>>
AuditStep ==
  /\ AtWork("audit") /\ Audit!AuditNext
  /\ UNCHANGED <<cacheVars, listVars, tableVars, formVars, setVars, guardVars>>

Next ==
  CacheStep \/ ControlsStep \/ TableStep \/ FormsStep \/ SetsStep \/ GuardStep \/ AuditStep

Spec == Init /\ [][Next]_vars

-----------------------------------------------------------------------------
\* Cached pages show what a finished write left (cache-invalidation.ts), but
\* for the named gaps: see PageCache.
CachedPagesAreCurrent == Cache!CachedPagesAreCurrent

\* Once no search and no navigation is under way, the text in the box is the
\* keyword the list was loaded with: see ListControls.
BoxMatchesList == Controls!BoxMatchesList

\* A status button does what it promised, though its action only flips the
\* row: see UserTable.
PromisedIsDone == [][Table!KeepsPromise]_tableVars

\* A save of a whole form changes nothing but what was edited in it: see
\* EditForms.
SaveChangesWhatWasEdited == [][Forms!ChangesWhatWasEdited]_formVars

\* A saved set gains and loses what the dialog listed, and nothing else: see
\* SetEditors.
SaveDoesWhatWasShown == [][Sets!DoesWhatWasShown]_setVars

\* Unsaved changes are not left without a question: see LeaveGuard.
LeavesOnlyAsked == Guard!LeavesOnlyAsked

\* An exported log lacks no row that was there when the export began, but
\* for the named gaps: see AuditLog.
ExportIsComplete == Audit!ExportIsComplete
=============================================================================

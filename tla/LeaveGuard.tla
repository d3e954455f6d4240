------------------------------ MODULE LeaveGuard ------------------------------
(***************************************************************************)
(* The guard of a page with unsaved changes (use-unsaved-changes-guard.tsx)*)
(* against links, the command palette and the browser's Back button.       *)
(*                                                                         *)
(* A page that becomes dirty pushes a copy of its history entry, the       *)
(* sentinel, so that Back first takes that away and asks; when it becomes  *)
(* clean on the sentinel it goes back by itself, which the browser does    *)
(* later.  The listeners read dirtyRef, which the dialog's leave button    *)
(* resets.                                                                 *)
(***************************************************************************)
EXTENDS Naturals, Sequences

CONSTANT MaxMoves    \* bound: what the user does

VARIABLES
  stack, pos,  \* the tab's history: the page before, the page, sentinels
  isDirty, dirtyRef,
  prompt,      \* the dialog: none, for a link, or for Back
  ownBack,     \* history.back() was called and has not happened yet
  away,        \* how the page was left: no, clean, asked, saved, unasked
  strayed,     \* history: the dialog closed by Escape after Back, or answered
               \* with "stay" after a save had made the page clean, Forward
               \* used, or an edit before the guard's own back happened
  moves        \* bound

guardVars == <<stack, pos, isDirty, dirtyRef, prompt, ownBack, away, strayed, moves>>

-----------------------------------------------------------------------------
GuardInit ==
  /\ stack = <<"before", "page">> /\ pos = 2
  /\ isDirty = FALSE /\ dirtyRef = FALSE /\ prompt = "none" /\ ownBack = FALSE
  /\ away = "no" /\ strayed = FALSE /\ moves = 0

Here == away = "no"
Move == Here /\ moves < MaxMoves /\ moves' = moves + 1
Pushed == Append(SubSeq(stack, 1, pos), "guard")

\* The first edit: the effect of isDirty pushes the sentinel.
BecomeDirty ==
  /\ Move /\ prompt = "none" /\ ~isDirty
  /\ isDirty' = TRUE /\ dirtyRef' = TRUE
  /\ stack' = Pushed /\ pos' = pos + 1
  /\ strayed' = (strayed \/ ownBack)
  /\ UNCHANGED <<prompt, ownBack, away>>

GoesBack == stack[pos] = "guard"

\* Saved, discarded or edited back; also while the dialog asks.
BecomeClean ==
  /\ Move /\ isDirty
  /\ isDirty' = FALSE /\ dirtyRef' = FALSE
  /\ ownBack' = (ownBack \/ GoesBack)
  /\ UNCHANGED <<stack, pos, prompt, away, strayed>>

\* The browser goes back: to the page before, where the router follows, or
\* within the page, where popstate asks if dirty.
Travel ==
  /\ pos' = pos - 1
  /\ IF stack[pos - 1] = "before"
       THEN /\ away' = IF ~isDirty THEN "clean"
                       ELSE IF dirtyRef /\ prompt = "none" THEN "unasked" ELSE "asked"
            /\ UNCHANGED prompt
       ELSE /\ prompt' = IF dirtyRef THEN "history" ELSE prompt
            /\ UNCHANGED away
  /\ UNCHANGED <<stack, isDirty, dirtyRef>>

Back == Move /\ pos > 1 /\ Travel /\ UNCHANGED <<ownBack, strayed>>

Forward ==
  /\ Move /\ pos < Len(stack) /\ pos' = pos + 1
  /\ prompt' = (IF dirtyRef THEN "history" ELSE prompt) /\ strayed' = TRUE
  /\ UNCHANGED <<stack, isDirty, dirtyRef, ownBack, away>>

OwnBack ==
  /\ Here /\ ownBack /\ ownBack' = FALSE /\ Travel /\ UNCHANGED <<strayed, moves>>

\* A link of this site, or a choice in the command palette.
Follow ==
  /\ Move /\ prompt = "none"
  /\ IF dirtyRef THEN prompt' = "link" /\ UNCHANGED away
                 ELSE /\ away' = (IF ~isDirty THEN "clean" ELSE IF ownBack THEN "asked" ELSE "unasked")
                      /\ UNCHANGED prompt
  /\ UNCHANGED <<stack, pos, isDirty, dirtyRef, ownBack, strayed>>

\* A form that was saved leaves by router.push, which no listener sees.
SaveAndLeave ==
  /\ Move /\ isDirty /\ away' = "saved"
  /\ UNCHANGED <<stack, pos, isDirty, dirtyRef, prompt, ownBack, strayed>>

\* Mutant: no new sentinel.
PushesAgainNever == FALSE

PushesAgain == prompt = "history"

Stay ==
  /\ Move /\ prompt # "none" /\ prompt' = "none"
  /\ IF PushesAgain THEN stack' = Pushed /\ pos' = pos + 1 ELSE UNCHANGED <<stack, pos>>
  /\ strayed' = (strayed \/ (prompt = "history" /\ ~isDirty))
  /\ UNCHANGED <<isDirty, dirtyRef, ownBack, away>>

\* Escape does as Stay does, but never pushes the sentinel again.
Escape ==
  /\ Move /\ prompt # "none" /\ prompt' = "none"
  /\ strayed' = (strayed \/ prompt = "history")
  /\ UNCHANGED <<stack, pos, isDirty, dirtyRef, ownBack, away>>

\* For a link: location.assign, and the page is gone.  For Back: back once
\* more, from the page's own entry.
Leave ==
  /\ Move /\ prompt # "none" /\ prompt' = "none" /\ dirtyRef' = FALSE
  /\ IF prompt = "history" THEN ownBack' = TRUE /\ UNCHANGED away
                           ELSE away' = "asked" /\ UNCHANGED ownBack
  /\ UNCHANGED <<stack, pos, isDirty, strayed>>

GuardNext ==
  \/ BecomeDirty \/ BecomeClean \/ Back \/ Forward \/ OwnBack \/ Follow \/ SaveAndLeave
  \/ Stay \/ Escape \/ Leave

-----------------------------------------------------------------------------
\* Unsaved changes are left only by somebody who was asked: over any
\* sequence of edits, saves, Back buttons, links and answers.  The guard
\* loses count when the dialog is closed by Escape after Back or answered
\* after a save, when Forward was used, and when an edit comes before its own
\* back.
LeavesOnlyAsked == away = "unasked" => strayed
=============================================================================

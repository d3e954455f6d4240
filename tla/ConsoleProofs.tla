---------------------------- MODULE ConsoleProofs ----------------------------
(***************************************************************************)
(* Proofs about the administration console, for any users, roles, words,   *)
(* rows, page sizes and numbers of steps.  Each section has an invariant   *)
(* of its own, and the steps of the others leave it alone:                 *)
(*   ListInv    a text that is in the box and not in the list is on its    *)
(*              way;                                                       *)
(*   SetInv     what a dialog counts as kept is the set that is stored;   *)
(*   GuardInv   the history has the guard's entries where they are needed; *)
(*   CacheInv   what was rendered before a commit will be invalidated;     *)
(*   FormInv    what a form and its actions hold is the row, but for       *)
(*              edits and for what they were left behind in;               *)
(*   TableInv   a flip that waits promises the row shown, flipped;         *)
(*   AuditInv   a row the export owes lies on its page or on a later one.  *)
(* Last the requests that read (Reads), a specification of their own:      *)
(*   ReadIInv   a request's rows are of the scope it asked for, which its  *)
(*              reader had meanwhile; so are the lists in the cache.       *)
(***************************************************************************)
EXTENDS Console, Reads, Sequences, FiniteSetTheorems, TLAPS

(* List controls *)

Urls == [kw : Words, filter : Filters, size : Controls!Sizes]
Places == [at : BOOLEAN, to : Urls, own : BOOLEAN]

ListType ==
  /\ list \in Controls!Lists /\ url \in Urls /\ typed \in Words
  /\ timer \in Places /\ pushed \in Places /\ parked \in BOOLEAN

\* A search that waits is for the text in the box.
TimerHasText == timer.at => timer.to.kw = typed

\* What is in the box and not in the list is about to be: by the timer or by
\* a navigation that mounts the page anew.
TextOnItsWay ==
  typed = url.kw \/ parked \/ timer.at \/ (pushed.at /\ Controls!KeyChanges(pushed.to))

ListInv == ListType /\ TimerHasText /\ TextOnItsWay

LEMMA ListInitially == Controls!ListInit => ListInv
<1> SUFFICES ASSUME Controls!ListInit PROVE ListInv
  OBVIOUS
<1>1. Controls!Home \in Urls /\ Controls!Home.kw = NoWord
  BY ConsoleAssumption DEF Controls!Home, Controls!Url, Urls, Controls!Sizes
<1>2. Controls!None \in Places /\ ~Controls!None.at
  BY <1>1 DEF Controls!None, Places
<1> QED BY <1>1, <1>2, ConsoleAssumption
        DEF ListInv, ListType, TimerHasText, TextOnItsWay, Controls!ListInit

LEMMA UrlsAre ==
  /\ \A w \in Words, f \in Filters, n \in Controls!Sizes :
       /\ Controls!Url(w, f, n) \in Urls
       /\ Controls!Url(w, f, n).kw = w /\ Controls!Url(w, f, n).filter = f
       /\ Controls!Url(w, f, n).size = n
  /\ \A u \in Urls, w \in Words :
       /\ [u EXCEPT !.kw = w] \in Urls /\ [u EXCEPT !.kw = w].kw = w
  /\ \A u \in Urls, n \in Controls!Sizes :
       /\ [u EXCEPT !.size = n] \in Urls /\ [u EXCEPT !.size = n].size = n
       /\ [u EXCEPT !.size = n].kw = u.kw /\ [u EXCEPT !.size = n].filter = u.filter
BY DEF Urls, Controls!Url

LEMMA PlacesAre ==
  /\ Controls!None \in Places /\ ~Controls!None.at
  /\ \A u \in Urls : Controls!Some(u) \in Places /\ Controls!Some(u).at /\ Controls!Some(u).to = u
  /\ \A u \in Urls : Controls!Link(u) \in Places /\ Controls!Link(u).at /\ Controls!Link(u).to = u
<1>1. Controls!Home \in Urls
  BY UrlsAre, ConsoleAssumption DEF Controls!Home, Controls!Sizes
<1> QED BY <1>1 DEF Controls!None, Controls!Some, Controls!Link, Places

\* A search is for the word typed, unless the list has it.
LEMMA SearchIs ==
  ASSUME ListType, NEW w \in Words
  PROVE  /\ Controls!Search(w) \in Places
         /\ Controls!Search(w).at => Controls!Search(w).to.kw = w
         /\ ~Controls!Search(w).at => w = url.kw
<1>1. url \in Urls /\ url.filter \in Filters /\ 20 \in Controls!Sizes
  BY DEF ListType, Urls, Controls!Sizes
<1>2. /\ [url EXCEPT !.kw = w] \in Urls /\ [url EXCEPT !.kw = w].kw = w
      /\ Controls!Url(w, url.filter, 20) \in Urls /\ Controls!Url(w, url.filter, 20).kw = w
  BY <1>1, UrlsAre
<1> QED
  BY <1>1, <1>2, PlacesAre
  DEF Controls!Search, Controls!UsersSearch, Controls!PermissionsSearch, Controls!AuditSearch,
      Controls!RolesSearch, Controls!ClientsSearch

LEMMA TypeKeeps == ASSUME ListInv, NEW w \in Words, Controls!Type(w) PROVE ListInv'
<1>1. typed' = w /\ timer' = Controls!Search(w) /\ parked' = FALSE
     /\ UNCHANGED <<list, url, pushed>>
  BY DEF Controls!Type
<1> QED BY <1>1, SearchIs DEF ListInv, ListType, TimerHasText, TextOnItsWay

LEMMA ChooseKeeps == ASSUME ListInv, NEW f \in Filters, Controls!Choose(f) PROVE ListInv'
<1>1. /\ f # url.filter /\ pushed' = Controls!Some(Controls!Chosen(f))
      /\ UNCHANGED <<list, url, typed, timer, parked>>
  BY DEF Controls!Choose
<1>2. Controls!Chosen(f) \in Urls /\ Controls!Chosen(f).filter = f
  <2>1. url.kw \in Words /\ url.size \in Controls!Sizes /\ typed \in Words /\ 20 \in Controls!Sizes
    BY DEF ListInv, ListType, Urls, Controls!Sizes
  <2> QED BY <2>1, UrlsAre
          DEF Controls!Chosen, Controls!UsersChoose, Controls!ClientsChoose, Controls!AuditChoose,
              Controls!RolesChoose, Controls!PermissionsChoose
<1>3. pushed' \in Places /\ pushed'.at /\ pushed'.to.filter # url.filter
  BY <1>1, <1>2, PlacesAre
<1> QED BY <1>1, <1>3 DEF ListInv, ListType, TimerHasText, TextOnItsWay, Controls!KeyChanges

LEMMA ResizeKeeps == ASSUME ListInv, NEW n \in Controls!Sizes, Controls!Resize(n) PROVE ListInv'
<1>1. /\ n # url.size /\ pushed' = Controls!Link(Controls!Resized(n))
      /\ UNCHANGED <<list, url, typed, timer, parked>>
  BY DEF Controls!Resize
<1>2. Controls!Resized(n) \in Urls /\ Controls!Resized(n).size = n
  <2>1. url \in Urls /\ typed \in Words /\ url.filter \in Filters
    BY DEF ListInv, ListType, Urls
  <2> QED BY <2>1, UrlsAre DEF Controls!Resized
<1>3. pushed' \in Places /\ pushed'.at /\ pushed'.to.size # url.size
  BY <1>1, <1>2, PlacesAre
<1> QED BY <1>1, <1>3 DEF ListInv, ListType, TimerHasText, TextOnItsWay, Controls!KeyChanges

LEMMA ListLeaveKeeps == ASSUME ListInv, NEW b \in BOOLEAN, Controls!Leave(b) PROVE ListInv'
<1>1. /\ typed' = IF b THEN typed ELSE url.kw
      /\ timer' = IF b /\ Controls!IsEffect THEN Controls!Search(typed) ELSE Controls!None
      /\ pushed' = Controls!None
      /\ parked' = (b /\ ~Controls!IsEffect /\ typed # url.kw)
      /\ UNCHANGED <<list, url>>
  BY DEF Controls!Leave
<1>2. /\ url \in Urls /\ url.kw \in Words /\ typed \in Words /\ ListType
  BY DEF ListInv, ListType, Urls
<1>3. ListType'
  <2>1. parked' \in BOOLEAN
    BY <1>1
  <2>2. typed' \in Words /\ timer' \in Places /\ pushed' \in Places
    BY <1>1, <1>2, SearchIs, PlacesAre
  <2> QED BY <1>1, <1>2, <2>1, <2>2 DEF ListType
<1>4. TimerHasText'
  BY <1>1, <1>2, SearchIs, PlacesAre DEF TimerHasText
<1>5. TextOnItsWay'
  BY <1>1, <1>2, SearchIs, PlacesAre DEF TextOnItsWay
<1> QED BY <1>3, <1>4, <1>5 DEF ListInv

LEMMA TimerFiresKeeps == ListInv /\ Controls!TimerFires => ListInv'
<1> SUFFICES ASSUME ListInv, Controls!TimerFires PROVE ListInv'
  OBVIOUS
<1>1. /\ timer.at /\ timer' = Controls!None
      /\ pushed' = IF list = "audit" /\ timer.to.kw = url.kw THEN pushed ELSE timer
      /\ UNCHANGED <<list, url, typed, parked>>
  BY DEF Controls!TimerFires
<1>2. timer.to.kw = typed
  BY <1>1 DEF ListInv, TimerHasText
<1>3. ListType' /\ TimerHasText'
  BY <1>1, PlacesAre DEF ListInv, ListType, TimerHasText
<1>4. TextOnItsWay'
  BY <1>1, <1>2 DEF TextOnItsWay, Controls!KeyChanges
<1> QED BY <1>3, <1>4 DEF ListInv

LEMMA ArriveKeeps == ListInv /\ Controls!Arrive => ListInv'
<1> SUFFICES ASSUME ListInv, Controls!Arrive PROVE ListInv'
  OBVIOUS
<1>1. /\ pushed.at /\ pushed' = Controls!None /\ url' = pushed.to
      /\ UNCHANGED list /\ pushed.to \in Urls /\ pushed.to.kw \in Words
  BY DEF Controls!Arrive, ListInv, ListType, Places, Urls
<1>2. CASE Controls!KeyChanges(pushed.to)
  <2>1. typed' = pushed.to.kw /\ timer' = Controls!None /\ parked' = FALSE
    BY <1>2 DEF Controls!Arrive
  <2> QED BY <1>1, <2>1, PlacesAre DEF ListInv, ListType, TimerHasText, TextOnItsWay
<1>3. CASE ~Controls!KeyChanges(pushed.to)
  <2>1. UNCHANGED <<typed, timer, parked>> /\ url'.kw = url.kw
    BY <1>1, <1>3 DEF Controls!Arrive, Controls!KeyChanges
  <2> QED BY <1>1, <1>3, <2>1, PlacesAre DEF ListInv, ListType, TimerHasText, TextOnItsWay
<1> QED BY <1>2, <1>3

LEMMA ListKeeps == ListInv /\ [Controls!ListNext]_listVars => ListInv'
<1>1. ListInv /\ UNCHANGED listVars => ListInv'
  BY DEF listVars, ListInv, ListType, TimerHasText, TextOnItsWay, Controls!KeyChanges
<1> QED BY <1>1, TypeKeeps, ChooseKeeps, ResizeKeeps, ListLeaveKeeps, TimerFiresKeeps,
      ArriveKeeps
        DEF Controls!ListNext

LEMMA OnlyListSteps == [Next]_vars => [Controls!ListNext]_listVars
BY DEF Next, vars, listVars, CacheStep, ControlsStep, TableStep, FormsStep, SetsStep, GuardStep,
       AuditStep

\* BoxMatchesList (the search boxes, filters and page sizes of the list pages): for any words
\* and filters, in any order of keys, timers and navigations.
THEOREM BoxAgreesWithList == Spec => []BoxMatchesList
<1>1. Init => ListInv
  BY ListInitially DEF Init
<1>2. ListInv /\ [Next]_vars => ListInv'
  BY OnlyListSteps, ListKeeps
<1>3. ListInv => BoxMatchesList
  BY DEF ListInv, TextOnItsWay, BoxMatchesList, Controls!BoxMatchesList, Controls!Settled
<1> QED BY <1>1, <1>2, <1>3, PTL DEF Spec
-----------------------------------------------------------------------------
(* Set editors *)

Saves == [pc : {"idle", "sent", "done"}, what : SUBSET Items, added : SUBSET Items,
          removed : SUBSET Items, ok : BOOLEAN]

SetType ==
  /\ {held, usable, offered, ticked, kept} \subseteq SUBSET Items
  /\ saving \in Saves /\ loaded \in BOOLEAN /\ asking \in BOOLEAN /\ excusedSet \in BOOLEAN

\* A save under way makes of the set what the dialog listed, and what the page
\* counts as saved is what is assigned, but for a save that has not answered.
KnowsTheSet ==
  /\ asking \/ saving.pc # "idle" => loaded
  /\ saving.ok => saving.pc = "done"
  /\ loaded /\ ~excusedSet =>
       /\ IF saving.ok THEN held = saving.what ELSE held = kept
       /\ saving.pc = "sent" => saving.what = (held \ saving.removed) \cup saving.added

SetInv == SetType /\ KnowsTheSet

LEMMA SetInitially == Sets!SetInit => SetInv
<1> SUFFICES ASSUME Sets!SetInit PROVE SetInv
  OBVIOUS
<1>1. saving \in Saves /\ saving.pc = "idle" /\ ~saving.ok
  BY DEF Sets!SetInit, Sets!NoSave, Saves
<1> QED BY <1>1 DEF Sets!SetInit, SetInv, SetType, KnowsTheSet

LEMMA LoadDataKeeps == ASSUME SetInv, NEW fails \in BOOLEAN, Sets!LoadData(fails) PROVE SetInv'
<1>1. /\ ~loaded /\ loaded' = TRUE /\ offered' \in SUBSET Items
      /\ ticked' \in SUBSET Items /\ kept' = ticked' /\ ~asking /\ saving.pc = "idle"
      /\ excusedSet' \in BOOLEAN /\ (~excusedSet' => kept' = held)
      /\ UNCHANGED <<held, usable, asking, saving>>
  BY DEF Sets!LoadData, SetInv, SetType, KnowsTheSet
<1> QED BY <1>1 DEF SetInv, SetType, KnowsTheSet

LEMMA TickKeeps ==
  ASSUME SetInv, NEW S \in SUBSET Items, Sets!TickOnly(S)
  PROVE  SetInv'
BY DEF Sets!TickOnly, SetInv, SetType, KnowsTheSet

LEMMA ToggleKeeps == ASSUME SetInv, NEW i \in Items, Sets!Toggle(i) PROVE SetInv'
<1>1. ticked \ {i} \in SUBSET Items /\ ticked \cup {i} \in SUBSET Items
  BY DEF SetInv, SetType
<1> QED BY <1>1, TickKeeps DEF Sets!Toggle

LEMMA ScopeKeeps ==
  ASSUME SetInv, NEW S \in SUBSET offered,
         Sets!TickScope(S) \/ Sets!UntickScope(S) \/ Sets!Template(S)
  PROVE  SetInv'
<1>1. {ticked \cup S, ticked \ S, S} \subseteq SUBSET Items
  BY DEF SetInv, SetType
<1> QED BY <1>1, TickKeeps DEF Sets!TickScope, Sets!UntickScope, Sets!Template

LEMMA TakeBackKeeps == SetInv /\ Sets!TakeBack => SetInv'
<1>1. SetInv => kept \in SUBSET Items
  BY DEF SetInv, SetType
<1> QED BY <1>1, TickKeeps DEF Sets!TakeBack

LEMMA DialogKeeps == SetInv /\ (Sets!Ask \/ Sets!Dismiss) => SetInv'
BY DEF Sets!Ask, Sets!Dismiss, SetInv, SetType, KnowsTheSet

LEMMA SubmitKeeps == SetInv /\ Sets!Submit => SetInv'
<1> SUFFICES ASSUME SetInv, Sets!Submit PROVE SetInv'
  OBVIOUS
<1>1. /\ saving' = [pc |-> "sent", what |-> ticked, added |-> ticked \ kept,
                    removed |-> kept \ ticked, ok |-> FALSE]
      /\ asking /\ saving.pc = "idle"
      /\ UNCHANGED <<held, usable, offered, ticked, kept, loaded, asking, excusedSet>>
  BY DEF Sets!Submit, Sets!ToSend, Sets!Added, Sets!Removed
<1>2. SetType'
  BY <1>1 DEF SetInv, SetType, Saves
<1>3. ticked = (kept \ (kept \ ticked)) \cup (ticked \ kept)
  OBVIOUS
<1> QED BY <1>1, <1>2, <1>3 DEF SetInv, KnowsTheSet

LEMMA ReplaceKeeps == SetInv /\ Sets!Replace => SetInv'
<1> SUFFICES ASSUME SetInv, Sets!Replace PROVE SetInv'
  OBVIOUS
<1>1. /\ saving.pc = "sent" /\ held' = saving.what /\ held' \in SUBSET Items
      /\ saving' \in Saves /\ saving'.pc = "done" /\ saving'.ok /\ saving'.what = saving.what
      /\ UNCHANGED <<usable, offered, ticked, kept, loaded, asking, excusedSet>>
  BY DEF Sets!Replace, SetInv, SetType, Saves
<1> QED BY <1>1 DEF SetInv, SetType, KnowsTheSet

LEMMA RefuseSetKeeps == SetInv /\ Sets!RefuseSet => SetInv'
<1> SUFFICES ASSUME SetInv, Sets!RefuseSet PROVE SetInv'
  OBVIOUS
<1>1. /\ saving.pc = "sent" /\ saving' \in Saves /\ saving'.pc = "done" /\ ~saving'.ok
      /\ UNCHANGED <<held, usable, offered, ticked, kept, loaded, asking, excusedSet>>
  BY DEF Sets!RefuseSet, SetInv, SetType, Saves, KnowsTheSet
<1> QED BY <1>1 DEF SetInv, SetType, KnowsTheSet

LEMMA ThrowAfterKeeps == SetInv /\ Sets!ThrowAfter => SetInv'
<1> SUFFICES ASSUME SetInv, Sets!ThrowAfter PROVE SetInv'
  OBVIOUS
<1>1. /\ saving.pc = "done" /\ saving' \in Saves /\ saving'.pc = "done" /\ excusedSet' = TRUE
      /\ UNCHANGED <<held, usable, offered, ticked, kept, loaded, asking>>
  BY DEF Sets!ThrowAfter, SetInv, SetType, Saves
<1> QED BY <1>1 DEF SetInv, SetType, KnowsTheSet

LEMMA AnswerKeeps == SetInv /\ Sets!AnswerSet => SetInv'
BY DEF Sets!AnswerSet, Sets!KeptAfter, Sets!NoSave, SetInv, SetType, Saves, KnowsTheSet

LEMMA ElsewhereKeeps == ASSUME SetInv, NEW i \in Items, Sets!Elsewhere(i) PROVE SetInv'
BY DEF Sets!Elsewhere, SetInv, SetType, KnowsTheSet

LEMMA SetKeeps == SetInv /\ [Sets!SetNext]_setVars => SetInv'
<1>1. SetInv /\ UNCHANGED setVars => SetInv'
  BY DEF setVars, SetInv, SetType, KnowsTheSet
<1> QED BY <1>1, LoadDataKeeps, ToggleKeeps, ScopeKeeps, TakeBackKeeps, DialogKeeps, SubmitKeeps,
           ReplaceKeeps, RefuseSetKeeps, ThrowAfterKeeps, AnswerKeeps, ElsewhereKeeps
        DEF Sets!SetNext

LEMMA SavesWhatWasShown == SetInv => Sets!DoesWhatWasShown
<1> SUFFICES ASSUME SetInv, Sets!Replace, ~excusedSet
             PROVE  held' = (held \ saving.removed) \cup saving.added
  BY DEF Sets!DoesWhatWasShown
<1> QED BY DEF Sets!Replace, SetInv, KnowsTheSet

LEMMA OnlySetSteps == [Next]_vars => [Sets!SetNext]_setVars
BY DEF Next, vars, setVars, CacheStep, ControlsStep, TableStep, FormsStep, SetsStep, GuardStep,
       AuditStep

\* SaveDoesWhatWasShown (the pages of a role's permissions and a user's roles): for any set
\* of items and any selections, templates, answers and changes by others.
THEOREM SetsAreSavedAsShown == Spec => SaveDoesWhatWasShown
<1>1. Init => SetInv
  BY SetInitially DEF Init
<1>2. SetInv /\ [Next]_vars => SetInv'
  BY OnlySetSteps, SetKeeps
<1>3. SetInv /\ [Next]_vars => [Sets!DoesWhatWasShown]_setVars
  BY SavesWhatWasShown
<1> QED BY <1>1, <1>2, <1>3, PTL DEF Spec, SaveDoesWhatWasShown
-----------------------------------------------------------------------------
(* The leave guard *)

\* Where the page is in the tab's history: on its own entry, or on the sentinel
\* that Back takes away first.
OnPage == pos = 2
OnSentinel == pos = 3 /\ stack[3] = "guard"
History == stack \in Seq({"before", "page", "guard"}) /\ pos \in Nat /\ pos <= Len(stack)
           /\ stack[1] = "before" /\ stack[2] = "page"

\* While the guard keeps count: what is dirty has the sentinel under it or its
\* dialog open, unless "leave" was answered and the guard's own back is to come.
Counts ==
  /\ History /\ (OnPage \/ OnSentinel)
  /\ prompt = "history" => OnPage /\ ~ownBack /\ dirtyRef = isDirty
  /\ dirtyRef => isDirty /\ ~ownBack /\ (OnSentinel \/ prompt = "history")
  /\ isDirty /\ ~dirtyRef => OnPage /\ ownBack
  /\ ~isDirty /\ OnSentinel => ownBack

GuardType == /\ isDirty \in BOOLEAN /\ dirtyRef \in BOOLEAN /\ ownBack \in BOOLEAN
             /\ strayed \in BOOLEAN /\ prompt \in {"none", "link", "history"}

GuardInv ==
  /\ GuardType
  /\ ~strayed => away # "unasked" /\ (away = "no" => Counts)

LEMMA GuardInitially == Guard!GuardInit => GuardInv
<1> SUFFICES ASSUME Guard!GuardInit PROVE GuardInv
  OBVIOUS
<1>1. /\ stack = <<"before", "page">> /\ pos = 2 /\ isDirty = FALSE /\ dirtyRef = FALSE
      /\ prompt = "none" /\ ownBack = FALSE /\ away = "no" /\ strayed = FALSE
  BY DEF Guard!GuardInit
<1>2. History
  BY <1>1 DEF History
<1>3. GuardType
  BY <1>1 DEF GuardType
<1>4. Counts
  BY <1>1, <1>2 DEF Counts, OnPage, OnSentinel
<1> QED BY <1>1, <1>3, <1>4 DEF GuardInv

\* The sentinel is pushed on the page's own entry.
LEMMA PushedIs ==
  ASSUME History, OnPage
  PROVE  /\ Guard!Pushed \in Seq({"before", "page", "guard"}) /\ Len(Guard!Pushed) = 3
         /\ Guard!Pushed[1] = "before" /\ Guard!Pushed[2] = "page" /\ Guard!Pushed[3] = "guard"
BY DEF History, OnPage, Guard!Pushed

\* Back from the sentinel asks; back from the page leaves it.
LEMMA TravelIs ==
  ASSUME Counts, GuardType, Guard!Travel
  PROVE  /\ UNCHANGED <<stack, isDirty, dirtyRef>>
         /\ OnSentinel => OnPage' /\ UNCHANGED away /\ prompt' = IF dirtyRef THEN "history" ELSE prompt
         /\ OnPage => away' \notin {"no", "unasked"} /\ UNCHANGED prompt
<1>1. CASE OnSentinel
  BY <1>1 DEF Counts, History, OnPage, OnSentinel, Guard!Travel
<1>2. CASE OnPage
  <2>1. stack[pos - 1] = "before" /\ ~OnSentinel
    BY <1>2 DEF Counts, History, OnPage, OnSentinel
  <2>2. ~(isDirty /\ dirtyRef /\ prompt = "none")
    BY <2>1 DEF Counts
  <2> QED BY <2>1, <2>2 DEF Guard!Travel
<1> QED BY <1>1, <1>2 DEF Counts

LEMMA BecomeDirtyKeeps == GuardInv /\ Guard!BecomeDirty => GuardInv'
<1> SUFFICES ASSUME GuardInv, Guard!BecomeDirty PROVE GuardInv'
  OBVIOUS
<1>1. /\ away = "no" /\ away' = "no" /\ prompt = "none" /\ ~isDirty /\ isDirty' = TRUE
      /\ dirtyRef' = TRUE /\ stack' = Guard!Pushed /\ pos' = pos + 1
      /\ strayed' \in BOOLEAN /\ (~strayed' => ~strayed /\ ~ownBack)
      /\ UNCHANGED <<prompt, ownBack>>
  BY DEF Guard!BecomeDirty, Guard!Move, Guard!Here
<1>2. ASSUME ~strayed' PROVE Counts'
  <2>1. History /\ OnPage
    BY <1>1, <1>2 DEF GuardInv, Counts
  <2>2. pos' = 3 /\ History' /\ OnSentinel'
    BY <1>1, <2>1, PushedIs, SMTT(30) DEF History, OnPage, OnSentinel
  <2> QED BY <1>1, <1>2, <2>2 DEF Counts, OnPage, OnSentinel
<1> QED BY <1>1, <1>2 DEF GuardInv, GuardType

LEMMA BecomeCleanKeeps == GuardInv /\ Guard!BecomeClean => GuardInv'
<1> SUFFICES ASSUME GuardInv, Guard!BecomeClean PROVE GuardInv'
  OBVIOUS
<1>1. /\ away = "no" /\ isDirty' = FALSE /\ dirtyRef' = FALSE
      /\ ownBack' \in BOOLEAN /\ ownBack' = (ownBack \/ stack[pos] = "guard")
      /\ UNCHANGED <<stack, pos, prompt, away, strayed>>
  BY DEF Guard!BecomeClean, Guard!Move, Guard!Here, Guard!GoesBack
<1>2. ASSUME Counts PROVE Counts'
  <2>1. OnSentinel => ownBack'
    BY <1>1 DEF OnSentinel
  <2>2. OnPage => ownBack' = ownBack
    BY <1>1, <1>2 DEF OnPage, Counts, History, GuardInv, GuardType
  <2> QED BY <1>1, <1>2, <2>1, <2>2 DEF Counts, OnPage, OnSentinel, History
<1> QED BY <1>1, <1>2 DEF GuardInv, GuardType

LEMMA BackKeeps == GuardInv /\ (Guard!Back \/ Guard!OwnBack) => GuardInv'
<1> SUFFICES ASSUME GuardInv, Guard!Back \/ Guard!OwnBack PROVE GuardInv'
  OBVIOUS
<1>1. /\ away = "no" /\ Guard!Travel /\ UNCHANGED strayed /\ ownBack' \in BOOLEAN
      /\ Guard!Back => ownBack' = ownBack
      /\ ~Guard!Back => ownBack /\ ~ownBack'
  BY DEF Guard!Back, Guard!OwnBack, Guard!Move, Guard!Here, GuardInv, GuardType
<1>2. GuardType'
  BY <1>1 DEF Guard!Travel, GuardInv, GuardType
<1>3. ASSUME Counts PROVE away' # "unasked" /\ (away' = "no" => Counts')
  <2>1. CASE OnPage
    BY <1>1, <1>3, <2>1, TravelIs DEF GuardInv
  <2>2. CASE OnSentinel
    <3>1. /\ UNCHANGED <<stack, isDirty, dirtyRef>> /\ OnPage' /\ ~OnSentinel' /\ away' = "no"
          /\ prompt' = IF dirtyRef THEN "history" ELSE prompt
      BY <1>1, <1>3, <2>2, TravelIs DEF GuardInv, OnPage, OnSentinel
    <3>2. History'
      BY <1>3, <2>2, <3>1 DEF Counts, History, OnPage, OnSentinel
    <3>3. ~OnPage /\ prompt # "history" /\ (dirtyRef = isDirty) /\ (dirtyRef => ~ownBack)
          /\ (~isDirty => ownBack)
      BY <1>3, <2>2 DEF Counts, OnPage, OnSentinel, GuardInv, GuardType
    <3>4. dirtyRef => ~ownBack'
      BY <1>1, <3>3
    <3> QED BY <3>1, <3>2, <3>3, <3>4 DEF Counts
  <2> QED BY <1>3, <2>1, <2>2 DEF Counts
<1> QED BY <1>1, <1>2, <1>3 DEF GuardInv

LEMMA ForwardKeeps == GuardInv /\ Guard!Forward => GuardInv'
BY DEF Guard!Forward, GuardInv, GuardType

LEMMA FollowKeeps == GuardInv /\ Guard!Follow => GuardInv'
<1> SUFFICES ASSUME GuardInv, Guard!Follow PROVE GuardInv'
  OBVIOUS
<1>1. /\ away = "no" /\ prompt = "none" /\ UNCHANGED <<stack, pos, isDirty, dirtyRef, ownBack, strayed>>
      /\ IF dirtyRef THEN prompt' = "link" /\ UNCHANGED away
         ELSE /\ away' = IF ~isDirty THEN "clean" ELSE IF ownBack THEN "asked" ELSE "unasked"
              /\ UNCHANGED prompt
  BY DEF Guard!Follow, Guard!Move, Guard!Here
<1>2. ASSUME Counts PROVE away' # "unasked" /\ (away' = "no" => Counts')
  <2>1. CASE dirtyRef
    BY <1>1, <1>2, <2>1 DEF Counts, OnPage, OnSentinel, History
  <2>2. CASE ~dirtyRef
    BY <1>1, <1>2, <2>2 DEF Counts
  <2> QED BY <2>1, <2>2
<1> QED BY <1>1, <1>2 DEF GuardInv, GuardType

LEMMA SaveAndLeaveKeeps == GuardInv /\ Guard!SaveAndLeave => GuardInv'
BY DEF Guard!SaveAndLeave, GuardInv, GuardType

LEMMA StayKeeps == GuardInv /\ Guard!Stay => GuardInv'
<1> SUFFICES ASSUME GuardInv, Guard!Stay PROVE GuardInv'
  OBVIOUS
<1>1. /\ away = "no" /\ prompt # "none" /\ prompt' = "none"
      /\ strayed' \in BOOLEAN /\ (~strayed' => ~strayed /\ (prompt = "history" => isDirty))
      /\ UNCHANGED <<isDirty, dirtyRef, ownBack, away>>
      /\ prompt = "history" => stack' = Guard!Pushed /\ pos' = pos + 1
      /\ prompt # "history" => UNCHANGED <<stack, pos>>
  BY DEF Guard!Stay, Guard!Move, Guard!Here, Guard!PushesAgain
<1>2. ASSUME ~strayed' PROVE Counts'
  <2>1. Counts
    BY <1>1, <1>2 DEF GuardInv
  <2>2. CASE prompt = "history"
    <3>1. History /\ OnPage /\ isDirty /\ dirtyRef /\ ~ownBack
      BY <1>1, <1>2, <2>1, <2>2 DEF Counts
    <3>2. pos' = 3 /\ History' /\ OnSentinel'
      BY <1>1, <2>2, <3>1, PushedIs DEF History, OnPage, OnSentinel
    <3> QED BY <1>1, <3>1, <3>2 DEF Counts, OnPage, OnSentinel
  <2>3. CASE prompt # "history"
    BY <1>1, <2>1, <2>3 DEF Counts, OnPage, OnSentinel, History
  <2> QED BY <2>2, <2>3
<1> QED BY <1>1, <1>2 DEF GuardInv, GuardType

LEMMA EscapeKeeps == GuardInv /\ Guard!Escape => GuardInv'
<1> SUFFICES ASSUME GuardInv, Guard!Escape PROVE GuardInv'
  OBVIOUS
<1>1. /\ away = "no" /\ prompt' = "none" /\ strayed' \in BOOLEAN
      /\ (~strayed' => ~strayed /\ prompt # "history")
      /\ UNCHANGED <<stack, pos, isDirty, dirtyRef, ownBack, away>>
  BY DEF Guard!Escape, Guard!Move, Guard!Here
<1>2. ASSUME ~strayed' PROVE Counts'
  BY <1>1, <1>2 DEF GuardInv, Counts, OnPage, OnSentinel, History
<1> QED BY <1>1, <1>2 DEF GuardInv, GuardType

LEMMA LeaveKeeps == GuardInv /\ Guard!Leave => GuardInv'
<1> SUFFICES ASSUME GuardInv, Guard!Leave PROVE GuardInv'
  OBVIOUS
<1>1. /\ away = "no" /\ prompt # "none" /\ prompt' = "none" /\ dirtyRef' = FALSE
      /\ UNCHANGED <<stack, pos, isDirty, strayed>>
      /\ prompt = "history" => ownBack' = TRUE /\ UNCHANGED away
      /\ prompt # "history" => away' = "asked" /\ UNCHANGED ownBack
  BY DEF Guard!Leave, Guard!Move, Guard!Here
<1>2. ASSUME Counts, prompt = "history" PROVE Counts'
  BY <1>1, <1>2 DEF Counts, OnPage, OnSentinel, History
<1> QED BY <1>1, <1>2 DEF GuardInv, GuardType

LEMMA GuardKeeps == GuardInv /\ [Guard!GuardNext]_guardVars => GuardInv'
<1>1. GuardInv /\ UNCHANGED guardVars => GuardInv'
  BY DEF guardVars, GuardInv, GuardType, Counts, History, OnPage, OnSentinel
<1> QED BY <1>1, BecomeDirtyKeeps, BecomeCleanKeeps, BackKeeps, ForwardKeeps, FollowKeeps,
           SaveAndLeaveKeeps, StayKeeps, EscapeKeeps, LeaveKeeps
        DEF Guard!GuardNext

LEMMA OnlyGuardSteps == [Next]_vars => [Guard!GuardNext]_guardVars
BY DEF Next, vars, guardVars, CacheStep, ControlsStep, TableStep, FormsStep, SetsStep, GuardStep,
       AuditStep

\* LeavesOnlyAsked (use-unsaved-changes-guard.tsx): over histories of any length and any
\* sequence of edits, saves, Back buttons, links and answers.
THEOREM NobodyLeavesUnasked == Spec => []LeavesOnlyAsked
<1>1. Init => GuardInv
  BY GuardInitially DEF Init
<1>2. GuardInv /\ [Next]_vars => GuardInv'
  BY OnlyGuardSteps, GuardKeeps
<1>3. GuardInv => LeavesOnlyAsked
  BY DEF GuardInv, GuardType, LeavesOnlyAsked, Guard!LeavesOnlyAsked
<1> QED BY <1>1, <1>2, <1>3, PTL DEF Spec
-----------------------------------------------------------------------------
(* The pages' cache *)

Calls == [op : DOMAIN Cache!Ops \cup {"none"}, pc : {"idle", "committed"}]

CacheType ==
  /\ view \in DOMAIN Cache!Reads
  /\ entry.phase \in {"absent", "filling", "stored"}
  /\ entry \in [phase : {"absent", "filling", "stored"}, old : SUBSET Cache!Tables]
  /\ call \in [Handlers -> Calls]
  /\ \A h \in Handlers : call[h].pc = "committed" => call[h].op \in DOMAIN Cache!Ops

\* The operation's resource names the tag of the read model watched.
Drops(op) ==
  Cache!Ops[op].resource # "none" /\ view \in Cache!Invalidation[Cache!Ops[op].resource]

\* The entry is out of date for a reason that is named, or a handler that has
\* committed is about to drop it.
OldIsDropped ==
  \A t \in entry.old :
    \/ t \in explained
    \/ \E h \in Handlers :
         call[h].pc = "committed" /\ t \in Cache!Ops[call[h].op].changes /\ Drops(call[h].op)

CacheInv == CacheType /\ OldIsDropped

LEMMA CacheInitially == Cache!CacheInit => CacheInv
BY DEF Cache!CacheInit, Cache!Absent, Cache!NoCall, CacheInv, CacheType, Calls, OldIsDropped

\* Who reads a table.
LEMMA ReadersAre ==
  ASSUME NEW v \in DOMAIN Cache!Reads
  PROVE  /\ Cache!Reads[v] \subseteq Cache!Tables
         /\ "users" \in Cache!Reads[v] => v = "users"
         /\ "userRoles" \in Cache!Reads[v] => v = "users"
         /\ "departments" \in Cache!Reads[v] => v \in {"users", "departments", "deptOptions"}
         /\ "roles" \in Cache!Reads[v] => v = "roles"
         /\ "rolePermissions" \in Cache!Reads[v] => v = "roles"
         /\ "permissions" \in Cache!Reads[v] => v = "permissions"
         /\ "clients" \in Cache!Reads[v] => v \in {"clients", "clientOptions", "clientCounts"}
         /\ "refreshTokens" \in Cache!Reads[v] => v = "clients"
BY DEF Cache!Reads, Cache!UsersRead, Cache!RolesRead, Cache!ClientsRead, Cache!PermissionsRead,
       Cache!DepartmentsRead, Cache!OptionsRead, Cache!ClientOptionsRead, Cache!ClientCountsRead,
       Cache!Tables

\* A write drops every read model that shows what it changes, but for the gaps.
LEMMA TagsCover ==
  ASSUME NEW op \in DOMAIN Cache!Ops, view \in DOMAIN Cache!Reads,
         NEW t \in Cache!Ops[op].changes \cap Cache!Reads[view]
  PROVE  t \in Cache!Tables /\ (<<view, t>> \in Cache!Gaps(op) \/ Drops(op))
<1>1. t \in Cache!Tables
  BY ReadersAre
<1>2. CASE op \in {"editUser", "assignRoles", "editProfile", "login"}
  BY <1>2, ReadersAre DEF Cache!Ops, Cache!Op, Cache!Gaps, Cache!Invalidation, Drops
<1>3. CASE op \in {"issueToken", "editRole", "grant", "revokeTokens"}
  BY <1>3, ReadersAre DEF Cache!Ops, Cache!Op, Cache!Gaps, Cache!Invalidation, Drops
<1>4. CASE op \in {"deleteRole", "deletePermission", "deleteClient"}
  BY <1>4, ReadersAre DEF Cache!Ops, Cache!Op, Cache!Gaps, Cache!Invalidation, Drops
<1>5. CASE op \in {"editPermission", "register", "editDepartment", "editClient"}
  BY <1>5, ReadersAre
  DEF Cache!Ops, Cache!Op, Cache!RegisterOp, Cache!DepartmentOp, Cache!Gaps, Cache!Invalidation, Drops
<1>6. op \in {"editUser", "assignRoles", "editProfile", "login", "issueToken", "editRole",
              "deleteRole", "grant", "editPermission", "deletePermission", "register",
              "editDepartment", "editClient", "deleteClient", "revokeTokens"}
  BY DEF Cache!Ops
<1> QED BY <1>1, <1>2, <1>3, <1>4, <1>5, <1>6

LEMMA FillKeeps == CacheInv /\ (Cache!BeginFill \/ Cache!Store \/ Cache!Expire) => CacheInv'
BY DEF Cache!BeginFill, Cache!Store, Cache!Expire, Cache!Absent, CacheInv, CacheType, OldIsDropped, Drops

LEMMA CommitKeepsCache ==
  ASSUME CacheInv, NEW h \in Handlers, NEW op \in DOMAIN Cache!Ops, Cache!Commit(h, op)
  PROVE  CacheInv'
<1>1. /\ call[h].pc = "idle" /\ call' = [call EXCEPT ![h] = [op |-> op, pc |-> "committed"]]
      /\ entry' = IF entry.phase = "absent" THEN entry
                  ELSE [entry EXCEPT !.old = @ \cup (Cache!Ops[op].changes \cap Cache!Reads[view])]
      /\ explained' = explained \cup {t \in Cache!Tables : <<view, t>> \in Cache!Gaps(op)}
      /\ view' = view
  BY DEF Cache!Commit
<1>2. /\ call' \in [Handlers -> Calls] /\ call'[h].op = op /\ call'[h].pc = "committed"
      /\ \A g \in Handlers : g # h => call'[g] = call[g]
  BY <1>1 DEF CacheInv, CacheType, Calls
<1>3. /\ entry'.phase \in {"absent", "filling", "stored"}
      /\ entry' \in [phase : {"absent", "filling", "stored"}, old : SUBSET Cache!Tables]
      /\ entry'.old \subseteq entry.old \cup (Cache!Ops[op].changes \cap Cache!Reads[view])
  <2>1. Cache!Ops[op].changes \cap Cache!Reads[view] \subseteq Cache!Tables
    BY ReadersAre DEF CacheInv, CacheType
  <2> QED BY <1>1, <2>1 DEF CacheInv, CacheType
<1>4. CacheType'
  BY <1>1, <1>2, <1>3 DEF CacheInv, CacheType
<1>5. \A p : Drops(p)' <=> Drops(p)
  BY <1>1 DEF Drops
<1>6. OldIsDropped'
  <2> SUFFICES ASSUME NEW t \in entry'.old, t \notin explained'
               PROVE  \E g \in Handlers : /\ call'[g].pc = "committed"
                                          /\ t \in Cache!Ops[call'[g].op].changes
                                          /\ Drops(call'[g].op)
    BY <1>1 DEF OldIsDropped, Drops
  <2>1. CASE t \in entry.old
    <3>1. PICK g \in Handlers : /\ call[g].pc = "committed"
                                /\ t \in Cache!Ops[call[g].op].changes /\ Drops(call[g].op)
      BY <1>1, <2>1 DEF CacheInv, OldIsDropped
    <3> QED BY <1>1, <1>2, <3>1
  <2>2. CASE t \in Cache!Ops[op].changes \cap Cache!Reads[view]
    <3>1. Drops(op)
      BY <1>1, <2>2, TagsCover DEF CacheInv, CacheType
    <3> QED BY <1>2, <2>2, <3>1
  <2> QED BY <1>3, <2>1, <2>2
<1> QED BY <1>4, <1>6 DEF CacheInv

LEMMA InvalidateKeeps == ASSUME CacheInv, NEW h \in Handlers, Cache!Invalidate(h) PROVE CacheInv'
<1>1. /\ call[h].pc = "committed" /\ call' = [call EXCEPT ![h] = Cache!NoCall]
      /\ entry' = IF Drops(call[h].op) THEN Cache!Absent ELSE entry
      /\ UNCHANGED <<view, explained>>
  BY DEF Cache!Invalidate, Drops
<1>2. CacheType' /\ \A g \in Handlers : g # h => call'[g] = call[g]
  BY <1>1 DEF CacheInv, CacheType, Calls, Cache!NoCall, Cache!Absent
<1>3. OldIsDropped'
  BY <1>1, <1>2 DEF CacheInv, OldIsDropped, Drops, Cache!Absent
<1> QED BY <1>2, <1>3 DEF CacheInv

LEMMA ThrowKeeps == ASSUME CacheInv, NEW h \in Handlers, Cache!Throw(h) PROVE CacheInv'
<1>1. /\ call[h].pc = "committed" /\ call' = [call EXCEPT ![h] = Cache!NoCall]
      /\ explained' = explained \cup Cache!Ops[call[h].op].changes
      /\ UNCHANGED <<view, entry>>
  BY DEF Cache!Throw
<1>2. CacheType' /\ \A g \in Handlers : g # h => call'[g] = call[g]
  BY <1>1 DEF CacheInv, CacheType, Calls, Cache!NoCall
<1>3. OldIsDropped'
  BY <1>1, <1>2 DEF CacheInv, OldIsDropped, Drops
<1> QED BY <1>2, <1>3 DEF CacheInv

LEMMA CacheKeeps == CacheInv /\ [Cache!CacheNext]_cacheVars => CacheInv'
<1>1. CacheInv /\ UNCHANGED cacheVars => CacheInv'
  BY DEF cacheVars, CacheInv, CacheType, OldIsDropped, Drops
<1> QED BY <1>1, FillKeeps, CommitKeepsCache, InvalidateKeeps, ThrowKeeps DEF Cache!CacheNext

LEMMA OnlyCacheSteps == [Next]_vars => [Cache!CacheNext]_cacheVars
BY DEF Next, vars, cacheVars, CacheStep, ControlsStep, TableStep, FormsStep, SetsStep, GuardStep,
       AuditStep

\* CachedPagesAreCurrent (cache-invalidation.ts and the data.ts files): for any number of
\* handlers, whatever they commit while a page is rendered or shown.
THEOREM WritesReachPages == Spec => []CachedPagesAreCurrent
<1>1. Init => CacheInv
  BY CacheInitially DEF Init
<1>2. CacheInv /\ [Next]_vars => CacheInv'
  BY OnlyCacheSteps, CacheKeeps
<1>3. CacheInv => CachedPagesAreCurrent
  BY DEF CacheInv, OldIsDropped, CachedPagesAreCurrent, Cache!CachedPagesAreCurrent
<1> QED BY <1>1, <1>2, <1>3, PTL DEF Spec
-----------------------------------------------------------------------------
(* Forms *)

Kinds == {"save", "status"}
FullRow == [name : Names, status : {"ACTIVE", "DISABLED", "LOCKED"}]
Acts == [pc : {"idle", "sent", "loaded", "done"}, on : Records \cup {NoRecord},
         what : FullRow \cup {NoRecord}, may : SUBSET Forms!Fields,
         base : FullRow \cup {NoRecord}, ok : BOOLEAN]

FormType ==
  /\ page \in Forms!Pages \cup Forms!Dialogs
  /\ db \in [Records -> FullRow] /\ shown \in [Records -> FullRow]
  /\ form \in FullRow /\ saved \in FullRow /\ open \in Records \cup {NoRecord}
  /\ action \in [Kinds -> Acts] /\ {edited, stale} \subseteq SUBSET Forms!Fields

\* The pages of a user and of a client stay open for one row, and alone have a
\* button beside the form.
OfOne == page \in {"user", "client"}
Save == action["save"]
Button == action["status"]

\* A call has its row and what to write; at most one is past its load.
InHand ==
  /\ \A k \in Kinds : action[k].pc # "idle" => action[k].on \in Records /\ action[k].what \in FullRow
  /\ \A k \in Kinds : action[k].pc \in {"loaded", "done"} => action[k].base \in FullRow
  /\ OfOne => open \in Records /\ \A k \in Kinds : action[k].pc # "idle" => action[k].on = open
  /\ ~OfOne => Button.pc = "idle"
  /\ page = "user" => Save.pc = "idle" \/ Button.pc = "idle"
  /\ Save.pc \in {"loaded", "done"} => Button.pc \in {"idle", "sent"}
  /\ Button.pc \in {"loaded", "done"} => Save.pc \in {"idle", "sent"}

\* What a call has loaded is the row, but for what somebody else wrote since.
BaseIsRow ==
  /\ Save.pc = "loaded" => \A f \in Forms!Fields \ Save.may : Save.base[f] = db[Save.on][f]
  /\ Button.pc = "loaded" =>
       \A f \in Forms!Fields :
         Button.base[f] = db[open][f] \/ (f \in stale /\ (Save.pc = "sent" => f \in Save.may))

\* What a save sends is the row, but for what it may change.
SentIsRow ==
  Save.pc \in {"sent", "loaded"} =>
    \A f \in Forms!Sent \ Save.may : Save.what[f] = db[Save.on][f]

\* Edits made while a save runs are noted.
FormIsSent ==
  OfOne /\ Save.pc \in {"sent", "loaded"} =>
    \A f \in Forms!Sent \ edited : Save.what[f] = form[f]

\* What an answer makes the form count as saved is in the row.
Written == Save.pc = "done" /\ Save.ok
WrittenIsRow == OfOne /\ Written => \A f \in Forms!Sent \ stale : Save.what[f] = db[open][f]

\* What a form holds and what it counts as saved is the row, but for edits
\* and what it was left behind in, and the status while an unlock is answered.
Unlocking == page = "user" /\ Button.pc = "done" /\ Button.ok
FormIsRow ==
  open # NoRecord =>
    \A f \in Forms!Sent \ (edited \cup stale) :
      form[f] = db[open][f] \/ (Unlocking /\ f = "status")
SavedIsRow ==
  OfOne /\ ~Written =>
    \A f \in Forms!Sent \ stale : saved[f] = db[open][f] \/ (Unlocking /\ f = "status")
UnlockActivates ==
  page = "user" /\ Button.pc # "idle" =>
    /\ Button.what.status = "ACTIVE"
    /\ Unlocking => db[open].status = "ACTIVE" \/ "status" \in stale

FormInv ==
  /\ FormType /\ InHand /\ BaseIsRow /\ SentIsRow /\ FormIsSent /\ WrittenIsRow
  /\ FormIsRow /\ SavedIsRow /\ UnlockActivates

LEMMA FieldsAre ==
  /\ Forms!Sent \subseteq Forms!Fields /\ Forms!Fields = {"name", "status"}
  /\ page \in {"client", "profile"} => Forms!Sent = {"name"}
  /\ page \notin {"client", "profile"} => Forms!Sent = Forms!Fields
BY DEF Forms!Sent, Forms!Fields

LEMMA RowsAre ==
  /\ Forms!Row \subseteq FullRow
  /\ \A f, g \in FullRow : f = g <=> f.name = g.name /\ f.status = g.status
  /\ \A r \in FullRow, v \in Names :
       /\ [r EXCEPT !.name = v] \in FullRow
       /\ [r EXCEPT !.name = v].name = v /\ [r EXCEPT !.name = v].status = r.status
  /\ \A r \in FullRow, v \in {"ACTIVE", "DISABLED", "LOCKED"} :
       /\ [r EXCEPT !.status = v] \in FullRow
       /\ [r EXCEPT !.status = v].name = r.name /\ [r EXCEPT !.status = v].status = v
BY DEF Forms!Row, Forms!Statuses, FullRow

\* One call changes at a time.
LEMMA OneCall ==
  ASSUME FormType, NEW k \in Kinds, NEW a \in Acts, action' = [action EXCEPT ![k] = a]
  PROVE  /\ action' \in [Kinds -> Acts] /\ action'[k] = a
         /\ \A j \in Kinds : j # k => action'[j] = action[j]
BY DEF FormType

LEMMA FormInitially == Forms!FormInit => FormInv
<1> SUFFICES ASSUME Forms!FormInit PROVE FormInv
  OBVIOUS
<1> DEFINE r0 == CHOOSE r \in Records : TRUE
<1>1. r0 \in Records
  BY ConsoleAssumption
<1>2. PICK row \in Forms!Row : db = [r \in Records |-> row]
  BY DEF Forms!FormInit
<1>3. row \in FullRow /\ db \in [Records -> FullRow] /\ db[r0] = row
  BY <1>1, <1>2, RowsAre
<1>4. Forms!NoCall \in Acts /\ Forms!NoCall.pc = "idle"
  BY DEF Forms!NoCall, Acts
<1>5. /\ shown = db /\ form = row /\ saved = row /\ edited = {} /\ stale = {}
      /\ page \in Forms!Pages \cup Forms!Dialogs
      /\ open = IF page \in Forms!Pages THEN r0 ELSE NoRecord
      /\ action = [k \in Kinds |-> Forms!NoCall]
  BY <1>3 DEF Forms!FormInit, Kinds
<1>6. FormType
  BY <1>1, <1>3, <1>4, <1>5 DEF FormType
<1>7. open \in Records => db[open] = row
  BY <1>2
<1>8. Save.pc = "idle" /\ Button.pc = "idle" /\ OfOne => open \in Records
  BY <1>1, <1>4, <1>5 DEF Save, Button, Kinds, OfOne, Forms!Pages
<1>9. \A k \in Kinds : action[k].pc = "idle"
  BY <1>4, <1>5
<1> QED BY <1>1, <1>5, <1>6, <1>7, <1>8, <1>9, ConsoleAssumption
        DEF FormInv, InHand, BaseIsRow, SentIsRow, FormIsSent, WrittenIsRow, Written, FormIsRow,
            SavedIsRow, UnlockActivates, Save, Button, OfOne, Forms!Pages, Kinds

LEMMA OpenKeeps == ASSUME FormInv, NEW r \in Records, Forms!Open(r) PROVE FormInv'
<1> DEFINE s == Forms!Source(r)
<1>1. s \in FullRow
  BY DEF Forms!Source, FormInv, FormType
<1>2. /\ open = NoRecord /\ open' = r /\ form' = s /\ saved' = s /\ edited' = {}
      /\ stale' = {f \in Forms!Fields : s[f] # db[r][f]} /\ UNCHANGED <<page, db, shown, action>>
  BY DEF Forms!Open
<1> HIDE DEF s
<1>3. ~OfOne /\ ~OfOne'
  BY <1>2, ConsoleAssumption DEF FormInv, InHand, OfOne
<1>4. FormType'
  BY <1>1, <1>2 DEF FormInv, FormType
<1>5. \A f \in Forms!Fields \ stale' : form'[f] = db'[r][f]
  BY <1>2
<1>6. InHand' /\ BaseIsRow' /\ SentIsRow' /\ UnlockActivates'
  BY <1>2, <1>3 DEF FormInv, InHand, BaseIsRow, SentIsRow, UnlockActivates, Unlocking, OfOne, Save,
                    Button, Forms!Sent
<1>7. FormIsRow'
  BY <1>2, <1>5, FieldsAre DEF FormIsRow, Forms!Sent
<1> QED BY <1>3, <1>4, <1>6, <1>7 DEF FormInv, FormIsSent, WrittenIsRow, SavedIsRow

LEMMA CloseKeeps == FormInv /\ Forms!Close => FormInv'
<1> SUFFICES ASSUME FormInv, Forms!Close PROVE FormInv'
  OBVIOUS
<1>1. /\ page \notin {"user", "client"} /\ open' = NoRecord
      /\ UNCHANGED <<page, db, shown, form, saved, action, edited, stale>>
  BY DEF Forms!Close
<1>2. ~OfOne /\ ~OfOne' /\ Button.pc = "idle"
  BY <1>1 DEF OfOne, FormInv, InHand
<1>3. FormType'
  BY <1>1 DEF FormInv, FormType
<1> QED BY <1>1, <1>2, <1>3
        DEF FormInv, InHand, BaseIsRow, SentIsRow, FormIsSent, WrittenIsRow, FormIsRow, SavedIsRow,
            UnlockActivates, Unlocking, Save, Button, Forms!Sent

LEMMA EditKeeps ==
  ASSUME FormInv, NEW f \in Forms!Fields, NEW v, [form EXCEPT ![f] = v] \in FullRow, Forms!Edit(f, v)
  PROVE  FormInv'
<1>1. /\ form' = [form EXCEPT ![f] = v] /\ edited' = edited \cup {f}
      /\ UNCHANGED <<page, db, shown, open, saved, action, stale>>
  BY DEF Forms!Edit
<1>2. FormType' /\ \A g \in Forms!Fields \ {f} : form'[g] = form[g]
  BY <1>1 DEF FormInv, FormType, FullRow, Forms!Fields
<1>3. InHand' /\ BaseIsRow' /\ SentIsRow' /\ WrittenIsRow' /\ SavedIsRow' /\ UnlockActivates'
  BY <1>1 DEF FormInv, InHand, BaseIsRow, SentIsRow, WrittenIsRow, Written, SavedIsRow,
              UnlockActivates, Unlocking, OfOne, Save, Button, Forms!Sent
<1>4. FormIsSent'
  BY <1>1, <1>2, FieldsAre DEF FormInv, FormIsSent, OfOne, Save, Forms!Sent
<1>5. FormIsRow'
  BY <1>1, <1>2, FieldsAre DEF FormInv, FormIsRow, Unlocking, Button, Forms!Sent
<1> QED BY <1>2, <1>3, <1>4, <1>5 DEF FormInv

LEMMA DiscardKeeps == FormInv /\ Forms!Discard => FormInv'
<1> SUFFICES ASSUME FormInv, Forms!Discard PROVE FormInv'
  OBVIOUS
<1>1. /\ OfOne /\ ~Forms!Saving /\ form' = saved /\ edited' = {}
      /\ UNCHANGED <<page, db, shown, open, saved, action, stale>>
  BY DEF Forms!Discard, OfOne
<1>2. Save.pc = "idle"
  BY <1>1 DEF Forms!Saving, Forms!Busy, Save
<1>3. FormType'
  BY <1>1 DEF FormInv, FormType
<1>4. InHand' /\ BaseIsRow' /\ SentIsRow' /\ WrittenIsRow' /\ SavedIsRow' /\ UnlockActivates'
  BY <1>1 DEF FormInv, InHand, BaseIsRow, SentIsRow, WrittenIsRow, Written, SavedIsRow,
              UnlockActivates, Unlocking, OfOne, Save, Button, Forms!Sent
<1>5. FormIsSent'
  BY <1>1, <1>2 DEF FormIsSent, Save
<1>6. FormIsRow'
  BY <1>1, <1>2 DEF FormInv, FormIsRow, SavedIsRow, Written, Unlocking, Button, Forms!Sent
<1> QED BY <1>3, <1>4, <1>5, <1>6 DEF FormInv

\* What a call is started with.
LEMMA StartIs ==
  ASSUME FormInv, NEW k \in Kinds, NEW what \in FullRow, Forms!Start(k, what), open # NoRecord
  PROVE  /\ UNCHANGED <<page, db, shown, open, form, saved, edited, stale>>
         /\ FormType' /\ action'[k].pc = "sent" /\ action'[k].on = open /\ open \in Records
         /\ action'[k].what = what /\ action'[k].may = edited \cup stale
         /\ \A j \in Kinds : j # k => action'[j] = action[j]
<1> DEFINE a == [Forms!NoCall EXCEPT !.pc = "sent", !.on = open, !.what = what,
                                     !.may = edited \cup stale]
<1>1. open \in Records /\ edited \cup stale \in SUBSET Forms!Fields
  BY DEF FormInv, FormType
<1>2. /\ a \in Acts /\ a.pc = "sent" /\ a.on = open /\ a.what = what /\ a.may = edited \cup stale
  BY <1>1 DEF Forms!NoCall, Acts
<1>3. action' = [action EXCEPT ![k] = a] /\ UNCHANGED <<page, db, shown, open, form, saved, edited, stale>>
  BY DEF Forms!Start
<1> HIDE DEF a
<1>4. /\ action' \in [Kinds -> Acts] /\ action'[k] = a
      /\ \A j \in Kinds : j # k => action'[j] = action[j]
  BY <1>2, <1>3, OneCall DEF FormInv
<1>5. FormType'
  BY <1>3, <1>4 DEF FormInv, FormType
<1> QED BY <1>1, <1>2, <1>3, <1>4, <1>5

LEMMA SaveKeeps == FormInv /\ Forms!Save => FormInv'
<1> SUFFICES ASSUME FormInv, Forms!Save PROVE FormInv'
  OBVIOUS
<1>1. /\ open # NoRecord /\ ~Forms!Saving /\ Forms!Start("save", form) /\ form \in FullRow
  BY DEF Forms!Save, FormInv, FormType
<1>2. /\ UNCHANGED <<page, db, shown, open, form, saved, edited, stale>>
      /\ FormType' /\ Save'.pc = "sent" /\ Save'.on = open /\ open \in Records
      /\ Save'.what = form /\ Save'.may = edited \cup stale /\ Button' = Button
  BY <1>1, StartIs DEF Save, Button, Kinds
<1>3. Save.pc = "idle" /\ (page = "user" => Button.pc = "idle")
  BY <1>1 DEF Forms!Saving, Forms!Busy, Save, Button
<1>4. InHand'
  BY <1>1, <1>2, <1>3 DEF FormInv, InHand, OfOne, Save, Button, Kinds
<1>5. BaseIsRow'
  BY <1>2, <1>3 DEF FormInv, BaseIsRow
<1>6. SentIsRow'
  BY <1>1, <1>2, <1>3 DEF FormInv, SentIsRow, FormIsRow, Unlocking, Forms!Sent
<1>7. FormIsSent' /\ WrittenIsRow' /\ FormIsRow' /\ SavedIsRow' /\ UnlockActivates'
  BY <1>2, <1>3
  DEF FormInv, FormIsSent, WrittenIsRow, Written, FormIsRow, SavedIsRow, UnlockActivates, Unlocking,
      OfOne, Forms!Sent
<1> QED BY <1>2, <1>4, <1>5, <1>6, <1>7 DEF FormInv

LEMMA PressStatusKeeps == FormInv /\ Forms!PressStatus => FormInv'
<1> SUFFICES ASSUME FormInv, Forms!PressStatus PROVE FormInv'
  OBVIOUS
<1> DEFINE v == IF shown[open].status = "ACTIVE" THEN "DISABLED" ELSE "ACTIVE"
           what == [form EXCEPT !.status = v]
<1>1. /\ ~Forms!Saving /\ Button.pc = "idle" /\ Forms!Start("status", what)
      /\ OfOne /\ open # NoRecord /\ (page = "user" => shown[open].status = "LOCKED")
  BY ConsoleAssumption DEF Forms!PressStatus, Forms!Busy, Button, OfOne, FormInv, InHand
<1>2. what \in FullRow /\ (page = "user" => what.status = "ACTIVE")
  BY <1>1, RowsAre DEF FormInv, FormType
<1> HIDE DEF what
<1>3. /\ UNCHANGED <<page, db, shown, open, form, saved, edited, stale>>
      /\ FormType' /\ Button'.pc = "sent" /\ Button'.on = open /\ open \in Records
      /\ Button'.what = what /\ Save' = Save
  BY <1>1, <1>2, StartIs DEF Save, Button, Kinds
<1>4. page = "user" => Save.pc = "idle"
  BY <1>1 DEF Forms!Saving, Forms!Busy, Save
<1>5. InHand'
  BY <1>1, <1>2, <1>3, <1>4 DEF FormInv, InHand, OfOne, Save, Button, Kinds
<1>6. BaseIsRow' /\ SentIsRow' /\ FormIsSent' /\ WrittenIsRow' /\ FormIsRow' /\ SavedIsRow'
  BY <1>1, <1>3
  DEF FormInv, BaseIsRow, SentIsRow, FormIsSent, WrittenIsRow, Written, FormIsRow, SavedIsRow,
      Unlocking, OfOne, Forms!Sent
<1>7. UnlockActivates'
  BY <1>2, <1>3 DEF UnlockActivates, Unlocking
<1> QED BY <1>3, <1>5, <1>6, <1>7 DEF FormInv

LEMMA LoadKeeps == ASSUME FormInv, NEW k \in Kinds, Forms!Load(k) PROVE FormInv'
<1> DEFINE a == [action[k] EXCEPT !.pc = "loaded", !.base = db[action[k].on]]
<1>1. /\ action[k].pc = "sent" /\ \A j \in Kinds : action[j].pc \in {"idle", "sent"}
      /\ action' = [action EXCEPT ![k] = a]
      /\ UNCHANGED <<page, db, shown, open, form, saved, edited, stale>>
  BY DEF Forms!Load, FormInv, FormType
<1>2. action[k] \in Acts /\ db[action[k].on] \in FullRow
  BY <1>1 DEF FormInv, FormType, InHand
<1>3. /\ a \in Acts /\ a.pc = "loaded" /\ a.base = db[a.on]
      /\ a.on = action[k].on /\ a.what = action[k].what /\ a.may = action[k].may
  BY <1>2 DEF Acts
<1> HIDE DEF a
<1>4. /\ action' \in [Kinds -> Acts] /\ action'[k] = a
      /\ \A j \in Kinds : j # k => action'[j] = action[j]
  BY <1>1, <1>3, OneCall DEF FormInv
<1>5. FormType'
  BY <1>1, <1>4 DEF FormInv, FormType
<1>6. CASE k = "save"
  <2>1. /\ Save.pc = "sent" /\ Button.pc \in {"idle", "sent"} /\ Button' = Button
        /\ Save'.pc = "loaded" /\ Save'.base = db[Save'.on] /\ Save'.base \in FullRow
        /\ Save'.on = Save.on /\ Save'.what = Save.what /\ Save'.may = Save.may
    BY <1>1, <1>2, <1>3, <1>4, <1>6 DEF Save, Button, Kinds
  <2>2. InHand'
    BY <1>1, <2>1 DEF FormInv, InHand, OfOne, Save, Button, Kinds
  <2> QED BY <1>1, <1>5, <2>1, <2>2
          DEF FormInv, BaseIsRow, SentIsRow, FormIsSent, WrittenIsRow, Written, FormIsRow,
              SavedIsRow, UnlockActivates, Unlocking, OfOne, Forms!Sent
<1>7. CASE k = "status"
  <2>1. /\ Button.pc = "sent" /\ Save.pc \in {"idle", "sent"} /\ Save' = Save
        /\ Button'.pc = "loaded" /\ Button'.base = db[Button'.on] /\ Button'.base \in FullRow
        /\ Button'.on = Button.on /\ Button'.what = Button.what
    BY <1>1, <1>2, <1>3, <1>4, <1>7 DEF Save, Button, Kinds
  <2>2. InHand'
    BY <1>1, <2>1 DEF FormInv, InHand, OfOne, Save, Button, Kinds
  <2>3. OfOne /\ Button.on = open
    BY <2>1 DEF FormInv, InHand, Button, Kinds
  <2> QED BY <1>1, <1>5, <2>1, <2>2, <2>3
          DEF FormInv, BaseIsRow, SentIsRow, FormIsSent, WrittenIsRow, Written, FormIsRow,
              SavedIsRow, UnlockActivates, Unlocking, OfOne, Forms!Sent
<1> QED BY <1>6, <1>7 DEF Kinds

\* What a write leaves in the row.
LEMMA WriteIs ==
  ASSUME FormInv, NEW k \in Kinds, Forms!Write(k)
  PROVE  LET r == action[k].on
             F == IF k = "save" THEN Forms!Sent ELSE {"status"}
         IN /\ r \in Records /\ action[k].pc = "loaded"
            /\ UNCHANGED <<page, shown, open, form, saved, edited>> /\ FormType'
            /\ action'[k].pc = "done" /\ action'[k].ok /\ action'[k].on = r
            /\ action'[k].what = action[k].what /\ action'[k].base = action[k].base
            /\ action'[k].may = action[k].may
            /\ \A j \in Kinds : j # k => action'[j] = action[j]
            /\ \A q \in Records : q # r => db'[q] = db[q]
            /\ \A f \in F : db'[r][f] = action[k].what[f]
            /\ \A f \in Forms!Fields \ F : db'[r][f] \in {action[k].base[f], db[r][f]}
            /\ stale \subseteq stale'
            /\ OfOne => stale' = stale
            /\ ~OfOne /\ open = r => \A f \in Forms!Fields \ stale' : db'[r][f] = db[r][f]
<1> DEFINE r == action[k].on
           F == IF k = "save" THEN Forms!Sent ELSE {"status"}
           p == Forms!Patch(k)
           a == [action[k] EXCEPT !.pc = "done", !.ok = TRUE]
<1>1. /\ action[k].pc = "loaded" /\ action' = [action EXCEPT ![k] = a]
      /\ db' = [db EXCEPT ![r] = IF page = "profile" THEN [db[r] EXCEPT !.name = p.name] ELSE p]
      /\ stale' = IF open = r /\ page \notin {"user", "client"}
                   THEN stale \cup {f \in Forms!Fields : p[f] # db[r][f]} ELSE stale
      /\ UNCHANGED <<page, shown, open, form, saved, edited>>
  BY DEF Forms!Write, FormInv, FormType
<1>2. /\ r \in Records /\ action[k] \in Acts /\ action[k].what \in FullRow
      /\ action[k].base \in FullRow /\ db[r] \in FullRow
  BY <1>1 DEF FormInv, FormType, InHand
<1>3. /\ p \in FullRow /\ \A f \in F : p[f] = action[k].what[f]
      /\ \A f \in Forms!Fields \ F : p[f] = action[k].base[f]
  BY <1>2, FieldsAre DEF Forms!Patch, FullRow
<1>4. /\ a \in Acts /\ a.pc = "done" /\ a.ok /\ a.on = r /\ a.what = action[k].what
      /\ a.base = action[k].base /\ a.may = action[k].may
  BY <1>2 DEF Acts
<1> HIDE DEF p, a
<1>5. /\ action' \in [Kinds -> Acts] /\ action'[k] = a
      /\ \A j \in Kinds : j # k => action'[j] = action[j]
  BY <1>1, <1>4, OneCall DEF FormInv
<1>6. PICK w \in FullRow :
        /\ db' = [db EXCEPT ![r] = w]
        /\ \A f \in F : w[f] = action[k].what[f]
        /\ \A f \in Forms!Fields \ F : w[f] \in {action[k].base[f], db[r][f]}
        /\ \A f \in Forms!Fields : p[f] = db[r][f] => w[f] = db[r][f]
  <2>1. CASE page = "profile"
    <3>1. p.name \in Names
      BY <1>3 DEF FullRow
    <3>2. k = "save"
      BY <1>1, <2>1 DEF FormInv, InHand, OfOne, Button, Kinds
    <3>3. F = {"name"}
      BY <2>1, <3>2, FieldsAre
    <3> DEFINE w == [db[r] EXCEPT !.name = p.name]
    <3>4. w \in FullRow /\ w.name = p.name /\ w.status = db[r].status
      BY <1>2, <3>1, RowsAre
    <3> HIDE DEF w
    <3>5. db' = [db EXCEPT ![r] = w]
      BY <1>1, <2>1 DEF w
    <3> QED BY <1>3, <3>3, <3>4, <3>5, FieldsAre, ZenonT(60)
  <2>2. CASE page # "profile"
    BY <1>1, <1>3, <2>2
  <2> QED BY <2>1, <2>2
<1>7. /\ db' \in [Records -> FullRow] /\ db'[r] = w /\ \A q \in Records : q # r => db'[q] = db[q]
  BY <1>2, <1>6 DEF FormInv, FormType
<1>8. /\ stale \subseteq stale' /\ stale' \in SUBSET Forms!Fields /\ (OfOne => stale' = stale)
      /\ ~OfOne /\ open = r => \A f \in Forms!Fields \ stale' : p[f] = db[r][f]
  BY <1>1 DEF OfOne, FormInv, FormType
<1>9. FormType'
  BY <1>1, <1>5, <1>7, <1>8 DEF FormInv, FormType
<1> QED BY <1>1, <1>2, <1>4, <1>5, <1>6, <1>7, <1>8, <1>9

LEMMA SaveWrites == FormInv /\ Forms!Write("save") => FormInv'
<1> SUFFICES ASSUME FormInv, Forms!Write("save") PROVE FormInv'
  OBVIOUS
<1> DEFINE r == Save.on
<1>1. /\ r \in Records /\ Save.pc = "loaded" /\ UNCHANGED <<page, shown, open, form, saved, edited>>
      /\ FormType' /\ Save'.pc = "done" /\ Save'.ok /\ Save'.on = r /\ Save'.what = Save.what
      /\ Save'.base = Save.base /\ Button' = Button
      /\ \A q \in Records : q # r => db'[q] = db[q]
      /\ \A f \in Forms!Sent : db'[r][f] = Save.what[f]
      /\ stale \subseteq stale' /\ (OfOne => stale' = stale)
      /\ ~OfOne /\ open = r => \A f \in Forms!Fields \ stale' : db'[r][f] = db[r][f]
  BY WriteIs DEF Save, Button, Kinds
<1>2. /\ Button.pc \in {"idle", "sent"} /\ (page = "user" => Button.pc = "idle")
      /\ (OfOne => r = open) /\ (~OfOne => Button.pc = "idle") /\ ~Unlocking /\ ~Unlocking'
  BY <1>1 DEF FormInv, InHand, Save, Button, Kinds, Unlocking
<1>3. InHand'
  BY <1>1, <1>2 DEF FormInv, InHand, OfOne, Save, Button, Kinds
<1>4. BaseIsRow' /\ SentIsRow' /\ FormIsSent' /\ SavedIsRow' /\ UnlockActivates'
  BY <1>1, <1>2
  DEF FormInv, BaseIsRow, SentIsRow, FormIsSent, SavedIsRow, Written, UnlockActivates
<1>5. WrittenIsRow'
  <2>1. Forms!Sent' = Forms!Sent /\ (OfOne' <=> OfOne)
    BY <1>1 DEF Forms!Sent, OfOne
  <2> SUFFICES ASSUME OfOne, NEW f \in Forms!Sent PROVE Save'.what[f] = db'[open][f]
    BY <1>1, <2>1 DEF WrittenIsRow
  <2> QED BY <1>1, <1>2
<1>6. FormIsRow'
  <2> SUFFICES ASSUME open # NoRecord, NEW f \in Forms!Sent \ (edited \cup stale')
               PROVE  form[f] = db'[open][f]
    BY <1>1 DEF FormIsRow, Forms!Sent
  <2>1. form[f] = db[open][f] /\ open \in Records
    BY <1>1, <1>2 DEF FormInv, FormIsRow, FormType
  <2>2. CASE OfOne
    BY <1>1, <1>2, <2>2 DEF FormInv, FormIsSent
  <2>3. CASE ~OfOne
    BY <1>1, <2>1, <2>3, FieldsAre
  <2> QED BY <2>2, <2>3
<1> QED BY <1>1, <1>3, <1>4, <1>5, <1>6 DEF FormInv

LEMMA ButtonWrites == FormInv /\ Forms!Write("status") => FormInv'
<1> SUFFICES ASSUME FormInv, Forms!Write("status") PROVE FormInv'
  OBVIOUS
<1>1. /\ open \in Records /\ Button.on = open /\ OfOne
      /\ Button.pc = "loaded" /\ UNCHANGED <<page, shown, open, form, saved, edited, stale>>
      /\ FormType' /\ Button'.pc = "done" /\ Button'.ok /\ Button'.on = open
      /\ Button'.what = Button.what /\ Button'.base = Button.base /\ Save' = Save
      /\ db'[open].status = Button.what.status
      /\ db'[open].name \in {Button.base.name, db[open].name}
  <2>1. Button.pc = "loaded"
    BY WriteIs DEF Button, Kinds
  <2>2. OfOne /\ Button.on = open
    BY <2>1 DEF FormInv, InHand, Button, Kinds
  <2> QED BY <2>1, <2>2, WriteIs, FieldsAre DEF Save, Button, Kinds
<1>2. /\ Save.pc \in {"idle", "sent"} /\ (page = "user" => Save.pc = "idle")
      /\ (Save.pc # "idle" => Save.on = open) /\ ~Written
  BY <1>1 DEF FormInv, InHand, Save, Button, Kinds, Written
<1>3. db'[open].name = db[open].name \/ ("name" \in stale /\ (Save.pc = "sent" => "name" \in Save.may))
  BY <1>1, FieldsAre DEF FormInv, BaseIsRow
<1>4. page = "client" => Forms!Sent = {"name"}
  BY FieldsAre
<1>5. page = "user" => Unlocking' /\ db'[open].status = "ACTIVE"
  BY <1>1 DEF FormInv, UnlockActivates, Unlocking
<1>6. InHand'
  BY <1>1, <1>2 DEF FormInv, InHand, OfOne, Save, Button, Kinds
<1>7. BaseIsRow' /\ FormIsSent' /\ WrittenIsRow' /\ UnlockActivates'
  BY <1>1, <1>2, <1>5 DEF FormInv, BaseIsRow, FormIsSent, WrittenIsRow, Written, UnlockActivates, OfOne,
                          Forms!Sent
<1>8. SentIsRow'
  BY <1>1, <1>2, <1>3, <1>4 DEF FormInv, SentIsRow, OfOne, Forms!Sent
<1>9. FormIsRow' /\ SavedIsRow'
  <2> SUFFICES ASSUME NEW f \in Forms!Sent \ stale
               PROVE  db'[open][f] = db[open][f] \/ (Unlocking' /\ f = "status")
    <3>1. Forms!Sent' = Forms!Sent /\ (OfOne' <=> OfOne) /\ ~Unlocking /\ (Written' <=> Written)
      BY <1>1, <1>2 DEF Forms!Sent, OfOne, Unlocking, Written
    <3>2. FormIsRow /\ SavedIsRow
      BY DEF FormInv
    <3>3. FormIsRow'
      BY <1>1, <3>1, <3>2 DEF FormIsRow
    <3>4. SavedIsRow'
      BY <1>1, <1>2, <3>1, <3>2 DEF SavedIsRow
    <3> QED BY <3>3, <3>4
  <2> QED BY <1>1, <1>3, <1>4, <1>5, FieldsAre DEF OfOne
<1> QED BY <1>1, <1>6, <1>7, <1>8, <1>9 DEF FormInv

LEMMA RefuseKeeps == ASSUME FormInv, NEW k \in Kinds, Forms!Refuse(k) PROVE FormInv'
<1> DEFINE a == [action[k] EXCEPT !.pc = "done", !.ok = FALSE]
<1>1. /\ action[k].pc = "loaded" /\ action' = [action EXCEPT ![k] = a]
      /\ UNCHANGED <<page, db, shown, open, form, saved, edited, stale>>
  BY DEF Forms!Refuse, FormInv, FormType
<1>2. action[k] \in Acts
  BY DEF FormInv, FormType
<1>3. /\ a \in Acts /\ a.pc = "done" /\ ~a.ok /\ a.on = action[k].on /\ a.what = action[k].what
      /\ a.base = action[k].base
  BY <1>2 DEF Acts
<1> HIDE DEF a
<1>4. /\ action' \in [Kinds -> Acts] /\ action'[k] = a
      /\ \A j \in Kinds : j # k => action'[j] = action[j]
  BY <1>1, <1>3, OneCall DEF FormInv
<1>5. FormType'
  BY <1>1, <1>4 DEF FormInv, FormType
<1>6. CASE k = "save"
  <2>1. /\ Save.pc = "loaded" /\ Button' = Button /\ Save'.pc = "done" /\ ~Save'.ok
        /\ Save'.on = Save.on /\ Save'.what = Save.what /\ Save'.base = Save.base
    BY <1>1, <1>3, <1>4, <1>6 DEF Save, Button, Kinds
  <2>2. InHand'
    BY <1>1, <2>1 DEF FormInv, InHand, OfOne, Save, Button, Kinds
  <2>3. Button.pc \in {"idle", "sent"}
    BY <2>1 DEF FormInv, InHand
  <2> QED BY <1>1, <1>5, <2>1, <2>2, <2>3
          DEF FormInv, BaseIsRow, SentIsRow, FormIsSent, WrittenIsRow, Written, FormIsRow,
              SavedIsRow, UnlockActivates, Unlocking, OfOne, Forms!Sent
<1>7. CASE k = "status"
  <2>1. /\ Button.pc = "loaded" /\ Save' = Save /\ Button'.pc = "done" /\ ~Button'.ok
        /\ Button'.on = Button.on /\ Button'.what = Button.what /\ Button'.base = Button.base
    BY <1>1, <1>3, <1>4, <1>7 DEF Save, Button, Kinds
  <2>2. InHand'
    BY <1>1, <2>1 DEF FormInv, InHand, OfOne, Save, Button, Kinds
  <2> QED BY <1>1, <1>5, <2>1, <2>2
          DEF FormInv, BaseIsRow, SentIsRow, FormIsSent, WrittenIsRow, Written, FormIsRow,
              SavedIsRow, UnlockActivates, Unlocking, OfOne, Forms!Sent
<1> QED BY <1>6, <1>7 DEF Kinds

LEMMA FailAfterKeeps == ASSUME FormInv, NEW k \in Kinds, Forms!FailAfter(k) PROVE FormInv'
<1> DEFINE a == [action[k] EXCEPT !.ok = FALSE]
<1>1. /\ action[k].pc = "done" /\ action[k].ok /\ action' = [action EXCEPT ![k] = a]
      /\ stale' = IF open # action[k].on THEN stale
                   ELSE stale \cup (IF k = "save" THEN Forms!Sent ELSE {"status"})
      /\ UNCHANGED <<page, db, shown, open, form, saved, edited>>
  BY DEF Forms!FailAfter, FormInv, FormType
<1>2. action[k] \in Acts /\ stale' \in SUBSET Forms!Fields /\ stale \subseteq stale'
  BY <1>1, FieldsAre DEF FormInv, FormType
<1>3. /\ a \in Acts /\ a.pc = "done" /\ ~a.ok /\ a.on = action[k].on /\ a.what = action[k].what
      /\ a.base = action[k].base
  BY <1>1, <1>2 DEF Acts
<1> HIDE DEF a
<1>4. /\ action' \in [Kinds -> Acts] /\ action'[k] = a
      /\ \A j \in Kinds : j # k => action'[j] = action[j]
  BY <1>1, <1>3, OneCall DEF FormInv
<1>5. FormType'
  BY <1>1, <1>2, <1>4 DEF FormInv, FormType
<1>6. CASE k = "save"
  <2>1. /\ Save.pc = "done" /\ Save.ok /\ Button' = Button /\ Save'.pc = "done" /\ ~Save'.ok
        /\ Save'.on = Save.on /\ Save'.what = Save.what /\ Save'.base = Save.base
        /\ (open = Save.on => Forms!Sent \subseteq stale')
    BY <1>1, <1>3, <1>4, <1>6 DEF Save, Button, Kinds
  <2>2. InHand'
    BY <1>1, <2>1 DEF FormInv, InHand, OfOne, Save, Button, Kinds
  <2>3. Button.pc \in {"idle", "sent"} /\ (OfOne => Save.on = open)
    BY <2>1 DEF FormInv, InHand, Save, Kinds
  <2> QED BY <1>1, <1>2, <1>5, <2>1, <2>2, <2>3
          DEF FormInv, BaseIsRow, SentIsRow, FormIsSent, WrittenIsRow, Written, FormIsRow,
              SavedIsRow, UnlockActivates, Unlocking, OfOne, Forms!Sent
<1>7. CASE k = "status"
  <2>1. /\ Button.pc = "done" /\ Save' = Save /\ Button'.pc = "done" /\ ~Button'.ok
        /\ Button'.on = Button.on /\ Button'.what = Button.what /\ Button'.base = Button.base
        /\ (open = Button.on => "status" \in stale')
    BY <1>1, <1>3, <1>4, <1>7 DEF Save, Button, Kinds
  <2>2. InHand'
    BY <1>1, <2>1 DEF FormInv, InHand, OfOne, Save, Button, Kinds
  <2>3. "status" \in stale' /\ OfOne
    BY <2>1 DEF FormInv, InHand, Button, Kinds
  <2> QED BY <1>1, <1>2, <1>5, <2>1, <2>2, <2>3
          DEF FormInv, BaseIsRow, SentIsRow, FormIsSent, WrittenIsRow, Written, FormIsRow,
              SavedIsRow, UnlockActivates, Unlocking, OfOne, Forms!Sent
<1> QED BY <1>6, <1>7 DEF Kinds

\* What an answer makes of the calls.
LEMMA AnswerIs ==
  ASSUME FormInv, NEW k \in Kinds, action' = [action EXCEPT ![k] = Forms!NoCall]
  PROVE  /\ action' \in [Kinds -> Acts] /\ action'[k].pc = "idle"
         /\ \A j \in Kinds : j # k => action'[j] = action[j]
<1>1. Forms!NoCall \in Acts /\ Forms!NoCall.pc = "idle"
  BY DEF Forms!NoCall, Acts
<1> QED BY <1>1, OneCall DEF FormInv

LEMMA AnswerSaveKeeps == FormInv /\ Forms!AnswerSave => FormInv'
<1> SUFFICES ASSUME FormInv, Forms!AnswerSave PROVE FormInv'
  OBVIOUS
<1>1. /\ Save.pc = "done" /\ action' = [action EXCEPT !["save"] = Forms!NoCall]
      /\ UNCHANGED <<page, db, shown, form, stale>>
      /\ ~Save.ok => UNCHANGED <<open, saved, edited>>
      /\ Save.ok /\ OfOne => /\ saved' = Save.what /\ UNCHANGED open
                             /\ edited' = {f \in Forms!Sent : form[f] # Save.what[f]}
      /\ Save.ok /\ ~OfOne => open' = NoRecord /\ UNCHANGED <<saved, edited>>
  BY DEF Forms!AnswerSave, Forms!SavedAfter, Save, OfOne
<1>2. /\ action' \in [Kinds -> Acts] /\ Save'.pc = "idle" /\ Button' = Button
  BY <1>1, AnswerIs DEF Save, Button, Kinds
<1>3. /\ Button.pc \in {"idle", "sent"} /\ ~Unlocking /\ ~Unlocking' /\ Save.what \in FullRow
      /\ (OfOne => Save.on = open) /\ Save.ok \in BOOLEAN
  BY <1>1, <1>2 DEF FormInv, InHand, FormType, Acts, Save, Kinds, Unlocking
<1>4. FormType'
  BY <1>1, <1>2, <1>3, FieldsAre DEF FormInv, FormType
<1>5. InHand'
  BY <1>1, <1>2, <1>3 DEF FormInv, InHand, OfOne, Save, Button, Kinds
<1>6. BaseIsRow' /\ SentIsRow' /\ FormIsSent' /\ WrittenIsRow' /\ UnlockActivates'
  BY <1>1, <1>2, <1>3 DEF FormInv, BaseIsRow, SentIsRow, FormIsSent, WrittenIsRow, Written, UnlockActivates
<1>7. FormIsRow'
  BY <1>1, <1>2, <1>3 DEF FormInv, FormIsRow, WrittenIsRow, Written, Forms!Sent
<1>8. SavedIsRow'
  BY <1>1, <1>2, <1>3 DEF FormInv, SavedIsRow, WrittenIsRow, Written, Forms!Sent, OfOne
<1> QED BY <1>4, <1>5, <1>6, <1>7, <1>8 DEF FormInv

LEMMA AnswerStatusKeeps == FormInv /\ Forms!AnswerStatus => FormInv'
<1> SUFFICES ASSUME FormInv, Forms!AnswerStatus PROVE FormInv'
  OBVIOUS
<1>1. /\ Button.pc = "done" /\ action' = [action EXCEPT !["status"] = Forms!NoCall]
      /\ UNCHANGED <<page, db, shown, open, edited, stale>>
      /\ Unlocking => /\ form' = [form EXCEPT !.status = "ACTIVE"]
                      /\ saved' = [saved EXCEPT !.status = "ACTIVE"]
      /\ ~Unlocking => UNCHANGED <<form, saved>>
  BY DEF Forms!AnswerStatus, Forms!Unlocked, Button, Unlocking
<1>2. /\ action' \in [Kinds -> Acts] /\ Button'.pc = "idle" /\ Save' = Save
  BY <1>1, AnswerIs DEF Save, Button, Kinds
<1>3. /\ OfOne /\ Save.pc \in {"idle", "sent"} /\ ~Unlocking' /\ open \in Records
      /\ (page = "user" => Save.pc = "idle")
  BY <1>1, <1>2 DEF FormInv, InHand, Unlocking
<1>4. /\ form' \in FullRow /\ saved' \in FullRow
      /\ form'.name = form.name /\ saved'.name = saved.name
      /\ Unlocking => form'.status = "ACTIVE" /\ saved'.status = "ACTIVE"
  <2>1. form \in FullRow /\ saved \in FullRow
    BY DEF FormInv, FormType
  <2>2. CASE Unlocking
    BY <1>1, <2>1, <2>2 DEF FullRow
  <2>3. CASE ~Unlocking
    BY <1>1, <2>1, <2>3
  <2> QED BY <2>2, <2>3
<1>5. FormType'
  BY <1>1, <1>2, <1>4 DEF FormInv, FormType
<1>6. InHand'
  BY <1>1, <1>2, <1>3 DEF FormInv, InHand, OfOne, Save, Button, Kinds
<1>7. Unlocking => page = "user" /\ (db[open].status = "ACTIVE" \/ "status" \in stale)
  BY DEF FormInv, UnlockActivates, Unlocking
<1>8. BaseIsRow' /\ SentIsRow' /\ WrittenIsRow' /\ UnlockActivates'
  BY <1>1, <1>2, <1>3 DEF FormInv, BaseIsRow, SentIsRow, WrittenIsRow, Written, UnlockActivates,
                          Forms!Sent
<1>9. FormIsSent'
  BY <1>1, <1>2, <1>3, <1>7 DEF FormInv, FormIsSent, OfOne, Forms!Sent
<1>10. FormIsRow' /\ SavedIsRow'
  BY <1>1, <1>2, <1>3, <1>4, <1>7, FieldsAre DEF FormInv, FormIsRow, SavedIsRow, Written, OfOne,
     Forms!Sent
<1> QED BY <1>5, <1>6, <1>8, <1>9, <1>10 DEF FormInv

LEMMA RefreshKeeps == FormInv /\ Forms!Refresh => FormInv'
<1> SUFFICES ASSUME FormInv, Forms!Refresh PROVE FormInv'
  OBVIOUS
<1>1. shown' = db /\ UNCHANGED <<page, db, open, form, saved, action, edited, stale>>
  BY DEF Forms!Refresh
<1>2. FormType'
  BY <1>1 DEF FormInv, FormType
<1> QED BY <1>1, <1>2
        DEF FormInv, InHand, BaseIsRow, SentIsRow, FormIsSent, WrittenIsRow, Written, FormIsRow,
            SavedIsRow, UnlockActivates, Unlocking, Save, Button, OfOne, Forms!Sent

LEMMA OtherKeeps ==
  ASSUME FormInv, NEW r \in Records, NEW f \in Forms!Fields, NEW v,
         [db[r] EXCEPT ![f] = v] \in FullRow, Forms!Other(r, f, v)
  PROVE  FormInv'
<1> DEFINE w == [db[r] EXCEPT ![f] = v]
           may(k) == IF action[k].on = r THEN action[k].may \cup {f} ELSE action[k].may
<1>1. /\ (OfOne => r = open) /\ db' = [db EXCEPT ![r] = w]
      /\ stale' = IF open = r THEN stale \cup {f} ELSE stale
      /\ action' = [k \in Kinds |-> IF action[k].on = r
                                     THEN [action[k] EXCEPT !.may = action[k].may \cup {f}]
                                     ELSE action[k]]
      /\ UNCHANGED <<page, shown, open, form, saved, edited>>
  BY DEF Forms!Other, OfOne, FormInv, FormType
<1>2. \A g \in Forms!Fields : g # f => w[g] = db[r][g]
  BY DEF FormInv, FormType, FullRow, Forms!Fields
<1> HIDE DEF w
<1>3. /\ db' \in [Records -> FullRow] /\ \A q \in Records : q # r => db'[q] = db[q]
      /\ \A q \in Records, g \in Forms!Fields : q # r \/ g # f => db'[q][g] = db[q][g]
  BY <1>1, <1>2 DEF FormInv, FormType, w
<1>4. \A k \in Kinds :
        /\ action'[k] \in Acts /\ action'[k].pc = action[k].pc /\ action'[k].on = action[k].on
        /\ action'[k].what = action[k].what /\ action'[k].base = action[k].base
        /\ action'[k].ok = action[k].ok /\ action'[k].may = may(k)
  <2> SUFFICES ASSUME NEW k \in Kinds
               PROVE  /\ action'[k] \in Acts /\ action'[k].pc = action[k].pc
                      /\ action'[k].on = action[k].on /\ action'[k].what = action[k].what
                      /\ action'[k].base = action[k].base /\ action'[k].ok = action[k].ok
                      /\ action'[k].may = may(k)
    OBVIOUS
  <2>1. action[k] \in Acts
    BY DEF FormInv, FormType
  <2> QED BY <1>1, <2>1 DEF Acts
<1>5. /\ stale \subseteq stale' /\ stale' \in SUBSET Forms!Fields /\ (open = r => f \in stale')
      /\ action' \in [Kinds -> Acts]
  BY <1>1, <1>4 DEF FormInv, FormType
<1>6. FormType'
  BY <1>1, <1>3, <1>5 DEF FormInv, FormType
<1>7. /\ Save'.pc = Save.pc /\ Save'.on = Save.on /\ Save'.what = Save.what /\ Save'.ok = Save.ok
      /\ Save'.base = Save.base /\ Save.may \subseteq Save'.may /\ (Save.on = r => f \in Save'.may)
      /\ Button'.pc = Button.pc /\ Button'.on = Button.on /\ Button'.what = Button.what
      /\ Button'.base = Button.base /\ Button'.ok = Button.ok
  BY <1>4 DEF Save, Button, Kinds
<1>8. /\ (Save.pc # "idle" => Save.on \in Records) /\ (OfOne => open \in Records)
      /\ (OfOne /\ Save.pc # "idle" => Save.on = open)
      /\ (Button.pc # "idle" => OfOne)
      /\ (open # NoRecord => open \in Records)
  BY DEF FormInv, InHand, FormType, Save, Button, Kinds
<1>9. InHand'
  BY <1>1, <1>4, <1>7 DEF FormInv, InHand, OfOne, Kinds
<1>10. BaseIsRow'
  BY <1>1, <1>3, <1>5, <1>7, <1>8 DEF FormInv, BaseIsRow
<1>11. SentIsRow' /\ FormIsSent'
  BY <1>1, <1>3, <1>7, <1>8, FieldsAre DEF FormInv, SentIsRow, FormIsSent, OfOne, Forms!Sent
<1>12. WrittenIsRow'
  BY <1>1, <1>3, <1>5, <1>7, <1>8, FieldsAre DEF FormInv, WrittenIsRow, Written, OfOne, Forms!Sent
<1>13. Unlocking' = Unlocking /\ Written' = Written
  BY <1>1, <1>7 DEF Unlocking, Written
<1>14. FormIsRow' /\ SavedIsRow'
  BY <1>1, <1>3, <1>5, <1>8, <1>13, FieldsAre DEF FormInv, FormIsRow, SavedIsRow, OfOne, Forms!Sent
<1>15. UnlockActivates'
  BY <1>1, <1>3, <1>5, <1>7, <1>8, <1>13, FieldsAre DEF FormInv, UnlockActivates, OfOne
<1> QED BY <1>6, <1>9, <1>10, <1>11, <1>12, <1>14, <1>15 DEF FormInv

LEMMA FormKeeps == FormInv /\ [Forms!FormNext]_formVars => FormInv'
<1> SUFFICES ASSUME FormInv, [Forms!FormNext]_formVars PROVE FormInv'
  OBVIOUS
<1>1. CASE UNCHANGED formVars
  <2>1. FormType'
    BY <1>1 DEF formVars, FormInv, FormType
  <2> QED BY <1>1, <2>1
          DEF formVars, FormInv, InHand, BaseIsRow, SentIsRow, FormIsSent, WrittenIsRow, Written,
              FormIsRow, SavedIsRow, UnlockActivates, Unlocking, Save, Button, OfOne, Forms!Sent
<1>2. ASSUME NEW v \in Names, Forms!Edit("name", v) PROVE FormInv'
  BY <1>2, EditKeeps, RowsAre, FieldsAre DEF FormInv, FormType
<1>3. ASSUME NEW v \in Forms!Statuses, Forms!Edit("status", v) PROVE FormInv'
  BY <1>3, EditKeeps, RowsAre, FieldsAre DEF FormInv, FormType, Forms!Statuses
<1>4. ASSUME NEW r \in Records, NEW v \in Names, Forms!Other(r, "name", v) PROVE FormInv'
  BY <1>4, OtherKeeps, RowsAre, FieldsAre DEF FormInv, FormType
<1>5. ASSUME NEW r \in Records, NEW v \in Forms!Statuses, Forms!Other(r, "status", v) PROVE FormInv'
  BY <1>5, OtherKeeps, RowsAre, FieldsAre DEF FormInv, FormType, Forms!Statuses
<1>6. ASSUME NEW k \in DOMAIN action, Forms!Load(k) \/ Forms!Write(k) \/ Forms!Refuse(k) \/ Forms!FailAfter(k)
      PROVE FormInv'
  <2>1. k \in Kinds /\ k \in {"save", "status"}
    BY DEF FormInv, FormType, Kinds
  <2> QED BY <1>6, <2>1, LoadKeeps, SaveWrites, ButtonWrites, RefuseKeeps, FailAfterKeeps
<1> QED BY <1>1, <1>2, <1>3, <1>4, <1>5, <1>6, OpenKeeps, CloseKeeps, DiscardKeeps, SaveKeeps,
           PressStatusKeeps, AnswerSaveKeeps, AnswerStatusKeeps, RefreshKeeps
        DEF Forms!FormNext

LEMMA SavesWhatWasEdited == FormInv => Forms!ChangesWhatWasEdited
<1> SUFFICES ASSUME FormInv, Forms!Write("save"), NEW f \in Forms!Fields, f \notin Save.may
             PROVE  db'[Save.on][f] = db[Save.on][f]
  BY DEF Forms!ChangesWhatWasEdited, Save
<1>1. /\ Save.pc = "loaded" /\ (f \in Forms!Sent => db'[Save.on][f] = Save.what[f])
      /\ f \notin Forms!Sent => db'[Save.on][f] \in {Save.base[f], db[Save.on][f]}
  BY WriteIs DEF Save, Kinds
<1> QED BY <1>1 DEF FormInv, BaseIsRow, SentIsRow

LEMMA OnlyFormSteps == [Next]_vars => [Forms!FormNext]_formVars
BY DEF Next, vars, formVars, CacheStep, ControlsStep, TableStep, FormsStep, SetsStep, GuardStep,
       AuditStep

\* SaveChangesWhatWasEdited (the pages and dialogs that edit a record, and the
\* actions that write the whole row): for any rows and names, with the button
\* beside the form, edits during a save, late refreshes and other administrators.
THEOREM FormsSaveTheirEdits == Spec => SaveChangesWhatWasEdited
<1>1. Init => FormInv
  BY FormInitially DEF Init
<1>2. FormInv /\ [Next]_vars => FormInv'
  BY OnlyFormSteps, FormKeeps
<1>3. FormInv /\ [Next]_vars => [Forms!ChangesWhatWasEdited]_formVars
  BY SavesWhatWasEdited
<1> QED BY <1>1, <1>2, <1>3, PTL DEF Spec, SaveChangesWhatWasEdited
-----------------------------------------------------------------------------
(* The user table *)

Deeds == [kind : {"flip", "bulk"}, call : {"toggle", "unlock", "set"}, rows : SUBSET Rows,
          goal : Table!Statuses, no : Nat, ran : BOOLEAN, ok : BOOLEAN]
Sound(a) ==
  /\ a.ok => a.ran
  /\ IF a.kind = "flip" THEN a.call \in {"toggle", "unlock"} /\ \E r \in Rows : a.rows = {r}
                        ELSE a.call = "set"

TableType ==
  /\ status \in [Rows -> Table!Statuses] /\ seen \in [Rows -> Table!Statuses]
  /\ queue \in Seq(Deeds) /\ adrift \in SUBSET Deeds
  /\ selected \in SUBSET Rows /\ moved \in SUBSET Rows /\ clicks \in Nat
  /\ dialog.kind = "flip" => dialog.row \in Rows /\ dialog.was \in Table!Statuses
  /\ dialog.kind = "bulk" => dialog.was \in {"ACTIVE", "DISABLED"}

\* The server takes the list's actions one after another, and only one of
\* them is a flip: the rows are not there to be clicked while one waits.
QueueIs ==
  /\ \A i \in DOMAIN queue : Sound(queue[i]) /\ (i > 1 => ~queue[i].ran)
  /\ \A i, j \in DOMAIN queue : queue[i].kind = "flip" /\ queue[j].kind = "flip" => i = j

\* Where nobody else was at work the list shows the rows, but for a flip that
\* has run and is not answered.
Flipped(r) == \E i \in DOMAIN queue : queue[i].kind = "flip" /\ queue[i].ok /\ r \in queue[i].rows
SeenIsStatus == \A r \in Rows \ moved : Flipped(r) \/ status[r] = seen[r]

\* And what waits was promised for the rows as the list shows them.
GoalsFollow ==
  \A i \in DOMAIN queue : queue[i].kind = "flip" /\ ~queue[i].ran =>
     \A r \in queue[i].rows \ moved :
        /\ queue[i].goal = Table!Flip(seen[r])
        /\ queue[i].call = IF seen[r] = "LOCKED" THEN "unlock" ELSE "toggle"
DialogFollows ==
  dialog.kind = "flip" =>
     ~Table!IsPending /\ (dialog.row \in moved \/ dialog.was = seen[dialog.row])

TableInv == TableType /\ QueueIs /\ SeenIsStatus /\ GoalsFollow /\ DialogFollows

LEMMA StatusesAre ==
  /\ Table!Statuses = {"ACTIVE", "DISABLED", "LOCKED"}
  /\ \A s \in Table!Statuses : Table!Flip(s) \in {"ACTIVE", "DISABLED"}
BY DEF Table!Statuses, Table!Flip

LEMMA TableInitially == Table!TableInit => TableInv
<1> SUFFICES ASSUME Table!TableInit PROVE TableInv
  OBVIOUS
<1>1. /\ queue = << >> /\ DOMAIN queue = {} /\ dialog.kind = "none" /\ seen = status
      /\ status \in [Rows -> Table!Statuses] /\ adrift = {} /\ selected = {} /\ moved = {}
      /\ clicks = 0
  BY DEF Table!TableInit, Table!NoDialog
<1>2. TableType
  BY <1>1 DEF TableType
<1> QED BY <1>1, <1>2 DEF TableInv, QueueIs, SeenIsStatus, GoalsFollow, DialogFollows

\* Where a flip has yet to run, or none is under way, the list shows the row.
LEMMA SeenBefore ==
  ASSUME TableInv, NEW r \in Rows \ moved,
         \/ ~Table!IsPending
         \/ \E j \in DOMAIN queue : queue[j].kind = "flip" /\ ~queue[j].ran
  PROVE  status[r] = seen[r]
<1>1. ~Flipped(r)
  BY DEF Flipped, Table!IsPending, TableInv, QueueIs, Sound
<1> QED BY <1>1 DEF TableInv, SeenIsStatus

\* Steps that leave the users and the rows shown as they are, and start nothing.
LEMMA RestKeeps ==
  ASSUME TableInv, UNCHANGED <<status, seen>>, TableType', QueueIs', moved \subseteq moved',
         \A i \in DOMAIN queue' : \E j \in DOMAIN queue : queue'[i] = queue[j],
         \A j \in DOMAIN queue : queue[j].kind = "flip" /\ queue[j].ok =>
            \/ queue[j].rows \subseteq moved'
            \/ \E i \in DOMAIN queue' : queue'[i] = queue[j],
         dialog'.kind = "flip" =>
            dialog' = dialog \/ (~Table!IsPending /\ dialog'.was = seen[dialog'.row])
  PROVE  TableInv'
<1>1. SeenIsStatus'
  <2> SUFFICES ASSUME NEW r \in Rows \ moved', ~Flipped(r)' PROVE status[r] = seen[r]
    BY DEF SeenIsStatus
  <2>1. ~Flipped(r)
    BY DEF Flipped
  <2> QED BY <2>1 DEF TableInv, SeenIsStatus
<1>2. GoalsFollow'
  <2> SUFFICES ASSUME NEW i \in DOMAIN queue', queue'[i].kind = "flip", ~queue'[i].ran,
                      NEW r \in queue'[i].rows \ moved'
               PROVE  /\ queue'[i].goal = Table!Flip(seen[r])
                      /\ queue'[i].call = IF seen[r] = "LOCKED" THEN "unlock" ELSE "toggle"
    BY DEF GoalsFollow
  <2>1. PICK j \in DOMAIN queue : queue'[i] = queue[j]
    OBVIOUS
  <2> QED BY <2>1 DEF TableInv, GoalsFollow
<1>3. DialogFollows'
  <2>1. ~Table!IsPending => ~Table!IsPending'
    BY DEF Table!IsPending
  <2> QED BY <2>1 DEF TableInv, DialogFollows
<1> QED BY <1>1, <1>2, <1>3 DEF TableInv

\* The rows come anew: what has yet to run, and a dialog, still see them.
LEMMA RowsKeep ==
  ASSUME TableInv, UNCHANGED status, Table!Refresh, TableType', QueueIs',
         \A i \in DOMAIN queue' : \E j \in DOMAIN queue : queue'[i] = queue[j],
         dialog'.kind = "flip" => dialog' = dialog
  PROVE  TableInv'
<1>1. /\ seen' = status
      /\ moved' = moved \cap Table!Promised(queue', dialog')
  BY DEF Table!Refresh
<1>2. SeenIsStatus'
  BY <1>1 DEF SeenIsStatus
<1>3. GoalsFollow'
  <2> SUFFICES ASSUME NEW i \in DOMAIN queue', queue'[i].kind = "flip", ~queue'[i].ran,
                      NEW r \in queue'[i].rows \ moved'
               PROVE  /\ queue'[i].goal = Table!Flip(seen'[r])
                      /\ queue'[i].call = IF seen'[r] = "LOCKED" THEN "unlock" ELSE "toggle"
    BY DEF GoalsFollow
  <2>1. PICK j \in DOMAIN queue : queue'[i] = queue[j]
    OBVIOUS
  <2>2. r \in Rows
    BY DEF QueueIs, Sound
  <2>3. r \in Table!Promised(queue', dialog')
    BY <2>2 DEF Table!Promised
  <2>4. r \notin moved
    BY <1>1, <2>3
  <2>5. status[r] = seen[r]
    BY <2>1, <2>2, <2>4, SeenBefore
  <2> QED BY <1>1, <2>1, <2>4, <2>5 DEF TableInv, GoalsFollow
<1>4. DialogFollows'
  <2> SUFFICES ASSUME dialog'.kind = "flip"
               PROVE  /\ ~Table!IsPending'
                      /\ dialog'.row \in moved' \/ dialog'.was = seen'[dialog'.row]
    BY DEF DialogFollows
  <2>1. PICK r : r = dialog.row
    OBVIOUS
  <2>2. dialog' = dialog /\ dialog.kind = "flip" /\ ~Table!IsPending /\ r \in Rows
    BY <2>1 DEF TableInv, TableType, DialogFollows
  <2>3. ~Table!IsPending'
    BY <2>2 DEF Table!IsPending
  <2>4. r \in Table!Promised(queue', dialog')
    BY <2>1, <2>2 DEF Table!Promised
  <2>5. r \notin moved' => r \notin moved
    BY <1>1, <2>4
  <2>6. r \notin moved => status[r] = seen[r] /\ dialog.was = seen[r]
    BY <2>1, <2>2, SeenBefore DEF TableInv, DialogFollows
  <2> QED BY <1>1, <2>1, <2>2, <2>3, <2>5, <2>6
<1> QED BY <1>2, <1>3, <1>4 DEF TableInv

\* Steps of the dialogs and the selection.
LEMMA DialogOnly ==
  ASSUME TableInv, UNCHANGED <<status, seen, queue, adrift, moved, clicks>>,
         selected' \in SUBSET Rows,
         dialog'.kind = "flip" => \/ dialog' = dialog
                                  \/ /\ ~Table!IsPending /\ dialog'.row \in Rows
                                     /\ dialog'.was = seen[dialog'.row],
         dialog'.kind = "bulk" => dialog'.was \in {"ACTIVE", "DISABLED"}
  PROVE  TableInv'
<1>1. TableType'
  BY DEF TableInv, TableType
<1>2. QueueIs'
  BY DEF TableInv, QueueIs
<1> QED BY <1>1, <1>2, RestKeeps

\* An action of the list is started.
LEMMA StartKeeps ==
  ASSUME TableInv, NEW a \in Deeds, Sound(a), ~a.ran, Table!Start(a),
         UNCHANGED <<status, seen, adrift, moved, selected>>,
         a.kind = "flip" =>
            /\ ~Table!IsPending
            /\ \A r \in a.rows \ moved :
                 /\ a.goal = Table!Flip(seen[r])
                 /\ a.call = IF seen[r] = "LOCKED" THEN "unlock" ELSE "toggle",
         dialog' = Table!NoDialog \/ (dialog' = dialog /\ dialog.kind # "flip")
  PROVE  TableInv'
<1> DEFINE n == Len(queue)
<1>1. queue \in Seq(Deeds) /\ queue' = Append(queue, a) /\ n \in Nat /\ clicks' \in Nat
  BY DEF Table!Start, TableInv, TableType
<1>2. /\ queue' \in Seq(Deeds) /\ DOMAIN queue' = 1..(n + 1) /\ queue'[n + 1] = a
      /\ DOMAIN queue = 1..n /\ \A i \in 1..n : queue'[i] = queue[i]
  BY <1>1
<1>3. /\ dialog'.kind # "flip" /\ dialog'.kind \in {"none", dialog.kind}
      /\ dialog'.kind # "none" => dialog' = dialog
  BY DEF Table!NoDialog
<1> HIDE DEF n
<1>4. \A i \in DOMAIN queue' : (i \in DOMAIN queue /\ i # n + 1) \/ i = n + 1
  BY <1>1, <1>2
<1>5. TableType'
  BY <1>1, <1>2, <1>3 DEF TableInv, TableType
<1>6. QueueIs'
  <2>1. ASSUME NEW i \in DOMAIN queue' PROVE Sound(queue'[i]) /\ (i > 1 => ~queue'[i].ran)
    BY <1>2, <1>4, <2>1 DEF TableInv, QueueIs
  <2>2. ASSUME NEW i \in DOMAIN queue', NEW j \in DOMAIN queue',
               queue'[i].kind = "flip", queue'[j].kind = "flip"
        PROVE  i = j
    BY <1>2, <1>4, <2>2 DEF TableInv, QueueIs, Table!IsPending
  <2> QED BY <2>1, <2>2 DEF QueueIs
<1>7. SeenIsStatus'
  <2>1. ASSUME NEW r, Flipped(r) PROVE Flipped(r)'
    <3>1. PICK i \in DOMAIN queue : queue[i].kind = "flip" /\ queue[i].ok /\ r \in queue[i].rows
      BY <2>1 DEF Flipped
    <3>2. i \in DOMAIN queue' /\ queue'[i] = queue[i]
      BY <1>1, <1>2
    <3> QED BY <3>1, <3>2 DEF Flipped
  <2> QED BY <2>1 DEF TableInv, SeenIsStatus
<1>8. GoalsFollow'
  BY <1>2, <1>4 DEF TableInv, GoalsFollow
<1> QED BY <1>3, <1>5, <1>6, <1>7, <1>8 DEF TableInv, DialogFollows

\* A flip is the tab's word on one row.
LEMMA FlippingIs ==
  ASSUME TableInv, NEW r \in Rows, NEW was \in Table!Statuses, r \in moved \/ was = seen[r]
  PROVE  LET a == Table!Flipping(r, was) IN
         /\ a \in Deeds /\ Sound(a) /\ ~a.ran /\ a.rows = {r}
         /\ \A q \in a.rows \ moved :
              /\ a.goal = Table!Flip(seen[q])
              /\ a.call = IF seen[q] = "LOCKED" THEN "unlock" ELSE "toggle"
BY StatusesAre DEF Table!Flipping, Deeds, Sound, TableInv, TableType

LEMMA ClickKeeps == ASSUME TableInv, NEW r \in Rows, Table!Click(r) PROVE TableInv'
<1>1. ~Table!IsPending /\ seen[r] \in Table!Statuses /\ dialog = Table!NoDialog
  BY DEF Table!Click, Table!RowsAreShown, TableInv, TableType
<1>2. CASE seen[r] = "ACTIVE"
  <2>1. /\ dialog' = [kind |-> "flip", row |-> r, was |-> seen[r]]
        /\ UNCHANGED <<status, seen, queue, adrift, selected, moved, clicks>>
    BY <1>2 DEF Table!Click
  <2> QED BY <1>1, <2>1, DialogOnly DEF TableInv, TableType
<1>3. CASE seen[r] # "ACTIVE"
  <2> DEFINE a == Table!Flipping(r, seen[r])
  <2>1. /\ Table!Start(a) /\ UNCHANGED <<dialog, status, seen, adrift, selected, moved>>
    BY <1>3 DEF Table!Click
  <2>2. /\ a \in Deeds /\ Sound(a) /\ ~a.ran
        /\ \A q \in a.rows \ moved :
              /\ a.goal = Table!Flip(seen[q])
              /\ a.call = IF seen[q] = "LOCKED" THEN "unlock" ELSE "toggle"
    BY <1>1, FlippingIs
  <2> HIDE DEF a
  <2> QED BY <1>1, <2>1, <2>2, StartKeeps
<1> QED BY <1>2, <1>3

LEMMA ConfirmFlipKeeps == TableInv /\ Table!ConfirmFlip => TableInv'
<1> SUFFICES ASSUME TableInv, Table!ConfirmFlip PROVE TableInv'
  OBVIOUS
<1> DEFINE a == Table!Flipping(dialog.row, dialog.was)
<1>1. /\ dialog.kind = "flip" /\ Table!Start(a) /\ dialog' = Table!NoDialog
      /\ UNCHANGED <<status, seen, adrift, selected, moved>>
  BY DEF Table!ConfirmFlip
<1>2. /\ dialog.row \in Rows /\ dialog.was \in Table!Statuses /\ ~Table!IsPending
      /\ dialog.row \in moved \/ dialog.was = seen[dialog.row]
  BY <1>1 DEF TableInv, TableType, DialogFollows
<1>3. /\ a \in Deeds /\ Sound(a) /\ ~a.ran
      /\ \A q \in a.rows \ moved :
            /\ a.goal = Table!Flip(seen[q])
            /\ a.call = IF seen[q] = "LOCKED" THEN "unlock" ELSE "toggle"
  BY <1>2, FlippingIs
<1> HIDE DEF a
<1> QED BY <1>1, <1>2, <1>3, StartKeeps

LEMMA ConfirmBulkKeeps == TableInv /\ Table!ConfirmBulk => TableInv'
<1> SUFFICES ASSUME TableInv, Table!ConfirmBulk PROVE TableInv'
  OBVIOUS
<1> DEFINE a == Table!Setting(selected, dialog.was)
<1>1. /\ dialog.kind = "bulk" /\ Table!Start(a)
      /\ UNCHANGED <<dialog, status, seen, adrift, selected, moved>>
  BY DEF Table!ConfirmBulk
<1>2. a \in Deeds /\ Sound(a) /\ ~a.ran /\ a.kind = "bulk"
  BY <1>1, StatusesAre DEF Table!Setting, Deeds, Sound, TableInv, TableType
<1> HIDE DEF a
<1> QED BY <1>1, <1>2, StartKeeps

\* What the server makes of the rows.
LEMMA ServedIs ==
  ASSUME TableInv, NEW a \in Deeds, NEW ok \in BOOLEAN, Table!Served(a, ok)
  PROVE  /\ status' \in [Rows -> Table!Statuses]
         /\ \A r \in Rows : r \notin a.rows \/ ~ok => status'[r] = status[r]
         /\ \A r \in a.rows : ok /\ Table!Applies(a, status[r]) =>
                                status'[r] = Table!After(a, status[r])
<1> DEFINE on == {r \in a.rows : Table!Applies(a, status[r])}
<1>1. /\ status \in [Rows -> Table!Statuses] /\ a.rows \subseteq Rows
      /\ status' = IF ok THEN [r \in Rows |-> IF r \in on THEN Table!After(a, status[r]) ELSE status[r]]
                         ELSE status
  BY DEF Table!Served, TableInv, TableType, Deeds
<1>2. \A s \in Table!Statuses : Table!After(a, s) \in Table!Statuses
  BY StatusesAre DEF Table!After, Deeds
<1> QED BY <1>1, <1>2

\* The server has the head of the list's actions.
LEMMA HeadIs ==
  ASSUME TableInv, queue # << >>
  PROVE  /\ 1 \in DOMAIN queue /\ Head(queue) = queue[1] /\ queue[1] \in Deeds /\ Sound(queue[1])
         /\ Tail(queue) \in Seq(Deeds)
         /\ \A i \in DOMAIN Tail(queue) : /\ i \in Nat /\ i + 1 \in DOMAIN queue /\ i >= 1
                                          /\ Tail(queue)[i] = queue[i + 1]
         /\ \A j \in DOMAIN queue : queue[j].ok => j = 1
<1>1. queue \in Seq(Deeds) /\ Len(queue) \in Nat \ {0} /\ DOMAIN queue = 1..Len(queue)
  BY DEF TableInv, TableType
<1>2. 1 \in DOMAIN queue /\ Head(queue) = queue[1] /\ queue[1] \in Deeds
  BY <1>1
<1>3. Sound(queue[1])
  BY <1>2 DEF TableInv, QueueIs
<1>4. \A i \in DOMAIN Tail(queue) : /\ i \in Nat /\ i + 1 \in DOMAIN queue /\ i >= 1
                                    /\ Tail(queue)[i] = queue[i + 1]
  BY <1>1
<1>5. ASSUME NEW j \in DOMAIN queue, queue[j].ok PROVE j = 1
  <2>1. queue[j].ran
    BY <1>5 DEF TableInv, QueueIs, Sound
  <2> QED BY <1>1, <2>1 DEF TableInv, QueueIs
<1> QED BY <1>1, <1>2, <1>3, <1>4, <1>5

LEMMA RunKeeps == ASSUME TableInv, NEW ok \in BOOLEAN, Table!Run(ok) PROVE TableInv'
<1> DEFINE a == queue[1]
           b == [a EXCEPT !.ran = TRUE, !.ok = ok]
<1>1. /\ queue # << >> /\ 1 \in DOMAIN queue /\ a \in Deeds /\ Sound(a) /\ ~a.ran
      /\ Table!Served(a, ok) /\ queue' = [queue EXCEPT ![1].ran = TRUE, ![1].ok = ok]
      /\ moved' = IF ok /\ a.kind = "bulk" THEN moved \cup a.rows ELSE moved
      /\ UNCHANGED <<seen, adrift, dialog, selected, clicks>>
  BY HeadIs DEF Table!Run
<1>2. /\ b \in Deeds /\ b.ran /\ b.ok = ok /\ b.kind = a.kind /\ b.call = a.call
      /\ b.rows = a.rows /\ b.goal = a.goal
  BY <1>1 DEF Deeds
<1>3. queue \in Seq(Deeds) /\ DOMAIN queue = 1..Len(queue) /\ queue' = [queue EXCEPT ![1] = b]
  <2>1. queue \in Seq(Deeds) /\ DOMAIN queue = 1..Len(queue)
    BY DEF TableInv, TableType
  <2> QED BY <1>1, <2>1 DEF Deeds
<1>4. Sound(b)
  BY <1>1, <1>2 DEF Sound
<1>5. /\ status' \in [Rows -> Table!Statuses]
      /\ \A r \in Rows : r \notin a.rows \/ ~ok => status'[r] = status[r]
  BY <1>1, ServedIs
<1> HIDE DEF b
<1>6. /\ queue' \in Seq(Deeds) /\ DOMAIN queue' = DOMAIN queue /\ queue'[1] = b
      /\ \A i \in DOMAIN queue : i # 1 => queue'[i] = queue[i]
  <2>1. 1 \in DOMAIN queue /\ b \in Deeds
    BY <1>1, <1>2
  <2> QED BY <1>3, <2>1
<1> HIDE DEF a
<1>7. a.kind \in {"flip", "bulk"} /\ a.rows \subseteq Rows
  BY <1>1 DEF Deeds
<1>8. TableType'
  BY <1>1, <1>5, <1>6, <1>7 DEF TableInv, TableType
<1>9. \A i \in DOMAIN queue : queue'[i].kind = queue[i].kind
  BY <1>2, <1>6 DEF a
<1>10. QueueIs'
  <2>1. ASSUME NEW i \in DOMAIN queue' PROVE Sound(queue'[i]) /\ (i > 1 => ~queue'[i].ran)
    BY <1>4, <1>6, <2>1 DEF TableInv, QueueIs
  <2> QED BY <1>6, <1>9, <2>1 DEF TableInv, QueueIs
<1>11. SeenIsStatus'
  <2> SUFFICES ASSUME NEW r \in Rows \ moved', ~Flipped(r)' PROVE status'[r] = seen[r]
    BY <1>1 DEF SeenIsStatus
  <2>1. r \notin a.rows \/ ~ok
    BY <1>1, <1>2, <1>6, <1>7 DEF Flipped
  <2>2. ~Flipped(r)
    BY <1>1, <1>6, HeadIs DEF Flipped, Sound, a
  <2> QED BY <1>1, <1>5, <2>1, <2>2 DEF TableInv, SeenIsStatus
<1>12. GoalsFollow'
  BY <1>1, <1>2, <1>6 DEF TableInv, GoalsFollow
<1>13. DialogFollows'
  BY <1>1, <1>6, <1>9 DEF TableInv, DialogFollows, Table!IsPending
<1> QED BY <1>8, <1>10, <1>11, <1>12, <1>13 DEF TableInv

\* The first action is answered, or its answer is lost.
LEMMA TailIs ==
  ASSUME TableInv, queue # << >>, queue' = Tail(queue)
  PROVE  /\ queue' \in Seq(Deeds) /\ QueueIs'
         /\ \A i \in DOMAIN queue' : \E j \in DOMAIN queue : queue'[i] = queue[j]
<1>1. /\ queue' \in Seq(Deeds)
      /\ \A i \in DOMAIN queue' : /\ i \in Nat /\ i + 1 \in DOMAIN queue /\ i >= 1
                                  /\ queue'[i] = queue[i + 1]
  BY HeadIs
<1>2. ASSUME NEW i \in DOMAIN queue' PROVE Sound(queue'[i]) /\ (i > 1 => ~queue'[i].ran)
  BY <1>1, <1>2 DEF TableInv, QueueIs
<1>3. ASSUME NEW i \in DOMAIN queue', NEW j \in DOMAIN queue',
             queue'[i].kind = "flip", queue'[j].kind = "flip"
      PROVE  i = j
  <2>1. i + 1 = j + 1
    BY <1>1, <1>3 DEF TableInv, QueueIs
  <2> QED BY <1>1, <2>1
<1> QED BY <1>1, <1>2, <1>3 DEF QueueIs

LEMMA QueueAnswerKeeps == TableInv /\ Table!Answer => TableInv'
<1> SUFFICES ASSUME TableInv, Table!Answer PROVE TableInv'
  OBVIOUS
<1> DEFINE a == queue[1]
<1>1. /\ queue # << >> /\ queue' = Tail(queue) /\ Table!Done(a)
      /\ IF a.ok THEN Table!Refresh ELSE UNCHANGED <<seen, moved>>
      /\ UNCHANGED <<status, adrift, clicks>>
  BY HeadIs DEF Table!Answer
<1>2. /\ selected' \in SUBSET Rows /\ (dialog' = dialog \/ dialog'.kind = "none")
  BY <1>1 DEF Table!Done, Table!NoDialog, TableInv, TableType
<1>3. /\ seen' \in [Rows -> Table!Statuses] /\ moved' \in SUBSET Rows
  BY <1>1 DEF Table!Refresh, TableInv, TableType
<1>4. TableType'
  BY <1>1, <1>2, <1>3, TailIs DEF TableInv, TableType
<1>5. CASE a.ok
  BY <1>1, <1>2, <1>4, <1>5, TailIs, RowsKeep
<1>6. CASE ~a.ok
  <2>1. \A j \in DOMAIN queue : ~queue[j].ok
    BY <1>1, <1>6, HeadIs
  <2> QED BY <1>1, <1>2, <1>4, <1>6, <2>1, TailIs, RestKeeps
<1> QED BY <1>5, <1>6

LEMMA LoseKeeps == TableInv /\ Table!Lose => TableInv'
<1> SUFFICES ASSUME TableInv, Table!Lose PROVE TableInv'
  OBVIOUS
<1> DEFINE a == queue[1]
<1>1. /\ queue # << >> /\ a \in Deeds /\ 1 \in DOMAIN queue /\ UNCHANGED <<status, seen, clicks>>
      /\ moved' = IF a.ok THEN moved \cup a.rows ELSE moved
  BY HeadIs DEF Table!Lose
<1>2. moved' \in SUBSET Rows /\ moved \subseteq moved'
  BY <1>1 DEF Deeds, TableInv, TableType
<1>3. \A j \in DOMAIN queue : queue[j].ok => queue[j].rows \subseteq moved'
  BY <1>1, HeadIs
<1>4. CASE a.kind = "flip"
  <2>1. /\ queue' = << >> /\ adrift' = adrift \cup {queue[i] : i \in 2..Len(queue)}
        /\ dialog' = Table!NoDialog /\ selected' = {}
    BY <1>1, <1>4, HeadIs DEF Table!Lose
  <2>2. adrift' \in SUBSET Deeds /\ queue' \in Seq(Deeds) /\ DOMAIN queue' = {}
    <3>1. \A i \in 2..Len(queue) : queue[i] \in Deeds
      BY DEF TableInv, TableType
    <3> QED BY <2>1, <3>1 DEF TableInv, TableType
  <2>3. dialog'.kind = "none"
    BY <2>1 DEF Table!NoDialog
  <2>4. TableType'
    BY <1>1, <1>2, <2>1, <2>2, <2>3 DEF TableInv, TableType
  <2>5. QueueIs'
    BY <2>2 DEF QueueIs
  <2> QED BY <1>1, <1>2, <1>3, <2>2, <2>3, <2>4, <2>5, RestKeeps
<1>5. CASE a.kind # "flip"
  <2>1. queue' = Tail(queue) /\ UNCHANGED <<adrift, dialog, selected>>
    BY <1>1, <1>5, HeadIs DEF Table!Lose
  <2>2. TableType'
    BY <1>1, <1>2, <2>1, TailIs DEF TableInv, TableType
  <2> QED BY <1>1, <1>2, <1>3, <2>1, <2>2, TailIs, RestKeeps
<1> QED BY <1>4, <1>5

LEMMA NavigateKeeps == TableInv /\ Table!Navigate => TableInv'
<1> SUFFICES ASSUME TableInv, Table!Navigate PROVE TableInv'
  OBVIOUS
<1>1. /\ seen' = status /\ moved' = {} /\ queue' = << >> /\ selected' = {}
      /\ adrift' = adrift \cup {queue[i] : i \in DOMAIN queue}
      /\ dialog'.kind = "none" /\ UNCHANGED <<status, clicks>>
  BY DEF Table!Navigate, Table!NoDialog
<1>2. adrift' \in SUBSET Deeds /\ queue' \in Seq(Deeds) /\ DOMAIN queue' = {}
  <2>1. \A i \in DOMAIN queue : queue[i] \in Deeds
    BY DEF TableInv, TableType
  <2> QED BY <1>1, <2>1 DEF TableInv, TableType
<1>3. TableType'
  BY <1>1, <1>2 DEF TableInv, TableType
<1> QED BY <1>1, <1>2, <1>3 DEF TableInv, QueueIs, SeenIsStatus, GoalsFollow, DialogFollows

LEMMA RunAdriftKeeps ==
  ASSUME TableInv, NEW a \in adrift, NEW ok \in BOOLEAN, Table!RunAdrift(a, ok)
  PROVE  TableInv'
<1> DEFINE b == [a EXCEPT !.ran = TRUE, !.ok = ok]
<1>1. /\ Table!Served(a, ok) /\ adrift' = (adrift \ {a}) \cup {b}
      /\ moved' = IF ok THEN moved \cup a.rows ELSE moved
      /\ UNCHANGED <<seen, queue, dialog, selected, clicks>>
  BY DEF Table!RunAdrift
<1>2. a \in Deeds /\ adrift \in SUBSET Deeds /\ moved \in SUBSET Rows
  BY DEF TableInv, TableType
<1>3. b \in Deeds /\ a.rows \subseteq Rows
  BY <1>2 DEF Deeds
<1>4. /\ status' \in [Rows -> Table!Statuses]
      /\ \A r \in Rows : r \notin a.rows \/ ~ok => status'[r] = status[r]
  BY <1>1, <1>2, ServedIs
<1> HIDE DEF b
<1>5. TableType'
  BY <1>1, <1>2, <1>3, <1>4 DEF TableInv, TableType
<1>6. QueueIs' /\ GoalsFollow' /\ DialogFollows'
  BY <1>1 DEF TableInv, QueueIs, GoalsFollow, DialogFollows, Table!IsPending
<1>7. SeenIsStatus'
  BY <1>1, <1>4 DEF TableInv, SeenIsStatus, Flipped
<1> QED BY <1>5, <1>6, <1>7 DEF TableInv

LEMMA AnswerAdriftKeeps == ASSUME TableInv, NEW a \in adrift, Table!AnswerAdrift(a) PROVE TableInv'
<1>1. /\ adrift' = adrift \ {a} /\ UNCHANGED <<status, queue, dialog, selected, clicks>>
      /\ IF a.ok THEN Table!Refresh ELSE UNCHANGED <<seen, moved>>
  BY DEF Table!AnswerAdrift
<1>2. QueueIs'
  BY <1>1 DEF TableInv, QueueIs
<1>3. seen' \in [Rows -> Table!Statuses] /\ moved' \in SUBSET Rows
  BY <1>1 DEF Table!Refresh, TableInv, TableType
<1>4. TableType'
  BY <1>1, <1>3 DEF TableInv, TableType
<1>5. CASE a.ok
  BY <1>1, <1>2, <1>4, <1>5, RowsKeep
<1>6. CASE ~a.ok
  BY <1>1, <1>2, <1>4, <1>6, RestKeeps
<1> QED BY <1>5, <1>6

LEMMA RowElsewhereKeeps ==
  ASSUME TableInv, NEW r \in Rows, NEW s \in Table!Statuses, Table!Elsewhere(r, s)
  PROVE  TableInv'
<1>1. /\ status' = [status EXCEPT ![r] = s] /\ moved' = moved \cup {r}
      /\ UNCHANGED <<seen, queue, adrift, dialog, selected, clicks>>
  BY DEF Table!Elsewhere
<1>2. TableType'
  BY <1>1 DEF TableInv, TableType
<1>3. QueueIs' /\ GoalsFollow' /\ DialogFollows'
  BY <1>1 DEF TableInv, QueueIs, GoalsFollow, DialogFollows, Table!IsPending
<1>4. SeenIsStatus'
  BY <1>1 DEF TableInv, TableType, SeenIsStatus, Flipped
<1> QED BY <1>2, <1>3, <1>4 DEF TableInv

LEMMA TableKeeps == TableInv /\ [Table!TableNext]_tableVars => TableInv'
<1> SUFFICES ASSUME TableInv, [Table!TableNext]_tableVars PROVE TableInv'
  OBVIOUS
<1>1. ASSUME NEW r \in Rows, Table!Select(r) PROVE TableInv'
  <2>1. UNCHANGED <<status, seen, queue, adrift, moved, clicks, dialog>> /\ selected' \in SUBSET Rows
    BY <1>1 DEF Table!Select, TableInv, TableType
  <2> QED BY <2>1, DialogOnly DEF TableInv, TableType
<1>2. ASSUME NEW R \in {Rows, {}}, Table!SelectAll(R) PROVE TableInv'
  <2>1. UNCHANGED <<status, seen, queue, adrift, moved, clicks, dialog>> /\ selected' \in SUBSET Rows
    BY <1>2 DEF Table!SelectAll
  <2> QED BY <2>1, DialogOnly DEF TableInv, TableType
<1>3. ASSUME NEW goal \in {"ACTIVE", "DISABLED"}, Table!AskBulk(goal) PROVE TableInv'
  <2>1. /\ UNCHANGED <<status, seen, queue, adrift, moved, clicks, selected>>
        /\ dialog' = [kind |-> "bulk", row |-> "none", was |-> goal]
    BY <1>3 DEF Table!AskBulk
  <2> QED BY <2>1, DialogOnly DEF TableInv, TableType
<1>4. ASSUME Table!Dismiss PROVE TableInv'
  <2>1. UNCHANGED <<status, seen, queue, adrift, moved, clicks, selected>> /\ dialog'.kind = "none"
    BY <1>4 DEF Table!Dismiss, Table!NoDialog
  <2> QED BY <2>1, DialogOnly DEF TableInv, TableType
<1>5. ASSUME UNCHANGED tableVars PROVE TableInv'
  <2>1. UNCHANGED <<status, seen, queue, adrift, moved, clicks, selected, dialog>>
    BY <1>5 DEF tableVars
  <2> QED BY <2>1, DialogOnly DEF TableInv, TableType
<1> QED BY <1>1, <1>2, <1>3, <1>4, <1>5, ClickKeeps, ConfirmFlipKeeps, ConfirmBulkKeeps, RunKeeps,
           QueueAnswerKeeps, LoseKeeps, NavigateKeeps, RunAdriftKeeps, AnswerAdriftKeeps,
           RowElsewhereKeeps
        DEF Table!TableNext

\* A flip that is about to run promised the row as the list shows it, which
\* is the row as it is.
LEMMA PromiseKept == TableInv => Table!KeepsPromise
<1> SUFFICES ASSUME TableInv, NEW ok \in BOOLEAN, Table!Run(ok),
                    queue[1].kind = "flip", queue[1].rows \cap moved = {},
                    NEW r \in queue[1].rows
             PROVE  /\ Table!Applies(queue[1], status[r])
                    /\ ok => status'[r] = queue[1].goal
  <2>1. ASSUME NEW ok \in BOOLEAN, Table!Run(ok) PROVE Head(queue) = queue[1]
    BY <2>1, HeadIs DEF Table!Run
  <2> QED BY <2>1 DEF Table!KeepsPromise
<1> DEFINE a == queue[1]
<1>1. /\ 1 \in DOMAIN queue /\ a \in Deeds /\ Sound(a) /\ ~a.ran /\ Table!Served(a, ok)
  BY HeadIs DEF Table!Run
<1>2. r \in Rows \ moved /\ a.call \in {"toggle", "unlock"}
  BY <1>1 DEF Sound
<1>3. status[r] = seen[r]
  BY <1>1, <1>2, SeenBefore
<1>4. /\ a.goal = Table!Flip(seen[r])
      /\ a.call = IF seen[r] = "LOCKED" THEN "unlock" ELSE "toggle"
  BY <1>1, <1>2 DEF TableInv, GoalsFollow
<1>5. Table!Applies(a, status[r])
  BY <1>3, <1>4 DEF Table!Applies
<1>6. ok => status'[r] = Table!After(a, status[r])
  BY <1>1, <1>5, ServedIs
<1> QED BY <1>3, <1>4, <1>5, <1>6 DEF Table!After

LEMMA OnlyTableSteps == [Next]_vars => [Table!TableNext]_tableVars
BY DEF Next, CacheStep, ControlsStep, TableStep, FormsStep, SetsStep, GuardStep, AuditStep, vars

\* A status button does what it promised when it was pressed, though its
\* action only flips the row (UserTable.tsx, toggleUserStatusAction): through
\* its dialog, bulk actions under way, lost answers and lists mounted anew,
\* unless another action or somebody else changed the row meanwhile.
THEOREM ButtonsKeepTheirWord == Spec => PromisedIsDone
<1>1. Init => TableInv
  BY TableInitially DEF Init
<1>2. TableInv /\ [Next]_vars => TableInv'
  BY OnlyTableSteps, TableKeeps
<1>3. TableInv /\ [Next]_vars => [Table!KeepsPromise]_tableVars
  BY PromiseKept
<1> QED BY <1>1, <1>2, <1>3, PTL DEF Spec, PromisedIsDone
-----------------------------------------------------------------------------
(* The export of a log *)

LogRows == [id : Nat, at : Nat]
Newer(r) == {q \in log : q.at > r.at}
Rank(r) == Cardinality(Newer(r))

Exports ==
  [pc : {"none", "loading", "closed"}, page : Nat, queries : SUBSET {"rows", "total"},
   rows : Seq(LogRows), total : Nat, sent : Nat]

AuditType ==
  /\ log \in SUBSET LogRows /\ IsFiniteSet(log) /\ cutoff \in Nat /\ clock \in Nat /\ begun \in Nat
  /\ \A w \in Writers : work[w].row \in LogRows
  /\ unsent \in SUBSET LogRows /\ export \in Exports /\ export.sent <= ExportMax
  /\ export.pc = "loading" => export.page # 0

\* What the export owes: a row that will not be dropped and has its time alone.
Owed(r) == r \in unsent /\ r.at > cutoff /\ ~Audit!Tied(r)

OwedIsInLog == \A r \in unsent : r.at > cutoff => r \in log

\* A row that is owed lies on the page that is loaded or on a later one; on
\* the page itself, where the total makes it the last.
OwedIsAhead ==
  export.pc = "loading" => \A r \in LogRows : Owed(r) =>
    /\ Rank(r) >= Audit!Offset(export.page)
    /\ "rows" \notin export.queries =>
         /\ export.rows # << >>
         /\ r \in Audit!Range(export.rows) \/ Rank(r) >= Audit!Offset(export.page + 1)
         /\ "total" \notin export.queries /\ ~Audit!HasMore(export) /\ ~shifted =>
              r \in Audit!Range(export.rows)

NothingIsOwed == export.pc = "closed" /\ export.sent < ExportMax /\ ~shifted => \A r \in LogRows : ~Owed(r)

AuditInv == AuditType /\ OwedIsInLog /\ OwedIsAhead /\ NothingIsOwed

\* The instance has its own copies of the operators.
LEMMA AuditCounts == ASSUME NEW S PROVE Audit!Cardinality(S) = Cardinality(S)
BY Zenon DEF Audit!Cardinality, Cardinality

LEMMA MinIs ==
  ASSUME NEW a \in Nat, NEW b \in Nat
  PROVE  Audit!Min({a, b}) = IF a <= b THEN a ELSE b
BY DEF Audit!Min

LEMMA Division ==
  ASSUME NEW a \in Nat, NEW b \in Nat \ {0}
  PROVE  a = b * (a \div b) + (a % b) /\ a % b \in 0..(b - 1) /\ a \div b \in Nat
OBVIOUS

\* No page after the last one: it reaches the end.
LEMMA LastPageReaches ==
  ASSUME NEW t \in Nat, NEW p \in Nat \ {0}, Audit!TotalPages(t) <= p
  PROVE  t <= Audit!Offset(p + 1)
<1> DEFINE q == (t + PageSize - 1) \div PageSize
           a == t + PageSize - 1
<1>1. PageSize \in Nat \ {0} /\ a \in Nat
  BY ConsoleAssumption
<1> HIDE DEF a
<1>2. a = PageSize * (a \div PageSize) + (a % PageSize) /\ a % PageSize \in 0..(PageSize - 1)
      /\ a \div PageSize \in Nat
  BY <1>1, Division
<1>3. q = a \div PageSize /\ q <= p
  BY DEF Audit!TotalPages, a
<1> HIDE DEF q
<1>4. PageSize * q \in Nat /\ PageSize * q <= PageSize * p
  BY <1>1, <1>2, <1>3
<1>5. t <= PageSize * q
  BY <1>1, <1>2, <1>3, <1>4 DEF a
<1>6. Audit!Offset(p + 1) = PageSize * p /\ PageSize * p \in Nat
  BY <1>1 DEF Audit!Offset
<1> QED BY <1>4, <1>5, <1>6

LEMMA OffsetIs ==
  ASSUME NEW p \in Nat \ {0}
  PROVE  /\ Audit!Offset(p) \in Nat /\ Audit!Offset(p + 1) = Audit!Offset(p) + PageSize
         /\ Audit!Offset(1) = 0
BY ConsoleAssumption DEF Audit!Offset

\* A row that has its time alone is in the log, newest first, behind the newer ones.
LEMMA PlaceIsRank ==
  ASSUME IsFiniteSet(log), log \in SUBSET LogRows, NEW s \in Audit!NewestFirst(log),
         NEW r \in log, ~Audit!Tied(r)
  PROVE  /\ s \in Seq(LogRows) /\ Len(s) = Cardinality(log) /\ Cardinality(log) \in Nat
         /\ Rank(r) \in Nat /\ Rank(r) + 1 <= Cardinality(log) /\ s[Rank(r) + 1] = r
<1> DEFINE N == Cardinality(log)
<1>1. N \in Nat
  BY FS_CardinalityType
<1>2. /\ s \in [1..N -> log] /\ \A i, j \in 1..N : i # j => s[i] # s[j]
      /\ \A i, j \in 1..N : i < j => s[i].at >= s[j].at
  BY AuditCounts DEF Audit!NewestFirst, Audit!SetToSeqs
<1> HIDE DEF N
<1>3. IsFiniteSet(1..N) /\ Cardinality(1..N) = N
  BY <1>1, FS_Interval
<1>4. s \in Injection(1..N, log)
  BY <1>2 DEF Injection, IsInjective
<1>5. s \in Surjection(1..N, log)
  BY <1>3, <1>4, FS_Injection DEF N
<1>6. PICK k \in 1..N : s[k] = r
  BY <1>5 DEF Surjection
<1>7. \A i \in 1..(k - 1) : i \in 1..N /\ s[i] \in Newer(r)
  <2> SUFFICES ASSUME NEW i \in 1..(k - 1) PROVE i \in 1..N /\ s[i] \in Newer(r)
    OBVIOUS
  <2>1. i \in 1..N /\ i < k /\ i # k
    BY <1>1, <1>6
  <2>2. s[i] \in log /\ s[i] # r /\ s[i].at >= r.at
    BY <1>2, <1>6, <2>1
  <2>3. s[i].at # r.at
    BY <2>2 DEF Audit!Tied
  <2>4. s[i].at \in Nat /\ r.at \in Nat
    BY <2>2 DEF LogRows
  <2> QED BY <2>1, <2>2, <2>3, <2>4 DEF Newer
<1>8. \A q \in Newer(r) : \E i \in 1..(k - 1) : s[i] = q
  <2> SUFFICES ASSUME NEW q \in Newer(r) PROVE \E i \in 1..(k - 1) : s[i] = q
    OBVIOUS
  <2>1. q \in log /\ q.at > r.at /\ q.at \in Nat /\ r.at \in Nat
    BY DEF Newer, LogRows
  <2>2. PICK j \in 1..N : s[j] = q
    BY <1>5, <2>1 DEF Surjection
  <2>3. ~(k < j) /\ k # j
    BY <1>2, <1>6, <2>1, <2>2
  <2> QED BY <1>1, <2>2, <2>3
<1> DEFINE f == [i \in 1..(k - 1) |-> s[i]]
<1>9. f \in Bijection(1..(k - 1), Newer(r))
  <2>1. f \in [1..(k - 1) -> Newer(r)]
    BY <1>7
  <2>2. \A i, j \in 1..(k - 1) : f[i] = f[j] => i = j
    BY <1>2, <1>7
  <2>3. \A q \in Newer(r) : \E i \in 1..(k - 1) : f[i] = q
    BY <1>8
  <2> HIDE DEF f
  <2> QED BY <2>1, <2>2, <2>3 DEF Bijection, Injection, Surjection, IsInjective
<1>10. IsFiniteSet(1..(k - 1)) /\ Cardinality(1..(k - 1)) = k - 1
  BY <1>6, FS_Interval
<1>11. Rank(r) = k - 1
  BY <1>9, <1>10, FS_Bijection DEF ExistsBijection, Rank
<1>12. s \in Seq(LogRows) /\ Len(s) = N
  BY <1>1, <1>2
<1> QED BY <1>1, <1>6, <1>11, <1>12 DEF N

\* The page has what lies between its offset and the next.
LEMMA PageHas ==
  ASSUME NEW s \in Seq(LogRows), NEW p \in Nat \ {0}
  PROVE  /\ Audit!Page(s, p) \in Seq(LogRows)
         /\ \A k \in 1..Len(s) : k > Audit!Offset(p) =>
              /\ Audit!Page(s, p) # << >>
              /\ k <= Audit!Offset(p + 1) => s[k] \in Audit!Range(Audit!Page(s, p))
<1> DEFINE o == Audit!Offset(p)
           e == IF o + PageSize <= Len(s) THEN o + PageSize ELSE Len(s)
           P == Audit!Page(s, p)
<1>1. o \in Nat /\ Audit!Offset(p + 1) = o + PageSize /\ PageSize \in Nat \ {0} /\ Len(s) \in Nat
  <2>1. o \in Nat /\ Audit!Offset(p + 1) = o + PageSize
    BY OffsetIs
  <2>2. PageSize \in Nat \ {0} /\ Len(s) \in Nat
    BY ConsoleAssumption
  <2> QED BY <2>1, <2>2
<1>2. e \in Nat /\ e <= Len(s) /\ P = SubSeq(s, o + 1, e)
  <2>1. e \in Nat /\ e <= Len(s)
    BY <1>1
  <2>2. o + PageSize \in Nat
    BY <1>1
  <2>3. Audit!Min({o + PageSize, Len(s)}) = e
    BY <1>1, <2>2, MinIs
  <2> QED BY <2>1, <2>3 DEF Audit!Page
<1> HIDE DEF o, e, P
<1>3. /\ P \in Seq(LogRows) /\ Len(P) = (IF o + 1 <= e THEN e - o ELSE 0)
      /\ \A i \in 1..(e - o) : P[i] = s[o + i]
  BY <1>1, <1>2
<1>4. ASSUME NEW k \in 1..Len(s), k > o
      PROVE  P # << >> /\ (k <= o + PageSize => s[k] \in Audit!Range(P))
  <2>1. o + 1 <= e /\ Len(P) = e - o /\ Len(P) # 0
    BY <1>1, <1>2, <1>3, <1>4 DEF e
  <2>2. ASSUME k <= o + PageSize PROVE s[k] \in Audit!Range(P)
    <3>1. k - o \in 1..(e - o) /\ o + (k - o) = k
      BY <1>1, <1>2, <1>4, <2>2 DEF e
    <3>2. P[k - o] = s[k] /\ k - o \in DOMAIN P
      BY <1>3, <2>1, <3>1
    <3> QED BY <3>2 DEF Audit!Range
  <2> QED BY <2>1, <2>2
<1> QED BY <1>1, <1>3, <1>4 DEF o, P

LEMMA RequestIs ==
  ASSUME NEW p \in Nat, NEW n \in Nat
  PROVE  LET e == Audit!Request(p, n) IN
         /\ e \in Exports /\ e.pc = "loading" /\ e.page = p /\ e.sent = n /\ e.rows = << >>
         /\ "rows" \in e.queries
BY DEF Audit!Request, Exports

LEMMA RequestEnds ==
  ASSUME NEW n \in Nat, NEW pc \in {"none", "closed"}
  PROVE  LET e == [Audit!Request(0, n) EXCEPT !.pc = pc] IN
         e \in Exports /\ e.pc = pc /\ e.sent = n
<1> DEFINE q == Audit!Request(0, n)
<1>1. q \in Exports /\ q.sent = n
  BY RequestIs
<1> HIDE DEF q
<1>2. [q EXCEPT !.pc = pc] \in Exports /\ [q EXCEPT !.pc = pc].pc = pc /\ [q EXCEPT !.pc = pc].sent = n
  BY <1>1 DEF Exports
<1> QED BY <1>2 DEF q

LEMMA AuditInitially == Audit!AuditInit => AuditInv
<1> SUFFICES ASSUME Audit!AuditInit PROVE AuditInv
  OBVIOUS
<1>1. PICK n \in 0..OldRows :
        /\ \E at \in [1..n -> 1..n] : log = {Audit!Row(i, at[i]) : i \in 1..n}
        /\ clock = n /\ begun = n
        /\ cutoff \in IF table = "access" THEN 1..n ELSE {0}
  BY DEF Audit!AuditInit
<1>2. PICK at \in [1..n -> 1..n] : log = {Audit!Row(i, at[i]) : i \in 1..n}
  BY <1>1
<1>3. n \in Nat
  BY ConsoleAssumption
<1>4. log \in SUBSET LogRows
  BY <1>2, <1>3 DEF Audit!Row, LogRows
<1>5. IsFiniteSet(log)
  <2> DEFINE f == [i \in 1..n |-> Audit!Row(i, at[i])]
  <2>1. f \in [1..n -> log] /\ \A r \in log : \E i \in 1..n : f[i] = r
    BY <1>2
  <2> HIDE DEF f
  <2>2. f \in Surjection(1..n, log)
    BY <2>1 DEF Surjection
  <2> QED BY <1>3, <2>2, FS_Surjection, FS_Interval
<1>6. cutoff \in Nat
  BY <1>1, <1>3
<1>7. \A w \in Writers : work[w].row \in LogRows
  BY DEF Audit!AuditInit, Audit!Resting, Audit!Row, LogRows
<1>8. unsent = {} /\ export.pc = "none" /\ export \in Exports /\ export.sent = 0
  BY RequestEnds DEF Audit!AuditInit, Audit!NotAsked
<1>9. AuditType
  <2>1. export.sent <= ExportMax
    BY <1>8, ConsoleAssumption
  <2>2. clock \in Nat /\ begun \in Nat
    BY <1>1, <1>3
  <2>3. unsent \in SUBSET LogRows
    BY <1>8
  <2> QED BY <1>4, <1>5, <1>6, <1>7, <1>8, <2>1, <2>2, <2>3 DEF AuditType
<1> QED BY <1>8, <1>9 DEF AuditInv, OwedIsInLog, OwedIsAhead, NothingIsOwed

\* Rows come, and rows up to the cutoff go: what is owed stays so, and no
\* nearer to the front.
LEMMA StillOwed ==
  ASSUME AuditInv, log' \in SUBSET LogRows, IsFiniteSet(log'), UNCHANGED cutoff,
         \A q \in log : q.at > cutoff => q \in log',
         unsent' \subseteq unsent \/ unsent' = log,
         NEW r \in LogRows, Owed(r)'
  PROVE  /\ r \in log /\ ~Audit!Tied(r) /\ Rank(r) \in Nat /\ Rank(r)' \in Nat /\ Rank(r)' >= Rank(r)
         /\ unsent' \subseteq unsent => Owed(r)
<1>1. r \in unsent' /\ r.at > cutoff /\ ~Audit!Tied(r)'
  BY DEF Owed
<1>2. r \in log /\ cutoff \in Nat /\ log \in SUBSET LogRows /\ IsFiniteSet(log)
  BY <1>1 DEF AuditInv, AuditType, OwedIsInLog
<1>3. ~Audit!Tied(r)
  <2>1. ASSUME NEW q \in log, q # r, q.at = r.at PROVE q \in log'
    BY <1>1, <2>1
  <2> QED BY <1>1, <2>1 DEF Audit!Tied
<1>4. Newer(r) \in SUBSET Newer(r)'
  <2> SUFFICES ASSUME NEW q \in log, q.at > r.at PROVE q \in log'
    BY DEF Newer
  <2>1. q.at \in Nat /\ r.at \in Nat
    BY <1>2 DEF LogRows
  <2> QED BY <1>1, <1>2, <2>1
<1>5. IsFiniteSet(Newer(r)) /\ IsFiniteSet(Newer(r)')
  <2>1. Newer(r) \in SUBSET log /\ Newer(r)' \in SUBSET log'
    BY DEF Newer
  <2> QED BY <1>2, <2>1, FS_Subset
<1>6. Rank(r) \in Nat /\ Rank(r)' \in Nat /\ Rank(r)' >= Rank(r)
  <2>1. Cardinality(Newer(r)) \in Nat /\ Cardinality(Newer(r)') \in Nat
    BY <1>5, FS_CardinalityType
  <2>2. Cardinality(Newer(r)) <= Cardinality(Newer(r)')
    BY <1>4, <1>5, FS_Subset
  <2> QED BY <2>1, <2>2 DEF Rank
<1> QED BY <1>1, <1>2, <1>3, <1>6 DEF Owed

\* Steps of the writers and of the worker that drops partitions.
LEMMA LogMoves ==
  ASSUME AuditInv, AuditType', UNCHANGED <<cutoff, export, unsent, shifted>>,
         \A q \in log : q.at > cutoff => q \in log'
  PROVE  AuditInv'
<1>1. \A r \in LogRows : Owed(r)' => Owed(r) /\ Rank(r) \in Nat /\ Rank(r)' \in Nat /\ Rank(r)' >= Rank(r)
  BY StillOwed DEF AuditType
<1>2. OwedIsInLog'
  BY DEF AuditInv, OwedIsInLog
<1>3. OwedIsAhead'
  <2> SUFFICES ASSUME export.pc = "loading", NEW r \in LogRows, Owed(r)'
        PROVE  /\ Rank(r)' >= Audit!Offset(export.page)
               /\ "rows" \notin export.queries =>
                    /\ export.rows # << >>
                    /\ r \in Audit!Range(export.rows) \/ Rank(r)' >= Audit!Offset(export.page + 1)
                    /\ "total" \notin export.queries /\ ~Audit!HasMore(export) /\ ~shifted =>
                         r \in Audit!Range(export.rows)
    BY DEF OwedIsAhead
  <2>1. Owed(r) /\ Rank(r) \in Nat /\ Rank(r)' \in Nat /\ Rank(r)' >= Rank(r)
    BY <1>1
  <2>2. export.page \in Nat \ {0} /\ export.page + 1 \in Nat \ {0}
    BY DEF AuditInv, AuditType, Exports
  <2>3. Audit!Offset(export.page) \in Nat /\ Audit!Offset(export.page + 1) \in Nat
    BY <2>2, OffsetIs
  <2> QED BY <2>1, <2>3 DEF AuditInv, OwedIsAhead
<1>4. NothingIsOwed'
  BY <1>1 DEF AuditInv, NothingIsOwed
<1> QED BY <1>2, <1>3, <1>4 DEF AuditInv

LEMMA WriterKeeps ==
  ASSUME AuditInv, NEW w \in Writers,
         Audit!BeginInsert(w) \/ Audit!Commit(w) \/ Audit!InsertFails(w) \/ Audit!Retry(w)
  PROVE  AuditInv'
<1>1. ASSUME NEW tries, Audit!Inserting(w, tries), UNCHANGED <<log, cutoff, export, unsent, shifted>>
      PROVE  AuditInv'
  <2>1. clock' \in Nat /\ begun' \in Nat /\ \A v \in Writers : work'[v].row \in LogRows
    BY <1>1 DEF Audit!Inserting, Audit!Row, LogRows, AuditInv, AuditType
  <2>2. AuditType'
    BY <1>1, <2>1 DEF AuditInv, AuditType
  <2> QED BY <1>1, <2>2, LogMoves
<1>2. ASSUME log' \in {log, log \union {work[w].row}}, UNCHANGED <<clock, cutoff, export, unsent, shifted, begun>>,
             \A v \in Writers : work'[v].row \in LogRows
      PROVE  AuditInv'
  <2>1. IsFiniteSet(log') /\ log' \in SUBSET LogRows
    BY <1>2, FS_AddElement DEF AuditInv, AuditType
  <2>2. AuditType'
    BY <1>2, <2>1 DEF AuditInv, AuditType
  <2> QED BY <1>2, <2>2, LogMoves
<1>3. Audit!Resting.row \in LogRows /\ [Audit!Resting EXCEPT !.pc = "waiting", !.tries = work[w].tries].row \in LogRows
  BY DEF Audit!Resting, Audit!Row, LogRows
<1>4. CASE Audit!BeginInsert(w)
  BY <1>1, <1>4 DEF Audit!BeginInsert
<1>5. CASE Audit!Retry(w)
  BY <1>1, <1>5 DEF Audit!Retry
<1>6. CASE Audit!Commit(w)
  <2>1. \A v \in Writers : work'[v].row \in LogRows
    BY <1>3, <1>6 DEF Audit!Commit, AuditInv, AuditType
  <2> QED BY <1>2, <1>6, <2>1 DEF Audit!Commit
<1>7. CASE Audit!InsertFails(w)
  <2>1. \A v \in Writers : work'[v].row \in LogRows
    BY <1>3, <1>7 DEF Audit!InsertFails, AuditInv, AuditType
  <2> QED BY <1>2, <1>7, <2>1 DEF Audit!InsertFails
<1> QED BY <1>4, <1>5, <1>6, <1>7

LEMMA DropKeeps ==
  ASSUME AuditInv, NEW t \in 1..OldRows, Audit!DropPartition(t)
  PROVE  AuditInv'
<1>1. /\ t <= cutoff /\ log' = {r \in log : r.at # t}
      /\ UNCHANGED <<clock, cutoff, work, export, unsent, shifted, begun>>
  BY DEF Audit!DropPartition
<1>2. log' \in SUBSET log /\ IsFiniteSet(log')
  BY <1>1, FS_Subset DEF AuditInv, AuditType
<1>3. \A q \in log : q.at > cutoff => q \in log'
  BY <1>1, ConsoleAssumption DEF AuditInv, AuditType
<1>4. AuditType'
  BY <1>1, <1>2 DEF AuditInv, AuditType
<1> QED BY <1>1, <1>3, <1>4, LogMoves

LEMMA StartExportKeeps == AuditInv /\ Audit!StartExport => AuditInv'
<1> SUFFICES ASSUME AuditInv, Audit!StartExport PROVE AuditInv'
  OBVIOUS
<1>1. /\ export' = Audit!Request(1, 0) /\ unsent' = log
      /\ UNCHANGED <<log, clock, cutoff, work, shifted, begun>>
  BY DEF Audit!StartExport
<1>2. /\ export' \in Exports /\ export'.pc = "loading" /\ export'.page = 1 /\ "rows" \in export'.queries
      /\ export'.sent = 0
  BY <1>1, RequestIs
<1>3. AuditType'
  BY <1>1, <1>2, ConsoleAssumption DEF AuditInv, AuditType
<1>4. OwedIsInLog' /\ NothingIsOwed'
  BY <1>1, <1>2 DEF OwedIsInLog, NothingIsOwed
<1>5. ASSUME NEW r \in LogRows, Owed(r)' PROVE Rank(r)' \in Nat
  BY <1>1, <1>3, <1>5, StillOwed DEF AuditType
<1>6. Audit!Offset(1) = 0
  BY OffsetIs
<1>7. OwedIsAhead'
  BY <1>2, <1>5, <1>6 DEF OwedIsAhead
<1> QED BY <1>3, <1>4, <1>7 DEF AuditInv

\* What a step of the export leaves as it was.
LEMMA LogRests ==
  ASSUME AuditInv, UNCHANGED <<log, clock, cutoff, work, begun>>, unsent' \in SUBSET unsent,
         export' \in Exports, export'.sent <= ExportMax, export'.pc = "loading" => export'.page # 0
  PROVE  /\ AuditType' /\ OwedIsInLog'
         /\ \A r \in LogRows : Owed(r)' =>
              Owed(r) /\ r \in log /\ ~Audit!Tied(r) /\ Rank(r) \in Nat /\ Rank(r)' = Rank(r)
<1>1. AuditType' /\ OwedIsInLog'
  BY DEF AuditInv, AuditType, OwedIsInLog
<1>2. ASSUME NEW r \in LogRows, Owed(r)'
      PROVE  Owed(r) /\ r \in log /\ ~Audit!Tied(r) /\ Rank(r) \in Nat /\ Rank(r)' = Rank(r)
  <2>1. Owed(r) /\ r \in log /\ ~Audit!Tied(r) /\ Rank(r) \in Nat
    BY <1>1, <1>2, StillOwed DEF AuditType
  <2>2. Rank(r)' = Rank(r)
    BY DEF Rank, Newer
  <2> QED BY <2>1, <2>2
<1> QED BY <1>1, <1>2

LEMMA OwedOnPage ==
  ASSUME AuditInv, export.pc = "loading", NEW r \in LogRows, Owed(r)
  PROVE  /\ export.page \in Nat \ {0} /\ Rank(r) \in Nat
         /\ Audit!Offset(export.page) \in Nat /\ Audit!Offset(export.page + 1) \in Nat
         /\ Rank(r) >= Audit!Offset(export.page) /\ Rank(r) < Cardinality(log) /\ Cardinality(log) \in Nat
         /\ IsFiniteSet(log) /\ log \in SUBSET LogRows /\ r \in log /\ ~Audit!Tied(r)
<1>1. export.page \in Nat \ {0} /\ export.page + 1 \in Nat \ {0} /\ IsFiniteSet(log) /\ log \in SUBSET LogRows
  BY DEF AuditInv, AuditType, Exports
<1>2. r \in log /\ ~Audit!Tied(r) /\ Rank(r) >= Audit!Offset(export.page)
  BY DEF AuditInv, Owed, OwedIsInLog, OwedIsAhead
<1>3. Newer(r) \in SUBSET (log \ {r})
  <2>1. ~(r.at > r.at)
    BY <1>1, <1>2 DEF LogRows
  <2> QED BY <2>1 DEF Newer
<1>4. IsFiniteSet(log \ {r}) /\ Cardinality(log \ {r}) = Cardinality(log) - 1 /\ Cardinality(log) \in Nat
  BY <1>1, <1>2, FS_RemoveElement, FS_CardinalityType
<1>5. Rank(r) <= Cardinality(log) - 1 /\ Rank(r) \in Nat
  BY <1>3, <1>4, FS_Subset, FS_CardinalityType DEF Rank
<1>6. Audit!Offset(export.page) \in Nat /\ Audit!Offset(export.page + 1) \in Nat
  BY <1>1, OffsetIs
<1> QED BY <1>1, <1>2, <1>4, <1>5, <1>6

\* The rows of the page come: what is owed is among them, or lies behind them.
LEMMA QueryRowsKeeps == AuditInv /\ Audit!QueryRows => AuditInv'
<1> SUFFICES ASSUME AuditInv, Audit!QueryRows PROVE AuditInv'
  OBVIOUS
<1> DEFINE p == export.page
<1>1. /\ export.pc = "loading" /\ p \in Nat \ {0} /\ export \in Exports
      /\ UNCHANGED <<log, clock, cutoff, work, unsent, begun>>
      /\ log \in SUBSET LogRows /\ IsFiniteSet(log)
  BY DEF Audit!QueryRows, AuditInv, AuditType, Exports
<1>2. PICK s \in Audit!NewestFirst(log) :
        export' = [Audit!Answered(export, "rows") EXCEPT !.rows = Audit!Page(s, p)]
  BY DEF Audit!QueryRows
<1>3. shifted' = (/\ "total" \notin export.queries /\ ~Audit!HasMore(export)
                  /\ Cardinality(log) > Audit!Offset(p + 1))
  BY AuditCounts DEF Audit!QueryRows
<1>4. s \in Seq(LogRows)
  <2>1. s \in [1..Cardinality(log) -> log] /\ Cardinality(log) \in Nat
    BY <1>1, AuditCounts, FS_CardinalityType DEF Audit!NewestFirst, Audit!SetToSeqs
  <2> QED BY <1>1, <2>1
<1>5. Audit!Page(s, p) \in Seq(LogRows)
  BY <1>1, <1>4, PageHas
<1>6. /\ export'.pc = "loading" /\ export'.page = p /\ export'.rows = Audit!Page(s, p)
      /\ export'.queries = export.queries \ {"rows"} /\ export'.total = export.total
      /\ export' \in Exports /\ export'.sent = export.sent /\ export.sent <= ExportMax
  BY <1>1, <1>2, <1>5 DEF AuditInv, AuditType, Audit!Answered, Exports
<1>7. /\ AuditType' /\ OwedIsInLog'
      /\ \A r \in LogRows : Owed(r)' => Owed(r) /\ Rank(r)' = Rank(r)
  BY <1>1, <1>6, LogRests
<1>8. NothingIsOwed'
  BY <1>6 DEF NothingIsOwed
<1> HIDE DEF p
<1>9. OwedIsAhead'
  <2> SUFFICES ASSUME NEW r \in LogRows, Owed(r)'
        PROVE  /\ Rank(r)' >= Audit!Offset(p) /\ Audit!Page(s, p) # << >>
               /\ r \in Audit!Range(Audit!Page(s, p)) \/ Rank(r)' >= Audit!Offset(p + 1)
               /\ "total" \notin export'.queries /\ ~Audit!HasMore(export)' /\ ~shifted' =>
                    r \in Audit!Range(Audit!Page(s, p))
    BY <1>6 DEF OwedIsAhead
  <2>1. Owed(r) /\ Rank(r)' = Rank(r)
    BY <1>7
  <2>2. /\ Rank(r) \in Nat /\ Rank(r) >= Audit!Offset(p) /\ Rank(r) < Cardinality(log)
        /\ Audit!Offset(p) \in Nat /\ Audit!Offset(p + 1) \in Nat /\ Cardinality(log) \in Nat
        /\ r \in log /\ ~Audit!Tied(r)
    BY <1>1, <2>1, OwedOnPage DEF p
  <2> DEFINE k == Rank(r) + 1
  <2>3. Len(s) = Cardinality(log) /\ s[k] = r
    BY <1>1, <2>2, PlaceIsRank
  <2>4. k \in 1..Len(s) /\ k > Audit!Offset(p)
    BY <2>2, <2>3
  <2>5. /\ Audit!Page(s, p) # << >>
        /\ k <= Audit!Offset(p + 1) => s[k] \in Audit!Range(Audit!Page(s, p))
    <3> HIDE DEF k
    <3> QED BY <1>1, <1>4, <2>4, PageHas
  <2>6. r \in Audit!Range(Audit!Page(s, p)) \/ Rank(r) >= Audit!Offset(p + 1)
    BY <2>2, <2>3, <2>5
  <2>7. ASSUME "total" \notin export'.queries, ~Audit!HasMore(export)', ~shifted'
        PROVE  r \in Audit!Range(Audit!Page(s, p))
    <3>1. Audit!HasMore(export)' <=> Audit!HasMore(export)
      BY <1>6 DEF Audit!HasMore, p
    <3>2. "total" \notin export.queries
      BY <1>6, <2>7
    <3>3. ~(Cardinality(log) > Audit!Offset(p + 1))
      BY <1>3, <2>7, <3>1, <3>2
    <3> QED BY <2>2, <2>6, <3>3
  <2> QED BY <2>1, <2>2, <2>5, <2>6, <2>7
<1> QED BY <1>7, <1>8, <1>9 DEF AuditInv

\* The total comes: where it makes this the last page, nothing lies behind it.
LEMMA QueryTotalKeeps == AuditInv /\ Audit!QueryTotal => AuditInv'
<1> SUFFICES ASSUME AuditInv, Audit!QueryTotal PROVE AuditInv'
  OBVIOUS
<1> DEFINE p == export.page
           N == Cardinality(log)
<1>1. /\ export.pc = "loading" /\ p \in Nat \ {0} /\ export \in Exports
      /\ UNCHANGED <<log, clock, cutoff, work, unsent, shifted, begun>>
      /\ export' = [Audit!Answered(export, "total") EXCEPT !.total = N]
  BY AuditCounts DEF Audit!QueryTotal, AuditInv, AuditType, Exports
<1>2. N \in Nat
  BY FS_CardinalityType DEF AuditInv, AuditType
<1> HIDE DEF N
<1>3. /\ export'.pc = "loading" /\ export'.page = p /\ export'.rows = export.rows
      /\ export'.queries = export.queries \ {"total"} /\ export'.total = N
      /\ export' \in Exports /\ export'.sent = export.sent /\ export.sent <= ExportMax
  BY <1>1, <1>2 DEF AuditInv, AuditType, Audit!Answered, Exports
<1>4. /\ AuditType' /\ OwedIsInLog'
      /\ \A r \in LogRows : Owed(r)' => Owed(r) /\ Rank(r)' = Rank(r)
  BY <1>1, <1>3, LogRests
<1>5. NothingIsOwed'
  BY <1>3 DEF NothingIsOwed
<1> HIDE DEF p
<1>6. OwedIsAhead'
  <2> SUFFICES ASSUME NEW r \in LogRows, Owed(r)'
        PROVE  /\ Rank(r)' >= Audit!Offset(p)
               /\ "rows" \notin export.queries =>
                    /\ export.rows # << >>
                    /\ r \in Audit!Range(export.rows) \/ Rank(r)' >= Audit!Offset(p + 1)
                    /\ ~Audit!HasMore(export)' => r \in Audit!Range(export.rows)
    BY <1>3 DEF OwedIsAhead
  <2>1. Owed(r) /\ Rank(r)' = Rank(r)
    BY <1>4
  <2>2. /\ Rank(r) \in Nat /\ Rank(r) >= Audit!Offset(p) /\ Rank(r) < N /\ Audit!Offset(p + 1) \in Nat
    BY <1>1, <2>1, OwedOnPage DEF p, N
  <2>3. "rows" \notin export.queries =>
          /\ export.rows # << >>
          /\ r \in Audit!Range(export.rows) \/ Rank(r) >= Audit!Offset(p + 1)
    BY <1>1, <2>1 DEF AuditInv, OwedIsAhead, p
  <2>4. ASSUME ~Audit!HasMore(export)' PROVE N <= Audit!Offset(p + 1)
    <3>1. Audit!TotalPages(N) \in Nat
      <4>1. N + PageSize - 1 \in Nat /\ PageSize \in Nat \ {0}
        BY <1>2, ConsoleAssumption
      <4> QED BY <4>1, Division DEF Audit!TotalPages
    <3>2. ~(p < Audit!TotalPages(N))
      BY <1>3, <2>4 DEF Audit!HasMore
    <3>3. Audit!TotalPages(N) <= p
      BY <1>1, <3>1, <3>2
    <3> QED BY <1>1, <1>2, <3>3, LastPageReaches
  <2> QED BY <1>2, <2>1, <2>2, <2>3, <2>4
<1> QED BY <1>4, <1>5, <1>6 DEF AuditInv

\* The page is sent: what it did not have lies behind the next one's offset.
LEMMA SendPageKeeps == AuditInv /\ Audit!SendPage => AuditInv'
<1> SUFFICES ASSUME AuditInv, Audit!SendPage PROVE AuditInv'
  OBVIOUS
<1> DEFINE p == export.page
           m == Audit!Min({ExportMax - export.sent, Len(export.rows)})
           rows == SubSeq(export.rows, 1, m)
           sent == export.sent + Len(rows)
           Goes == Audit!HasMore(export) /\ export.rows # << >> /\ sent < ExportMax
<1>1. /\ export.pc = "loading" /\ export.queries = {} /\ export \in Exports /\ p \in Nat \ {0}
      /\ export' = IF Goes THEN Audit!Request(p + 1, sent)
                           ELSE [Audit!Request(0, sent) EXCEPT !.pc = "closed"]
      /\ unsent' = unsent \ Audit!Range(rows)
      /\ UNCHANGED <<log, clock, cutoff, work, shifted, begun>>
  BY DEF Audit!SendPage, AuditInv, AuditType, Exports
<1>2. /\ export.sent \in Nat /\ export.rows \in Seq(LogRows) /\ ExportMax \in Nat
      /\ export.sent <= ExportMax
  BY <1>1, ConsoleAssumption DEF Exports, AuditInv, AuditType
<1>3. ExportMax - export.sent \in Nat /\ Len(export.rows) \in Nat
  BY <1>2
<1>4. m = IF ExportMax - export.sent <= Len(export.rows) THEN ExportMax - export.sent ELSE Len(export.rows)
  BY <1>3, MinIs
<1> HIDE DEF m
<1>5. m \in Nat /\ m <= Len(export.rows) /\ m <= ExportMax - export.sent
  BY <1>3, <1>4
<1>6. Len(rows) = m
  BY <1>2, <1>5
<1>7. m = Len(export.rows) => rows = export.rows
  BY <1>2
<1> HIDE DEF rows
<1>8. sent \in Nat /\ sent <= ExportMax /\ (sent < ExportMax => rows = export.rows)
  BY <1>2, <1>3, <1>4, <1>5, <1>6, <1>7
<1> HIDE DEF sent
<1>9. /\ export' \in Exports /\ export'.sent = sent
      /\ Goes => export'.pc = "loading" /\ export'.page = p + 1 /\ "rows" \in export'.queries
      /\ ~Goes => export'.pc = "closed"
  <2>1. CASE Goes
    <3> HIDE DEF Goes
    <3>1. export' = Audit!Request(p + 1, sent)
      BY <1>1, <2>1
    <3>2. p + 1 \in Nat \ {0}
      BY <1>1
    <3> QED BY <1>8, <2>1, <3>1, <3>2, RequestIs
  <2>2. CASE ~Goes
    <3> HIDE DEF Goes
    <3>1. export' = [Audit!Request(0, sent) EXCEPT !.pc = "closed"]
      BY <1>1, <2>2
    <3> QED BY <1>8, <2>2, <3>1, RequestEnds
  <2> QED BY <2>1, <2>2
<1>10. export'.pc = "loading" => Goes /\ export'.page = p + 1 /\ p + 1 # 0
  BY <1>1, <1>9
<1>11. /\ AuditType' /\ OwedIsInLog'
       /\ \A r \in LogRows : Owed(r)' => Owed(r) /\ Rank(r)' = Rank(r)
  BY <1>1, <1>8, <1>9, <1>10, LogRests
<1>12. ASSUME NEW r \in LogRows, Owed(r)', sent < ExportMax
       PROVE  /\ Owed(r) /\ Rank(r)' = Rank(r) /\ Rank(r) \in Nat
              /\ export.rows # << >> /\ r \notin Audit!Range(export.rows)
              /\ Rank(r) >= Audit!Offset(p + 1)
              /\ Audit!HasMore(export) \/ shifted
  <2>1. Owed(r) /\ Rank(r)' = Rank(r)
    BY <1>11, <1>12
  <2>2. r \notin Audit!Range(export.rows)
    BY <1>1, <1>8, <1>12 DEF Owed
  <2>3. Rank(r) \in Nat
    BY <1>1, <2>1, OwedOnPage
  <2> QED BY <1>1, <2>1, <2>2, <2>3 DEF AuditInv, OwedIsAhead
<1>13. OwedIsAhead'
  <2> SUFFICES ASSUME Goes, NEW r \in LogRows, Owed(r)' PROVE Rank(r)' >= Audit!Offset(p + 1)
    BY <1>9, <1>10 DEF OwedIsAhead
  <2> QED BY <1>12
<1>14. NothingIsOwed'
  <2> SUFFICES ASSUME ~Goes, sent < ExportMax, ~shifted, NEW r \in LogRows, Owed(r)' PROVE FALSE
    BY <1>1, <1>9 DEF NothingIsOwed
  <2> QED BY <1>12
<1> QED BY <1>11, <1>13, <1>14 DEF AuditInv

LEMMA StopExportKeeps == AuditInv /\ Audit!StopExport => AuditInv'
<1> SUFFICES ASSUME AuditInv, Audit!StopExport PROVE AuditInv'
  OBVIOUS
<1>1. /\ export' = Audit!NotAsked /\ unsent' = {} /\ UNCHANGED <<log, clock, cutoff, work, begun>>
  BY DEF Audit!StopExport
<1>2. export' \in Exports /\ export'.pc = "none" /\ export'.sent = 0
  BY <1>1, RequestEnds DEF Audit!NotAsked
<1>3. AuditType'
  BY <1>1, <1>2, ConsoleAssumption DEF AuditInv, AuditType
<1> QED BY <1>1, <1>2, <1>3 DEF AuditInv, OwedIsInLog, OwedIsAhead, NothingIsOwed

LEMMA AuditKeeps == AuditInv /\ [Audit!AuditNext]_auditVars => AuditInv'
<1> SUFFICES ASSUME AuditInv, [Audit!AuditNext]_auditVars PROVE AuditInv'
  OBVIOUS
<1>1. ASSUME NEW w \in Writers,
             Audit!BeginInsert(w) \/ Audit!Commit(w) \/ Audit!InsertFails(w) \/ Audit!Retry(w)
      PROVE  AuditInv'
  BY <1>1, WriterKeeps
<1>2. ASSUME NEW t \in 1..OldRows, Audit!DropPartition(t) PROVE AuditInv'
  BY <1>2, DropKeeps
<1>3. CASE Audit!StartExport
  BY <1>3, StartExportKeeps
<1>4. CASE Audit!QueryRows
  BY <1>4, QueryRowsKeeps
<1>5. CASE Audit!QueryTotal
  BY <1>5, QueryTotalKeeps
<1>6. CASE Audit!SendPage
  BY <1>6, SendPageKeeps
<1>7. CASE Audit!StopExport
  BY <1>7, StopExportKeeps
<1>8. CASE UNCHANGED auditVars
  <2>1. UNCHANGED <<log, clock, cutoff, work, export, unsent, shifted, begun>>
    BY <1>8 DEF auditVars
  <2>2. AuditType'
    BY <2>1 DEF AuditInv, AuditType
  <2> QED BY <2>1, <2>2, LogMoves
<1> QED BY <1>1, <1>2, <1>3, <1>4, <1>5, <1>6, <1>7, <1>8 DEF Audit!AuditNext

LEMMA OnlyAuditSteps == [Next]_vars => [Audit!AuditNext]_auditVars
BY DEF Next, CacheStep, ControlsStep, TableStep, FormsStep, SetsStep, GuardStep, AuditStep, vars, auditVars

LEMMA ExportedAll == AuditInv => ExportIsComplete
<1> SUFFICES ASSUME AuditInv, export.pc = "closed" /\ export.sent < ExportMax /\ ~shifted,
                    NEW r \in unsent
             PROVE  r.at <= cutoff \/ Audit!Tied(r)
  BY DEF ExportIsComplete, Audit!ExportIsComplete
<1>1. r \in LogRows /\ r.at \in Nat /\ cutoff \in Nat
  BY DEF AuditInv, AuditType, LogRows
<1>2. ~Owed(r)
  BY <1>1 DEF AuditInv, NothingIsOwed
<1> QED BY <1>1, <1>2 DEF Owed

\* ExportIsComplete (api/audit/export, app/audit/data.ts): for any writers,
\* page size, cap and number of rows, an export that ends below its cap has
\* every row that was committed before it began, but for those named there,
\* though rows come and partitions go between its queries.
THEOREM ExportsAreComplete == Spec => []ExportIsComplete
<1>1. Init => AuditInv
  BY AuditInitially DEF Init
<1>2. AuditInv /\ [Next]_vars => AuditInv'
  BY OnlyAuditSteps, AuditKeeps
<1> QED BY <1>1, <1>2, ExportedAll, PTL DEF Spec

-----------------------------------------------------------------------------
(* Reads *)

Portal == /\ person \in People /\ holds \in [Users -> SUBSET Roles] /\ post \in Posts

\* What is true of a request over given rows: the scope it knows is one its
\* reader had while it was under way, every row it has found lies in that
\* scope, and a reader whose own row was found was alive.
Told(people, has, at, h) ==
  /\ h.pc # "idle" => h.by \in Users /\ h.scopes # {}
  /\ h.pc = "open" =>
       /\ ScopeIn(has, at, h.by) \in h.scopes
       /\ AliveIn(people, h.by) => h.lived
  /\ h.pc = "answered" => h.left = {}
  /\ h.scoped => h.scope \in h.scopes
  /\ \A row \in h.rows : h.scoped /\ row.dept \in h.scope
  /\ h.told => h.lived
  /\ h.pc # "idle" /\ "shell" \in PartsOf(h.route, h.visit) => "shell" \in h.left \/ h.lived

\* The lists kept hold rows of the scope they are kept for.
ListsInScope == \A e \in memo : \A row \in e.rows : row.dept \in e.key.scope

ReadIInv ==
  /\ ReadTypeOK
  /\ ListsInScope
  /\ \A w \in Readers : Told(person, holds, post, request[w])

LEMMA ScopeTyped ==
  ASSUME NEW has \in [Users -> SUBSET Roles], NEW at \in Posts, NEW u \in Users
  PROVE  ScopeIn(has, at, u) \in SUBSET Depts
<1>1. \A r \in has[u] : at[r].dept \in Depts
  BY DEF Posts
<1>2. \A r \in has[u] : Below[at[r].dept] \subseteq Depts
  BY <1>1, ReadsAssumption
<1>. QED
  BY <1>2 DEF ScopeIn, InForceIn

LEMMA ContextsTyped ==
  ASSUME NEW people, NEW has \in [Users -> SUBSET Roles], NEW at, NEW u \in Users
  PROVE  ContextsIn(people, has, at, u) \subseteq [roles : SUBSET Roles, must : BOOLEAN]
<1>1. InForceIn(has, at, u) \in SUBSET Roles
  BY DEF InForceIn
<1>2. ASSUME NEW c \in ContextsIn(people, has, at, u)
      PROVE  c \in [roles : SUBSET Roles, must : BOOLEAN]
  <2>. DEFINE new == people[u].condition = "NEW"
  <2>1. c = [roles |-> InForceIn(has, at, u), must |-> new]
    BY DEF ContextsIn
  <2>2. new \in BOOLEAN
    OBVIOUS
  <2>. HIDE DEF new
  <2>. QED
    BY <1>1, <2>1, <2>2
<1>. QED
  BY <1>2

\* Whatever is selected lies in the scope it is selected for.
LEMMA SelectedInScope ==
  ASSUME Portal, NEW part, NEW on, NEW scope \in SUBSET Depts
  PROVE  \A row \in Selected(part, on, scope) : row \in FoundRows /\ row.dept \in scope
<1>1. \A u \in Users : person[u].dept \in Depts \cup {None}
  BY DEF Portal, People
<1>2. \A r \in Roles : post[r].dept \in Depts \cup {None}
  BY DEF Portal, Posts
<1>3. \A to : \A row \in UserList(to, scope) : row \in FoundRows /\ row.dept \in scope
  BY <1>1 DEF UserList, Row, FoundRows, Ids
<1>4. \A row \in OneUser(on, scope) : row \in FoundRows /\ row.dept \in scope
  BY <1>1 DEF OneUser, Row, FoundRows, Ids
<1>5. \A to : \A row \in RoleList(to, scope) : row \in FoundRows /\ row.dept \in scope
  BY <1>2 DEF RoleList, Row, FoundRows, Ids
<1>6. \A row \in OneRole(on, scope) : row \in FoundRows /\ row.dept \in scope
  BY <1>2 DEF OneRole, Row, FoundRows, Ids
<1>7. \A row \in DepartmentList(scope) \cup OneDepartment(on, scope) :
        row \in FoundRows /\ row.dept \in scope
  BY DEF DepartmentList, OneDepartment, Row, FoundRows, Ids
<1>8. \A row \in Members(on, scope) : row \in FoundRows /\ row.dept \in scope
  BY DEF Members, Row, FoundRows, Ids
<1>. QED
  BY <1>3, <1>4, <1>5, <1>6, <1>7, <1>8
     DEF Selected, AssignedRoles, UserTally, RoleTally

LEMMA NoReadTold ==
  ASSUME NEW people, NEW has, NEW at
  PROVE  NoRead \in Requests /\ Told(people, has, at, NoRead)
<1>1. NoRead \in Requests
  BY DEF NoRead, Requests, Routes, Visits
<1>. QED
  BY <1>1 DEF NoRead, Told

\* A step of one request keeps everything once that request is in order.
LEMMA RequestKeeps ==
  ASSUME ReadIInv, NEW w \in Readers, NEW g \in Requests, SetRead(w, g),
         Told(person, holds, post, g), UNCHANGED <<ReadRows, had, memo, writes>>
  PROVE  ReadIInv'
<1>1. request' \in [Readers -> Requests]
  BY DEF ReadIInv, ReadTypeOK, SetRead
<1>2. ReadTypeOK'
  BY <1>1 DEF ReadIInv, ReadTypeOK, ReadRows
<1>3. ListsInScope'
  BY DEF ReadIInv, ListsInScope
<1>4. ASSUME NEW v \in Readers PROVE Told(person, holds, post, request[v])'
  <2>1. request'[v] = IF v = w THEN g ELSE request[v]
    BY DEF ReadIInv, ReadTypeOK, SetRead
  <2>2. Told(person, holds, post, request'[v])
    BY <2>1 DEF ReadIInv
  <2>. QED
    BY <2>2 DEF ReadRows
<1>. QED
  BY <1>2, <1>3, <1>4 DEF ReadIInv

\* An answer that stays in the scope of the request keeps it in order.
LEMMA AnswerTold ==
  ASSUME NEW h \in Requests, Told(person, holds, post, h), h.pc = "open",
         NEW part, NEW found \in SUBSET FoundRows,
         \A row \in found : h.scoped /\ row.dept \in h.scope,
         part = "shell" => h.lived
  PROVE  /\ Answer(h, part, found) \in Requests
         /\ Told(person, holds, post, Answer(h, part, found))
<1>. DEFINE g == Answer(h, part, found)
<1>1. /\ g \in Requests
      /\ g.pc = "open" /\ g.by = h.by /\ g.route = h.route /\ g.visit = h.visit
      /\ g.scoped = h.scoped /\ g.scope = h.scope /\ g.scopes = h.scopes /\ g.lived = h.lived /\ g.told = h.told
      /\ g.left = h.left \ {part} /\ g.rows = h.rows \cup found
  BY DEF Answer, Requests
<1>. HIDE DEF g
<1>2. Told(person, holds, post, g)
  BY <1>1 DEF Told
<1>. QED
  BY <1>1, <1>2 DEF g

LEMMA ReadInitInv == ReadInit => ReadIInv
<1>. SUFFICES ASSUME ReadInit PROVE ReadIInv
  OBVIOUS
<1>1. Portal
  BY PortalsAssumption DEF ReadInit, Portal
<1>2. had \in [Users -> SUBSET [roles : SUBSET Roles, must : BOOLEAN]]
  BY <1>1, ContextsTyped DEF ReadInit, Portal
<1>3. /\ request \in [Readers -> Requests]
      /\ \A w \in Readers : Told(person, holds, post, request[w])
  BY NoReadTold DEF ReadInit
<1>4. memo = {} /\ writes \in 0..MaxWrites
  BY ReadsAssumption DEF ReadInit
<1>. QED
  BY <1>1, <1>2, <1>3, <1>4 DEF ReadIInv, ReadTypeOK, ListsInScope, Portal

\* Who is asked for is a user there is.
LEMMA CallersAre == ASSUME NEW route PROVE Callers(route) \subseteq Users
BY DEF Callers, Identified, Identify

LEMMA ArrivalKeeps ==
  ASSUME ReadIInv, NEW w \in Readers, ArriveToRead(w)
  PROVE  ReadIInv'
<1>1. PICK route \in Routes : \E who \in Users, on \in Named(route), visit \in VisitsOf(route) :
        /\ SetRead(w, [NoRead EXCEPT !.pc = "open", !.by = who, !.route = route, !.visit = visit,
                         !.on = on, !.gates = GatesOf(route, visit),
                         !.left = PartsOf(route, visit), !.scopes = {Scope(who)},
                         !.lived = Alive(who)])
        /\ UNCHANGED <<ReadRows, had, memo, writes>>
  BY CallersAre DEF ArriveToRead
<1>2. PICK who \in Users, on \in Named(route), visit \in VisitsOf(route) :
        /\ SetRead(w, [NoRead EXCEPT !.pc = "open", !.by = who, !.route = route, !.visit = visit,
                         !.on = on, !.gates = GatesOf(route, visit),
                         !.left = PartsOf(route, visit), !.scopes = {Scope(who)},
                         !.lived = Alive(who)])
        /\ UNCHANGED <<ReadRows, had, memo, writes>>
  BY <1>1
<1>. DEFINE g == [NoRead EXCEPT !.pc = "open", !.by = who, !.route = route, !.visit = visit,
                    !.on = on, !.gates = GatesOf(route, visit), !.left = PartsOf(route, visit),
                    !.scopes = {Scope(who)}, !.lived = Alive(who)]
<1>3. /\ g.pc = "open" /\ g.by = who /\ g.route = route /\ g.visit = visit
      /\ g.left = PartsOf(route, visit)
      /\ ~g.scoped /\ g.rows = {} /\ g.scopes = {Scope(who)} /\ g.lived = Alive(who)
      /\ ~g.told
  BY DEF NoRead
<1>4. g \in Requests
  <2>1. Scope(who) \in SUBSET Depts
    BY ScopeTyped DEF ReadIInv, ReadTypeOK, Scope
  <2>2. on \in Ids \cup {None} /\ visit \in Visits
    BY DEF Named, Ids, VisitsOf, Visits
  <2>3. /\ GatesOf(route, visit) \in SUBSET Gates
        /\ PartsOf(route, visit) \in SUBSET Parts
    <3>1. /\ route.gates \subseteq Gates /\ route.layout \subseteq Gates
          /\ route.reads \subseteq Parts /\ "shell" \in Parts
      <4>1. route.layout \cup route.gates \in {r.layout \cup r.gates : r \in Routes}
        BY <1>1
      <4>2. route.reads \in {r.reads : r \in Routes}
        BY <1>1
      <4>. QED
        BY <4>1, <4>2 DEF Gates, Parts
    <3>2. GatesOf(route, visit) \subseteq route.gates \cup route.layout
      BY DEF GatesOf
    <3>3. PartsOf(route, visit) \subseteq route.reads \cup {"shell"}
      BY DEF PartsOf
    <3>. QED
      BY <3>1, <3>2, <3>3
  <2>4. Alive(who) \in BOOLEAN
    BY DEF Alive, AliveIn
  <2>5. NoRead \in Requests
    BY NoReadTold
  <2>. QED
    BY <2>1, <2>2, <2>3, <2>4, <2>5 DEF Requests
<1>. HIDE DEF g
<1>5. Told(person, holds, post, g)
  BY <1>3 DEF Told, Scope, Alive
<1>6. SetRead(w, g)
  BY <1>2 DEF g
<1>. QED
  BY <1>2, <1>4, <1>5, <1>6, RequestKeeps

LEMMA GateKeeps ==
  ASSUME ReadIInv, NEW w \in Readers, PassGate(w)
  PROVE  ReadIInv'
<1>. DEFINE h == request[w]
<1>1. h \in Requests /\ Told(person, holds, post, h) /\ h.pc = "open"
  BY DEF ReadIInv, ReadTypeOK, PassGate, Open
<1>2. PICK gate \in h.gates : SetRead(w, [h EXCEPT !.gates = @ \ {gate}]) \/ SetRead(w, NoRead)
  BY DEF PassGate
<1>. DEFINE g == [h EXCEPT !.gates = @ \ {gate}]
<1>. HIDE DEF h
<1>3. /\ g \in Requests
      /\ g.pc = h.pc /\ g.by = h.by /\ g.route = h.route /\ g.visit = h.visit
      /\ g.scoped = h.scoped /\ g.scope = h.scope /\ g.scopes = h.scopes /\ g.lived = h.lived /\ g.told = h.told
      /\ g.left = h.left /\ g.rows = h.rows
  BY <1>1 DEF Requests
<1>4. SetRead(w, g) \/ SetRead(w, NoRead)
  BY <1>2
<1>. HIDE DEF g
<1>5. Told(person, holds, post, g)
  BY <1>1, <1>3 DEF Told
<1>6. UNCHANGED <<ReadRows, had, memo, writes>>
  BY DEF PassGate
<1>. QED
  BY <1>3, <1>4, <1>5, <1>6, NoReadTold, RequestKeeps

LEMMA ScopingKeeps ==
  ASSUME ReadIInv, NEW w \in Readers, ResolveScope(w)
  PROVE  ReadIInv'
<1>. DEFINE h == request[w]
            g == [h EXCEPT !.scoped = TRUE, !.scope = Scope(h.by)]
<1>1. h \in Requests /\ Told(person, holds, post, h) /\ h.pc = "open" /\ ~h.scoped
  BY DEF ReadIInv, ReadTypeOK, ResolveScope, Open
<1>2. SetRead(w, g) /\ UNCHANGED <<ReadRows, had, memo, writes>>
  BY DEF ResolveScope
<1>3. Portal
  BY DEF ReadIInv, ReadTypeOK, Portal
<1>. HIDE DEF h
<1>4. h.by \in Users /\ Scope(h.by) \in h.scopes /\ h.rows = {}
  BY <1>1 DEF Told, Scope
<1>5. Scope(h.by) \in SUBSET Depts
  BY <1>3, <1>4, ScopeTyped DEF Portal, Scope
<1>6. /\ g \in Requests
      /\ g.pc = h.pc /\ g.by = h.by /\ g.route = h.route /\ g.visit = h.visit /\ g.scoped
      /\ g.scope = Scope(h.by) /\ g.scopes = h.scopes /\ g.lived = h.lived /\ g.told = h.told
      /\ g.left = h.left /\ g.rows = h.rows
  BY <1>1, <1>5 DEF Requests
<1>. HIDE DEF g
<1>7. Told(person, holds, post, g)
  BY <1>1, <1>4, <1>6 DEF Told
<1>. QED
  BY <1>2, <1>6, <1>7, RequestKeeps

LEMMA CachedKeeps ==
  ASSUME ReadIInv, NEW w \in Readers, ReadCached(w)
  PROVE  ReadIInv'
<1>. DEFINE h == request[w]
<1>1. PICK part \in Cached \cap h.left, e \in memo :
        /\ IsDue(w, part) /\ e.key = Entry(part, h) /\ SetRead(w, Answer(h, part, e.rows))
        /\ UNCHANGED <<ReadRows, had, memo, writes>>
  BY DEF ReadCached
<1>2. h \in Requests /\ Told(person, holds, post, h) /\ h.pc = "open"
  BY <1>1 DEF ReadIInv, ReadTypeOK, IsDue, Open
<1>3. part # "shell" /\ h.scoped
  BY <1>1 DEF IsDue, IsScoped, Cached, Own, Global
<1>4. e.rows \in SUBSET FoundRows
  BY DEF ReadIInv, ReadTypeOK
<1>5. \A row \in e.rows : row.dept \in h.scope
  BY <1>1 DEF ReadIInv, ListsInScope, Entry
<1>. HIDE DEF h
<1>6. /\ Answer(h, part, e.rows) \in Requests
      /\ Told(person, holds, post, Answer(h, part, e.rows))
  BY <1>2, <1>3, <1>4, <1>5, AnswerTold
<1>. QED
  BY <1>1, <1>6, RequestKeeps

LEMMA ListReadKeeps ==
  ASSUME ReadIInv, NEW w \in Readers, ReadList(w)
  PROVE  ReadIInv'
<1>. DEFINE h == request[w]
<1>1. PICK part \in Cached \cap h.left, rest \in SUBSET memo :
        /\ IsDue(w, part)
        /\ memo' = rest \cup {[key |-> Entry(part, h), rows |-> Selected(part, h.on, h.scope)]}
        /\ SetRead(w, Answer(h, part, Selected(part, h.on, h.scope)))
        /\ UNCHANGED <<ReadRows, had, writes>>
  BY DEF ReadList
<1>. DEFINE found == Selected(part, h.on, h.scope)
            fresh == [key |-> Entry(part, h), rows |-> found]
<1>2. h \in Requests /\ Told(person, holds, post, h) /\ h.pc = "open" /\ part \in h.left
  BY <1>1 DEF ReadIInv, ReadTypeOK, IsDue, Open
<1>3. part # "shell" /\ h.scoped
  BY <1>1 DEF IsDue, IsScoped, Cached, Own, Global
<1>4. Portal /\ h.scope \in SUBSET Depts
  BY <1>2 DEF ReadIInv, ReadTypeOK, Portal, Requests
<1>5. \A row \in found : row \in FoundRows /\ row.dept \in h.scope
  BY <1>4, SelectedInScope
<1>. HIDE DEF h, found
<1>6. fresh \in [key : Keys, rows : SUBSET FoundRows]
  <2>1. part \in Parts
    BY <1>2 DEF Requests
  <2>2. Entry(part, h) \in Keys
    BY <1>2, <2>1 DEF Entry, Keys, Requests
  <2>. QED
    BY <1>5, <2>2
<1>7. memo' = rest \cup {fresh}
  BY <1>1 DEF found
<1>8. memo' \subseteq [key : Keys, rows : SUBSET FoundRows]
  BY <1>6, <1>7 DEF ReadIInv, ReadTypeOK
<1>9. ListsInScope'
  <2>1. \A row \in fresh.rows : row.dept \in fresh.key.scope
    BY <1>5 DEF Entry
  <2>. HIDE DEF fresh
  <2>. QED
    BY <1>7, <2>1 DEF ReadIInv, ListsInScope
<1>10. /\ Answer(h, part, found) \in Requests
       /\ Told(person, holds, post, Answer(h, part, found))
  BY <1>2, <1>3, <1>5, AnswerTold
<1>11. PICK g \in Requests : Told(person, holds, post, g) /\ request' = [request EXCEPT ![w] = g]
  BY <1>1, <1>10 DEF SetRead, found
<1>12. request' \in [Readers -> Requests]
  BY <1>11 DEF ReadIInv, ReadTypeOK
<1>13. ReadTypeOK'
  BY <1>1, <1>8, <1>12 DEF ReadIInv, ReadTypeOK, ReadRows
<1>14. ASSUME NEW v \in Readers PROVE Told(person, holds, post, request[v])'
  <2>1. request'[v] = IF v = w THEN g ELSE request[v]
    BY <1>11 DEF ReadIInv, ReadTypeOK
  <2>2. Told(person, holds, post, request'[v])
    BY <1>11, <2>1 DEF ReadIInv
  <2>. QED
    BY <1>1, <2>2 DEF ReadRows
<1>. QED
  BY <1>9, <1>13, <1>14 DEF ReadIInv

LEMMA DetailKeeps ==
  ASSUME ReadIInv, NEW w \in Readers, ReadDetail(w)
  PROVE  ReadIInv'
<1>. DEFINE h == request[w]
<1>1. PICK part \in h.left \ (Cached \cup Own \cup Global) :
        LET found == Selected(part, h.on, h.scope) IN
        /\ IsDue(w, part)
        /\ SetRead(w, NoRead) \/ SetRead(w, Answer(h, part, found))
        /\ UNCHANGED <<ReadRows, had, memo, writes>>
  BY DEF ReadDetail
<1>. DEFINE found == Selected(part, h.on, h.scope)
<1>2. h \in Requests /\ Told(person, holds, post, h) /\ h.pc = "open"
  BY <1>1 DEF ReadIInv, ReadTypeOK, IsDue, Open
<1>3. part # "shell" /\ h.scoped
  BY <1>1 DEF IsDue, IsScoped, Own
<1>4. Portal /\ h.scope \in SUBSET Depts
  BY <1>2 DEF ReadIInv, ReadTypeOK, Portal, Requests
<1>5. \A row \in found : row \in FoundRows /\ row.dept \in h.scope
  BY <1>4, SelectedInScope
<1>6. SetRead(w, NoRead) \/ SetRead(w, Answer(h, part, found))
  BY <1>1
<1>. HIDE DEF h, found
<1>7. /\ Answer(h, part, found) \in Requests
      /\ Told(person, holds, post, Answer(h, part, found))
  BY <1>1, <1>2, <1>3, <1>5, AnswerTold
<1>. QED
  BY <1>1, <1>6, <1>7, NoReadTold, RequestKeeps

LEMMA GlobalKeeps ==
  ASSUME ReadIInv, NEW w \in Readers, ReadGlobal(w)
  PROVE  ReadIInv'
<1>. DEFINE h == request[w]
<1>1. PICK part \in Global \cap h.left :
        /\ IsDue(w, part)
        /\ SetRead(w, NoRead) \/ SetRead(w, Answer(h, part, {}))
        /\ UNCHANGED <<ReadRows, had, memo, writes>>
  BY DEF ReadGlobal
<1>2. h \in Requests /\ Told(person, holds, post, h) /\ h.pc = "open"
  BY <1>1 DEF ReadIInv, ReadTypeOK, IsDue, Open
<1>3. part # "shell"
  BY DEF Global
<1>. HIDE DEF h
<1>4. Answer(h, part, {}) \in Requests /\ Told(person, holds, post, Answer(h, part, {}))
  BY <1>2, <1>3, AnswerTold
<1>. QED
  BY <1>1, <1>4, NoReadTold, RequestKeeps

LEMMA OwnKeeps ==
  ASSUME ReadIInv, NEW w \in Readers, ReadOwn(w)
  PROVE  ReadIInv'
<1>. DEFINE h == request[w]
<1>1. PICK part \in Own \cap h.left :
        \E found \in BOOLEAN :
          /\ found => OwnRow(h.by)
          /\ \/ SetRead(w, NoRead)
             \/ /\ found \/ part = "own"
                /\ SetRead(w, [Answer(h, part, {}) EXCEPT !.told = @ \/ found])
  BY DEF ReadOwn, IsProfile
<1>2. PICK found \in BOOLEAN :
        /\ found => OwnRow(h.by)
        /\ \/ SetRead(w, NoRead)
           \/ /\ found \/ part = "own"
              /\ SetRead(w, [Answer(h, part, {}) EXCEPT !.told = @ \/ found])
  BY <1>1
<1>3. h \in Requests /\ Told(person, holds, post, h) /\ h.pc = "open"
  BY DEF ReadIInv, ReadTypeOK, ReadOwn, Open
<1>4. UNCHANGED <<ReadRows, had, memo, writes>>
  BY DEF ReadOwn
<1>. DEFINE a == Answer(h, part, {})
            g == [a EXCEPT !.told = @ \/ found]
<1>5. SetRead(w, NoRead) \/ ((found \/ part = "own") /\ SetRead(w, g))
  BY <1>2
<1>. HIDE DEF h
<1>6. OwnRow(h.by) => h.lived
  BY <1>3 DEF OwnRow, Alive, Told
<1>7. ASSUME found \/ part = "own"
      PROVE  g \in Requests /\ Told(person, holds, post, g)
  <2>1. a \in Requests /\ Told(person, holds, post, a)
    BY <1>2, <1>3, <1>6, <1>7, AnswerTold
  <2>2. a.lived = h.lived /\ (found => h.lived)
    BY <1>2, <1>3, <1>6 DEF Answer, Requests
  <2>. HIDE DEF a
  <2>3. (a.told \/ found) \in BOOLEAN
    OBVIOUS
  <2>4. /\ g \in Requests
        /\ g.pc = a.pc /\ g.by = a.by /\ g.route = a.route /\ g.visit = a.visit
        /\ g.scoped = a.scoped /\ g.scope = a.scope /\ g.scopes = a.scopes
        /\ g.left = a.left /\ g.rows = a.rows /\ g.lived = a.lived
        /\ g.told = (a.told \/ found)
    BY <2>1, <2>3 DEF Requests
  <2>. HIDE DEF g
  <2>. QED
    BY <2>1, <2>2, <2>4 DEF Told
<1>. HIDE DEF g
<1>. QED
  BY <1>4, <1>5, <1>7, NoReadTold, RequestKeeps

LEMMA LogKeeps ==
  ASSUME ReadIInv, NEW w \in Readers, LogRead(w)
  PROVE  ReadIInv'
<1>. DEFINE h == request[w]
            g == [h EXCEPT !.logged = TRUE]
<1>1. h \in Requests /\ Told(person, holds, post, h)
  BY DEF ReadIInv, ReadTypeOK
<1>2. SetRead(w, g) /\ UNCHANGED <<ReadRows, had, memo, writes>>
  BY DEF LogRead
<1>. HIDE DEF h
<1>3. /\ g \in Requests
      /\ g.pc = h.pc /\ g.by = h.by /\ g.route = h.route /\ g.visit = h.visit
      /\ g.scoped = h.scoped /\ g.scope = h.scope /\ g.scopes = h.scopes /\ g.lived = h.lived /\ g.told = h.told
      /\ g.left = h.left /\ g.rows = h.rows
  BY <1>1 DEF Requests
<1>. HIDE DEF g
<1>4. Told(person, holds, post, g)
  BY <1>1, <1>3 DEF Told
<1>. QED
  BY <1>2, <1>3, <1>4, RequestKeeps

LEMMA AnsweringKeeps ==
  ASSUME ReadIInv, NEW w \in Readers, AnswerRead(w)
  PROVE  ReadIInv'
<1>. DEFINE h == request[w]
            g == [h EXCEPT !.pc = "answered"]
<1>1. h \in Requests /\ Told(person, holds, post, h) /\ h.pc = "open" /\ h.left = {}
  BY DEF ReadIInv, ReadTypeOK, AnswerRead, Open, Finished
<1>2. SetRead(w, g) /\ UNCHANGED <<ReadRows, had, memo, writes>>
  BY DEF AnswerRead
<1>. HIDE DEF h
<1>3. /\ g \in Requests
      /\ g.pc = "answered" /\ g.by = h.by /\ g.route = h.route /\ g.visit = h.visit
      /\ g.scoped = h.scoped /\ g.scope = h.scope /\ g.scopes = h.scopes /\ g.lived = h.lived /\ g.told = h.told
      /\ g.left = h.left /\ g.rows = h.rows
  BY <1>1 DEF Requests
<1>. HIDE DEF g
<1>4. Told(person, holds, post, g)
  BY <1>1, <1>3 DEF Told
<1>. QED
  BY <1>2, <1>3, <1>4, RequestKeeps

\* A write by others: every request under way has now lived through one scope
\* more.
LEMMA WriteKeeps ==
  ASSUME ReadIInv, WriteRow, Portal'
  PROVE  ReadIInv'
<1>1. PICK p \in People, hs \in [Users -> SUBSET Roles], at \in Posts :
        p = person' /\ hs = holds' /\ at = post'
  BY DEF Portal
<1>. DEFINE g(v) == [request[v] EXCEPT !.scopes = @ \cup {ScopeIn(hs, at, request[v].by)},
                       !.lived = @ \/ AliveIn(p, request[v].by)]
<1>2. request' = [v \in Readers |-> IF request[v].pc # "open" THEN request[v] ELSE g(v)]
  BY <1>1 DEF WriteRow
<1>3. ASSUME NEW v \in Readers
      PROVE  request'[v] \in Requests /\ Told(p, hs, at, request'[v])
  <2>. DEFINE h == request[v]
  <2>1. h \in Requests /\ Told(person, holds, post, h)
    BY DEF ReadIInv, ReadTypeOK
  <2>2. CASE h.pc # "open"
    BY <1>2, <2>1, <2>2 DEF Told
  <2>3. CASE h.pc = "open"
    <3>1. request'[v] = [h EXCEPT !.scopes = @ \cup {ScopeIn(hs, at, h.by)},
                           !.lived = @ \/ AliveIn(p, h.by)]
      BY <1>2, <2>3
    <3>. DEFINE k == [h EXCEPT !.scopes = @ \cup {ScopeIn(hs, at, h.by)},
                        !.lived = @ \/ AliveIn(p, h.by)]
    <3>. HIDE DEF h
    <3>2. h.by \in Users
      BY <2>1, <2>3 DEF Told
    <3>3. ScopeIn(hs, at, h.by) \in SUBSET Depts
      BY <3>2, ScopeTyped
    <3>4. AliveIn(p, h.by) \in BOOLEAN
      BY DEF AliveIn
    <3>5. /\ k \in Requests
          /\ k.pc = h.pc /\ k.by = h.by /\ k.route = h.route /\ k.visit = h.visit /\ k.scoped = h.scoped
          /\ k.scope = h.scope /\ k.left = h.left /\ k.rows = h.rows
          /\ k.scopes = h.scopes \cup {ScopeIn(hs, at, h.by)}
          /\ k.told = h.told /\ k.lived = (h.lived \/ AliveIn(p, h.by))
      BY <2>1, <3>3, <3>4 DEF Requests
    <3>. HIDE DEF k
    <3>6. Told(p, hs, at, k)
      BY <2>1, <2>3, <3>5 DEF Told
    <3>. QED
      BY <3>1, <3>5, <3>6 DEF k
  <2>. QED
    BY <2>2, <2>3
<1>4. request' \in [Readers -> Requests]
  <2>. HIDE DEF g
  <2>. QED
    BY <1>2, <1>3
<1>5. had' \in [Users -> SUBSET [roles : SUBSET Roles, must : BOOLEAN]]
  <2>1. had' = [u \in Users |-> had[u] \cup ContextsIn(p, hs, at, u)]
    BY <1>1 DEF WriteRow
  <2>2. \A u \in Users :
          ContextsIn(p, hs, at, u) \subseteq [roles : SUBSET Roles, must : BOOLEAN]
    BY ContextsTyped
  <2>. QED
    BY <2>1, <2>2 DEF ReadIInv, ReadTypeOK
<1>6. writes' \in 0..MaxWrites
  <2>1. writes < MaxWrites /\ writes' = writes + 1
    BY DEF WriteRow
  <2>2. writes \in 0..MaxWrites
    BY DEF ReadIInv, ReadTypeOK
  <2>. QED
    BY <2>1, <2>2, ReadsAssumption
<1>7. ReadTypeOK' /\ ListsInScope'
  BY <1>4, <1>5, <1>6 DEF ReadIInv, ReadTypeOK, ListsInScope, WriteRow, Portal
<1>8. \A v \in Readers : Told(person, holds, post, request[v])'
  BY <1>1, <1>3
<1>. QED
  BY <1>7, <1>8 DEF ReadIInv

LEMMA ReadNextInv == ReadIInv /\ [ReadNext]_readVars => ReadIInv'
<1>. SUFFICES ASSUME ReadIInv, [ReadNext]_readVars PROVE ReadIInv'
  OBVIOUS
<1>1. Portal
  BY DEF ReadIInv, ReadTypeOK, Portal
<1>2. ASSUME NEW w \in Readers, ServeRead(w) PROVE ReadIInv'
  <2>1. CASE LeaveRead(w)
    BY <2>1, NoReadTold, RequestKeeps DEF LeaveRead
  <2>. QED
    BY <1>2, <2>1, ArrivalKeeps, GateKeeps, ScopingKeeps, CachedKeeps, ListReadKeeps, DetailKeeps,
       GlobalKeeps, OwnKeeps, LogKeeps, AnsweringKeeps DEF ServeRead, Fetch
<1>3. CASE WritePerson
  <2>1. Portal'
    BY <1>1, <1>3 DEF WritePerson, Portal, People
  <2>. QED
    BY <1>3, <2>1, WriteKeeps DEF WritePerson
<1>4. CASE WriteHolds
  <2>1. Portal'
    BY <1>1, <1>4 DEF WriteHolds, Portal
  <2>. QED
    BY <1>4, <2>1, WriteKeeps DEF WriteHolds
<1>5. CASE WritePost
  <2>1. Portal'
    BY <1>1, <1>5 DEF WritePost, Portal, Posts
  <2>. QED
    BY <1>5, <2>1, WriteKeeps DEF WritePost
<1>6. CASE Forget \/ UNCHANGED readVars
  <2>1. memo' \subseteq memo /\ UNCHANGED <<ReadRows, had, request, writes>>
    BY <1>6 DEF Forget, readVars, ReadRows
  <2>2. ReadTypeOK' /\ ListsInScope'
    BY <2>1 DEF ReadIInv, ReadTypeOK, ListsInScope, ReadRows
  <2>3. \A v \in Readers : Told(person, holds, post, request[v])'
    BY <2>1 DEF ReadIInv, ReadRows
  <2>. QED
    BY <2>2, <2>3 DEF ReadIInv
<1>. QED
  BY <1>2, <1>3, <1>4, <1>5, <1>6 DEF ReadNext

\* Every variable of the reads holds what it is meant to, whatever ids requests
\* name (getDepartmentById and its like answer with rows there are).
THEOREM ReadsAreTyped == ReadSpec => []ReadTypeOK
<1>1. ReadIInv => ReadTypeOK
  BY DEF ReadIInv
<1>. QED
  BY <1>1, ReadInitInv, ReadNextInv, PTL DEF ReadSpec

\* Every row a route or page answers with lies in a scope its reader had while the
\* request was under way: resolveScope is asked once, its scope bounds every
\* query, and the lists cached are kept by scope (users/data.ts, roles/data.ts,
\* departments/data.ts).
THEOREM AnswersStayInReach == ReadSpec => []ShownWithinReach
<1>1. ReadIInv => ShownWithinReach
  BY DEF ReadIInv, Told, ShownWithinReach
<1>. QED
  BY <1>1, ReadInitInv, ReadNextInv, PTL DEF ReadSpec

\* Nobody is told their own row, and no page is loaded as a whole, with the
\* reader disabled or deleted through the whole request, whatever context is
\* cached and token accepted (getOwnUser, layout.tsx).
THEOREM NoOwnRowForTheDead == ReadSpec => []OwnRowNeedsALiveReader
<1>1. ReadIInv => OwnRowNeedsALiveReader
  BY DEF ReadIInv, Told, OwnRowNeedsALiveReader
<1>. QED
  BY <1>1, ReadInitInv, ReadNextInv, PTL DEF ReadSpec
=============================================================================

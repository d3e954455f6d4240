---------------------------- MODULE ListControls ----------------------------
(***************************************************************************)
(* The search box, the filters and the page size of the console's list     *)
(* pages (users, permissions, roles, clients, audit logs), between what    *)
(* the administrator typed and chose and the URL the list is loaded from.  *)
(*                                                                         *)
(* A search waits for its timer (300 or 400 ms), whose callback is a       *)
(* closure over the render it was set in; a navigation takes time, and the *)
(* next one replaces it.  Each page is keyed by its parameters: when they  *)
(* change it is mounted anew, which sets the box to the URL's keyword and  *)
(* clears the timer.  A page that was left may be hidden rather than gone  *)
(* (cacheComponents): its state is kept, its effects are not.              *)
(*                                                                         *)
(* Turning pages does to the URL what a page size does and is left out.    *)
(***************************************************************************)
EXTENDS Naturals

CONSTANTS
  Words,        \* search texts, trimmed
  NoWord,       \* the empty one
  Filters,      \* values of the filter
  NoFilter,     \* ALL
  MaxInputs     \* bound: what the administrator does

Lists == {"users", "permissions", "roles", "clients", "audit"}
Sizes == {20, 50}

VARIABLES
  list,      \* the page
  url,       \* the parameters of the list shown
  typed,     \* the text in the box
  timer,     \* the search about to start, and the parameters it closed over
  pushed,    \* the navigation under way
  parked,    \* history: the page was left with a search that nothing starts again
  inputs     \* bound

listVars == <<list, url, typed, timer, pushed, parked, inputs>>

-----------------------------------------------------------------------------
Url(kw, f, n) == [kw |-> kw, filter |-> f, size |-> n]
Home == Url(NoWord, NoFilter, 20)
None == [at |-> FALSE, to |-> Home, own |-> FALSE]
Some(u) == [at |-> TRUE, to |-> u, own |-> TRUE]   \* by the controls themselves
Link(u) == [Some(u) EXCEPT !.own = FALSE]

\* What a control pushes.  applyFilter, applyStatus and the filters of the
\* audit page keep the keyword of the URL; buildHref and the roles' filters
\* take the one in the box; RolesTable leaves the page size out.
UsersChoose(f) == Url(url.kw, f, url.size)

ClientsChoose(f) == Url(url.kw, f, url.size)
AuditChoose(f) == Url(url.kw, f, url.size)
RolesChoose(f) == Url(typed, f, 20)
PermissionsChoose(f) == Url(typed, f, url.size)
Chosen(f) ==
  CASE list = "users" -> UsersChoose(f) [] list = "clients" -> ClientsChoose(f)
    [] list = "audit" -> AuditChoose(f) [] list = "roles" -> RolesChoose(f)
    [] OTHER -> PermissionsChoose(f)

\* A search starts from the parameters of the render that set its timer.
\* Users and permissions set none for the keyword the list already has; the
\* audit page sets one that then does nothing.
UsersSearch(w) == IF w = url.kw THEN None ELSE Some([url EXCEPT !.kw = w])
PermissionsSearch(w) == IF w = url.kw THEN None ELSE Some([url EXCEPT !.kw = w])
AuditSearch(w) == Some([url EXCEPT !.kw = w])
RolesSearch(w) == Some(Url(w, url.filter, 20))
ClientsSearch(w) == Some([url EXCEPT !.kw = w])
Search(w) ==
  CASE list = "users" -> UsersSearch(w) [] list = "permissions" -> PermissionsSearch(w)
    [] list = "audit" -> AuditSearch(w) [] list = "roles" -> RolesSearch(w)
    [] OTHER -> ClientsSearch(w)

\* The links of the page sizes; that of the permissions takes the box's text.
Resized(n) == IF list = "permissions" THEN Url(typed, url.filter, n)
                                      ELSE [url EXCEPT !.size = n]

-----------------------------------------------------------------------------
ListInit ==
  /\ list \in Lists
  /\ url = Home /\ typed = NoWord /\ timer = None /\ pushed = None
  /\ parked = FALSE /\ inputs = 0

Input == inputs < MaxInputs /\ inputs' = inputs + 1

\* Typing during a navigation is undone when the page is mounted anew.
Type(w) ==
  /\ Input /\ w # typed
  /\ typed' = w /\ timer' = Search(w) /\ parked' = FALSE
  /\ UNCHANGED <<list, url, pushed>>

\* A filter is not offered while a navigation of the controls' own transition
\* is under way (isPending); one of a link is none.
Choose(f) ==
  /\ Input /\ ~pushed.own /\ f # url.filter
  /\ pushed' = Some(Chosen(f))
  /\ UNCHANGED <<list, url, typed, timer, parked>>

\* A page size is a link, offered always: it replaces the navigation under
\* way by one from the list still shown.
Resize(n) ==
  /\ Input /\ n # url.size
  /\ pushed' = Link(Resized(n))
  /\ UNCHANGED <<list, url, typed, timer, parked>>

TimerFires ==
  /\ timer.at /\ timer' = None
  /\ pushed' = IF list = "audit" /\ timer.to.kw = url.kw THEN pushed ELSE timer
  /\ UNCHANGED <<list, url, typed, parked, inputs>>

\* The search is an effect of the text, which runs again with the effects of
\* a page shown again; the roles and the clients set their timer in the
\* handler of the key.
IsEffect == list \notin {"roles", "clients"}

\* To another page and back, which drops the navigation under way and clears
\* the timer; the page is mounted anew, or was hidden and has kept its text.
Leave(kept) ==
  /\ Input
  /\ typed' = IF kept THEN typed ELSE url.kw
  /\ timer' = IF kept /\ IsEffect THEN Search(typed) ELSE None
  /\ pushed' = None
  /\ parked' = (kept /\ ~IsEffect /\ typed # url.kw)
  /\ UNCHANGED <<list, url>>

\* Mutant: the page keeps its state when its parameters change.
KeyNever(u) == FALSE

\* The key of the page.  The box of the users has a key of its own without
\* the page size, but stands in the table, whose key has it.
KeyChanges(u) == u # url

Arrive ==
  /\ pushed.at /\ pushed' = None /\ url' = pushed.to
  /\ IF KeyChanges(pushed.to) THEN typed' = pushed.to.kw /\ timer' = None /\ parked' = FALSE
                              ELSE UNCHANGED <<typed, timer, parked>>
  /\ UNCHANGED <<list, inputs>>

ListNext ==
  \/ \E w \in Words : Type(w)
  \/ \E f \in Filters : Choose(f)
  \/ \E n \in Sizes : Resize(n)
  \/ \E kept \in BOOLEAN : Leave(kept)
  \/ TimerFires \/ Arrive

-----------------------------------------------------------------------------
Settled == ~timer.at /\ ~pushed.at

\* Whatever the order of keys, timers and navigations, the box and the list
\* end up with the same keyword: the text above a list is the one it was
\* searched with.  Only a page of roles or clients that was left before its
\* search and comes back from hiding may show a text nobody searches for.
BoxMatchesList == Settled => typed = url.kw \/ parked
=============================================================================

------------------------------ MODULE AuditLog ------------------------------
(***************************************************************************)
(* The logs (lib/audit.ts), written while one of them is exported          *)
(* (api/audit/export) page by page (app/audit/data.ts).                    *)
(*                                                                         *)
(* A row is created at the start of the transaction that writes it and     *)
(* seen once that is committed.  A page is two queries at once, each with  *)
(* its own snapshot: the rows, newest first, and the total.  One log is    *)
(* watched, and of it the rows that match the export's filter.             *)
(***************************************************************************)
EXTENDS Naturals, FiniteSets, SequencesExt

CONSTANTS
  Writers,       \* requests that write to the log
  PageSize,      \* MAX_PAGE_SIZE
  ExportMax,     \* EXPORT_MAX_ROWS
  MaxRetries,    \* of the background writer
  OldRows,       \* bound: rows in the log at first
  NewRows        \* bound: rows whose insert is begun later

VARIABLES
  table,     \* the log watched
  log,       \* its committed rows: a number and created_at
  clock,     \* the time now
  cutoff,    \* rows created until then are in partitions that have expired
  work,      \* a writer: where it is, its row, its tries
  export,    \* an export: where it is, what it has read of its page, what it has sent
  unsent,    \* history: rows committed before the export began and not sent yet
  shifted,   \* history: rows came between the total of the last page and its rows
  begun      \* rows begun, which number them; bound

auditVars == <<table, log, clock, cutoff, work, export, unsent, shifted, begun>>

-----------------------------------------------------------------------------
Row(n, t) == [id |-> n, at |-> t]
Resting == [pc |-> "idle", row |-> Row(0, 0), tries |-> 0]

\* The request for a page: both queries are out.
Request(page, sent) ==
  [pc |-> "loading", page |-> page, queries |-> {"rows", "total"}, rows |-> << >>,
   total |-> 0, sent |-> sent]

NotAsked == [Request(0, 0) EXCEPT !.pc = "none"]

\* Rows may share their time, as those of one transaction do.  The access log
\* without an expired partition is as the login log.
AuditInit ==
  /\ table \in {"login", "operation", "access"}
  /\ \E n \in 0 .. OldRows :
       /\ \E at \in [1 .. n -> 1 .. n] :
            /\ \A i, j \in 1 .. n : i < j => at[i] <= at[j]
            /\ log = {Row(i, at[i]) : i \in 1 .. n}
       /\ clock = n /\ begun = n
       /\ cutoff \in IF table = "access" THEN 1 .. n ELSE {0}
  /\ work = [w \in Writers |-> Resting]
  /\ export = NotAsked
  /\ unsent = {} /\ shifted = FALSE

-----------------------------------------------------------------------------
(* The writers.                                                            *)

Inserting(w, tries) ==
  /\ begun < OldRows + NewRows /\ begun' = begun + 1
  /\ clock' \in {clock, clock + 1}
  /\ work' = [work EXCEPT ![w] =
                [pc |-> "inserting", row |-> Row(begun', clock'), tries |-> tries]]

\* A transaction with its audit row, an audit row after the operation, or a
\* row of the background writer.
BeginInsert(w) ==
  /\ work[w].pc = "idle" /\ Inserting(w, 1)
  /\ UNCHANGED <<table, log, cutoff, export, unsent, shifted>>

Commit(w) ==
  /\ work[w].pc = "inserting"
  /\ log' = log \union {work[w].row}
  /\ work' = [work EXCEPT ![w] = Resting]
  /\ UNCHANGED <<table, clock, cutoff, export, unsent, shifted, begun>>

\* The insert fails, or only its answer is lost.  The background writer of
\* the login and the access log tries again, and may so log a thing twice; a
\* transaction is rolled back with its operation; the audit row after an
\* operation is given up.
InsertFails(w) ==
  /\ work[w].pc = "inserting"
  /\ log' \in {log, log \union {work[w].row}}
  /\ work' = IF table # "operation" /\ work[w].tries < MaxRetries
               THEN [work EXCEPT ![w] = [Resting EXCEPT !.pc = "waiting", !.tries = work[w].tries]]
               ELSE [work EXCEPT ![w] = Resting]
  /\ UNCHANGED <<table, clock, cutoff, export, unsent, shifted, begun>>

Retry(w) ==
  /\ work[w].pc = "waiting" /\ Inserting(w, work[w].tries + 1)
  /\ UNCHANGED <<table, log, cutoff, export, unsent, shifted>>

\* The partitions that have expired are dropped one by one, in any order.
DropPartition(t) ==
  /\ t <= cutoff /\ \E r \in log : r.at = t
  /\ log' = {r \in log : r.at # t}
  /\ UNCHANGED <<table, clock, cutoff, work, export, unsent, shifted, begun>>

-----------------------------------------------------------------------------
(* The export.                                                             *)

\* ORDER BY created_at DESC, with nothing to order equal times by.
NewestFirst(S) == {s \in SetToSeqs(S) : \A i, j \in DOMAIN s : i < j => s[i].at >= s[j].at}

Offset(page) == (page - 1) * PageSize
Page(s, page) == SubSeq(s, Offset(page) + 1, Min({Offset(page) + PageSize, Len(s)}))

\* Mutant: a last page that is not full does not count.
TotalPagesFull(total) == total \div PageSize

TotalPages(total) == (total + PageSize - 1) \div PageSize

HasMore(e) == e.page < TotalPages(e.total)

StartExport ==
  /\ export.pc = "none"
  /\ export' = Request(1, 0)
  /\ unsent' = log
  /\ UNCHANGED <<table, log, clock, cutoff, work, shifted, begun>>

Answered(e, query) == [e EXCEPT !.queries = @ \ {query}]

QueryRows ==
  /\ export.pc = "loading" /\ "rows" \in export.queries
  /\ \E s \in NewestFirst(log) :
       export' = [Answered(export, "rows") EXCEPT !.rows = Page(s, export.page)]
  /\ shifted' = (/\ "total" \notin export.queries /\ ~HasMore(export)
                 /\ Cardinality(log) > Offset(export.page + 1))
  /\ UNCHANGED <<table, log, clock, cutoff, work, unsent, begun>>

QueryTotal ==
  /\ export.pc = "loading" /\ "total" \in export.queries
  /\ export' = [Answered(export, "total") EXCEPT !.total = Cardinality(log)]
  /\ UNCHANGED <<table, log, clock, cutoff, work, unsent, shifted, begun>>

\* The page is sent up to the cap; then the next one is asked for, unless
\* this was the last, an empty one, or that which reached the cap.
SendPage ==
  /\ export.pc = "loading" /\ export.queries = {}
  /\ LET rows == SubSeq(export.rows, 1, Min({ExportMax - export.sent, Len(export.rows)}))
         sent == export.sent + Len(rows)
     IN /\ export' = IF HasMore(export) /\ export.rows # << >> /\ sent < ExportMax
                       THEN Request(export.page + 1, sent)
                       ELSE [Request(0, sent) EXCEPT !.pc = "closed"]
        /\ unsent' = unsent \ Range(rows)
  /\ UNCHANGED <<table, log, clock, cutoff, work, shifted, begun>>

\* A query fails, which the stream reports, or the client goes away; the
\* export may be asked for again.
StopExport ==
  /\ export.pc = "loading" /\ export' = NotAsked
  /\ unsent' = {} /\ shifted' = FALSE
  /\ UNCHANGED <<table, log, clock, cutoff, work, begun>>

AuditNext ==
  \/ \E w \in Writers : BeginInsert(w) \/ Commit(w) \/ InsertFails(w) \/ Retry(w)
  \/ \E t \in 1 .. OldRows : DropPartition(t)
  \/ StartExport \/ QueryRows \/ QueryTotal \/ SendPage \/ StopExport

-----------------------------------------------------------------------------
Tied(r) == \E q \in log : q # r /\ q.at = r.at

\* An export that ends below its cap and without an error has every row that
\* was committed before it began, though the log grows and shrinks between
\* its pages: new rows move old ones to later pages only, and partitions are
\* dropped behind them.  Excepted are rows about to be dropped; rows of the
\* same time as another, which two queries may order differently; and what a
\* row that came between the total of a page and its rows moved past what
\* that total made the last page.
ExportIsComplete ==
  export.pc = "closed" /\ export.sent < ExportMax /\ ~shifted =>
    \A r \in unsent : r.at <= cutoff \/ Tied(r)
=============================================================================

------------------------------ MODULE Cursors ------------------------------
(***************************************************************************)
(* Cursor pagination: the SDK's iterators (iter_research, iter_bulk_jobs,  *)
(* iter_lists, iter_watchlist, iter_list_accounts) fetch a collection page *)
(* by page, while rows are added, deleted and scored between two pages.    *)
(* The first four page by id, newest first; the accounts of a list by a    *)
(* score, in either order, rows without a score last.                      *)
(***************************************************************************)
EXTENDS Integers, FiniteSets

CONSTANTS
    Iterators,
    MaxRows,        \* BOUND: rows ever inserted
    RowScores,      \* the scores an account can get, a subset of 0 .. 100
    PageLimit       \* the limit of every request, at least 1

VARIABLES
    stored,     \* id -> its score, Unscored, or NoRow before insertion and after deletion
    newest,     \* the id of the newest row
    iter        \* iterator -> [by, at, cursor, yielded, steady], yielded a count for every id

ASSUME CursorConstants == MaxRows \in Nat /\ RowScores \subseteq 0 .. 100 /\ PageLimit \in Nat \ {0}

cursorVars == <<stored, newest, iter>>

Unscored == -5
NoRow == -9
NoCursor == <<NoRow, 0>>
Orders == {"id", "desc", "asc"}
Ids == 1 .. MaxRows
Present == {i \in Ids : stored[i] # NoRow}

(* ORDER BY id DESC, or ORDER BY <score> <order> NULLS LAST, id <order>.   *)
Before(by, i, j) ==
    CASE by = "id" -> i > j
      [] by = "desc" -> \/ stored[j] = Unscored /\ stored[i] # Unscored
                        \/ (stored[i] = Unscored <=> stored[j] = Unscored)
                             /\ (stored[i] > stored[j] \/ (stored[i] = stored[j] /\ i > j))
      [] by = "asc" -> \/ stored[j] = Unscored /\ stored[i] # Unscored
                       \/ (stored[i] = Unscored <=> stored[j] = Unscored)
                            /\ (stored[i] < stored[j] \/ (stored[i] = stored[j] /\ i < j))

(* Descending, a row without a score would compare as the highest.         *)
SentinelHigh(by) == 999

(* What COALESCE puts for a missing score, so that the row comparison      *)
(* agrees with NULLS LAST.                                                 *)
Sentinel(by) == IF by = "desc" THEN -1 ELSE 999
Coalesced(by, score) == IF score = Unscored THEN Sentinel(by) ELSE score

(* The rows after a cursor: id < cursor, or (score, id) compared with it.  *)
AfterCursor(by, cursor, i) ==
    LET mine == Coalesced(by, stored[i])  its == Coalesced(by, cursor[1]) IN
      \/ cursor = NoCursor
      \/ by = "id" /\ i < cursor[2]
      \/ by = "desc" /\ (mine < its \/ (mine = its /\ i < cursor[2]))
      \/ by = "asc" /\ (mine > its \/ (mine = its /\ i > cursor[2]))

(* The page of a request: the first rows that match, in their order, as    *)
(* many as the limit; one row more than the limit tells has_more.          *)
Matching(by, cursor) == {i \in Present : AfterCursor(by, cursor, i)}
Ahead(by, found, i) == {j \in found : Before(by, j, i)}
Page(by, cursor) ==
    LET found == Matching(by, cursor) IN
      [data |-> {i \in found : Cardinality(Ahead(by, found, i)) < PageLimit},
       more |-> Cardinality(found) > PageLimit]

(* next_cursor, or the id of the last item.                                *)
CursorOf(by, page) ==
    LET last == CHOOSE i \in page.data : \A j \in page.data : ~ Before(by, i, j)
    IN  <<stored[last], last>>

----------------------------------------------------------------------------
CursorInit ==
    /\ \E n \in 0 .. MaxRows :
         /\ newest = n
         /\ stored \in [Ids -> RowScores \cup {Unscored, NoRow}]
         /\ \A i \in Ids : stored[i] = NoRow <=> i > n
    /\ iter = [t \in Iterators |->
                 [by |-> "id", at |-> "idle", cursor |-> NoCursor, yielded |-> [i \in Ids |-> 0], steady |-> {}]]

StartIteration(t) ==
    /\ iter[t].at = "idle"
    /\ \E by \in Orders :
         iter' = [iter EXCEPT ![t] = [@ EXCEPT !.by = by, !.at = "paging", !.steady = Present]]
    /\ UNCHANGED <<stored, newest>>

(* One request: its items are yielded, and the iteration ends when there   *)
(* are no more or the page is empty.                                       *)
FetchPage(t) ==
    /\ iter[t].at = "paging"
    /\ LET page == Page(iter[t].by, iter[t].cursor)
           last == ~ page.more \/ page.data = {}
       IN  iter' = [iter EXCEPT
               ![t].yielded = [i \in Ids |-> IF i \in page.data THEN iter[t].yielded[i] + 1 ELSE iter[t].yielded[i]],
               ![t].at = IF last THEN "over" ELSE @,
               ![t].cursor = IF last THEN @ ELSE CursorOf(iter[t].by, page)]
    /\ UNCHANGED <<stored, newest>>

(* The other users of the collection.                                      *)
InsertRow ==
    /\ newest < MaxRows
    /\ newest' = newest + 1
    /\ stored' = [stored EXCEPT ![newest + 1] = Unscored]
    /\ UNCHANGED iter

(* A row that goes, or moves in the order of an iteration, is no longer    *)
(* owed to it.                                                             *)
Disturb(i, orders) ==
    iter' = [t \in Iterators |->
               IF iter[t].by \in orders THEN [iter[t] EXCEPT !.steady = @ \ {i}] ELSE iter[t]]

RemoveRow(i) ==
    /\ stored[i] # NoRow
    /\ stored' = [stored EXCEPT ![i] = NoRow]
    /\ Disturb(i, Orders)
    /\ UNCHANGED newest

(* save_list_account_scores: an analysis finishes, or is done again.       *)
ScoreRow(i) ==
    /\ stored[i] # NoRow
    /\ \E s \in RowScores : s # stored[i] /\ stored' = [stored EXCEPT ![i] = s]
    /\ Disturb(i, {"desc", "asc"})
    /\ UNCHANGED newest

CursorNext ==
    \/ \E t \in Iterators : StartIteration(t) \/ FetchPage(t)
    \/ InsertRow
    \/ \E i \in Ids : RemoveRow(i) \/ ScoreRow(i)

CursorSpec == CursorInit /\ [][CursorNext]_cursorVars

----------------------------------------------------------------------------
(* Scores are scores, and an iteration yields rows that were inserted.     *)
CursorTypeOK ==
    /\ newest \in 0 .. MaxRows
    /\ stored \in [Ids -> RowScores \cup {Unscored, NoRow}]
    /\ \A t \in Iterators :
         /\ iter[t].by \in Orders /\ iter[t].steady \subseteq 1 .. newest
         /\ \A i \in Ids : iter[t].yielded[i] > 0 => i \in 1 .. newest

(* An iterator over a collection that others change meanwhile yields no    *)
(* row twice that stayed as it was, and when it ends it has yielded every  *)
(* such row, scored or not, across every page boundary.                    *)
SteadyYieldedOnce ==
    \A t \in Iterators : \A i \in iter[t].steady :
        LET times == iter[t].yielded[i] IN times <= 1 /\ (iter[t].at = "over" => times = 1)

=============================================================================

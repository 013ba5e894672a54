-------------------------- MODULE Documents_proofs --------------------------
(***************************************************************************)
(* What is read and what is written: proofs about the pages of a cursor    *)
(* (Cursors), the chunks of an uploaded text and its status (Materials),   *)
(* the sequences and messages that are sent (Writing), and what a document *)
(* stands on: its pains, its text, the technologies and the profile of the *)
(* seller (Grounds).                                                       *)
(***************************************************************************)
EXTENDS Cursors, Materials, Writing, Grounds, Sums_proofs, SequenceTheorems

-----------------------------------------------------------------------------
(* Cursors: every row that stays is yielded once.                          *)

StoredTypes ==
    /\ newest \in 0 .. MaxRows
    /\ stored \in [Ids -> RowScores \cup {Unscored, NoRow}]
    /\ \A i \in Ids : i > newest => stored[i] = NoRow

IterTypes ==
    /\ DOMAIN iter = Iterators
    /\ \A t \in Iterators :
         /\ DOMAIN iter[t] = {"by", "at", "cursor", "yielded", "steady"}
         /\ iter[t].by \in Orders /\ iter[t].at \in {"idle", "paging", "over"}
         /\ iter[t].yielded \in [Ids -> Nat] /\ iter[t].steady \subseteq Present

\* A cursor is none, or the score and the id a row had when its page was fetched.
CursorKnown(c) == c = NoCursor \/ \E s \in RowScores \cup {Unscored}, i \in Ids : c = <<s, i>>

\* What is owed to an iteration was yielded if and only if it is behind the cursor.
OwedIsAhead(r) ==
    /\ CursorKnown(r.cursor)
    /\ r.at = "idle" => r.cursor = NoCursor /\ r.steady = {} /\ \A i \in Ids : r.yielded[i] = 0
    /\ r.at = "paging" => \A i \in r.steady : r.yielded[i] = IF AfterCursor(r.by, r.cursor, i) THEN 0 ELSE 1
    /\ r.at = "over" => \A i \in r.steady : r.yielded[i] = 1
CursorInv == StoredTypes /\ IterTypes /\ \A t \in Iterators : OwedIsAhead(iter[t])

\* A row that is there has a score or is unscored.
LEMMA PresentRow ==
    ASSUME StoredTypes, NEW i \in Present
    PROVE  i \in Ids /\ i \in Int /\ (stored[i] = Unscored \/ stored[i] \in 0 .. 100) /\ stored[i] # NoRow
<1>1. i \in Ids /\ stored[i] # NoRow
    BY DEF Present
<1>2. stored[i] \in RowScores \cup {Unscored, NoRow}
    BY <1>1 DEF StoredTypes
<1>3. i \in Int
    BY <1>1, CursorConstants DEF Ids
<1>4. stored[i] = Unscored \/ stored[i] \in 0 .. 100
    BY <1>1, <1>2, CursorConstants
<1> QED BY <1>1, <1>3, <1>4

\* The order, case by case.
LEMMA BeforeIs ==
    ASSUME NEW i, NEW j
    PROVE  /\ Before("id", i, j) <=> i > j
           /\ Before("desc", i, j) <=>
                 \/ stored[j] = Unscored /\ stored[i] # Unscored
                 \/ (stored[i] = Unscored <=> stored[j] = Unscored)
                      /\ (stored[i] > stored[j] \/ (stored[i] = stored[j] /\ i > j))
           /\ Before("asc", i, j) <=>
                 \/ stored[j] = Unscored /\ stored[i] # Unscored
                 \/ (stored[i] = Unscored <=> stored[j] = Unscored)
                      /\ (stored[i] < stored[j] \/ (stored[i] = stored[j] /\ i < j))
    BY DEF Before

\* With the sentinels, the comparison with a row's cursor is the order of the rows.
LEMMA CursorIsOrder ==
    ASSUME StoredTypes, NEW by \in Orders, NEW i \in Present, NEW j \in Present
    PROVE  AfterCursor(by, <<stored[i], i>>, j) <=> Before(by, i, j)
<1>1. /\ stored[i] = Unscored \/ stored[i] \in 0 .. 100
      /\ stored[j] = Unscored \/ stored[j] \in 0 .. 100
      /\ i \in Int /\ j \in Int
    BY PresentRow
<1>2. <<stored[i], i>> # NoCursor
    BY DEF Present, NoCursor
<1>3. by = "id" \/ by = "desc" \/ by = "asc"
    BY DEF Orders
<1>4. CASE by = "id"
    BY <1>1, <1>2, <1>4, BeforeIs DEF AfterCursor
<1>5. CASE by = "desc"
    BY <1>1, <1>2, <1>5, BeforeIs DEF AfterCursor, Coalesced, Sentinel, Unscored
<1>6. CASE by = "asc"
    BY <1>1, <1>2, <1>6, BeforeIs DEF AfterCursor, Coalesced, Sentinel, Unscored
<1> QED BY <1>3, <1>4, <1>5, <1>6

\* The rows of a collection are in a strict and total order.
LEMMA RowsInOrder ==
    ASSUME StoredTypes, NEW by \in Orders
    PROVE  /\ \A i \in Present : ~ Before(by, i, i)
           /\ \A i, j \in Present : i # j => Before(by, i, j) \/ Before(by, j, i)
           /\ \A i, j, k \in Present : Before(by, i, j) /\ Before(by, j, k) => Before(by, i, k)
<1>1. \A i \in Present : i \in Int /\ stored[i] \in Int /\ (stored[i] = Unscored \/ stored[i] \in 0 .. 100)
    BY PresentRow DEF Unscored
<1>2. by = "id" \/ by = "desc" \/ by = "asc"
    BY DEF Orders
<1>3. CASE by = "id"
    BY <1>1, <1>3, BeforeIs
<1>4. CASE by = "desc"
    BY <1>1, <1>4, BeforeIs DEF Unscored
<1>5. CASE by = "asc"
    BY <1>1, <1>5, BeforeIs DEF Unscored
<1> QED BY <1>2, <1>3, <1>4, <1>5

\* A row behind one that matches is behind the cursor it matches.
LEMMA FurtherOn ==
    ASSUME StoredTypes, NEW by \in Orders, NEW c, CursorKnown(c), NEW i \in Present, NEW j \in Present,
           AfterCursor(by, c, i), Before(by, i, j)
    PROVE  AfterCursor(by, c, j)
<1>1. /\ stored[i] = Unscored \/ stored[i] \in 0 .. 100
      /\ stored[j] = Unscored \/ stored[j] \in 0 .. 100
      /\ i \in Int /\ j \in Int
    BY PresentRow
<1>2. CASE c = NoCursor
    BY <1>2 DEF AfterCursor
<1>3. CASE c # NoCursor
  <2>1. PICK s \in RowScores \cup {Unscored}, k \in Ids : c = <<s, k>>
    BY <1>3 DEF CursorKnown
  <2>2. (s = Unscored \/ s \in 0 .. 100) /\ k \in Int /\ c[1] = s /\ c[2] = k
    BY <2>1, CursorConstants DEF Ids
  <2>3. AfterCursor(by, <<stored[i], i>>, j)
    BY CursorIsOrder
  <2>4. /\ Coalesced(by, stored[i]) \in Int /\ Coalesced(by, stored[j]) \in Int /\ Coalesced(by, s) \in Int
        /\ <<stored[i], i>> # NoCursor
    BY <1>1, <2>2 DEF Coalesced, Sentinel, Unscored, NoCursor, NoRow
  <2>5. by = "id" \/ by = "desc" \/ by = "asc"
    BY DEF Orders
  <2> QED BY <1>1, <1>3, <2>2, <2>3, <2>4, <2>5 DEF AfterCursor
<1> QED BY <1>2, <1>3

\* What a request finds: finitely many rows that are there.
LEMMA FoundAreFinite ==
    ASSUME StoredTypes, NEW by, NEW c
    PROVE  /\ Matching(by, c) \subseteq Present /\ IsFiniteSet(Matching(by, c)) /\ Cardinality(Matching(by, c)) \in Nat
           /\ \A i : IsFiniteSet(Ahead(by, Matching(by, c), i)) /\ Cardinality(Ahead(by, Matching(by, c), i)) \in Nat
<1>1. IsFiniteSet(Ids)
    BY CursorConstants, FS_Interval DEF Ids
<1>2. Matching(by, c) \subseteq Present /\ Present \subseteq Ids
    BY DEF Matching, Present
<1>3. IsFiniteSet(Matching(by, c))
    BY <1>1, <1>2, FS_Subset
<1>4. \A i : Ahead(by, Matching(by, c), i) \subseteq Matching(by, c)
    BY DEF Ahead
<1> QED BY <1>2, <1>3, <1>4, FS_Subset, FS_CardinalityType

\* The last row of a page: those of it are not behind it, those that did not fit are.
LEMMA LastOfPage ==
    ASSUME StoredTypes, NEW by \in Orders, NEW c, NEW page, page = Page(by, c), page.data # {},
           NEW last, last = CHOOSE i \in page.data : \A j \in page.data : ~ Before(by, i, j)
    PROVE  /\ last \in page.data /\ \A j \in page.data : ~ Before(by, last, j)
           /\ \A j \in Matching(by, c) \ page.data : Before(by, last, j)
<1> DEFINE found == Matching(by, c)
           R == {p \in Present \X Present : Before(by, p[2], p[1])}
<1>1. found \subseteq Present /\ IsFiniteSet(found)
    BY FoundAreFinite
<1>2. page.data = {i \in found : Cardinality(Ahead(by, found, i)) < PageLimit}
    BY DEF Page
<1>3. page.data \subseteq Present /\ page.data \subseteq found /\ IsFiniteSet(page.data)
    BY <1>1, <1>2, FS_Subset
<1> HIDE DEF found
<1>4. \A i, j \in Present : <<i, j>> \in R <=> Before(by, j, i)
    OBVIOUS
<1> HIDE DEF R
<1>5. \E i \in page.data : \A j \in page.data : <<j, i>> \notin R
  <2>1. \A i \in page.data : <<i, i>> \notin R
    BY <1>3, <1>4, RowsInOrder
  <2>2. \A i, j, k \in page.data : <<i, j>> \in R /\ <<j, k>> \in R => <<i, k>> \in R
    BY <1>3, <1>4, RowsInOrder
  <2> QED BY <1>3, <2>1, <2>2, SomeFirst
<1>6. last \in page.data /\ \A j \in page.data : ~ Before(by, last, j)
    BY <1>3, <1>4, <1>5
<1>7. ASSUME NEW j \in found \ page.data PROVE Before(by, last, j)
  <2>0. last \in Present /\ j \in Present /\ last # j /\ last \in found
    BY <1>1, <1>3, <1>6, <1>7
  <2> SUFFICES ASSUME Before(by, j, last) PROVE FALSE
    BY <2>0, RowsInOrder
  <2>1. Ahead(by, found, j) \subseteq Ahead(by, found, last)
    BY <1>1, <2>0, RowsInOrder DEF Ahead
  <2>2. Cardinality(Ahead(by, found, j)) <= Cardinality(Ahead(by, found, last))
    BY <2>1, FoundAreFinite, FS_Subset DEF found
  <2>3. Cardinality(Ahead(by, found, last)) < PageLimit /\ ~ (Cardinality(Ahead(by, found, j)) < PageLimit)
    BY <1>2, <1>6, <1>7
  <2>4. Cardinality(Ahead(by, found, last)) \in Nat /\ Cardinality(Ahead(by, found, j)) \in Nat
    BY FoundAreFinite DEF found
  <2> QED BY <2>2, <2>3, <2>4, CursorConstants
<1> QED BY <1>6, <1>7 DEF found

\* A page with no row is the page of a request that found none, and the last page holds all that was found.
LEMMA PagesOfAll ==
    ASSUME StoredTypes, NEW by \in Orders, NEW c, NEW page, page = Page(by, c)
    PROVE  /\ page.data \subseteq Matching(by, c)
           /\ ~ page.more \/ page.data = {} => page.data = Matching(by, c)
<1> DEFINE found == Matching(by, c)
           R == {p \in Present \X Present : Before(by, p[1], p[2])}
<1>1. found \subseteq Present /\ IsFiniteSet(found) /\ Cardinality(found) \in Nat
    BY FoundAreFinite
<1>2. page.data = {i \in found : Cardinality(Ahead(by, found, i)) < PageLimit} /\ page.more = (Cardinality(found) > PageLimit)
    BY DEF Page
<1>3. \A i : IsFiniteSet(Ahead(by, found, i)) /\ Cardinality(Ahead(by, found, i)) \in Nat
    BY FoundAreFinite
<1> HIDE DEF found
<1>4. ASSUME ~ page.more, NEW i \in found PROVE i \in page.data
  <2>1. Ahead(by, found, i) \subseteq found /\ i \notin Ahead(by, found, i)
    BY <1>1, RowsInOrder DEF Ahead
  <2>2. Cardinality(Ahead(by, found, i)) < Cardinality(found)
    BY <1>1, <1>4, <2>1, Smaller
  <2>3. ~ (Cardinality(found) > PageLimit)
    BY <1>2, <1>4
  <2> QED BY <1>1, <1>2, <1>3, <2>2, <2>3, CursorConstants
<1>5. ASSUME found # {} PROVE page.data # {}
  <2>1. \A i, j \in Present : <<i, j>> \in R <=> Before(by, i, j)
    OBVIOUS
  <2> HIDE DEF R
  <2>2. \A i \in found : <<i, i>> \notin R
    BY <1>1, <2>1, RowsInOrder
  <2>3. \A i, j, k \in found : <<i, j>> \in R /\ <<j, k>> \in R => <<i, k>> \in R
    BY <1>1, <2>1, RowsInOrder
  <2>4. PICK i \in found : \A j \in found : <<j, i>> \notin R
    BY <1>1, <1>5, <2>2, <2>3, SomeFirst
  <2>5. Ahead(by, found, i) = {}
    BY <1>1, <2>1, <2>4 DEF Ahead
  <2>6. Cardinality(Ahead(by, found, i)) = 0
    BY <2>5, FS_EmptySet
  <2> QED BY <1>2, <2>6, CursorConstants
<1>6. page.data \subseteq found
    BY <1>2
<1>7. ~ page.more => page.data = found
    BY <1>4, <1>6
<1>8. page.data = {} => page.data = found
    BY <1>5
<1> QED BY <1>6, <1>7, <1>8 DEF found

\* No iteration has begun.
LEMMA CursorInvInit == CursorInit => CursorInv
<1> SUFFICES ASSUME CursorInit PROVE CursorInv
    OBVIOUS
<1>1. StoredTypes
    BY DEF CursorInit, StoredTypes
<1>2. IterTypes
    BY DEF CursorInit, IterTypes, Orders
<1>3. \A t \in Iterators : OwedIsAhead(iter[t])
    BY DEF CursorInit, OwedIsAhead, CursorKnown
<1> QED BY <1>1, <1>2, <1>3 DEF CursorInv

\* Where no row changes, none is nearer to a cursor or further.
LEMMA SameRows ==
    ASSUME UNCHANGED <<stored, newest>>
    PROVE  Present' = Present /\ (StoredTypes => StoredTypes') /\ \A by, c, i : AfterCursor(by, c, i)' = AfterCursor(by, c, i)
<1>1. Present' = Present
    BY DEF Present
<1>2. StoredTypes => StoredTypes'
    BY DEF StoredTypes
<1>3. \A by, c, i : AfterCursor(by, c, i)' = AfterCursor(by, c, i)
    BY DEF AfterCursor, Coalesced
<1> QED BY <1>1, <1>2, <1>3

\* A step of one iteration.
LEMMA OneIteration ==
    ASSUME CursorInv, UNCHANGED <<stored, newest>>, NEW t \in Iterators,
           DOMAIN iter' = Iterators, \A x \in Iterators \ {t} : iter'[x] = iter[x],
           DOMAIN iter'[t] = {"by", "at", "cursor", "yielded", "steady"},
           iter'[t].by \in Orders, iter'[t].at \in {"idle", "paging", "over"},
           iter'[t].yielded \in [Ids -> Nat], iter'[t].steady \subseteq Present,
           OwedIsAhead(iter'[t])
    PROVE  CursorInv'
<1>1. StoredTypes' /\ Present' = Present /\ \A by, c, i : AfterCursor(by, c, i)' = AfterCursor(by, c, i)
    BY SameRows DEF CursorInv
<1>2. IterTypes'
    BY <1>1 DEF CursorInv, IterTypes
<1>3. ASSUME NEW x \in Iterators PROVE OwedIsAhead(iter[x])'
  <2>1. OwedIsAhead(iter'[x])
    BY DEF CursorInv
  <2> QED BY <1>1, <2>1 DEF OwedIsAhead
<1> QED BY <1>1, <1>2, <1>3 DEF CursorInv

\* An iteration begins: every row there is owed to it, and ahead.
LEMMA StartKeeps == \A t \in Iterators : CursorInv /\ StartIteration(t) => CursorInv'
<1> SUFFICES ASSUME NEW t \in Iterators, CursorInv, StartIteration(t) PROVE CursorInv'
    OBVIOUS
<1>1. PICK by \in Orders : iter' = [iter EXCEPT ![t] = [iter[t] EXCEPT !.by = by, !.at = "paging", !.steady = Present]]
    BY DEF StartIteration
<1>2. /\ DOMAIN iter = Iterators /\ DOMAIN iter[t] = {"by", "at", "cursor", "yielded", "steady"}
      /\ iter[t].yielded \in [Ids -> Nat] /\ OwedIsAhead(iter[t]) /\ iter[t].at = "idle"
    BY DEF CursorInv, IterTypes, StartIteration
<1>3. /\ DOMAIN iter' = Iterators /\ \A x \in Iterators \ {t} : iter'[x] = iter[x]
      /\ DOMAIN iter'[t] = {"by", "at", "cursor", "yielded", "steady"}
      /\ iter'[t].by = by /\ iter'[t].at = "paging" /\ iter'[t].steady = Present
      /\ iter'[t].yielded = iter[t].yielded /\ iter'[t].cursor = iter[t].cursor
    BY <1>1, <1>2
<1>4. iter[t].cursor = NoCursor /\ \A i \in Ids : iter[t].yielded[i] = 0
    BY <1>2 DEF OwedIsAhead
<1>5. \A i \in Present : AfterCursor(by, NoCursor, i) /\ i \in Ids
    BY DEF AfterCursor, Present
<1>6. OwedIsAhead(iter'[t])
    BY <1>3, <1>4, <1>5 DEF OwedIsAhead, CursorKnown
<1>7. UNCHANGED <<stored, newest>>
    BY DEF StartIteration
<1> QED BY <1>2, <1>3, <1>6, <1>7, OneIteration

\* A page: what is owed and was ahead is on it or behind its last row, what was yielded stays behind the cursor.
LEMMA FetchKeeps == \A t \in Iterators : CursorInv /\ FetchPage(t) => CursorInv'
<1> SUFFICES ASSUME NEW t \in Iterators, CursorInv, FetchPage(t) PROVE CursorInv'
    OBVIOUS
<1> DEFINE r == iter[t]
           page == Page(r.by, r.cursor)
           ends == ~ page.more \/ page.data = {}
           last == CHOOSE i \in page.data : \A j \in page.data : ~ Before(r.by, i, j)
<1>1. /\ DOMAIN iter = Iterators /\ DOMAIN r = {"by", "at", "cursor", "yielded", "steady"}
      /\ r.by \in Orders /\ r.yielded \in [Ids -> Nat] /\ r.steady \subseteq Present
      /\ OwedIsAhead(r) /\ r.at = "paging" /\ StoredTypes
    BY DEF CursorInv, IterTypes, FetchPage
<1>2. /\ DOMAIN iter' = Iterators /\ \A x \in Iterators \ {t} : iter'[x] = iter[x]
      /\ DOMAIN iter'[t] = {"by", "at", "cursor", "yielded", "steady"}
      /\ iter'[t].by = r.by /\ iter'[t].steady = r.steady
      /\ iter'[t].at = IF ends THEN "over" ELSE r.at
      /\ iter'[t].cursor = IF ends THEN r.cursor ELSE CursorOf(r.by, page)
      /\ iter'[t].yielded = [i \in Ids |-> IF i \in page.data THEN r.yielded[i] + 1 ELSE r.yielded[i]]
    BY <1>1 DEF FetchPage
<1> HIDE DEF page
<1>3. CursorOf(r.by, page) = <<stored[last], last>>
    BY DEF CursorOf
<1> HIDE DEF r, last
<1>4. /\ page.data \subseteq Matching(r.by, r.cursor) /\ (ends => page.data = Matching(r.by, r.cursor))
    BY <1>1, PagesOfAll DEF page
<1>5. /\ CursorKnown(r.cursor)
      /\ \A i \in r.steady : r.yielded[i] = IF AfterCursor(r.by, r.cursor, i) THEN 0 ELSE 1
    BY <1>1 DEF OwedIsAhead
<1>6. \A i \in Present : i \in Matching(r.by, r.cursor) <=> AfterCursor(r.by, r.cursor, i)
    BY DEF Matching
<1>7. \A i \in r.steady : i \in Ids /\ i \in Present
    BY <1>1 DEF Present
<1>8. ASSUME ends PROVE OwedIsAhead(iter'[t])
  <2>1. \A i \in r.steady : iter'[t].yielded[i] = 1
    BY <1>2, <1>4, <1>5, <1>6, <1>7, <1>8
  <2>2. iter'[t].cursor = r.cursor /\ iter'[t].at = "over" /\ iter'[t].steady = r.steady
    BY <1>2, <1>8
  <2>3. CursorKnown(iter'[t].cursor)
    BY <1>5, <2>2
  <2> QED BY <2>1, <2>2, <2>3 DEF OwedIsAhead
<1>9. ASSUME ~ ends PROVE OwedIsAhead(iter'[t])
  <2>1. /\ last \in page.data /\ \A j \in page.data : ~ Before(r.by, last, j)
        /\ \A j \in Matching(r.by, r.cursor) \ page.data : Before(r.by, last, j)
    BY <1>1, <1>9, LastOfPage DEF page, last
  <2>2. last \in Present /\ AfterCursor(r.by, r.cursor, last)
    BY <1>4, <2>1 DEF Matching
  <2> DEFINE c == <<stored[last], last>>
  <2>3. iter'[t].cursor = c /\ iter'[t].at = "paging"
    BY <1>1, <1>2, <1>3, <1>9
  <2>4. \A j \in Present : AfterCursor(r.by, c, j) <=> Before(r.by, last, j)
    BY <1>1, <2>2, CursorIsOrder
  <2>5. CursorKnown(c)
    <3>1. last \in Ids /\ stored[last] \in RowScores \cup {Unscored}
      BY <1>1, <2>2 DEF Present, StoredTypes
    <3> QED BY <3>1 DEF CursorKnown
  <2> HIDE DEF c
  <2>6. ASSUME NEW i \in r.steady
        PROVE  iter'[t].yielded[i] = IF AfterCursor(r.by, c, i) THEN 0 ELSE 1
    <3>1. CASE i \in page.data
      BY <1>2, <1>4, <1>5, <1>6, <1>7, <2>1, <2>4, <3>1
    <3>2. CASE i \in Matching(r.by, r.cursor) \ page.data
      BY <1>2, <1>5, <1>6, <1>7, <2>1, <2>4, <3>2
    <3>3. CASE i \notin Matching(r.by, r.cursor)
      <4>1. ~ AfterCursor(r.by, r.cursor, i)
        BY <1>6, <1>7, <3>3
      <4>2. ~ Before(r.by, last, i)
        BY <1>1, <1>5, <1>7, <2>2, <4>1, FurtherOn
      <4> QED BY <1>2, <1>4, <1>5, <1>7, <2>4, <3>3, <4>1, <4>2
    <3> QED BY <3>1, <3>2, <3>3
  <2>7. CursorKnown(iter'[t].cursor) /\ iter'[t].by = r.by /\ iter'[t].steady = r.steady
    BY <1>2, <2>3, <2>5
  <2>8. \A i \in iter'[t].steady :
            iter'[t].yielded[i] = IF AfterCursor(iter'[t].by, iter'[t].cursor, i) THEN 0 ELSE 1
    BY <2>3, <2>6, <2>7
  <2> QED BY <2>3, <2>7, <2>8 DEF OwedIsAhead
<1>10. iter'[t].yielded \in [Ids -> Nat] /\ iter'[t].at \in {"idle", "paging", "over"}
    BY <1>1, <1>2
<1>11. OwedIsAhead(iter'[t])
    BY <1>8, <1>9
<1>12. UNCHANGED <<stored, newest>>
    BY DEF FetchPage
<1> HIDE DEF ends
<1>13. iter'[t].by \in Orders /\ iter'[t].steady \subseteq Present
    BY <1>1, <1>2
<1> QED BY <1>2, <1>10, <1>11, <1>12, <1>13, OneIteration

\* A row that changes, and is owed to no iteration it would move in, moves none that is.
LEMMA RowChanges ==
    ASSUME CursorInv, NEW i \in Ids, NEW s \in RowScores \cup {Unscored, NoRow},
           stored' = [stored EXCEPT ![i] = s],
           newest' \in 0 .. MaxRows, \A j \in Ids : j > newest' => stored'[j] = NoRow,
           DOMAIN iter' = Iterators,
           \A t \in Iterators :
               /\ DOMAIN iter'[t] = DOMAIN iter[t] /\ iter'[t].by = iter[t].by /\ iter'[t].at = iter[t].at
               /\ iter'[t].cursor = iter[t].cursor /\ iter'[t].yielded = iter[t].yielded
               /\ iter'[t].steady \subseteq iter[t].steady
               /\ i \in iter'[t].steady => iter[t].by = "id" /\ s # NoRow
    PROVE  CursorInv'
<1>1. \A j \in Ids \ {i} : stored'[j] = stored[j]
    BY DEF CursorInv, StoredTypes
<1>2. stored' \in [Ids -> RowScores \cup {Unscored, NoRow}] /\ stored'[i] = s
    BY DEF CursorInv, StoredTypes
<1>3. StoredTypes'
    BY <1>2 DEF StoredTypes, Ids
<1>4. ASSUME NEW t \in Iterators, NEW j \in iter'[t].steady
      PROVE  j \in Present' /\ AfterCursor(iter[t].by, iter[t].cursor, j)' = AfterCursor(iter[t].by, iter[t].cursor, j)
  <2>1. j \in Present /\ j \in Ids /\ iter[t].by \in Orders
    BY DEF CursorInv, IterTypes, Present
  <2>2. CASE j # i
    BY <1>1, <2>1, <2>2 DEF Present, AfterCursor, Coalesced
  <2>3. CASE j = i
    <3>1. iter[t].by = "id" /\ s # NoRow
      BY <2>3
    <3>2. AfterCursor("id", iter[t].cursor, j)' = AfterCursor("id", iter[t].cursor, j)
      BY DEF AfterCursor
    <3> QED BY <1>2, <2>1, <2>3, <3>1, <3>2 DEF Present
  <2> QED BY <2>2, <2>3
<1>5. IterTypes'
    BY <1>4 DEF CursorInv, IterTypes
<1>6. ASSUME NEW t \in Iterators PROVE OwedIsAhead(iter[t])'
  <2>1. OwedIsAhead(iter[t])
    BY DEF CursorInv
  <2> QED BY <1>4, <2>1 DEF OwedIsAhead
<1> QED BY <1>3, <1>5, <1>6 DEF CursorInv

\* Every request, and every row that comes, goes or is scored.
LEMMA CursorInvNext == CursorInv /\ [CursorNext]_cursorVars => CursorInv'
<1> SUFFICES ASSUME CursorInv, [CursorNext]_cursorVars PROVE CursorInv'
    OBVIOUS
<1>1. ASSUME NEW t \in Iterators, StartIteration(t) PROVE CursorInv'
    BY <1>1, StartKeeps
<1>2. ASSUME NEW t \in Iterators, FetchPage(t) PROVE CursorInv'
    BY <1>2, FetchKeeps
<1>3. CASE InsertRow
  <2> DEFINE i == newest + 1
  <2>1. /\ newest \in 0 .. MaxRows /\ newest < MaxRows /\ newest' = i /\ iter' = iter
        /\ stored' = [stored EXCEPT ![i] = Unscored]
        /\ stored \in [Ids -> RowScores \cup {Unscored, NoRow}] /\ \A j \in Ids : j > newest => stored[j] = NoRow
        /\ DOMAIN iter = Iterators
    BY <1>3 DEF InsertRow, CursorInv, StoredTypes, IterTypes
  <2>2. i \in Ids /\ newest' \in 0 .. MaxRows /\ i > newest /\ \A j \in Ids : j > i => j > newest
    BY <2>1, CursorConstants DEF Ids
  <2> HIDE DEF i
  <2>3. stored[i] = NoRow /\ \A j \in Ids : j > newest' => stored'[j] = NoRow
    <3>1. ~ (i > i)
      BY <2>2 DEF Ids
    <3> QED BY <2>1, <2>2, <3>1
  <2>4. \A t \in Iterators : i \notin iter[t].steady
    BY <2>3 DEF CursorInv, IterTypes, Present
  <2> QED BY <2>1, <2>2, <2>3, <2>4, RowChanges
<1>4. ASSUME NEW i \in Ids, RemoveRow(i) PROVE CursorInv'
  <2>1. stored' = [stored EXCEPT ![i] = NoRow] /\ newest' = newest /\ Disturb(i, Orders)
    BY <1>4 DEF RemoveRow
  <2>2. newest' \in 0 .. MaxRows /\ \A j \in Ids : j > newest' => stored'[j] = NoRow
    BY <2>1 DEF CursorInv, StoredTypes
  <2>3. /\ DOMAIN iter' = Iterators
        /\ \A t \in Iterators : iter'[t] = [iter[t] EXCEPT !.steady = iter[t].steady \ {i}]
    BY <2>1 DEF Disturb, CursorInv, IterTypes
  <2>4. \A t \in Iterators : DOMAIN iter[t] = {"by", "at", "cursor", "yielded", "steady"}
    BY DEF CursorInv, IterTypes
  <2>5. \A t \in Iterators :
               /\ DOMAIN iter'[t] = DOMAIN iter[t] /\ iter'[t].by = iter[t].by /\ iter'[t].at = iter[t].at
               /\ iter'[t].cursor = iter[t].cursor /\ iter'[t].yielded = iter[t].yielded
               /\ iter'[t].steady = iter[t].steady \ {i}
    BY <2>3, <2>4
  <2>6. \A t \in Iterators :
               /\ DOMAIN iter'[t] = DOMAIN iter[t] /\ iter'[t].by = iter[t].by /\ iter'[t].at = iter[t].at
               /\ iter'[t].cursor = iter[t].cursor /\ iter'[t].yielded = iter[t].yielded
               /\ iter'[t].steady \subseteq iter[t].steady
               /\ i \in iter'[t].steady => iter[t].by = "id" /\ NoRow # NoRow
    BY <2>5
  <2>7. NoRow \in RowScores \cup {Unscored, NoRow} /\ DOMAIN iter' = Iterators
    BY <2>3
  <2> QED BY <2>1, <2>2, <2>6, <2>7, RowChanges
<1>5. ASSUME NEW i \in Ids, ScoreRow(i) PROVE CursorInv'
  <2>1. PICK s \in RowScores : stored' = [stored EXCEPT ![i] = s]
    BY <1>5 DEF ScoreRow
  <2>2. stored[i] # NoRow /\ newest' = newest /\ Disturb(i, {"desc", "asc"})
    BY <1>5 DEF ScoreRow
  <2>3. newest' \in 0 .. MaxRows /\ \A j \in Ids : j > newest' => stored'[j] = NoRow
    BY <2>1, <2>2 DEF CursorInv, StoredTypes
  <2>4. /\ DOMAIN iter' = Iterators
        /\ \A t \in Iterators :
              iter'[t] = IF iter[t].by \in {"desc", "asc"} THEN [iter[t] EXCEPT !.steady = iter[t].steady \ {i}] ELSE iter[t]
    BY <2>2 DEF Disturb
  <2>5. \A t \in Iterators :
            DOMAIN iter[t] = {"by", "at", "cursor", "yielded", "steady"} /\ iter[t].by \in {"id", "desc", "asc"}
    BY DEF CursorInv, IterTypes, Orders
  <2>6. \A t \in Iterators :
               /\ DOMAIN iter'[t] = DOMAIN iter[t] /\ iter'[t].by = iter[t].by /\ iter'[t].at = iter[t].at
               /\ iter'[t].cursor = iter[t].cursor /\ iter'[t].yielded = iter[t].yielded
               /\ iter'[t].steady \subseteq iter[t].steady
               /\ i \in iter'[t].steady => iter[t].by = "id"
    BY <2>4, <2>5
  <2>7. s # NoRow
    BY CursorConstants DEF NoRow
  <2>8. \A t \in Iterators :
               /\ DOMAIN iter'[t] = DOMAIN iter[t] /\ iter'[t].by = iter[t].by /\ iter'[t].at = iter[t].at
               /\ iter'[t].cursor = iter[t].cursor /\ iter'[t].yielded = iter[t].yielded
               /\ iter'[t].steady \subseteq iter[t].steady
               /\ i \in iter'[t].steady => iter[t].by = "id" /\ s # NoRow
    BY <2>6, <2>7
  <2>9. s \in RowScores \cup {Unscored, NoRow} /\ DOMAIN iter' = Iterators
    BY <2>4
  <2> QED BY <2>1, <2>3, <2>8, <2>9, RowChanges
<1>6. CASE UNCHANGED cursorVars
  <2>1. UNCHANGED <<stored, newest>> /\ iter' = iter
    BY <1>6 DEF cursorVars
  <2>2. StoredTypes' /\ Present' = Present /\ \A by, c, i : AfterCursor(by, c, i)' = AfterCursor(by, c, i)
    BY <2>1, SameRows DEF CursorInv
  <2>3. IterTypes'
    BY <2>1, <2>2 DEF CursorInv, IterTypes
  <2>4. ASSUME NEW t \in Iterators PROVE OwedIsAhead(iter[t])'
    <3>1. OwedIsAhead(iter[t])
      BY DEF CursorInv
    <3> QED BY <2>1, <2>2, <3>1 DEF OwedIsAhead
  <2> QED BY <2>2, <2>3, <2>4 DEF CursorInv
<1> QED BY <1>1, <1>2, <1>3, <1>4, <1>5, <1>6 DEF CursorNext

\* An iterator over a collection that others change meanwhile yields every row that stays as it was
\* once, scored or not, whatever the limit of its pages (get_list_accounts, iter_list_accounts).
THEOREM EverySteadyRowOnce == CursorSpec => []SteadyYieldedOnce
<1>1. CursorInit => CursorInv
    BY CursorInvInit
<1>2. CursorInv /\ [CursorNext]_cursorVars => CursorInv'
    BY CursorInvNext
<1>3. CursorInv => SteadyYieldedOnce
  <2> SUFFICES ASSUME CursorInv, NEW t \in Iterators, NEW i \in iter[t].steady
               PROVE  iter[t].yielded[i] <= 1 /\ (iter[t].at = "over" => iter[t].yielded[i] = 1)
    BY DEF SteadyYieldedOnce
  <2>1. OwedIsAhead(iter[t]) /\ iter[t].at \in {"idle", "paging", "over"}
    BY DEF CursorInv, IterTypes
  <2> QED BY <2>1 DEF OwedIsAhead
<1> QED BY <1>1, <1>2, <1>3, PTL DEF CursorSpec

-----------------------------------------------------------------------------
(* Materials: chunks lose little of a text, and what is ready is whole.    *)

\* Sequences put one after another are a sequence, and have all that each of them has.
LEMMA PutTogether ==
    ASSUME NEW S, NEW seqs \in Seq(Seq(S))
    PROVE  /\ FlattenSeq(seqs) \in Seq(S)
           /\ \A i \in DOMAIN seqs : \A j \in DOMAIN seqs[i] :
                \E k \in DOMAIN FlattenSeq(seqs) : FlattenSeq(seqs)[k] = seqs[i][j]
<1> DEFINE n == Len(seqs)
           Flat(f) == f = [i \in 1..n |-> IF i = 1 THEN seqs[i] ELSE f[i - 1] \o seqs[i]]
           flat == CHOOSE f : Flat(f)
<1>1. n \in Nat /\ DOMAIN seqs = 1..n /\ \A i \in 1..n : seqs[i] \in Seq(S)
    OBVIOUS
<1>2. CASE n = 0
    BY <1>1, <1>2 DEF FlattenSeq
<1>3. CASE n # 0
  <2>1. FlattenSeq(seqs) = flat[n]
    BY <1>3 DEF FlattenSeq
  <2>2. Flat(flat)
    <3> DEFINE step == [i \in 1..n |-> [s \in Seq(S) |-> s \o seqs[i]]]
    <3>1. step \in [1..n -> [Seq(S) -> Seq(S)]] /\ seqs[1] \in Seq(S)
      <4>1. 1 \in 1..n
        BY <1>1, <1>3
      <4>2. ASSUME NEW i \in 1..n, NEW s \in Seq(S) PROVE s \o seqs[i] \in Seq(S)
        <5>1. seqs[i] \in Seq(S)
          BY <1>1
        <5> QED BY <5>1, ConcatProperties
      <4> QED BY <1>1, <4>1, <4>2
    <3>2. \A i \in 1..n : \A s \in Seq(S) : step[i][s] = s \o seqs[i]
      OBVIOUS
    <3> HIDE DEF step
    <3>3. PICK f \in [1..n -> Seq(S)] : \A i \in 1..n : f[i] = IF i = 1 THEN seqs[1] ELSE step[i][f[i - 1]]
      <4> DEFINE V == Seq(S)
                 base == seqs[1]
      <4>1. n \in Nat /\ base \in V /\ step \in [1..n -> [V -> V]]
        BY <1>1, <3>1
      <4> HIDE DEF n, V, base
      <4>2. \E f \in [1..n -> V] : FromFirst(f, n, base, step)
        BY <4>1, RecursionFromFirst
      <4> QED BY <4>2 DEF V, base, FromFirst
    <3>4. ASSUME NEW i \in 1..n PROVE f[i] = IF i = 1 THEN seqs[i] ELSE f[i - 1] \o seqs[i]
      <4>1. i # 1 => i - 1 \in 1..n
        BY <1>1
      <4>2. i # 1 => f[i - 1] \in Seq(S)
        BY <4>1
      <4>3. i # 1 => step[i][f[i - 1]] = f[i - 1] \o seqs[i]
        BY <3>2, <4>2
      <4>4. f[i] = IF i = 1 THEN seqs[1] ELSE step[i][f[i - 1]]
        BY <3>3
      <4> QED BY <4>3, <4>4
    <3>5. Flat(f)
      <4> HIDE DEF n
      <4> QED BY <3>4
    <3> HIDE DEF Flat
    <3> QED BY <3>5
  <2> HIDE DEF flat
  <2>3. ASSUME NEW i \in 1..n PROVE flat[i] = IF i = 1 THEN seqs[i] ELSE flat[i - 1] \o seqs[i]
    <3>1. flat[i] = [k \in 1..n |-> IF k = 1 THEN seqs[k] ELSE flat[k - 1] \o seqs[k]][i]
      BY <2>2
    <3> QED BY <3>1
  <2> DEFINE Has(s, x) == \E k \in DOMAIN s : s[k] = x
             All(i) == flat[i] \in Seq(S) /\ \A h \in 1..i : \A j \in DOMAIN seqs[h] : Has(flat[i], seqs[h][j])
             Done == {k \in Nat : k \in 1..n => All(k)}
  <2>4. 0 \in Done
    OBVIOUS
  <2>5. ASSUME NEW k \in Nat, k \in Done PROVE k + 1 \in Done
    <3>1. SUFFICES ASSUME k + 1 \in 1..n PROVE All(k + 1)
      OBVIOUS
    <3>2. seqs[k + 1] \in Seq(S)
      BY <1>1, <3>1
    <3>3. CASE k = 0
      <4>1. flat[1] = seqs[1] /\ k + 1 = 1
        BY <2>3, <3>1, <3>3
      <4>2. \A h \in 1..1 : h = 1
        OBVIOUS
      <4> QED BY <3>2, <4>1, <4>2
    <3>4. CASE k # 0
      <4>1. k \in 1..n /\ k + 1 # 1 /\ (k + 1) - 1 = k
        BY <3>1, <3>4
      <4>2. All(k)
        BY <2>5, <4>1
      <4>3. flat[k + 1] = flat[k] \o seqs[k + 1]
        BY <2>3, <3>1, <4>1
      <4>4. flat[k] \in Seq(S)
        BY <4>2
      <4> DEFINE s == flat[k]
                 t == seqs[k + 1]
                 u == flat[k + 1]
      <4>5. s \in Seq(S) /\ t \in Seq(S) /\ u = s \o t
        BY <3>2, <4>3, <4>4
      <4> HIDE DEF s, t, u
      <4>6. /\ u \in Seq(S) /\ Len(s) \in Nat /\ Len(t) \in Nat
            /\ DOMAIN s = 1..Len(s) /\ DOMAIN t = 1..Len(t) /\ DOMAIN u = 1..(Len(s) + Len(t))
            /\ \A x \in 1..(Len(s) + Len(t)) : u[x] = IF x <= Len(s) THEN s[x] ELSE t[x - Len(s)]
        BY <4>5, ConcatProperties
      <4>7. ASSUME NEW h \in 1..(k + 1), NEW j \in DOMAIN seqs[h] PROVE Has(u, seqs[h][j])
        <5>1. CASE h = k + 1
          <6>0. j \in 1..Len(t) /\ seqs[h][j] = t[j]
            BY <4>6, <4>7, <5>1 DEF t
          <6> DEFINE x == Len(s) + j
          <6>1. x \in DOMAIN u /\ ~(x <= Len(s)) /\ x - Len(s) = j
            BY <4>6, <6>0
          <6>2. u[x] = seqs[h][j]
            BY <4>6, <6>0, <6>1
          <6> QED BY <6>1, <6>2
        <5>2. CASE h # k + 1
          <6>1. h \in 1..k
            BY <5>2
          <6>2. PICK x \in DOMAIN s : s[x] = seqs[h][j]
            BY <4>2, <4>7, <6>1 DEF s
          <6>3. x \in DOMAIN u /\ x <= Len(s)
            BY <4>6, <6>2
          <6>4. u[x] = seqs[h][j]
            BY <4>6, <6>2, <6>3
          <6> QED BY <6>3, <6>4
        <5> QED BY <5>1, <5>2
      <4> QED BY <4>6, <4>7 DEF u
    <3> QED BY <3>3, <3>4
  <2>6. Nat \subseteq Done
    <3> HIDE DEF Done
    <3> QED BY <2>4, <2>5, NumbersFromZero
  <2>7. n \in 1..n
    BY <1>1, <1>3
  <2>8. All(n)
    BY <1>1, <2>6, <2>7
  <2> QED BY <1>1, <2>1, <2>8
<1> QED BY <1>2, <1>3

\* The characters of some sentences of a section are a number, and their sizes are no more.
LEMMA SpanIsNumber ==
    ASSUME NEW sizes \in Seq(Nat), NEW a \in Nat \ {0}, NEW b \in 0..Len(sizes)
    PROVE  /\ Span(sizes, a, b) \in Nat
           /\ SumFunctionOnSet(sizes, a..b) <= Span(sizes, a, b)
<1>1. Len(sizes) \in Nat /\ \A i \in 1..Len(sizes) : sizes[i] \in Nat
    OBVIOUS
<1>2. CASE a > b
  <2>1. a..b = {}
    BY <1>2
  <2> QED BY <1>2, <2>1, SumOfNone DEF Span
<1>3. CASE ~(a > b)
  <2>0. IsFiniteSet(a..b) /\ a..b \subseteq 1..Len(sizes)
    <3>1. a \in Int /\ b \in Int
      BY <1>1
    <3>2. IsFiniteSet(a..b)
      BY <3>1, FS_Interval
    <3>3. a..b \subseteq 1..Len(sizes)
      BY <1>1
    <3> QED BY <3>2, <3>3
  <2>1. IsFiniteSet(a..b) /\ \A i \in a..b : sizes[i] \in Nat
    BY <1>1, <2>0
  <2>2. SumFunctionOnSet(sizes, a..b) \in Nat
    BY <2>1, SumOfPart
  <2>3. Span(sizes, a, b) = SumFunctionOnSet(sizes, a..b) + (b - a)
    BY <1>3 DEF Span
  <2> QED BY <1>1, <1>3, <2>2, <2>3
<1> QED BY <1>2, <1>3

\* What is carried starts no earlier than the chunk it is the tail of; a whole chunk that fits is carried.
LEMMA CarriedFrom ==
    ASSUME NEW sizes \in Seq(Nat), NEW i \in 1..Len(sizes), NEW a \in 1..(i - 1)
    PROVE  Carried(sizes, a, i) \in a..i /\ (Span(sizes, a, i - 1) <= Overlap => Carried(sizes, a, i) = a)
<1> DEFINE T == {k \in a..i : Span(sizes, k, i - 1) <= Overlap}
<1>1. T \subseteq Nat /\ i \in T /\ T \subseteq a..i
  <2>1. Span(sizes, i, i - 1) = 0
    BY DEF Span
  <2> QED BY <2>1, MaterialConstants
<1>2. Span(sizes, a, i - 1) <= Overlap => a \in T
    OBVIOUS
<1>3. Carried(sizes, a, i) = Min(T)
    BY DEF Carried
<1> HIDE DEF T
<1>4. Min(T) \in T /\ \A k \in T : Min(T) <= k
  <2>1. \E x \in T : \A y \in T : x <= y
    BY <1>1, LeastNumber
  <2> QED BY <2>1 DEF Min
<1>5. a \in Int /\ Min(T) \in a..i
  <2>1. a \in Int
    OBVIOUS
  <2>2. Min(T) \in a..i
    BY <1>1, <1>4
  <2> QED BY <2>1, <2>2
<1>6. a \in T => Min(T) = a
    BY <1>4, <1>5
<1> QED BY <1>2, <1>3, <1>5, <1>6

\* Where the chunk that is being filled starts, sentence after sentence.
LEMMA StartsOf ==
    ASSUME NEW sizes \in Seq(Nat)
    PROVE  \A i \in 1..Len(sizes) :
             /\ Starts(sizes)[i] \in 1..i
             /\ i # 1 => Starts(sizes)[i] = IF Overfull(sizes, Starts(sizes)[i - 1], i)
                                            THEN Carried(sizes, Starts(sizes)[i - 1], i) ELSE Starts(sizes)[i - 1]
<1> DEFINE n == Len(sizes)
           Next(a, i) == IF Overfull(sizes, a, i) THEN Carried(sizes, a, i) ELSE a
           Is(f) == f = [i \in DOMAIN sizes |-> IF i = 1 THEN 1 ELSE Next(f[i - 1], i)]
           start == CHOOSE f : Is(f)
<1>1. n \in Nat /\ DOMAIN sizes = 1..n
    OBVIOUS
<1>2. Starts(sizes) = start
    BY DEF Starts
<1>3. ASSUME NEW i \in 1..n, NEW a \in Nat \ {0} PROVE Next(a, i) \in Nat \ {0} /\ (a \in 1..(i - 1) => Next(a, i) \in 1..i)
  <2>1. CASE Overfull(sizes, a, i)
    <3>1. a \in 1..(i - 1)
      BY <1>1, <2>1 DEF Overfull
    <3>2. Carried(sizes, a, i) \in a..i
      BY <3>1, CarriedFrom
    <3> QED BY <1>1, <2>1, <3>1, <3>2
  <2>2. CASE ~Overfull(sizes, a, i)
    BY <1>1, <2>2
  <2> QED BY <2>1, <2>2
<1>4. Is(start)
  <2> DEFINE step == [i \in 1..n |-> [a \in Nat \ {0} |-> Next(a, i)]]
             V == Nat \ {0}
             one == 1
  <2>1. step \in [1..n -> [V -> V]]
    BY <1>3
  <2>2. \A i \in 1..n : \A a \in V : step[i][a] = Next(a, i)
    OBVIOUS
  <2>3. one \in V /\ one = 1
    OBVIOUS
  <2> HIDE DEF step, V, Next, n, one
  <2>4. PICK f \in [1..n -> V] : FromFirst(f, n, one, step)
    BY <1>1, <2>1, <2>3, RecursionFromFirst
  <2>5. ASSUME NEW i \in 1..n PROVE f[i] = IF i = 1 THEN 1 ELSE Next(f[i - 1], i)
    <3>1. i # 1 => i - 1 \in 1..n
      BY <1>1
    <3>2. i # 1 => f[i - 1] \in V
      BY <3>1
    <3>3. i # 1 => step[i][f[i - 1]] = Next(f[i - 1], i)
      BY <2>2, <3>2
    <3> QED BY <2>3, <2>4, <3>3 DEF FromFirst
  <2>6. Is(f)
    BY <1>1, <2>5
  <2> HIDE DEF Is
  <2> QED BY <2>6
<1> HIDE DEF start
<1>5. ASSUME NEW i \in 1..n PROVE start[i] = IF i = 1 THEN 1 ELSE Next(start[i - 1], i)
  <2>1. start[i] = [k \in DOMAIN sizes |-> IF k = 1 THEN 1 ELSE Next(start[k - 1], k)][i]
    BY <1>4
  <2> HIDE DEF Next
  <2> QED BY <1>1, <2>1
<1> DEFINE Done == {k \in Nat : k \in 1..n => start[k] \in 1..k}
<1>6. 0 \in Done
    OBVIOUS
<1>7. ASSUME NEW k \in Nat, k \in Done PROVE k + 1 \in Done
  <2>1. SUFFICES ASSUME k + 1 \in 1..n PROVE start[k + 1] \in 1..(k + 1)
    OBVIOUS
  <2>2. CASE k = 0
    BY <1>5, <2>1, <2>2
  <2>3. CASE k # 0
    <3>1. k \in 1..n /\ (k + 1) - 1 = k /\ k + 1 # 1
      BY <1>1, <2>1, <2>3
    <3>2. start[k] \in 1..((k + 1) - 1) /\ start[k] \in Nat \ {0}
      BY <1>7, <3>1
    <3> HIDE DEF Next
    <3>3. start[k + 1] = Next(start[k], k + 1)
      BY <1>5, <2>1, <3>1
    <3> QED BY <1>3, <2>1, <3>2, <3>3
  <2> QED BY <2>2, <2>3
<1>8. Nat \subseteq Done
  <2> HIDE DEF Done
  <2> QED BY <1>6, <1>7, NumbersFromZero
<1>9. \A i \in 1..n : start[i] \in 1..i
    BY <1>1, <1>8
<1> QED BY <1>2, <1>5, <1>9

\* A sentence stands in a chunk of a section that is large enough to be kept.
InKept(sizes, made, j) ==
    \E k \in DOMAIN made : j \in made[k][1]..made[k][2] /\ Span(sizes, made[k][1], made[k][2]) >= MinChunk

\* The chunks that were closed: a function of the sentence that closed them.
ClosedAt(sizes, i) ==
    IF i > 1 /\ Overfull(sizes, Starts(sizes)[i - 1], i) THEN <<<<Starts(sizes)[i - 1], i - 1>>>> ELSE <<>>

\* The sliding window: what is not in a chunk that is kept stands in the last chunk.
LEMMA WindowCovers ==
    ASSUME NEW sizes \in Seq(Nat), sizes # <<>>
    PROVE  LET made == SlidingWindow(sizes)  n == Len(sizes)  a == Starts(sizes)[n] IN
             /\ made \in Seq(Nat \X Nat)
             /\ \E k \in DOMAIN made : made[k] = <<a, n>>
             /\ \A j \in 1..n : j < a => InKept(sizes, made, j)
<1> DEFINE start == Starts(sizes)
           n == Len(sizes)
           closed == [i \in DOMAIN sizes |-> ClosedAt(sizes, i)]
           flat == FlattenSeq(closed)
           last == <<<<start[n], n>>>>
           made == flat \o last
<1>1. n \in Nat /\ n >= 1 /\ DOMAIN sizes = 1..n
    OBVIOUS
<1>2. SlidingWindow(sizes) = made
    BY DEF SlidingWindow, ClosedAt
<1>3. \A i \in 1..n : start[i] \in 1..i
    BY StartsOf
<1>4. closed \in Seq(Seq(Nat \X Nat))
  <2>1. ASSUME NEW i \in 1..n PROVE ClosedAt(sizes, i) \in Seq(Nat \X Nat)
    <3>1. CASE i > 1
      <4>1. i - 1 \in 1..n /\ i - 1 \in Nat
        BY <1>1, <3>1
      <4>2. start[i - 1] \in Nat
        BY <1>3, <4>1
      <4>3. <<<<start[i - 1], i - 1>>>> \in Seq(Nat \X Nat)
        BY <4>1, <4>2
      <4>4. ClosedAt(sizes, i) \in {<<<<start[i - 1], i - 1>>>>, <<>>}
        BY DEF ClosedAt
      <4>5. <<>> \in Seq(Nat \X Nat)
        OBVIOUS
      <4> HIDE DEF start
      <4> QED BY <4>3, <4>4, <4>5
    <3>2. CASE ~(i > 1)
      BY <3>2 DEF ClosedAt
    <3> QED BY <3>1, <3>2
  <2> QED BY <1>1, <2>1
<1>5. flat \in Seq(Nat \X Nat) /\ \A i \in DOMAIN closed : \A j \in DOMAIN closed[i] : \E k \in DOMAIN flat : flat[k] = closed[i][j]
  <2> HIDE DEF closed
  <2> QED BY <1>4, PutTogether
<1>6. last \in Seq(Nat \X Nat) /\ Len(last) = 1 /\ last[1] = <<start[n], n>>
    BY <1>1, <1>3
<1> HIDE DEF flat, last
<1>7. /\ made \in Seq(Nat \X Nat) /\ Len(flat) \in Nat /\ DOMAIN flat = 1..Len(flat) /\ DOMAIN made = 1..(Len(flat) + 1)
      /\ \A k \in 1..(Len(flat) + 1) : made[k] = IF k <= Len(flat) THEN flat[k] ELSE last[k - Len(flat)]
  <2>1. /\ made \in Seq(Nat \X Nat) /\ Len(made) = Len(flat) + Len(last)
        /\ \A k \in 1..(Len(flat) + Len(last)) : made[k] = IF k <= Len(flat) THEN flat[k] ELSE last[k - Len(flat)]
    <3> DEFINE P == Nat \X Nat
    <3>1. flat \in Seq(P) /\ last \in Seq(P)
      BY <1>5, <1>6
    <3> HIDE DEF P
    <3>2. /\ flat \o last \in Seq(P) /\ Len(flat \o last) = Len(flat) + Len(last)
          /\ \A k \in 1..(Len(flat) + Len(last)) :
               (flat \o last)[k] = IF k <= Len(flat) THEN flat[k] ELSE last[k - Len(flat)]
      BY <3>1, ConcatProperties
    <3> QED BY <3>2 DEF P
  <2> QED BY <1>5, <1>6, <2>1
<1> HIDE DEF made
<1>8. \E k \in DOMAIN made : made[k] = <<start[n], n>>
  <2>1. Len(flat) + 1 \in DOMAIN made /\ made[Len(flat) + 1] = last[1]
    BY <1>7
  <2> QED BY <1>6, <2>1
<1>9. ASSUME NEW i \in 2..n, Overfull(sizes, start[i - 1], i)
      PROVE  \E k \in DOMAIN made : made[k] = <<start[i - 1], i - 1>>
  <2>1. i \in DOMAIN closed /\ closed[i] = <<<<start[i - 1], i - 1>>>>
    BY <1>1, <1>9 DEF ClosedAt
  <2>2. 1 \in DOMAIN closed[i] /\ closed[i][1] = <<start[i - 1], i - 1>>
    BY <2>1
  <2> HIDE DEF closed
  <2>3. PICK k \in DOMAIN flat : flat[k] = <<start[i - 1], i - 1>>
    BY <1>5, <2>1, <2>2
  <2>4. k \in DOMAIN made /\ k \in 1..(Len(flat) + 1) /\ k <= Len(flat)
    BY <1>7
  <2>5. made[k] = flat[k]
    BY <1>7, <2>4
  <2> QED BY <2>3, <2>4, <2>5
<1> HIDE DEF closed
<1> DEFINE Earlier(i) == \A j \in 1..i : j < start[i] => InKept(sizes, made, j)
           Done == {k \in Nat : k \in 1..n => Earlier(k)}
<1>10. 0 \in Done
    OBVIOUS
<1>11. ASSUME NEW k \in Nat, k \in Done PROVE k + 1 \in Done
  <2>1. SUFFICES ASSUME k + 1 \in 1..n PROVE Earlier(k + 1)
    OBVIOUS
  <2>2. CASE k = 0
    <3>1. start[1] \in 1..1
      BY <1>1, <1>3
    <3> QED BY <2>2, <3>1
  <2>3. CASE k # 0
    <3>1. k \in 1..n /\ (k + 1) - 1 = k /\ k + 1 # 1 /\ k + 1 \in 2..n
      BY <1>1, <2>1, <2>3
    <3> DEFINE a == start[k]
    <3>2. a \in 1..k /\ start[k + 1] \in 1..(k + 1)
      BY <1>3, <2>1, <3>1
    <3>3. \A j \in 1..k : j < a => InKept(sizes, made, j)
      BY <1>11, <3>1
    <3>4. start[k + 1] = IF Overfull(sizes, a, k + 1) THEN Carried(sizes, a, k + 1) ELSE a
      BY <2>1, <3>1, StartsOf
    <3>5. Overfull(sizes, a, k + 1) => \E h \in DOMAIN made : made[h] = <<a, k>>
      BY <1>9, <3>1
    <3> HIDE DEF start
    <3>6. Span(sizes, a, k) \in Nat
      <4>1. a \in Nat \ {0} /\ k \in 0..Len(sizes)
        BY <1>1, <3>1, <3>2
      <4> HIDE DEF a
      <4> QED BY <4>1, SpanIsNumber
    <3>7. CASE Overfull(sizes, a, k + 1) /\ Span(sizes, a, k) >= MinChunk
      <4>1. PICK h \in DOMAIN made : made[h] = <<a, k>>
        BY <3>5, <3>7
      <4>2. \A j \in a..k : InKept(sizes, made, j)
        BY <3>7, <4>1 DEF InKept
      <4>3. ASSUME NEW j \in 1..(k + 1), j < start[k + 1] PROVE InKept(sizes, made, j)
        <5>1. j \in 1..k /\ (j < a \/ j \in a..k)
          BY <3>2, <4>3
        <5> QED BY <3>3, <4>2, <5>1
      <4> QED BY <4>3
    <3>8. CASE ~(Overfull(sizes, a, k + 1) /\ Span(sizes, a, k) >= MinChunk)
      <4>1. start[k + 1] = a
        <5>1. CASE Overfull(sizes, a, k + 1)
          <6>1. Span(sizes, a, (k + 1) - 1) <= Overlap
            <7>1. MinChunk \in Nat /\ Overlap \in Nat /\ MinChunk <= Overlap
              BY MaterialConstants
            <7>2. ~(Span(sizes, a, k) >= MinChunk)
              BY <3>8, <5>1
            <7> QED BY <3>1, <3>6, <7>1, <7>2
          <6>2. a \in 1..((k + 1) - 1)
            BY <3>1, <3>2
          <6>3. Carried(sizes, a, k + 1) = a
            BY <2>1, <6>1, <6>2, CarriedFrom
          <6> QED BY <3>4, <5>1, <6>3
        <5>2. CASE ~Overfull(sizes, a, k + 1)
          BY <3>4, <5>2
        <5> QED BY <5>1, <5>2
      <4>2. ASSUME NEW j \in 1..(k + 1), j < start[k + 1] PROVE InKept(sizes, made, j)
        <5>1. j \in 1..k /\ j < a
          BY <3>2, <4>1, <4>2
        <5> QED BY <3>3, <5>1
      <4> QED BY <4>2
    <3> QED BY <3>7, <3>8
  <2> QED BY <2>2, <2>3
<1>12. Nat \subseteq Done
  <2> HIDE DEF Done
  <2> QED BY <1>10, <1>11, NumbersFromZero
<1>13. Earlier(n)
    BY <1>1, <1>12
<1> HIDE DEF start, n
<1> QED BY <1>2, <1>7, <1>8, <1>13 DEF start, n

\* Of a section, whatever way it is cut, only an end too small to keep is in no chunk that is kept.
LEMMA SectionCovers ==
    ASSUME NEW sizes \in Seq(Nat)
    PROVE  /\ OfSection(sizes) \in Seq(Nat \X Nat)
           /\ \E a \in 1..(Len(sizes) + 1) :
                /\ Span(sizes, a, Len(sizes)) < MinChunk
                /\ \A j \in 1..Len(sizes) : j < a => InKept(sizes, OfSection(sizes), j)
<1> DEFINE n == Len(sizes)
           made == OfSection(sizes)
<1>1. n \in Nat /\ MinChunk \in Nat \ {0} /\ ChunkSize \in Nat /\ Span(sizes, n + 1, n) = 0
  <2>1. n \in Nat /\ n + 1 > n
    OBVIOUS
  <2> QED BY <2>1, MaterialConstants DEF Span
<1>2. \E a \in 1..(n + 1) :
         /\ made \in Seq(Nat \X Nat)
         /\ (a \in 1..n => \E k \in DOMAIN made : made[k] = <<a, n>>)
         /\ \A j \in 1..n : j < a => InKept(sizes, made, j)
  <2>1. CASE Span(sizes, 1, n) > ChunkSize
    <3>1. sizes # <<>>
      <4>1. sizes = <<>> => n = 0
        OBVIOUS
      <4>2. n = 0 => Span(sizes, 1, n) = 0
        BY DEF Span
      <4> QED BY <1>1, <2>1, <4>1, <4>2
    <3>2. made = SlidingWindow(sizes)
      BY <2>1 DEF OfSection
    <3> DEFINE a == Starts(sizes)[n]
    <3>3. /\ made \in Seq(Nat \X Nat) /\ \E k \in DOMAIN made : made[k] = <<a, n>>
          /\ \A j \in 1..n : j < a => InKept(sizes, made, j)
      BY <3>1, <3>2, WindowCovers
    <3>4. n \in 1..n
      BY <3>1
    <3>5. a \in 1..n
      BY <3>4, StartsOf
    <3>6. a \in 1..(n + 1)
      BY <1>1, <3>5
    <3> HIDE DEF a, made, n
    <3> QED BY <3>3, <3>6
  <2>2. CASE ~(Span(sizes, 1, n) > ChunkSize)
    <3>1. made = <<<<1, n>>>>
      BY <2>2 DEF OfSection
    <3>2. made \in Seq(Nat \X Nat) /\ 1 \in DOMAIN made /\ made[1] = <<1, n>> /\ 1 \in 1..(n + 1)
      BY <1>1, <3>1
    <3>3. \A j \in 1..n : ~(j < 1)
      OBVIOUS
    <3> HIDE DEF made, n
    <3> QED BY <3>2, <3>3
  <2> QED BY <2>1, <2>2
<1>3. PICK a \in 1..(n + 1) :
         /\ made \in Seq(Nat \X Nat)
         /\ (a \in 1..n => \E k \in DOMAIN made : made[k] = <<a, n>>)
         /\ \A j \in 1..n : j < a => InKept(sizes, made, j)
    BY <1>2
<1> HIDE DEF made
<1>4. Span(sizes, a, n) \in Nat
  <2>1. a \in Nat \ {0} /\ n \in 0..Len(sizes)
    BY <1>1
  <2> QED BY <2>1, SpanIsNumber
<1>5. CASE Span(sizes, a, n) < MinChunk
    BY <1>3, <1>5 DEF made
<1>6. CASE ~(Span(sizes, a, n) < MinChunk)
  <2>1. Span(sizes, a, n) >= MinChunk /\ Span(sizes, n + 1, n) < MinChunk /\ n + 1 \in 1..(n + 1)
    BY <1>1, <1>4, <1>6
  <2>2. a \in 1..n
    <3>1. a # n + 1
      BY <1>1, <2>1
    <3> QED BY <1>1, <3>1
  <2>3. PICK k \in DOMAIN made : made[k] = <<a, n>>
    BY <1>3, <2>2
  <2>4. ASSUME NEW j \in 1..n PROVE InKept(sizes, made, j)
    <3>1. CASE j < a
      BY <1>3, <3>1
    <3>2. CASE ~(j < a)
      <4>1. j \in made[k][1]..made[k][2]
        BY <1>1, <2>2, <2>3, <3>2
      <4>2. Span(sizes, made[k][1], made[k][2]) >= MinChunk
        BY <2>1, <2>3
      <4> QED BY <4>1, <4>2 DEF InKept
    <3> QED BY <3>1, <3>2
  <2> QED BY <1>3, <2>1, <2>4 DEF made
<1> QED BY <1>5, <1>6

Pieces == Nat \X (Nat \X Nat)

\* The chunks that are kept of a section.
LEMMA KeptOf ==
    ASSUME NEW text \in Seq(Seq(Nat)), NEW s \in DOMAIN text
    PROVE  /\ Kept(text, s) \in Seq(Pieces)
           /\ \A j \in DOMAIN text[s] : InKept(text[s], OfSection(text[s]), j) =>
                \E k \in DOMAIN Kept(text, s) :
                   Kept(text, s)[k][1] = s /\ j \in Kept(text, s)[k][2][1]..Kept(text, s)[k][2][2]
<1> DEFINE made == OfSection(text[s])
           IsKept(c) == Span(text[s], made[c][1], made[c][2]) >= MinChunk
           parts == [c \in DOMAIN made |-> IF IsKept(c) THEN <<<<s, made[c]>>>> ELSE <<>>]
<1>1. text[s] \in Seq(Nat) /\ s \in Nat
    OBVIOUS
<1>2. made \in Seq(Nat \X Nat)
    BY <1>1, SectionCovers
<1>3. parts \in Seq(Seq(Pieces))
  <2> HIDE DEF made
  <2>1. ASSUME NEW c \in DOMAIN made PROVE parts[c] \in Seq(Pieces)
    <3>1. made[c] \in Nat \X Nat
      BY <1>2
    <3>2. <<s, made[c]>> \in Pieces
      BY <1>1, <3>1 DEF Pieces
    <3>3. <<<<s, made[c]>>>> \in Seq(Pieces) /\ <<>> \in Seq(Pieces)
      BY <3>2
    <3> HIDE DEF IsKept
    <3>4. parts[c] \in {<<<<s, made[c]>>>>, <<>>}
      OBVIOUS
    <3> HIDE DEF parts
    <3> QED BY <3>3, <3>4
  <2>2. DOMAIN made = 1..Len(made) /\ Len(made) \in Nat /\ DOMAIN parts = DOMAIN made /\ parts = [c \in DOMAIN made |-> parts[c]]
    BY <1>2
  <2> HIDE DEF parts
  <2> QED BY <2>1, <2>2
<1>4. Kept(text, s) = FlattenSeq(parts)
    BY DEF Kept
<1>5. FlattenSeq(parts) \in Seq(Pieces) /\ \A i \in DOMAIN parts : \A h \in DOMAIN parts[i] :
         \E k \in DOMAIN FlattenSeq(parts) : FlattenSeq(parts)[k] = parts[i][h]
  <2> HIDE DEF parts
  <2> QED BY <1>3, PutTogether
<1>6. ASSUME NEW j \in DOMAIN text[s], InKept(text[s], made, j)
      PROVE  \E k \in DOMAIN Kept(text, s) :
                Kept(text, s)[k][1] = s /\ j \in Kept(text, s)[k][2][1]..Kept(text, s)[k][2][2]
  <2> HIDE DEF made
  <2>1. PICK c \in DOMAIN made : j \in made[c][1]..made[c][2] /\ IsKept(c)
    BY <1>6 DEF InKept
  <2> HIDE DEF IsKept
  <2>2. c \in DOMAIN parts /\ parts[c] = <<<<s, made[c]>>>>
    BY <2>1
  <2>3. 1 \in DOMAIN parts[c] /\ parts[c][1] = <<s, made[c]>>
    BY <2>2
  <2> HIDE DEF parts
  <2>4. PICK k \in DOMAIN FlattenSeq(parts) : FlattenSeq(parts)[k] = <<s, made[c]>>
    <3>1. \E k \in DOMAIN FlattenSeq(parts) : FlattenSeq(parts)[k] = parts[c][1]
      BY <1>5, <2>2, <2>3
    <3> QED BY <2>3, <3>1
  <2>5. k \in DOMAIN Kept(text, s) /\ Kept(text, s)[k] = <<s, made[c]>>
    BY <1>4, <2>4
  <2>6. Kept(text, s)[k][1] = s /\ Kept(text, s)[k][2] = made[c]
    BY <2>5
  <2> QED BY <2>1, <2>5, <2>6
<1> QED BY <1>4, <1>5, <1>6

\* The chunks of a text, in one sequence.
LEMMA ChunksOf ==
    ASSUME NEW text \in Seq(Seq(Nat))
    PROVE  /\ Chunks(text) \in Seq(Pieces)
           /\ \A s \in DOMAIN text : \A k \in DOMAIN Kept(text, s) :
                \E h \in DOMAIN Chunks(text) : Chunks(text)[h] = Kept(text, s)[k]
<1> DEFINE parts == [s \in DOMAIN text |-> Kept(text, s)]
<1>1. DOMAIN text = 1..Len(text) /\ Len(text) \in Nat
    OBVIOUS
<1>2. parts \in Seq(Seq(Pieces))
  <2>1. \A s \in 1..Len(text) : Kept(text, s) \in Seq(Pieces)
    BY <1>1, KeptOf
  <2> QED BY <1>1, <2>1
<1>3. Chunks(text) = FlattenSeq(parts) /\ DOMAIN parts = DOMAIN text /\ \A s \in DOMAIN text : parts[s] = Kept(text, s)
    BY DEF Chunks
<1>4. FlattenSeq(parts) \in Seq(Pieces) /\ \A i \in DOMAIN parts : \A h \in DOMAIN parts[i] :
         \E k \in DOMAIN FlattenSeq(parts) : FlattenSeq(parts)[k] = parts[i][h]
  <2> HIDE DEF parts
  <2> QED BY <1>2, PutTogether
<1> HIDE DEF parts
<1> QED BY <1>3, <1>4

\* Chunking leaves out of any section less than one smallest chunk, whatever its sentences (chunk_document).
THEOREM ChunkingLosesLittle ==
    ASSUME NEW text \in Seq(Seq(Nat)), NEW s \in DOMAIN text
    PROVE  SumFunctionOnSet(text[s], Lost(text, s)) < MinChunk
<1> DEFINE sizes == text[s]
           n == Len(sizes)
<1>1. sizes \in Seq(Nat) /\ n \in Nat /\ DOMAIN sizes = 1..n /\ MinChunk \in Nat \ {0}
    BY MaterialConstants
<1>2. PICK a \in 1..(n + 1) :
         /\ Span(sizes, a, n) < MinChunk
         /\ \A j \in 1..n : j < a => InKept(sizes, OfSection(sizes), j)
    BY <1>1, SectionCovers
<1>3. Lost(text, s) \subseteq a..n
  <2>1. ASSUME NEW j \in Lost(text, s), j < a PROVE FALSE
    <3>1. j \in DOMAIN sizes /\ \A c \in Range(Chunks(text)) : c[1] = s => j \notin c[2][1]..c[2][2]
      BY <2>1 DEF Lost
    <3>2. InKept(sizes, OfSection(sizes), j)
      BY <1>1, <1>2, <2>1, <3>1
    <3>3. PICK k \in DOMAIN Kept(text, s) :
             Kept(text, s)[k][1] = s /\ j \in Kept(text, s)[k][2][1]..Kept(text, s)[k][2][2]
      BY <3>1, <3>2, KeptOf
    <3>4. PICK h \in DOMAIN Chunks(text) : Chunks(text)[h] = Kept(text, s)[k]
      BY ChunksOf
    <3>5. Kept(text, s)[k] \in Range(Chunks(text))
      BY <3>4 DEF Range
    <3> QED BY <3>1, <3>3, <3>5
  <2>2. Lost(text, s) \subseteq 1..n
    BY <1>1 DEF Lost
  <2> QED BY <1>1, <2>1, <2>2
<1>4. IsFiniteSet(a..n) /\ \A i \in a..n : sizes[i] \in Nat
  <2>1. a \in Int /\ n \in Int /\ a..n \subseteq 1..n
    BY <1>1
  <2>2. IsFiniteSet(a..n)
    BY <2>1, FS_Interval
  <2> QED BY <1>1, <2>1, <2>2
<1>5. /\ SumFunctionOnSet(sizes, Lost(text, s)) \in Nat
      /\ SumFunctionOnSet(sizes, Lost(text, s)) <= SumFunctionOnSet(sizes, a..n)
  <2> HIDE DEF sizes
  <2> QED BY <1>3, <1>4, SumOfPart
<1>6. SumFunctionOnSet(sizes, a..n) \in Nat /\ SumFunctionOnSet(sizes, a..n) <= Span(sizes, a, n) /\ Span(sizes, a, n) \in Nat
  <2>1. a \in Nat \ {0} /\ n \in 0..Len(sizes)
    BY <1>1
  <2>2. SumFunctionOnSet(sizes, a..n) \in Nat
    BY <1>4, SumOfPart
  <2> QED BY <1>1, <2>1, <2>2, SpanIsNumber
<1> QED BY <1>1, <1>2, <1>5, <1>6

Statuses == {"absent", "stored", "pending", "processing", "ready", "failed", "gone"}

\* The background tasks: an idle one holds nothing, another works on a material.
RunTypes ==
    \A r \in Runs :
        /\ DOMAIN run[r] = {"of", "at", "made", "saved"}
        /\ run[r].at \in {"idle", "start", "parse", "embed", "save"} /\ run[r].saved \in Nat
        /\ run[r].at # "idle" => run[r].of \in Uploads
        /\ run[r].at = "idle" => run[r] = NoRun

MaterialTypes ==
    /\ DOMAIN material = Uploads /\ DOMAIN rows = Uploads /\ DOMAIN redoing = Uploads /\ DOMAIN run = Runs
    /\ \A m \in Uploads :
        /\ DOMAIN material[m] = {"status", "count", "text"}
        /\ material[m].status \in Statuses /\ material[m].text \in Texts
        /\ redoing[m] \in Nat
    /\ RunTypes

\* A file is there before its row, and goes after it.
FilesKept ==
    \A m \in Uploads :
        /\ material[m].status = "stored" \/ Row(m) => m \in files
        /\ m \in closing => material[m].status = "gone"

\* Nothing is stored of a material that has no row yet, or is reprocessed alone.
Fresh(m) ==
    /\ material[m].status \in {"absent", "stored"} => ~Busy(m) /\ rows[m] = <<>> /\ redoing[m] = 0
    /\ redoing[m] > 0 /\ m \notin spoiled => redoing[m] = 1 /\ ~Busy(m) /\ rows[m] = <<>>

\* How far a task that runs alone has come.
Progress(r) ==
    LET m == run[r].of  made == Chunks(material[m].text) IN
    /\ run[r].at \in {"start", "parse", "embed"} => rows[m] = <<>> /\ run[r].saved = 0
    /\ run[r].at \in {"embed", "save"} => run[r].made = made
    /\ run[r].at = "save" => run[r].saved \in 0..Len(made) /\ rows[m] = SubSeq(made, 1, run[r].saved)

Undisturbed(m) == Row(m) /\ m \notin spoiled
RunsAlone(m) == \A r, s \in Runs : run[r].of = m /\ run[s].of = m => r = s
Progresses(m) == \A r \in Runs : run[r].of = m => Progress(r)
StoredWhole(m) ==
    ~Busy(m) /\ redoing[m] = 0 /\ material[m].status = "ready" =>
        rows[m] = Chunks(material[m].text) /\ material[m].count = Len(rows[m])
Processed(m) == Undisturbed(m) => RunsAlone(m) /\ Progresses(m) /\ StoredWhole(m)
MaterialInv == MaterialTypes /\ FilesKept /\ \A m \in Uploads : Fresh(m) /\ Processed(m)

\* Of an upload, its row and its text.
LEMMA ChunksOfUpload ==
    ASSUME MaterialTypes, NEW m \in Uploads
    PROVE  Chunks(material[m].text) \in Seq(Pieces) /\ material[m].text \in Seq(Seq(Nat))
<1>1. material[m].text \in Seq(Seq(Nat))
    BY MaterialConstants DEF MaterialTypes
<1> QED BY <1>1, ChunksOf

\* The first and the last of the first so many pieces.
LEMMA FirstPieces ==
    ASSUME NEW made \in Seq(Pieces)
    PROVE  /\ SubSeq(made, 1, Len(made)) = made /\ SubSeq(made, 1, 0) = <<>>
           /\ \A n \in Nat : n < Len(made) => Append(SubSeq(made, 1, n), made[n + 1]) = SubSeq(made, 1, n + 1)
<1>1. SubSeq(made, 1, Len(made)) = made /\ SubSeq(made, 1, 0) = <<>>
    BY SubSeqFull, SubSeqEmpty
<1>2. ASSUME NEW n \in Nat, n < Len(made)
      PROVE  Append(SubSeq(made, 1, n), made[n + 1]) = SubSeq(made, 1, n + 1)
  <2>1. Len(made) \in Nat /\ 1..n \subseteq 1..Len(made) /\ 1..(n + 1) \subseteq 1..Len(made) /\ \A i \in 1..Len(made) : made[i] \in Pieces
    BY <1>2
  <2> DEFINE s == SubSeq(made, 1, n)
             t == SubSeq(made, 1, n + 1)
  <2>2. s \in Seq(Pieces) /\ Len(s) = n /\ \A i \in 1..n : s[i] = made[i]
    BY <2>1, SubSeqProperties
  <2>3. t \in Seq(Pieces) /\ Len(t) = n + 1 /\ \A i \in 1..(n + 1) : t[i] = made[i]
    BY <2>1, SubSeqProperties
  <2> HIDE DEF s, t
  <2>4. made[n + 1] \in Pieces
    BY <1>2, <2>1
  <2>5. /\ Append(s, made[n + 1]) \in Seq(Pieces) /\ Len(Append(s, made[n + 1])) = n + 1
        /\ \A i \in 1..(n + 1) : Append(s, made[n + 1])[i] = made[i]
    <3> DEFINE u == Append(s, made[n + 1])
    <3>1. u \in Seq(Pieces) /\ Len(u) = Len(s) + 1 /\ (\A i \in 1..Len(s) : u[i] = s[i]) /\ u[Len(s) + 1] = made[n + 1]
      BY <2>2, <2>4, AppendProperties
    <3> HIDE DEF u
    <3>2. ASSUME NEW i \in 1..(n + 1) PROVE u[i] = made[i]
      <4>1. i \in 1..n \/ i = n + 1
        OBVIOUS
      <4> QED BY <2>2, <3>1, <4>1
    <3> QED BY <2>2, <3>1, <3>2 DEF u
  <2> DEFINE u == Append(s, made[n + 1])
  <2>6. u \in Seq(Pieces) /\ Len(u) = Len(t) /\ t \in Seq(Pieces) /\ \A i \in 1..Len(u) : u[i] = t[i]
    BY <2>3, <2>5
  <2> HIDE DEF u
  <2>7. u = t
    BY <2>6, SeqEqual
  <2> QED BY <2>7 DEF u, s, t
<1> QED BY <1>1, <1>2

\* Nothing is uploaded at first.
LEMMA MaterialInvInit == MaterialInit => MaterialInv
<1> SUFFICES ASSUME MaterialInit PROVE MaterialInv
    OBVIOUS
<1>1. \A r \in Runs : run[r] = NoRun
    BY DEF MaterialInit
<1>2. \A m \in Uploads : material[m].status = "absent" /\ DOMAIN material[m] = {"status", "count", "text"} /\ material[m].text \in Texts
    BY DEF MaterialInit
<1>3. MaterialTypes
  <2>1. RunTypes
    BY <1>1 DEF RunTypes, NoRun
  <2> QED BY <1>2, <2>1 DEF MaterialInit, MaterialTypes, Statuses
<1>4. FilesKept
    BY <1>2 DEF MaterialInit, FilesKept, Row
<1>5. ASSUME NEW m \in Uploads PROVE Fresh(m) /\ Processed(m)
  <2>1. ~Busy(m)
    BY <1>1, MaterialConstants DEF Busy, NoRun
  <2>2. ~Undisturbed(m)
    BY <1>2 DEF Undisturbed, Row
  <2>3. rows[m] = <<>> /\ redoing[m] = 0
    BY DEF MaterialInit
  <2> QED BY <2>1, <2>2, <2>3 DEF Fresh, Processed
<1> QED BY <1>3, <1>4, <1>5 DEF MaterialInv

\* What is said of a material whose row, chunks, request and tasks a step leaves alone stays true.
LEMMA Untouched ==
    ASSUME NEW n \in Uploads, Fresh(n), Processed(n),
           material'[n] = material[n], rows'[n] = rows[n], redoing'[n] = redoing[n], n \in spoiled => n \in spoiled',
           \A r \in Runs : run[r].of = n \/ run'[r].of = n => run'[r] = run[r]
    PROVE  Fresh(n)' /\ Processed(n)'
<1>1. (Busy(n)' <=> Busy(n)) /\ (Row(n)' <=> Row(n))
    BY DEF Busy, Row
<1>2. Fresh(n)'
    BY <1>1 DEF Fresh
<1>3. Undisturbed(n)' => Undisturbed(n)
    BY <1>1 DEF Undisturbed
<1>4. RunsAlone(n) => RunsAlone(n)'
    BY DEF RunsAlone
<1>5. Progresses(n) => Progresses(n)'
  <2>1. ASSUME Progresses(n), NEW r \in Runs, run'[r].of = n PROVE Progress(r)'
    <3>1. run'[r] = run[r] /\ Progress(r)
      BY <2>1 DEF Progresses
    <3> QED BY <2>1, <3>1 DEF Progress
  <2> QED BY <2>1 DEF Progresses
<1>6. StoredWhole(n) => StoredWhole(n)'
    BY <1>1 DEF StoredWhole
<1> QED BY <1>2, <1>3, <1>4, <1>5, <1>6 DEF Processed

\* Files stay with the rows they belong to when no file goes and no row comes.
LEMMA FilesStay ==
    ASSUME FilesKept, UNCHANGED <<files, closing>>,
           \A n \in Uploads : /\ material'[n].status = "stored" \/ Row(n)' => material[n].status = "stored" \/ Row(n)
                              /\ material[n].status = "gone" => material'[n].status = "gone"
    PROVE  FilesKept'
    BY DEF FilesKept

\* The status of a material that has a row moves, and nothing else of any material.
StatusMoves(m) ==
    /\ DOMAIN material' = Uploads
    /\ \A n \in Uploads :
        /\ DOMAIN material'[n] = {"status", "count", "text"} /\ material'[n].text = material[n].text
        /\ n # m => material'[n] = material[n]
        /\ \/ material'[n].status = material[n].status
           \/ Row(n) /\ material'[n].status \in {"processing", "ready", "failed"}

\* An update that finds no row changes nothing.
LEMMA StatusEffect ==
    ASSUME MaterialTypes, NEW m \in Uploads, NEW status \in {"processing", "ready", "failed"}, NEW count,
           Status(m, status, count)
    PROVE  StatusMoves(m) /\ (Row(m) => material'[m].status = status /\ material'[m].count = count)
<1>1. CASE Row(m)
  <2>1. material' = [material EXCEPT ![m].status = status, ![m].count = count]
    BY <1>1 DEF Status
  <2> QED BY <1>1, <2>1 DEF MaterialTypes, StatusMoves
<1>2. CASE ~Row(m)
    BY <1>2 DEF Status, MaterialTypes, StatusMoves
<1> QED BY <1>1, <1>2

\* A step of a task: of its own material it has to say how far the task has come, or that it is stored whole.
LEMMA TaskStep ==
    ASSUME MaterialInv, NEW r \in Runs, run[r].at # "idle", NEW m, m = run[r].of, NEW x,
           DOMAIN x = {"of", "at", "made", "saved"}, x.saved \in Nat,
           \/ x.of = m /\ x.at \in {"parse", "embed", "save"}
           \/ x = NoRun,
           run' = [run EXCEPT ![r] = x], UNCHANGED <<redoing, files, closing>>, StatusMoves(m),
           DOMAIN rows' = Uploads, \A n \in Uploads : n # m => rows'[n] = rows[n], spoiled \subseteq spoiled',
           Undisturbed(m)' /\ Undisturbed(m) /\ Progress(r) =>
               (x # NoRun => Progress(r)') /\ (x = NoRun => StoredWhole(m)')
    PROVE  MaterialInv'
<1>1. MaterialTypes /\ FilesKept /\ \A n \in Uploads : Fresh(n) /\ Processed(n)
    BY DEF MaterialInv
<1>2. /\ m \in Uploads /\ m # "none" /\ DOMAIN run' = Runs /\ run'[r] = x
      /\ \A s \in Runs : s # r => run'[s] = run[s]
    BY <1>1, MaterialConstants DEF MaterialTypes, RunTypes
<1>3. Busy(m) /\ (x = NoRun => x.of = "none" /\ x.at = "idle")
    BY <1>2 DEF Busy, NoRun
<1>4. \A n \in Uploads : /\ Row(n)' <=> Row(n)
                         /\ material'[n].status = material[n].status \/ material'[n].status \in {"processing", "ready", "failed"}
    BY DEF StatusMoves, Row
<1>5. MaterialTypes'
  <2>1. RunTypes'
    <3>1. ASSUME NEW s \in Runs
          PROVE  /\ DOMAIN run'[s] = {"of", "at", "made", "saved"}
                 /\ run'[s].at \in {"idle", "start", "parse", "embed", "save"} /\ run'[s].saved \in Nat
                 /\ run'[s].at # "idle" => run'[s].of \in Uploads
                 /\ run'[s].at = "idle" => run'[s] = NoRun
      <4>1. CASE s = r
        BY <1>2, <1>3, <4>1
      <4>2. CASE s # r
        BY <1>1, <1>2, <4>2 DEF MaterialTypes, RunTypes
      <4> QED BY <4>1, <4>2
    <3> QED BY <3>1 DEF RunTypes
  <2>2. \A n \in Uploads : material'[n].status \in Statuses /\ material'[n].text \in Texts
    BY <1>1, <1>4 DEF MaterialTypes, StatusMoves, Statuses
  <2> QED BY <1>1, <1>2, <2>1, <2>2 DEF MaterialTypes, StatusMoves
<1>6. FilesKept'
  <2>1. \A n \in Uploads : /\ material'[n].status = "stored" => material[n].status = "stored"
                           /\ material[n].status = "gone" => material'[n].status = "gone"
    BY DEF StatusMoves, Row
  <2> QED BY <1>1, <1>4, <2>1, FilesStay
<1>7. ASSUME NEW n \in Uploads, n # m PROVE Fresh(n)' /\ Processed(n)'
  <2>1. material'[n] = material[n] /\ rows'[n] = rows[n] /\ redoing'[n] = redoing[n] /\ (n \in spoiled => n \in spoiled')
    BY <1>7 DEF StatusMoves
  <2>2. ASSUME NEW s \in Runs, run[s].of = n \/ run'[s].of = n PROVE run'[s] = run[s]
    <3>1. CASE s = r
      <4>1. n # "none"
        BY <1>7, MaterialConstants
      <4> QED BY <1>2, <1>3, <1>7, <2>2, <3>1, <4>1
    <3> QED BY <1>2, <3>1
  <2> QED BY <1>1, <2>1, <2>2, Untouched
<1>8. Fresh(m)'
  <2>1. material[m].status \notin {"absent", "stored"} /\ ~(redoing[m] > 0 /\ m \notin spoiled)
    BY <1>1, <1>2, <1>3 DEF Fresh
  <2>2. material'[m].status \notin {"absent", "stored"} /\ ~(redoing'[m] > 0 /\ m \notin spoiled')
    BY <1>2, <1>4, <2>1
  <2> QED BY <2>2 DEF Fresh
<1>9. Processed(m)'
  <2>1. SUFFICES ASSUME Undisturbed(m)' PROVE RunsAlone(m)' /\ Progresses(m)' /\ StoredWhole(m)'
    BY DEF Processed
  <2>2. Undisturbed(m)
    BY <1>2, <1>4, <2>1 DEF Undisturbed
  <2>3. RunsAlone(m) /\ Progress(r)
    BY <1>1, <1>2, <2>2 DEF Processed, Progresses
  <2>4. \A s \in Runs : run'[s].of = m => s = r
    BY <1>2, <2>3 DEF RunsAlone
  <2>5. RunsAlone(m)'
    BY <2>4 DEF RunsAlone
  <2>6. x # NoRun => Progress(r)'
    BY <2>1, <2>2, <2>3
  <2>7. Progresses(m)'
    BY <1>2, <1>3, <2>4, <2>6 DEF Progresses
  <2>8. CASE x = NoRun
    BY <2>1, <2>2, <2>3, <2>5, <2>7, <2>8
  <2>9. CASE x # NoRun
    <3>1. Busy(m)'
      BY <1>2, <2>9 DEF Busy
    <3>2. StoredWhole(m)'
      BY <3>1 DEF StoredWhole
    <3> QED BY <2>5, <2>7, <3>2
  <2> QED BY <2>8, <2>9
<1> QED BY <1>5, <1>6, <1>7, <1>8, <1>9 DEF MaterialInv

\* A task that begins.
LEMMA BeginStep ==
    ASSUME MaterialInv, NEW r \in Runs, Begin(r)
    PROVE  MaterialInv'
<1>0. PICK m \in Uploads : m = run[r].of
    BY DEF MaterialInv, MaterialTypes, RunTypes, Begin
<1> DEFINE x == [run[r] EXCEPT !.at = "parse"]
<1>1. MaterialTypes /\ run[r].at = "start" /\ m \in Uploads /\ DOMAIN run[r] = {"of", "at", "made", "saved"} /\ run[r].saved \in Nat
    BY <1>0 DEF MaterialInv, MaterialTypes, RunTypes, Begin
<1>2. StatusMoves(m)
    BY <1>0, <1>1, StatusEffect DEF Begin
<1>3. run' = [run EXCEPT ![r] = x] /\ UNCHANGED <<rows, redoing, files, closing, spoiled>>
    BY DEF Begin
<1>4. DOMAIN x = {"of", "at", "made", "saved"} /\ x.of = m /\ x.at = "parse" /\ x.saved = run[r].saved
    BY <1>0, <1>1
<1>5. run'[r] = x /\ DOMAIN rows' = Uploads /\ material'[m].text = material[m].text
    BY <1>0, <1>1, <1>2, <1>3 DEF MaterialTypes, StatusMoves
<1> HIDE DEF x
<1>6. Progress(r) => Progress(r)'
    BY <1>0, <1>1, <1>3, <1>4, <1>5 DEF Progress
<1>7. x # NoRun
    BY <1>4 DEF NoRun
<1> QED BY <1>0, <1>1, <1>2, <1>3, <1>4, <1>5, <1>6, <1>7, TaskStep

\* A text is parsed and cut into chunks.
LEMMA ParseStep ==
    ASSUME MaterialInv, NEW r \in Runs, ParseAndChunk(r)
    PROVE  MaterialInv'
<1>0. PICK m \in Uploads : m = run[r].of
    BY DEF MaterialInv, MaterialTypes, RunTypes, ParseAndChunk
<1> DEFINE made == Chunks(material[m].text)
           x == IF made = <<>> THEN NoRun ELSE [run[r] EXCEPT !.at = "embed", !.made = made]
<1>1. MaterialTypes /\ run[r].at = "parse" /\ m \in Uploads /\ DOMAIN run[r] = {"of", "at", "made", "saved"} /\ run[r].saved \in Nat
    BY <1>0 DEF MaterialInv, MaterialTypes, RunTypes, ParseAndChunk
<1>2. StatusMoves(m) /\ (made = <<>> /\ Row(m) => material'[m].status = "failed")
  <2>1. CASE made = <<>>
    BY <1>0, <1>1, <2>1, StatusEffect DEF ParseAndChunk
  <2>2. CASE made # <<>>
    BY <1>0, <1>1, <2>2 DEF ParseAndChunk, StatusMoves, MaterialTypes
  <2> QED BY <2>1, <2>2
<1>3. run' = [run EXCEPT ![r] = x] /\ UNCHANGED <<rows, redoing, files, closing, spoiled>>
    BY <1>0 DEF ParseAndChunk
<1>4. /\ DOMAIN x = {"of", "at", "made", "saved"} /\ x.saved \in Nat
      /\ made # <<>> => x.of = m /\ x.at = "embed" /\ x.made = made /\ x.saved = run[r].saved
      /\ made = <<>> => x = NoRun
    BY <1>0, <1>1 DEF NoRun
<1>5. run'[r] = x /\ DOMAIN rows' = Uploads /\ material'[m].text = material[m].text
    BY <1>0, <1>1, <1>2, <1>3 DEF MaterialTypes, StatusMoves
<1> HIDE DEF x
<1>6. Progress(r) /\ made # <<>> => Progress(r)'
    BY <1>0, <1>1, <1>3, <1>4, <1>5 DEF Progress
<1>7. Undisturbed(m) /\ made = <<>> => StoredWhole(m)'
    BY <1>2 DEF Undisturbed, StoredWhole
<1>8. x = NoRun <=> made = <<>>
    BY <1>4 DEF NoRun
<1>9. (x.of = m /\ x.at \in {"parse", "embed", "save"}) \/ x = NoRun
    BY <1>4
<1> QED BY <1>0, <1>1, <1>2, <1>3, <1>4, <1>5, <1>6, <1>7, <1>8, <1>9, TaskStep

\* The chunks are paired with as many embeddings as came.
LEMMA EmbedStep ==
    ASSUME MaterialInv, NEW r \in Runs, Embed(r)
    PROVE  MaterialInv'
<1>0. PICK m \in Uploads : m = run[r].of
    BY DEF MaterialInv, MaterialTypes, RunTypes, Embed
<1>1. MaterialTypes /\ run[r].at = "embed" /\ m \in Uploads /\ DOMAIN run[r] = {"of", "at", "made", "saved"} /\ run[r].saved \in Nat
    BY <1>0 DEF MaterialInv, MaterialTypes, RunTypes, Embed
<1>2. PICK n \in 0..Len(run[r].made) :
         /\ run' = [run EXCEPT ![r].at = "save", ![r].made = SubSeq(@, 1, n)]
         /\ IF n = Len(run[r].made) THEN UNCHANGED <<slips, spoiled>> ELSE Slip /\ spoiled' = spoiled \cup {run[r].of}
    BY DEF Embed
<1> DEFINE x == [run[r] EXCEPT !.at = "save", !.made = SubSeq(run[r].made, 1, n)]
<1>3. run' = [run EXCEPT ![r] = x] /\ UNCHANGED <<material, rows, redoing, files, closing>>
    BY <1>2 DEF Embed
<1>4. DOMAIN x = {"of", "at", "made", "saved"} /\ x.of = m /\ x.at = "save" /\ x.saved = run[r].saved
      /\ x.made = SubSeq(run[r].made, 1, n)
    BY <1>0, <1>1
<1>5. run'[r] = x /\ DOMAIN rows' = Uploads /\ StatusMoves(m)
    BY <1>0, <1>1, <1>3 DEF MaterialTypes, StatusMoves
<1> HIDE DEF x
<1>6. spoiled \subseteq spoiled' /\ (n = Len(run[r].made) \/ m \in spoiled')
    BY <1>0, <1>2
<1>7. Progress(r) /\ Undisturbed(m)' => Progress(r)'
  <2>1. SUFFICES ASSUME Progress(r), Undisturbed(m)' PROVE Progress(r)'
    OBVIOUS
  <2> DEFINE made == Chunks(material[m].text)
  <2>2. rows[m] = <<>> /\ run[r].saved = 0 /\ run[r].made = made
    BY <1>0, <1>1, <2>1 DEF Progress
  <2>3. made \in Seq(Pieces)
    BY <1>0, <1>1, ChunksOfUpload
  <2>4. n = Len(made)
    BY <1>6, <2>1, <2>2 DEF Undisturbed
  <2> HIDE DEF made
  <2>5. SubSeq(made, 1, Len(made)) = made /\ SubSeq(made, 1, 0) = <<>> /\ Len(made) \in Nat
    BY <2>3, FirstPieces
  <2>6. x.made = made /\ x.saved = 0
    BY <1>4, <2>2, <2>4, <2>5
  <2>7. run'[r].of = m /\ run'[r].at = "save" /\ run'[r].made = made /\ run'[r].saved = 0
        /\ rows'[m] = SubSeq(made, 1, 0) /\ material'[m].text = material[m].text
    BY <1>3, <1>4, <1>5, <2>2, <2>5, <2>6
  <2> QED BY <2>5, <2>7 DEF Progress, made
<1>8. x # NoRun
    BY <1>4 DEF NoRun
<1> QED BY <1>0, <1>1, <1>3, <1>4, <1>5, <1>6, <1>7, <1>8, TaskStep

\* One chunk more is stored.
LEMMA SaveStep ==
    ASSUME MaterialInv, NEW r \in Runs, SaveChunk(r)
    PROVE  MaterialInv'
<1>0. PICK m \in Uploads : m = run[r].of
    BY DEF MaterialInv, MaterialTypes, RunTypes, SaveChunk
<1> DEFINE x == [run[r] EXCEPT !.saved = run[r].saved + 1]
<1>1. MaterialTypes /\ run[r].at = "save" /\ m \in Uploads /\ DOMAIN run[r] = {"of", "at", "made", "saved"}
      /\ run[r].saved \in Nat /\ run[r].saved < Len(run[r].made)
    BY <1>0 DEF MaterialInv, MaterialTypes, RunTypes, SaveChunk
<1>2. run' = [run EXCEPT ![r] = x] /\ UNCHANGED <<material, redoing, files, closing, spoiled>>
    BY DEF SaveChunk
<1>3. DOMAIN x = {"of", "at", "made", "saved"} /\ x.of = m /\ x.at = "save" /\ x.saved = run[r].saved + 1
      /\ x.made = run[r].made
    BY <1>0, <1>1
<1>4. /\ run'[r] = x /\ DOMAIN rows' = Uploads /\ StatusMoves(m) /\ x.saved \in Nat
      /\ rows'[m] = Append(rows[m], run[r].made[run[r].saved + 1]) /\ \A n \in Uploads : n # m => rows'[n] = rows[n]
    BY <1>0, <1>1, <1>2, <1>3 DEF MaterialTypes, StatusMoves, SaveChunk
<1> HIDE DEF x
<1>5. Progress(r) => Progress(r)'
  <2>1. SUFFICES ASSUME Progress(r) PROVE Progress(r)'
    OBVIOUS
  <2> DEFINE made == Chunks(material[m].text)
             k == run[r].saved
  <2>2. run[r].made = made /\ rows[m] = SubSeq(made, 1, k) /\ k \in Nat /\ k < Len(made)
    BY <1>0, <1>1, <2>1 DEF Progress
  <2>3. made \in Seq(Pieces)
    BY <1>0, <1>1, ChunksOfUpload
  <2> HIDE DEF made, k
  <2>4. Append(SubSeq(made, 1, k), made[k + 1]) = SubSeq(made, 1, k + 1) /\ Len(made) \in Nat
    BY <2>2, <2>3, FirstPieces
  <2>5. /\ run'[r].of = m /\ run'[r].at = "save" /\ run'[r].made = made /\ run'[r].saved = k + 1
        /\ rows'[m] = SubSeq(made, 1, k + 1) /\ k + 1 \in 0..Len(made) /\ material'[m].text = material[m].text
    BY <1>2, <1>3, <1>4, <2>2, <2>4 DEF k
  <2> QED BY <2>5 DEF Progress, made
<1>6. x # NoRun
    BY <1>3 DEF NoRun
<1> QED BY <1>0, <1>1, <1>2, <1>3, <1>4, <1>5, <1>6, TaskStep

\* A task ends: its material is ready, or has failed.
LEMMA EndStep ==
    ASSUME MaterialInv, NEW r \in Runs, MarkReady(r) \/ MarkFailed(r)
    PROVE  MaterialInv'
<1>0. PICK m \in Uploads : m = run[r].of
    BY DEF MaterialInv, MaterialTypes, RunTypes, MarkReady, MarkFailed
<1> DEFINE x == NoRun
<1>1. MaterialTypes /\ run[r].at # "idle" /\ m \in Uploads
    BY <1>0 DEF MaterialInv, MaterialTypes, RunTypes, MarkReady, MarkFailed
<1>2. run' = [run EXCEPT ![r] = x] /\ UNCHANGED <<rows, redoing, files, closing, spoiled>>
    BY DEF MarkReady, MarkFailed
<1>3. DOMAIN x = {"of", "at", "made", "saved"} /\ x.saved \in Nat
    BY DEF NoRun
<1>4. DOMAIN rows' = Uploads
    BY <1>0, <1>1, <1>2 DEF MaterialTypes
<1>5. CASE MarkReady(r)
  <2>1. StatusMoves(m) /\ (Row(m) => material'[m].status = "ready" /\ material'[m].count = Len(run[r].made))
    BY <1>0, <1>1, <1>5, StatusEffect DEF MarkReady
  <2>2. Undisturbed(m) /\ Progress(r) => StoredWhole(m)'
    <3>1. SUFFICES ASSUME Undisturbed(m), Progress(r) PROVE StoredWhole(m)'
      OBVIOUS
    <3> DEFINE made == Chunks(material[m].text)
    <3>2. run[r].made = made /\ rows[m] = SubSeq(made, 1, run[r].saved) /\ run[r].saved = Len(made)
      BY <1>0, <1>5, <3>1 DEF Progress, MarkReady
    <3>3. rows[m] = made
      <4>1. made \in Seq(Pieces)
        BY <1>0, <1>1, ChunksOfUpload
      <4> HIDE DEF made
      <4> QED BY <3>2, <4>1, FirstPieces
    <3>4. rows'[m] = made /\ material'[m].text = material[m].text /\ material'[m].count = Len(made)
      BY <1>0, <1>1, <1>2, <2>1, <3>1, <3>2, <3>3 DEF StatusMoves, Undisturbed
    <3> QED BY <3>4 DEF StoredWhole
  <2> HIDE DEF x
  <2> QED BY <1>0, <1>1, <1>2, <1>3, <1>4, <2>1, <2>2, TaskStep DEF x
<1>6. CASE MarkFailed(r)
  <2>1. StatusMoves(m) /\ (Row(m) => material'[m].status = "failed")
    BY <1>0, <1>1, <1>6, StatusEffect DEF MarkFailed
  <2>2. Undisturbed(m) => StoredWhole(m)'
    BY <2>1 DEF Undisturbed, StoredWhole
  <2> HIDE DEF x
  <2> QED BY <1>0, <1>1, <1>2, <1>3, <1>4, <2>1, <2>2, TaskStep DEF x
<1> QED BY <1>5, <1>6

\* A step that moves no task, and concerns one material.
LEMMA RequestStep ==
    ASSUME MaterialInv, NEW m \in Uploads,
           StoreFile(m) \/ UploadFails(m) \/ DeleteRow(m) \/ DeleteFile(m) \/ DropChunks(m) \/ DownloadFails(m)
    PROVE  MaterialInv'
<1>1. MaterialTypes /\ FilesKept /\ Fresh(m) /\ Processed(m) /\ run' = run
      /\ \A n \in Uploads : Fresh(n) /\ Processed(n)
    BY DEF MaterialInv, StoreFile, UploadFails, DeleteRow, DeleteFile, DropChunks, DownloadFails
<1>2. /\ DOMAIN material' = Uploads /\ DOMAIN rows' = Uploads /\ DOMAIN redoing' = Uploads
      /\ \A n \in Uploads :
           /\ DOMAIN material'[n] = {"status", "count", "text"} /\ material'[n].text = material[n].text
           /\ n # m => material'[n] = material[n] /\ rows'[n] = rows[n] /\ redoing'[n] = redoing[n]
           /\ n # m /\ n \in spoiled => n \in spoiled'
    BY <1>1 DEF MaterialTypes, StoreFile, UploadFails, DeleteRow, DeleteFile, DropChunks, DownloadFails
<1>3. material'[m].status \in Statuses /\ redoing'[m] \in Nat
    BY <1>1 DEF MaterialTypes, Statuses, StoreFile, UploadFails, DeleteRow, DeleteFile, DropChunks, DownloadFails
<1>4. MaterialTypes'
  <2>1. RunTypes'
    BY <1>1 DEF MaterialTypes, RunTypes
  <2>2. ASSUME NEW n \in Uploads
        PROVE  material'[n].status \in Statuses /\ material'[n].text \in Texts /\ redoing'[n] \in Nat
    BY <1>1, <1>2, <1>3 DEF MaterialTypes
  <2> QED BY <1>1, <1>2, <2>1, <2>2 DEF MaterialTypes
<1>5. FilesKept'
  <2>1. ASSUME NEW n \in Uploads, n # m
        PROVE  (n \in files => n \in files') /\ (n \in closing' => n \in closing) /\ material'[n] = material[n]
    BY <1>2, <2>1 DEF StoreFile, UploadFails, DeleteRow, DeleteFile, DropChunks, DownloadFails
  <2>2. /\ material'[m].status = "stored" \/ Row(m)' => m \in files'
        /\ m \in closing' => material'[m].status = "gone"
    BY <1>1 DEF FilesKept, MaterialTypes, Row, StoreFile, UploadFails, DeleteRow, DeleteFile, DropChunks, DownloadFails
  <2>3. ASSUME NEW n \in Uploads, n # m
        PROVE  /\ material'[n].status = "stored" \/ Row(n)' => n \in files'
               /\ n \in closing' => material'[n].status = "gone"
    BY <1>1, <2>1, <2>3 DEF FilesKept, Row
  <2> QED BY <2>2, <2>3 DEF FilesKept
<1>6. ASSUME NEW n \in Uploads, n # m PROVE Fresh(n)' /\ Processed(n)'
    BY <1>1, <1>2, <1>6, Untouched
<1>7. Busy(m)' <=> Busy(m)
    BY <1>1 DEF Busy
<1>8. Fresh(m)'
  <2>1. CASE DropChunks(m)
    <3>1. redoing'[m] = redoing[m] + 1 /\ rows'[m] = <<>> /\ material' = material /\ Row(m)
          /\ (m \notin spoiled' => ~Busy(m) /\ ~(redoing[m] > 0))
      BY <1>1, <2>1 DEF MaterialTypes, DropChunks
    <3>2. redoing[m] \in Nat
      BY <1>1 DEF MaterialTypes
    <3> QED BY <1>7, <3>1, <3>2 DEF Fresh, Row
  <2>2. CASE DownloadFails(m)
    <3>1. m \in spoiled' /\ redoing[m] > 0 /\ UNCHANGED <<material, rows>>
      BY <2>2 DEF DownloadFails
    <3>2. material[m].status \notin {"absent", "stored"}
      BY <1>1, <3>1 DEF Fresh
    <3> QED BY <3>1, <3>2 DEF Fresh
  <2>3. CASE StoreFile(m) \/ UploadFails(m) \/ DeleteRow(m) \/ DeleteFile(m)
    <3>1. UNCHANGED <<redoing, spoiled>>
      BY <2>3 DEF StoreFile, UploadFails, DeleteRow, DeleteFile
    <3>2. rows'[m] = rows[m] \/ rows'[m] = <<>>
      BY <1>1, <2>3 DEF MaterialTypes, StoreFile, UploadFails, DeleteRow, DeleteFile
    <3>3. material'[m].status \in {"absent", "stored"} => material[m].status \in {"absent", "stored"}
      BY <1>1, <2>3 DEF MaterialTypes, StoreFile, UploadFails, DeleteRow, DeleteFile
    <3> QED BY <1>1, <1>7, <3>1, <3>2, <3>3 DEF Fresh
  <2> QED BY <2>1, <2>2, <2>3
<1>9. Processed(m)'
  <2>1. CASE StoreFile(m) \/ UploadFails(m) \/ DeleteRow(m)
    <3>1. ~Row(m)'
      BY <1>1, <2>1 DEF MaterialTypes, Row, StoreFile, UploadFails, DeleteRow
    <3> QED BY <3>1 DEF Processed, Undisturbed
  <2>2. CASE DeleteFile(m)
    BY <1>1, <2>2, Untouched DEF DeleteFile
  <2>3. CASE DropChunks(m)
    <3>1. CASE Busy(m)
      <4>1. m \in spoiled'
        BY <2>3, <3>1 DEF DropChunks
      <4> QED BY <4>1 DEF Processed, Undisturbed
    <3>2. CASE ~Busy(m)
      <4>1. redoing'[m] # 0
        BY <1>1, <2>3, <3>2 DEF MaterialTypes, DropChunks
      <4>2. \A r \in Runs : run'[r].of # m
        BY <1>7, <3>2 DEF Busy
      <4> QED BY <4>1, <4>2 DEF Processed, RunsAlone, Progresses, StoredWhole
    <3> QED BY <3>1, <3>2
  <2>4. CASE DownloadFails(m)
    <3>1. m \in spoiled'
      BY <2>4 DEF DownloadFails
    <3> QED BY <3>1 DEF Processed, Undisturbed
  <2> QED BY <2>1, <2>2, <2>3, <2>4
<1> QED BY <1>4, <1>5, <1>6, <1>8, <1>9 DEF MaterialInv

\* A task is started: for a new row, or for a material that is processed again.
LEMMA SpawnStep ==
    ASSUME MaterialInv, NEW m \in Uploads, CreateMaterial(m) \/ Respawn(m)
    PROVE  MaterialInv'
<1>1. MaterialTypes /\ FilesKept /\ \A n \in Uploads : Fresh(n) /\ Processed(n)
    BY DEF MaterialInv
<1>2. PICK r \in Runs : run[r] = NoRun /\ run' = [run EXCEPT ![r] = [NoRun EXCEPT !.of = m, !.at = "start"]]
    BY DEF CreateMaterial, Respawn, Spawn
<1> DEFINE x == [NoRun EXCEPT !.of = m, !.at = "start"]
<1>3. DOMAIN x = {"of", "at", "made", "saved"} /\ x.of = m /\ x.at = "start" /\ x.saved = 0
    BY DEF NoRun
<1>4. DOMAIN run' = Runs /\ run'[r] = x /\ (\A s \in Runs : s # r => run'[s] = run[s]) /\ run[r].of = "none" /\ m # "none"
    BY <1>1, <1>2, MaterialConstants DEF MaterialTypes, NoRun
<1> HIDE DEF x
<1>5. /\ DOMAIN material' = Uploads /\ rows' = rows /\ DOMAIN redoing' = Uploads /\ UNCHANGED <<files, closing>>
      /\ \A n \in Uploads :
           /\ DOMAIN material'[n] = {"status", "count", "text"} /\ material'[n].text = material[n].text
           /\ n # m => material'[n] = material[n] /\ redoing'[n] = redoing[n] /\ (n \in spoiled => n \in spoiled')
    BY <1>1 DEF MaterialTypes, CreateMaterial, Respawn
<1>6. material'[m].status \in Statuses /\ redoing'[m] \in Nat /\ spoiled' = spoiled
      /\ (material'[m].status = material[m].status \/ (material[m].status = "stored" /\ material'[m].status = "pending"))
  <2>1. CASE CreateMaterial(m)
    <3>1. redoing[m] = 0 /\ material[m].status = "stored"
      BY <1>1, <2>1 DEF Fresh, CreateMaterial
    <3> QED BY <1>1, <2>1, <3>1 DEF MaterialTypes, Statuses, CreateMaterial
  <2>2. CASE Respawn(m)
    BY <1>1, <2>2 DEF MaterialTypes, Respawn
  <2> QED BY <2>1, <2>2
<1>7. MaterialTypes'
  <2>1. RunTypes'
    <3>1. ASSUME NEW s \in Runs
          PROVE  /\ DOMAIN run'[s] = {"of", "at", "made", "saved"}
                 /\ run'[s].at \in {"idle", "start", "parse", "embed", "save"} /\ run'[s].saved \in Nat
                 /\ run'[s].at # "idle" => run'[s].of \in Uploads
                 /\ run'[s].at = "idle" => run'[s] = NoRun
      <4>1. CASE s = r
        BY <1>3, <1>4, <4>1
      <4>2. CASE s # r
        BY <1>1, <1>4, <4>2 DEF MaterialTypes, RunTypes
      <4> QED BY <4>1, <4>2
    <3> QED BY <3>1 DEF RunTypes
  <2>2. ASSUME NEW n \in Uploads
        PROVE  material'[n].status \in Statuses /\ material'[n].text \in Texts /\ redoing'[n] \in Nat
    BY <1>1, <1>5, <1>6 DEF MaterialTypes
  <2> QED BY <1>1, <1>4, <1>5, <2>1, <2>2 DEF MaterialTypes
<1>8. FilesKept'
  <2>1. ASSUME NEW n \in Uploads
        PROVE  /\ material'[n].status = "stored" \/ Row(n)' => material[n].status = "stored" \/ Row(n)
               /\ material[n].status = "gone" => material'[n].status = "gone"
    BY <1>5, <1>6 DEF Row
  <2> QED BY <1>1, <1>5, <2>1, FilesStay
<1>9. ASSUME NEW n \in Uploads, n # m PROVE Fresh(n)' /\ Processed(n)'
  <2>1. ASSUME NEW s \in Runs, run[s].of = n \/ run'[s].of = n PROVE run'[s] = run[s]
    <3>1. n # "none"
      BY <1>9, MaterialConstants
    <3>2. s # r
      BY <1>3, <1>4, <1>9, <2>1, <3>1
    <3> QED BY <1>4, <3>2
  <2> QED BY <1>1, <1>5, <1>9, <2>1, Untouched
<1>10. CASE CreateMaterial(m) \/ (Respawn(m) /\ m \notin spoiled)
  <2>1. ~Busy(m) /\ rows[m] = <<>>
    BY <1>1, <1>10 DEF Fresh, CreateMaterial, Respawn
  <2>7. redoing'[m] = 0
    <3>1. CASE CreateMaterial(m)
      BY <1>1, <3>1 DEF Fresh, CreateMaterial
    <3>2. CASE Respawn(m) /\ m \notin spoiled
      <4>1. redoing[m] = 1
        BY <1>1, <3>2 DEF Fresh, Respawn
      <4> QED BY <1>1, <3>2, <4>1 DEF MaterialTypes, Respawn
    <3> QED BY <1>10, <3>1, <3>2
  <2>2. \A s \in Runs : run'[s].of = m => s = r
    BY <1>4, <2>1 DEF Busy
  <2>3. Progress(r)'
    BY <1>3, <1>4, <1>5, <2>1 DEF Progress
  <2>4. RunsAlone(m)' /\ Progresses(m)'
    BY <2>2, <2>3 DEF RunsAlone, Progresses
  <2>5. StoredWhole(m)'
    <3>1. Busy(m)'
      BY <1>3, <1>4 DEF Busy
    <3> QED BY <3>1 DEF StoredWhole
  <2>6. Fresh(m)'
    <3>1. material'[m].status \notin {"absent", "stored"}
      <4>1. CASE CreateMaterial(m)
        BY <1>1, <4>1 DEF MaterialTypes, CreateMaterial
      <4>2. CASE Respawn(m)
        BY <1>1, <4>2 DEF Fresh, Respawn
      <4> QED BY <4>1, <4>2
    <3> QED BY <2>7, <3>1 DEF Fresh
  <2> QED BY <1>7, <1>8, <1>9, <2>4, <2>5, <2>6 DEF MaterialInv, Processed
<1>11. CASE Respawn(m) /\ m \in spoiled
  <2>1. m \in spoiled'
    BY <1>6, <1>11
  <2>2. material'[m].status \notin {"absent", "stored"}
    BY <1>1, <1>11 DEF Fresh, Respawn
  <2>3. Fresh(m)' /\ Processed(m)'
    BY <1>6, <2>1, <2>2 DEF Fresh, Processed, Undisturbed
  <2> QED BY <1>7, <1>8, <1>9, <2>3 DEF MaterialInv
<1> QED BY <1>10, <1>11

\* The process ends with every task and request of it: what was under way is spoiled.
LEMMA DeathStep ==
    ASSUME MaterialInv, ProcessDies
    PROVE  MaterialInv'
<1>1. MaterialTypes /\ FilesKept /\ \A n \in Uploads : Fresh(n) /\ Processed(n)
    BY DEF MaterialInv
<1>2. /\ run' = [r \in Runs |-> NoRun] /\ redoing' = [m \in Uploads |-> 0] /\ closing' = {}
      /\ spoiled' = spoiled \cup {m \in Uploads : Busy(m) \/ redoing[m] > 0} /\ UNCHANGED <<rows, files>>
    BY DEF ProcessDies
<1>3. DOMAIN material' = Uploads /\ \A n \in Uploads :
         /\ DOMAIN material'[n] = {"status", "count", "text"} /\ material'[n].text = material[n].text
         /\ material'[n].count = material[n].count
         /\ material'[n].status = IF material[n].status = "stored" THEN "gone" ELSE material[n].status
    BY <1>1 DEF MaterialTypes, ProcessDies
<1>4. MaterialTypes'
  <2>1. RunTypes'
    BY <1>2 DEF RunTypes, NoRun
  <2>2. ASSUME NEW n \in Uploads
        PROVE  material'[n].status \in Statuses /\ material'[n].text \in Texts /\ redoing'[n] \in Nat
    BY <1>1, <1>2, <1>3 DEF MaterialTypes, Statuses
  <2> QED BY <1>1, <1>2, <1>3, <2>1, <2>2 DEF MaterialTypes
<1>5. FilesKept'
    BY <1>1, <1>2, <1>3 DEF FilesKept, Row
<1>6. ASSUME NEW n \in Uploads PROVE Fresh(n)' /\ Processed(n)'
  <2>1. ~Busy(n)' /\ redoing'[n] = 0 /\ \A r \in Runs : run'[r].of # n
    BY <1>2, MaterialConstants DEF Busy, NoRun
  <2>2. Fresh(n)'
    BY <1>1, <1>2, <1>3, <2>1 DEF Fresh
  <2>3. RunsAlone(n)' /\ Progresses(n)'
    BY <2>1 DEF RunsAlone, Progresses
  <2>4. Undisturbed(n)' => StoredWhole(n)'
    <3>1. SUFFICES ASSUME Undisturbed(n)', material'[n].status = "ready" PROVE StoredWhole(n)'
      BY DEF StoredWhole
    <3>2. ~Busy(n) /\ redoing[n] = 0 /\ n \notin spoiled /\ material[n].status = "ready"
      BY <1>1, <1>2, <1>3, <3>1 DEF MaterialTypes, Undisturbed
    <3>3. StoredWhole(n)
      BY <1>1, <3>2 DEF Processed, Undisturbed, Row
    <3> QED BY <1>2, <1>3, <3>2, <3>3 DEF StoredWhole
  <2> QED BY <2>2, <2>3, <2>4 DEF Processed
<1> QED BY <1>4, <1>5, <1>6 DEF MaterialInv

\* Every step keeps the invariant.
LEMMA MaterialInvStep == MaterialInv /\ [MaterialNext]_materialVars => MaterialInv'
<1> SUFFICES ASSUME MaterialInv, [MaterialNext]_materialVars PROVE MaterialInv'
    OBVIOUS
<1>1. CASE \E m \in Uploads :
              StoreFile(m) \/ UploadFails(m) \/ DeleteRow(m) \/ DeleteFile(m) \/ DropChunks(m) \/ DownloadFails(m)
    BY <1>1, RequestStep
<1>2. CASE \E m \in Uploads : CreateMaterial(m) \/ Respawn(m)
    BY <1>2, SpawnStep
<1>3. CASE \E r \in Runs :
              Begin(r) \/ ParseAndChunk(r) \/ Embed(r) \/ SaveChunk(r) \/ MarkReady(r) \/ MarkFailed(r)
    BY <1>3, BeginStep, ParseStep, EmbedStep, SaveStep, EndStep
<1>4. CASE ProcessDies
    BY <1>4, DeathStep
<1>5. CASE UNCHANGED materialVars
  <2>1. UNCHANGED <<material, rows, files, run, redoing, closing, spoiled, asked, slips>>
    BY <1>5 DEF materialVars
  <2>2. MaterialTypes' /\ FilesKept'
    BY <2>1 DEF MaterialInv, MaterialTypes, RunTypes, FilesKept, Row
  <2>3. ASSUME NEW n \in Uploads PROVE Fresh(n)' /\ Processed(n)'
    BY <2>1, Untouched DEF MaterialInv
  <2> QED BY <2>2, <2>3 DEF MaterialInv
<1> QED BY <1>1, <1>2, <1>3, <1>4, <1>5 DEF MaterialNext

\* A material that has a row has its file, one that is ready after a processing
\* that ran alone is stored once and whole, and chunking leaves out of a section
\* less than one smallest chunk (delete_material, reprocess_material,
\* process_material, chunk_document).
THEOREM MaterialsStayWhole == MaterialSpec => []MaterialsAreWhole
<1>1. ASSUME MaterialInv PROVE MaterialsAreWhole
  <2>1. FilesOutliveRows
    BY <1>1 DEF MaterialInv, FilesKept, FilesOutliveRows
  <2>2. ReadyIsWhole
    <3>1. SUFFICES ASSUME NEW m \in Uploads, material[m].status = "ready", ~Busy(m), redoing[m] = 0, m \notin spoiled
                   PROVE  rows[m] = Chunks(material[m].text) /\ material[m].count = Len(rows[m])
      BY DEF ReadyIsWhole
    <3>2. Undisturbed(m) /\ Processed(m)
      BY <1>1, <3>1 DEF MaterialInv, Undisturbed, Row
    <3> QED BY <3>1, <3>2 DEF Processed, StoredWhole
  <2>3. SectionsLoseLittle
    <3>1. ASSUME NEW m \in Uploads, NEW s \in DOMAIN material[m].text
          PROVE  SumFunctionOnSet(material[m].text[s], Lost(material[m].text, s)) < MinChunk
      <4>1. PICK text \in Seq(Seq(Nat)) : text = material[m].text
        BY <1>1, ChunksOfUpload DEF MaterialInv
      <4> QED BY <3>1, <4>1, ChunkingLosesLittle
    <3> QED BY <3>1 DEF SectionsLoseLittle
  <2> QED BY <2>1, <2>2, <2>3 DEF MaterialsAreWhole
<1> QED BY <1>1, MaterialInvInit, MaterialInvStep, PTL DEF MaterialSpec

-----------------------------------------------------------------------------
(* Writing: what is sent fits its channel.                                 *)

EmailStates == {"drafting", "rewriting", "checking", "repairing", "measuring"}
MessageStates ==
    {"composing", "reprompting", "words", "rescuing", "chars", "shortening", "validating", "anchoring"}

\* Emails: finitely many, under the subject that is offered first.
EmailsFine(es, ss) ==
    /\ IsFiniteSet(es)
    /\ \A e \in es : DOMAIN e = {"number", "words", "subject"} /\ e.words \in Nat /\ e.subject = ss[1]
Three(es) == Cardinality(es) = 3 /\ {e.number : e \in es} = 1..3

WritingTypes ==
    /\ channel \in {"email", "dm", "connection_request"}
    /\ resume \in {"first", "anchored", "spliced"} /\ pass \in 0..2
    /\ message \in Seq(Sentences)
    /\ EmailsFine(emails, subjects)

Places ==
    /\ at \in {"idle", "done", "refused", "failed"} \cup EmailStates \cup MessageStates
    /\ at \in EmailStates => channel = "email"
    /\ at \in MessageStates => channel # "email"
    /\ at \in (EmailStates \cup {"idle"}) \ {"measuring"} => pass = 0
    /\ at \in {"idle", "composing", "reprompting"} => resume = "first"
    /\ at = "anchoring" => resume = "first"
    /\ at = "measuring" => Three(emails)

\* The calls made when a message is normalized for the first, the second, the third time.
CallsBefore == IF resume = "first" THEN 2 ELSE IF resume = "anchored" THEN 5 ELSE 7
CallsMade ==
    /\ calls \in 0..9
    /\ at \in {"idle", "drafting", "composing"} => calls = 0
    /\ at \in {"rewriting", "reprompting"} => calls <= 1
    /\ at \in {"checking", "repairing"} => calls <= 2
    /\ at = "measuring" => calls <= 3 + 3 * pass
    /\ at \in {"words", "rescuing"} => calls <= CallsBefore
    /\ at \in {"chars", "shortening"} => calls <= CallsBefore + 1
    /\ at \in {"validating", "anchoring"} => calls <= CallsBefore + 2

WritingInv == WritingTypes /\ Places /\ CallsMade /\ SequenceIsWhole /\ MessageFits

\* The first sentences of a message.
LEMMA FirstSentences ==
    ASSUME NEW m \in Seq(Sentences), NEW k \in 0..Len(m)
    PROVE  First(m, k) \in Seq(Sentences) /\ Len(First(m, k)) = k
<1>1. Len(m) \in Nat /\ \A i \in 1..k : m[i] \in Sentences
    OBVIOUS
<1> QED BY <1>1, SubSeqProperties DEF First

\* The words and the width of a message are numbers, and an empty one has none.
LEMMA MessageSize ==
    /\ \A m \in Seq(Sentences) : Words(m) \in Int /\ Chars(m) \in Int
    /\ Words(<<>>) = 0 /\ Chars(<<>>) = 0
<1>1. ASSUME NEW m \in Seq(Sentences) PROVE Words(m) \in Int /\ Chars(m) \in Int
  <2> DEFINE f == [i \in DOMAIN m |-> m[i].words]
             g == [i \in DOMAIN m |-> m[i].words * Width(m[i])]
  <2>1. IsFiniteSet(DOMAIN m)
    <3>1. DOMAIN m = 1..Len(m) /\ Len(m) \in Nat
      OBVIOUS
    <3> QED BY <3>1, FS_Interval
  <2>2. ASSUME NEW i \in DOMAIN m PROVE f[i] \in Int /\ g[i] \in Int
    <3>1. m[i] \in Sentences
      OBVIOUS
    <3>2. m[i].words \in Int /\ Width(m[i]) \in {6, 9}
      BY <3>1 DEF Sentences, Width
    <3>3. \A n \in Int : n * 6 \in Int /\ n * 9 \in Int
      OBVIOUS
    <3> QED BY <3>2, <3>3
  <2> HIDE DEF f, g
  <2>3. SumFunctionOnSet(f, DOMAIN m) \in Int /\ SumFunctionOnSet(g, DOMAIN m) \in Int
    BY <2>1, <2>2, SumIsInt
  <2> QED BY <2>3 DEF Words, Chars, f, g
<1>2. DOMAIN <<>> = {}
    OBVIOUS
<1>3. Words(<<>>) = 0 /\ Chars(<<>>) = 0
    BY <1>2, SumOfNone DEF Words, Chars
<1> QED BY <1>1, <1>3

\* What fits into a limit are the first sentences, some number of them.
LEMMA WithinLimits ==
    ASSUME NEW m \in Seq(Sentences)
    PROVE  /\ \A limit \in Nat : \E k \in 0..Len(m) : WithinWords(m, limit) = First(m, k)
           /\ \E k \in 0..Len(m) : WithinChars(m) = First(m, k) /\ Chars(First(m, k)) <= MaxChars
<1>1. First(m, 0) = <<>> /\ Len(m) \in Nat
    BY SubSeqEmpty DEF First
<1>2. ASSUME NEW T, T \subseteq 0..Len(m), 0 \in T PROVE Max(T) \in T
    BY <1>1, <1>2, GreatestNumber DEF Max
<1>3. ASSUME NEW limit \in Nat PROVE \E k \in 0..Len(m) : WithinWords(m, limit) = First(m, k)
  <2> DEFINE T == {k \in 0..Len(m) : Words(First(m, k)) <= limit}
  <2>1. T \subseteq 0..Len(m) /\ 0 \in T
    BY <1>1, MessageSize
  <2>2. WithinWords(m, limit) = First(m, Max(T))
    BY DEF WithinWords
  <2> HIDE DEF T
  <2> QED BY <1>2, <2>1, <2>2
<1>4. \E k \in 0..Len(m) : WithinChars(m) = First(m, k) /\ Chars(First(m, k)) <= MaxChars
  <2> DEFINE T == {k \in 0..Len(m) : Chars(First(m, k)) <= MaxChars}
  <2>1. T \subseteq 0..Len(m) /\ 0 \in T
    BY <1>1, MessageSize DEF MaxChars
  <2>2. WithinChars(m) = First(m, Max(T))
    BY DEF WithinChars
  <2>3. \A k \in T : Chars(First(m, k)) <= MaxChars
    OBVIOUS
  <2> HIDE DEF T
  <2> QED BY <1>2, <2>1, <2>2, <2>3
<1> QED BY <1>3, <1>4

\* A sentence that is cut is a sentence.
LEMMA CutSentence ==
    ASSUME NEW s \in Sentences, NEW n \in Nat
    PROVE  CutTo(s, n) \in Sentences
    BY DEF CutTo, Sentences

\* A message that is trimmed, or gets the name in front, is a message.
LEMMA TrimmedMessage ==
    ASSUME NEW m \in Seq(Sentences)
    PROVE  /\ \A limit \in Nat : TrimToWordLimit(m, limit) \in Seq(Sentences)
           /\ Chars(m) > MaxChars => TrimChars(m) \in Seq(Sentences)
           /\ m # <<>> => DeterministicAnchorInsert(m) \in Seq(Sentences)
<1>1. ASSUME NEW limit \in Nat PROVE TrimToWordLimit(m, limit) \in Seq(Sentences)
  <2>1. CASE Words(m) <= limit
    BY <2>1 DEF TrimToWordLimit
  <2>2. CASE ~(Words(m) <= limit)
    <3>1. m # <<>>
      BY <2>2, MessageSize
    <3>2. m[1] \in Sentences
      BY <3>1
    <3>3. <<CutTo(m[1], limit)>> \in Seq(Sentences)
      BY <3>2, CutSentence
    <3>4. WithinWords(m, limit) \in Seq(Sentences)
      BY WithinLimits, FirstSentences
    <3> QED BY <2>2, <3>3, <3>4 DEF TrimToWordLimit
  <2> QED BY <2>1, <2>2
<1>2. ASSUME Chars(m) > MaxChars PROVE TrimChars(m) \in Seq(Sentences)
  <2> DEFINE kept == WithinChars(m)
             next == m[Len(kept) + 1]
             room == (MaxChars - Chars(kept)) \div Width(next)
  <2>1. PICK k \in 0..Len(m) : kept = First(m, k) /\ Chars(First(m, k)) <= MaxChars
    BY WithinLimits
  <2>2. kept \in Seq(Sentences) /\ Len(kept) = k
    BY <2>1, FirstSentences
  <2>3. k # Len(m)
    <3>1. First(m, Len(m)) = m
      BY SubSeqFull DEF First
    <3> QED BY <1>2, <2>1, <3>1, MessageSize DEF MaxChars
  <2>4. next \in Sentences
    BY <2>2, <2>3
  <2>5. room \in Nat
    <3>1. MaxChars - Chars(kept) \in Nat
      BY <2>1, <2>2, MessageSize DEF MaxChars
    <3>2. Width(next) \in {6, 9}
      BY DEF Width
    <3>3. \A n \in Nat : n \div 6 \in Nat /\ n \div 9 \in Nat
      OBVIOUS
    <3> QED BY <3>1, <3>2, <3>3
  <2>6. TrimChars(m) = IF Chars(kept) > 100 THEN kept ELSE Append(kept, CutTo(next, room))
    BY DEF TrimChars
  <2> HIDE DEF kept, next, room
  <2>7. Append(kept, CutTo(next, room)) \in Seq(Sentences)
    BY <2>2, <2>4, <2>5, CutSentence
  <2> QED BY <2>2, <2>6, <2>7
<1>3. ASSUME m # <<>> PROVE DeterministicAnchorInsert(m) \in Seq(Sentences)
  <2>1. m[1] \in Sentences /\ Tail(m) \in Seq(Sentences)
    BY <1>3, HeadTailProperties
  <2>2. \A s \in Sentences : \A n \in Nat : [s EXCEPT !.words = n, !.names = "early"] \in Sentences
    BY DEF Sentences
  <2>3. m[1].words + 2 \in Nat
    BY <2>1 DEF Sentences
  <2>4. [m[1] EXCEPT !.words = m[1].words + 2, !.names = "early"] \in Sentences
    BY <2>1, <2>2, <2>3
  <2>5. <<[m[1] EXCEPT !.words = m[1].words + 2, !.names = "early"]>> \in Seq(Sentences)
    BY <2>4
  <2> QED BY <2>1, <2>5 DEF DeterministicAnchorInsert
<1> QED BY <1>1, <1>2, <1>3

\* Emails that change in number nor subject, and stay countable, are still three under one subject.
LEMMA EmailsChange ==
    ASSUME NEW es, NEW ss, EmailsFine(es, ss), NEW f, DOMAIN f = es, f = [e \in es |-> f[e]],
           \A e \in es : /\ DOMAIN f[e] = {"number", "words", "subject"} /\ f[e].words \in Nat
                         /\ f[e].number = e.number /\ f[e].subject = e.subject,
           NEW fs, fs = {f[e] : e \in es}
    PROVE  EmailsFine(fs, ss) /\ (Three(es) => Three(fs))
<1>1. IsFiniteSet(es)
    BY DEF EmailsFine
<1>2. IsFiniteSet(fs) /\ Cardinality(fs) <= Cardinality(es)
    BY <1>1, ImageIsFinite
<1>3. EmailsFine(fs, ss)
  <2>1. ASSUME NEW x \in fs
        PROVE  DOMAIN x = {"number", "words", "subject"} /\ x.words \in Nat /\ x.subject = ss[1]
    <3>1. PICK e \in es : x = f[e]
      BY <2>1
    <3> QED BY <3>1 DEF EmailsFine
  <2> QED BY <1>2, <2>1 DEF EmailsFine
<1>4. {e.number : e \in fs} = {e.number : e \in es}
    OBVIOUS
<1>5. ASSUME Three(es) PROVE Cardinality(fs) = 3
  <2> DEFINE g == [e \in fs |-> e.number]
  <2>1. {e.number : e \in fs} = {g[e] : e \in fs}
    OBVIOUS
  <2>0. {e.number : e \in fs} = 1..3
    BY <1>4, <1>5 DEF Three
  <2>2. DOMAIN g = fs /\ g = [e \in fs |-> g[e]]
    OBVIOUS
  <2> HIDE DEF g
  <2>3. Cardinality({g[e] : e \in fs}) <= Cardinality(fs)
    BY <1>2, <2>2, ImageIsFinite
  <2>4. Cardinality({g[e] : e \in fs}) = 3
    <3>1. ASSUME NEW n \in Nat PROVE Cardinality(1..n) = n
      BY FS_Interval
    <3>2. Cardinality(1..3) = 3
      BY <3>1
    <3> QED BY <2>0, <2>1, <3>2
  <2>5. Cardinality(es) = 3 /\ Cardinality(fs) \in Nat
    BY <1>2, <1>5, FS_CardinalityType DEF Three
  <2> QED BY <1>2, <2>3, <2>4, <2>5
<1> QED BY <1>3, <1>4, <1>5 DEF Three

\* What a model wrote is a sequence of emails under its first subject.
LEMMA ParsedEmails ==
    ASSUME NEW d \in Drafts
    PROVE  EmailsFine(ParseEmails(d), d.subjects)
<1> DEFINE f == [e \in d.emails |-> [number |-> e.number, words |-> e.words, subject |-> d.subjects[1]]]
<1>1. ParseEmails(d) = {f[e] : e \in d.emails}
    BY DEF ParseEmails
<1>2. IsFiniteSet(d.emails) /\ \A e \in d.emails : e.words \in Nat
    BY WritingConstants
<1>3. DOMAIN f = d.emails /\ f = [e \in d.emails |-> f[e]]
    OBVIOUS
<1>4. IsFiniteSet(ParseEmails(d))
  <2> HIDE DEF f
  <2> QED BY <1>1, <1>2, <1>3, ImageIsFinite
<1>5. ASSUME NEW e \in ParseEmails(d)
      PROVE  DOMAIN e = {"number", "words", "subject"} /\ e.words \in Nat /\ e.subject = d.subjects[1]
  <2>1. PICK x \in d.emails : e = f[x]
    BY <1>1, <1>5
  <2> QED BY <1>2, <2>1
<1> QED BY <1>4, <1>5 DEF EmailsFine

\* The subject of every email becomes the first of the options.
LEMMA SubjectsChange ==
    ASSUME NEW es, NEW ss, EmailsFine(es, ss), NEW new
    PROVE  EmailsFine(WithSubject(es, new[1]), new)
<1> DEFINE f == [e \in es |-> [e EXCEPT !.subject = new[1]]]
<1>1. WithSubject(es, new[1]) = {f[e] : e \in es}
    BY DEF WithSubject
<1>2. DOMAIN f = es /\ f = [e \in es |-> f[e]]
    OBVIOUS
<1>3. IsFiniteSet(WithSubject(es, new[1]))
  <2> HIDE DEF f
  <2> QED BY <1>1, <1>2, ImageIsFinite DEF EmailsFine
<1>4. ASSUME NEW e \in WithSubject(es, new[1])
      PROVE  DOMAIN e = {"number", "words", "subject"} /\ e.words \in Nat /\ e.subject = new[1]
    BY <1>1 DEF EmailsFine
<1> QED BY <1>3, <1>4 DEF EmailsFine

\* Nobody has written anything yet.
LEMMA WritingInvInit == WritingInit => WritingInv
<1> SUFFICES ASSUME WritingInit PROVE WritingInv
    OBVIOUS
<1>1. EmailsFine(emails, subjects)
    BY FS_EmptySet DEF WritingInit, EmailsFine
<1>2. message \in Seq(Sentences)
    BY DEF WritingInit
<1>3. WritingTypes
    BY <1>1, <1>2 DEF WritingInit, WritingTypes
<1>4. Places /\ CallsMade
    BY DEF WritingInit, Places, CallsMade, EmailStates, MessageStates
<1>5. SequenceIsWhole /\ MessageFits
    BY DEF WritingInit, SequenceIsWhole, MessageFits
<1> QED BY <1>3, <1>4, <1>5 DEF WritingInv

\* Work that does not end keeps what is said of its end.
LEMMA NotYetDone ==
    ASSUME at' # "done" PROVE SequenceIsWhole' /\ MessageFits'
    BY DEF SequenceIsWhole, MessageFits

\* A step that leaves what is written alone, and does not end the work.
LEMMA CallsStep ==
    ASSUME WritingInv, UNCHANGED <<channel, emailVars, messageVars>>, at' # "done",
           CallRaises \/ RewriteFails \/ CheckSequence \/ RepairRaises
    PROVE  WritingInv'
<1>1. WritingTypes'
    BY DEF WritingInv, WritingTypes, emailVars, messageVars
<1>2. at = "checking" => (ValidSequence(emails) => Three(emails))
    BY DEF ValidSequence, Three
<1>3. Three(emails)' <=> Three(emails)
    BY DEF emailVars
<1>4. Places'
    BY <1>2, <1>3 DEF WritingInv, WritingTypes, Places, EmailStates, MessageStates, emailVars, messageVars,
          CallRaises, RewriteFails, CheckSequence, RepairRaises
<1>5. CallsMade'
    BY DEF WritingInv, WritingTypes, Places, CallsMade, CallsBefore, EmailStates, MessageStates, emailVars, messageVars,
          CallRaises, RewriteFails, CheckSequence, RepairRaises, Asked
<1> QED BY <1>1, <1>4, <1>5, NotYetDone DEF WritingInv

\* Emails under their first subject are written, rewritten or repaired.
LEMMA DraftsStep ==
    ASSUME WritingInv, NEW d \in Drafts, DraftSequence(d) \/ RepairSequence(d) \/ RewriteSubjects(d.subjects)
    PROVE  WritingInv'
<1>1. EmailsFine(emails', subjects')
  <2>1. CASE DraftSequence(d)
    <3>1. EmailsFine(ParseEmails(d), d.subjects)
      BY ParsedEmails
    <3> QED BY <2>1, <3>1, SubjectsChange DEF DraftSequence
  <2>2. CASE RepairSequence(d)
    BY <2>2, ParsedEmails DEF RepairSequence
  <2>3. CASE RewriteSubjects(d.subjects)
    <3>1. EmailsFine(emails, subjects)
      BY DEF WritingInv, WritingTypes
    <3> QED BY <2>3, <3>1, SubjectsChange DEF RewriteSubjects
  <2> QED BY <2>1, <2>2, <2>3
<1>2. UNCHANGED <<channel, pass, messageVars>> /\ calls' = calls + 1
    BY DEF DraftSequence, RepairSequence, RewriteSubjects, Asked
<1>3. WritingTypes'
    BY <1>1, <1>2 DEF WritingInv, WritingTypes, messageVars
<1>4. \/ at = "drafting" /\ at' \in {"rewriting", "checking"}
      \/ at = "rewriting" /\ at' = "checking"
      \/ at = "repairing" /\ (at' = "refused" \/ (at' = "measuring" /\ Three(emails')))
  <2>1. ASSUME RepairSequence(d) PROVE at = "repairing" /\ (at' = "refused" \/ (at' = "measuring" /\ Three(emails')))
    <3>1. CASE ValidSequence(emails')
      <4>1. Three(emails')
        BY <3>1 DEF ValidSequence, Three
      <4>2. at = "repairing" /\ at' = "measuring"
        BY <2>1, <3>1 DEF RepairSequence
      <4> QED BY <4>1, <4>2
    <3>2. CASE ~ValidSequence(emails')
      BY <2>1, <3>2 DEF RepairSequence
    <3> QED BY <3>1, <3>2
  <2>2. \/ at = "drafting" /\ at' \in {"rewriting", "checking"}
        \/ at = "rewriting" /\ at' = "checking"
        \/ RepairSequence(d)
    BY DEF DraftSequence, RewriteSubjects
  <2> QED BY <2>1, <2>2
<1>5. Places'
    BY <1>2, <1>4 DEF WritingInv, Places, EmailStates, MessageStates, messageVars
<1>6. CallsMade'
    BY <1>2, <1>4 DEF WritingInv, WritingTypes, Places, CallsMade, CallsBefore, EmailStates, MessageStates, messageVars
<1>7. at' # "done"
    BY <1>4
<1> QED BY <1>3, <1>5, <1>6, <1>7, NotYetDone DEF WritingInv

\* A pass shortens emails, keeps their numbers and pays for three at the most.
LEMMA ShortenStep ==
    ASSUME WritingInv, NEW words \in [1..3 -> Shortened \cup {Failed}], ShortenPass(words)
    PROVE  WritingInv'
<1> DEFINE over(e) == e \in OverLimit(emails) /\ words[e.number] # Failed
           f == [e \in emails |-> IF over(e) THEN [e EXCEPT !.words = words[e.number]] ELSE e]
<1>1. EmailsFine(emails, subjects) /\ Three(emails) /\ at = "measuring" /\ pass \in {0, 1} /\ calls \in 0..9
      /\ calls <= 3 + 3 * pass
    BY DEF WritingInv, WritingTypes, Places, CallsMade, EmailStates, ShortenPass
<1>2. UNCHANGED <<at, channel, subjects, messageVars>> /\ pass' = pass + 1
      /\ calls' = calls + Cardinality(OverLimit(emails)) /\ emails' = {f[e] : e \in emails}
    BY DEF ShortenPass
<1>3. ASSUME NEW e \in emails
      PROVE  /\ DOMAIN f[e] = {"number", "words", "subject"} /\ f[e].words \in Nat
             /\ f[e].number = e.number /\ f[e].subject = e.subject
  <2>1. e.number \in 1..3 /\ DOMAIN e = {"number", "words", "subject"} /\ e.words \in Nat
    BY <1>1 DEF EmailsFine, Three
  <2>2. words[e.number] # Failed => words[e.number] \in Nat
    BY <2>1, WritingConstants
  <2> QED BY <2>1, <2>2
<1>4. DOMAIN f = emails /\ f = [e \in emails |-> f[e]]
    OBVIOUS
<1> HIDE DEF f
<1>5. EmailsFine(emails', subjects) /\ Three(emails')
    BY <1>1, <1>2, <1>3, <1>4, EmailsChange
<1>6. Cardinality(OverLimit(emails)) \in 0..3
  <2>1. OverLimit(emails) \subseteq emails /\ IsFiniteSet(emails) /\ Cardinality(emails) = 3
    BY <1>1 DEF OverLimit, EmailsFine, Three
  <2>2. Cardinality(OverLimit(emails)) \in Nat /\ Cardinality(OverLimit(emails)) <= 3
    BY <2>1, FS_Subset, FS_CardinalityType
  <2> QED BY <2>2
<1>7. calls' \in 0..9 /\ calls' <= 3 + 3 * pass' /\ pass' \in 0..2
    BY <1>1, <1>2, <1>6
<1>8. WritingTypes'
    BY <1>2, <1>5, <1>7 DEF WritingInv, WritingTypes, messageVars
<1>9. Places'
    BY <1>1, <1>2, <1>5 DEF WritingInv, Places, EmailStates, MessageStates, messageVars
<1>10. CallsMade'
    BY <1>1, <1>2, <1>7 DEF CallsMade
<1>11. at' # "done"
    BY <1>1, <1>2
<1> QED BY <1>8, <1>9, <1>10, <1>11, NotYetDone DEF WritingInv

\* What is still over its limit is cut to it: the sequence that ends is whole.
LEMMA FinishStep ==
    ASSUME WritingInv, FinishSequence
    PROVE  WritingInv'
<1> DEFINE f == [e \in emails |-> IF e \in OverLimit(emails) THEN [e EXCEPT !.words = Limit(e)] ELSE e]
<1>1. EmailsFine(emails, subjects) /\ Three(emails) /\ at = "measuring" /\ channel = "email"
    BY DEF WritingInv, WritingTypes, Places, EmailStates, FinishSequence
<1>2. UNCHANGED <<channel, subjects, pass, messageVars, calls>> /\ emails' = {f[e] : e \in emails}
    BY DEF FinishSequence
<1>3. \A n \in 1..3 : WordLimit[n] \in Nat /\ n \in DOMAIN WordLimit
    BY DEF WordLimit
<1>4. ASSUME NEW e \in emails
      PROVE  /\ DOMAIN f[e] = {"number", "words", "subject"} /\ f[e].words \in Nat
             /\ f[e].number = e.number /\ f[e].subject = e.subject
  <2>1. e.number \in 1..3 /\ DOMAIN e = {"number", "words", "subject"} /\ e.words \in Nat
    BY <1>1 DEF EmailsFine, Three
  <2>2. Limit(e) \in Nat
    BY <1>3, <2>1 DEF Limit
  <2> QED BY <2>1, <2>2
<1>5. DOMAIN f = emails /\ f = [e \in emails |-> f[e]]
    OBVIOUS
<1> HIDE DEF f
<1>6. EmailsFine(emails', subjects) /\ Three(emails')
    BY <1>1, <1>2, <1>4, <1>5, EmailsChange
<1>7. at' = "refused" \/ (at' = "done" /\ OverLimit(emails') = {})
    BY DEF FinishSequence, OverLimit
<1>8. WritingTypes'
    BY <1>2, <1>6 DEF WritingInv, WritingTypes, messageVars
<1>9. Places'
    BY <1>1, <1>2, <1>7 DEF WritingInv, Places, EmailStates, MessageStates, messageVars
<1>10. CallsMade'
    BY <1>2, <1>7 DEF WritingInv, CallsMade
<1>11. ASSUME OverLimit(emails') = {}, NEW e \in emails'
       PROVE  e.subject = subjects'[1] /\ e.words <= WordLimit[e.number]
  <2>1. e.number \in 1..3 /\ e.words \in Nat /\ e.subject = subjects[1]
    BY <1>6 DEF EmailsFine, Three
  <2>2. ~(e.words > Limit(e))
    BY <1>11 DEF OverLimit
  <2>3. Limit(e) = WordLimit[e.number] /\ Limit(e) \in Nat
    BY <1>3, <2>1 DEF Limit
  <2> QED BY <1>2, <2>1, <2>2, <2>3
<1>12. SequenceIsWhole' /\ MessageFits'
    BY <1>1, <1>2, <1>6, <1>7, <1>11 DEF SequenceIsWhole, MessageFits, Three
<1> QED BY <1>8, <1>9, <1>10, <1>12 DEF WritingInv

\* A channel's limit is a number.
LEMMA ChannelLimit ==
    LinkedInLimit(channel) \in Nat /\ LinkedInLeast(channel) \in Nat
    BY DEF LinkedInLimit, LinkedInLeast

\* A message is written, trimmed or rescued: it is sentences still, and the calls are counted.
LEMMA MessageStep ==
    ASSUME WritingInv,
           \/ \E m \in Messages : ComposeMessage(m) \/ Reprompt(m) \/ Rescue(m) \/ RescueChars(m) \/ RescueAnchor(m)
           \/ NormalizeWords \/ NormalizeChars
    PROVE  WritingInv'
<1> DEFINE Anew == \E m \in Messages : ComposeMessage(m) \/ Reprompt(m) \/ Rescue(m) \/ RescueChars(m) \/ RescueAnchor(m)
<1>1. message \in Seq(Sentences) /\ channel # "email" /\ LinkedInLimit(channel) \in Nat
  <2>1. at \in MessageStates
    BY DEF MessageStates, ComposeMessage, Reprompt, Rescue, RescueChars, RescueAnchor, NormalizeWords, NormalizeChars
  <2> QED BY <2>1, ChannelLimit DEF WritingInv, WritingTypes, Places
<1>2. message' \in Seq(Sentences)
  <2>1. CASE Anew
    <3>1. PICK m \in Messages : ComposeMessage(m) \/ Reprompt(m) \/ Rescue(m) \/ RescueChars(m) \/ RescueAnchor(m)
      BY <2>1
    <3>2. m \in Seq(Sentences)
      BY WritingConstants
    <3>3. message' \in {m, message}
      BY <3>1 DEF ComposeMessage, Reprompt, Rescue, RescueChars, RescueAnchor
    <3> QED BY <1>1, <3>2, <3>3
  <2>2. CASE NormalizeWords
    BY <1>1, <2>2, TrimmedMessage DEF NormalizeWords
  <2>3. CASE NormalizeChars
    BY <1>1, <2>3, TrimmedMessage DEF NormalizeChars
  <2> QED BY <2>1, <2>2, <2>3
<1>3. UNCHANGED <<channel, emailVars>>
    BY DEF ComposeMessage, Reprompt, Rescue, RescueChars, RescueAnchor, NormalizeWords, NormalizeChars
<1>4. /\ \/ at = "composing" /\ at' \in {"refused", "reprompting", "words"} /\ calls' = calls + 1 /\ resume' = resume
         \/ at = "reprompting" /\ at' = "words" /\ calls' = calls + 1 /\ resume' = resume
         \/ at = "words" /\ at' \in {"chars", "rescuing"} /\ UNCHANGED <<calls, resume>>
         \/ at = "rescuing" /\ at' = "chars" /\ calls' = calls + 1 /\ resume' = resume
         \/ at = "chars" /\ at' \in {"validating", "shortening"} /\ UNCHANGED <<calls, resume>>
         \/ at = "shortening" /\ at' = "validating" /\ calls' = calls + 1 /\ resume' = resume
         \/ at = "anchoring" /\ at' \in {"validating", "words"} /\ calls' = calls + 1 /\ resume' = "anchored"
    BY DEF ComposeMessage, Reprompt, Rescue, RescueChars, RescueAnchor, NormalizeWords, NormalizeChars, Asked
<1>5. WritingTypes'
    BY <1>2, <1>3, <1>4 DEF WritingInv, WritingTypes, emailVars
<1>6. Places'
    BY <1>1, <1>3, <1>4 DEF WritingInv, WritingTypes, Places, EmailStates, MessageStates, emailVars
<1>7. CallsMade'
    BY <1>4 DEF WritingInv, WritingTypes, Places, CallsMade, CallsBefore
<1>8. at' # "done"
    BY <1>4
<1> QED BY <1>5, <1>6, <1>7, <1>8, NotYetDone DEF WritingInv

\* A message without a fault is one that may be sent.
LEMMA NoFault ==
    ASSUME NEW m, NEW mode, Fault(m, mode) = "none"
    PROVE  /\ OneQuestion(m) /\ Names(m) /\ ~(Words(m) < LinkedInLeast(mode)) /\ ~(Words(m) > LinkedInLimit(mode) + 10)
           /\ mode = "connection_request" => ~(Chars(m) > MaxChars)
    BY DEF Fault

\* Only a message that asks its question can lack the name.
LEMMA AnchorAsks ==
    ASSUME NEW m, NEW mode, Fault(m, mode) = "anchor"
    PROVE  OneQuestion(m)
    BY DEF Fault

\* Only a message that passed every check is sent.
LEMMA ValidateStep ==
    ASSUME WritingInv, Validate
    PROVE  WritingInv'
<1> DEFINE fault == Fault(message, channel)
<1>1. message \in Seq(Sentences) /\ channel # "email" /\ at = "validating"
    BY DEF WritingInv, WritingTypes, Places, MessageStates, Validate
<1>2. UNCHANGED <<channel, emailVars, calls>>
    BY DEF Validate
<1>3. \/ fault = "none" /\ at' = "done" /\ UNCHANGED <<message, resume>>
      \/ fault = "anchor" /\ resume = "first" /\ at' = "anchoring" /\ UNCHANGED <<message, resume>>
      \/ /\ fault = "anchor" /\ resume = "anchored" /\ at' = "words"
         /\ resume' = "spliced" /\ message' = DeterministicAnchorInsert(message)
      \/ at' = "refused" /\ UNCHANGED <<message, resume>>
    BY DEF Validate
<1>4. message' \in Seq(Sentences)
  <2>1. fault = "anchor" => message # <<>>
    BY AnchorAsks DEF OneQuestion, AsksLast
  <2> QED BY <1>1, <1>3, <2>1, TrimmedMessage
<1>5. fault = "none" => MessageFits'
  <2>1. ASSUME fault = "none"
        PROVE  /\ OneQuestion(message) /\ Names(message)
               /\ Words(message) \in LinkedInLeast(channel)..(LinkedInLimit(channel) + 10)
               /\ channel = "connection_request" => Chars(message) <= MaxChars
    <3>1. /\ OneQuestion(message) /\ Names(message)
          /\ ~(Words(message) < LinkedInLeast(channel)) /\ ~(Words(message) > LinkedInLimit(channel) + 10)
          /\ channel = "connection_request" => ~(Chars(message) > MaxChars)
      BY <2>1, NoFault
    <3>2. Words(message) \in Int /\ Chars(message) \in Int
      BY <1>1, MessageSize
    <3> QED BY <3>1, <3>2, ChannelLimit DEF MaxChars
  <2>2. fault = "none" => message' = message
    BY <1>3
  <2> QED BY <1>2, <2>1, <2>2 DEF MessageFits
<1> HIDE DEF fault
<1>6. SequenceIsWhole'
    BY <1>1, <1>2 DEF SequenceIsWhole
<1>7. MessageFits'
    BY <1>3, <1>5, NotYetDone
<1>8. WritingTypes'
    BY <1>2, <1>3, <1>4 DEF WritingInv, WritingTypes, emailVars
<1>9. Places'
    BY <1>1, <1>2, <1>3 DEF WritingInv, WritingTypes, Places, EmailStates, MessageStates, emailVars
<1>10. CallsMade'
    BY <1>1, <1>2, <1>3 DEF WritingInv, WritingTypes, CallsMade, CallsBefore
<1> QED BY <1>6, <1>7, <1>8, <1>9, <1>10 DEF WritingInv

\* Every step keeps the invariant.
LEMMA WritingInvStep == WritingInv /\ [WritingNext]_writingVars => WritingInv'
<1> SUFFICES ASSUME WritingInv, [WritingNext]_writingVars PROVE WritingInv'
    OBVIOUS
<1>1. CASE \E c \in {"email", "dm", "connection_request"} : StartWriting(c)
  <2>1. PICK c \in {"email", "dm", "connection_request"} : StartWriting(c)
    BY <1>1
  <2>2. WritingTypes'
    BY <2>1 DEF WritingInv, WritingTypes, StartWriting, emailVars, messageVars
  <2>3. Places' /\ CallsMade' /\ at' # "done"
    BY <2>1 DEF WritingInv, Places, CallsMade, EmailStates, MessageStates, StartWriting, emailVars, messageVars
  <2> QED BY <2>2, <2>3, NotYetDone DEF WritingInv
<1>2. CASE CallRaises \/ RewriteFails \/ CheckSequence \/ RepairRaises
  <2>1. UNCHANGED <<channel, emailVars, messageVars>> /\ at' # "done"
    BY <1>2 DEF CallRaises, RewriteFails, CheckSequence, RepairRaises
  <2> QED BY <1>2, <2>1, CallsStep
<1>3. CASE FinishSequence
    BY <1>3, FinishStep
<1>4. CASE \E draft \in Drafts : DraftSequence(draft) \/ RepairSequence(draft) \/ RewriteSubjects(draft.subjects)
    BY <1>4, DraftsStep
<1>5. CASE \E words \in [1..3 -> Shortened \cup {Failed}] : ShortenPass(words)
    BY <1>5, ShortenStep
<1>6. CASE \/ \E m \in Messages : ComposeMessage(m) \/ Reprompt(m) \/ Rescue(m) \/ RescueChars(m) \/ RescueAnchor(m)
           \/ NormalizeWords \/ NormalizeChars
    BY <1>6, MessageStep
<1>7. CASE Validate
    BY <1>7, ValidateStep
<1>8. CASE UNCHANGED writingVars
  <2>1. UNCHANGED <<at, channel, emails, subjects, message, resume, pass, calls>>
    BY <1>8 DEF writingVars
  <2>2. WritingTypes' /\ Places'
    BY <2>1 DEF WritingInv, WritingTypes, Places, EmailStates, MessageStates
  <2>3. CallsMade'
    BY <2>1 DEF WritingInv, CallsMade, CallsBefore
  <2>4. SequenceIsWhole' /\ MessageFits'
    BY <2>1 DEF WritingInv, SequenceIsWhole, MessageFits
  <2> QED BY <2>2, <2>3, <2>4 DEF WritingInv
<1> QED BY <1>1, <1>2, <1>3, <1>4, <1>5, <1>6, <1>7, <1>8 DEF WritingNext

\* What is sent fits its channel: a sequence is three emails under one subject
\* and within their limits, a message asks one question and names the company
\* within the channel's words and characters, and either costs nine calls at
\* the most, whatever the model answers (generate_email_sequence,
\* generate_linkedin_message).
THEOREM WhatIsSentFits == WritingSpec => []OutreachFits
<1>1. WritingInv => OutreachFits
    BY DEF WritingInv, CallsMade, OutreachFits, CallsAreBounded
<1> QED BY <1>1, WritingInvInit, WritingInvStep, PTL DEF WritingSpec

-----------------------------------------------------------------------------
(* Picking from sequences.                                                 *)

\* The places up to one of them.
UpTo(places, i) == {j \in places : j <= i}

\* A place is counted by those up to it, one that goes first by fewer.
LEMMA PlacesAreCounted ==
    ASSUME NEW n \in Nat, NEW places, places \subseteq 1..n
    PROVE  /\ IsFiniteSet(places) /\ Cardinality(places) \in Nat
           /\ \A i \in places : Cardinality(UpTo(places, i)) \in 1..Cardinality(places)
           /\ \A i, k \in places : Cardinality(UpTo(places, i)) = Cardinality(UpTo(places, k)) => i = k
<1>1. IsFiniteSet(places) /\ Cardinality(places) \in Nat
  <2>1. IsFiniteSet(1..n)
    BY FS_Interval
  <2> QED BY <2>1, FS_Subset, FS_CardinalityType
<1>2. ASSUME NEW i \in places
      PROVE  IsFiniteSet(UpTo(places, i)) /\ Cardinality(UpTo(places, i)) \in 1..Cardinality(places)
  <2>1. UpTo(places, i) \in SUBSET places /\ i \in UpTo(places, i)
    BY DEF UpTo
  <2>2. IsFiniteSet(UpTo(places, i)) /\ Cardinality(UpTo(places, i)) <= Cardinality(places)
    BY <1>1, <2>1, FS_Subset
  <2>3. Cardinality(UpTo(places, i)) \in Nat /\ Cardinality(UpTo(places, i)) # 0
    BY <2>1, <2>2, FS_CardinalityType, FS_EmptySet
  <2> QED BY <1>1, <2>2, <2>3
<1>3. ASSUME NEW i \in places, NEW k \in places, i < k
      PROVE  Cardinality(UpTo(places, i)) < Cardinality(UpTo(places, k))
  <2>1. UpTo(places, i) \subseteq UpTo(places, k) /\ k \in UpTo(places, k) /\ k \notin UpTo(places, i)
    <3>1. places \subseteq Int
      OBVIOUS
    <3>2. k <= k /\ ~(k <= i) /\ \A j \in places : j <= i => j <= k
      BY <1>3, <3>1
    <3> QED BY <3>2 DEF UpTo
  <2> QED BY <1>2, <2>1, Smaller
<1>4. ASSUME NEW i \in places, NEW k \in places, Cardinality(UpTo(places, i)) = Cardinality(UpTo(places, k))
      PROVE  i = k
  <2>1. i \in Int /\ k \in Int /\ Cardinality(UpTo(places, i)) \in Int
    BY <1>2
  <2>2. ~(i < k) /\ ~(k < i)
    BY <1>3, <1>4, <2>1
  <2> QED BY <2>1, <2>2
<1> QED BY <1>1, <1>2, <1>4

\* Every number up to how many there are is the number of one place.
LEMMA NthPlace ==
    ASSUME NEW n \in Nat, NEW places, places \subseteq 1..n
    PROVE  /\ \A k \in 1..Cardinality(places) :
                Nth(places, k) \in places /\ Cardinality(UpTo(places, Nth(places, k))) = k
           /\ \A i \in places : Nth(places, Cardinality(UpTo(places, i))) = i
<1> DEFINE count == [i \in places |-> Cardinality(UpTo(places, i))]
           size == Cardinality(places)
<1>1. IsFiniteSet(places) /\ size \in Nat
    BY PlacesAreCounted
<1>2. count \in Injection(places, 1..size)
  <2>1. count \in [places -> 1..size]
    BY PlacesAreCounted
  <2>2. \A i, k \in places : count[i] = count[k] => i = k
    BY PlacesAreCounted
  <2> QED BY <2>1, <2>2 DEF Injection, IsInjective
<1>3. count \in Surjection(places, 1..size)
  <2>1. IsFiniteSet(1..size) /\ Cardinality(1..size) = size
    BY <1>1, FS_Interval
  <2> HIDE DEF count
  <2> QED BY <1>1, <1>2, <2>1, FS_Injection
<1>4. ASSUME NEW k \in 1..size PROVE Nth(places, k) \in places /\ Cardinality(UpTo(places, Nth(places, k))) = k
  <2>1. \E i \in places : count[i] = k
    BY <1>3 DEF Surjection
  <2>2. \E i \in places : Cardinality({j \in places : j <= i}) = k
    BY <2>1 DEF UpTo
  <2> QED BY <2>2 DEF Nth, UpTo
<1>5. ASSUME NEW i \in places PROVE Nth(places, Cardinality(UpTo(places, i))) = i
  <2>1. Cardinality(UpTo(places, i)) \in 1..size
    BY PlacesAreCounted
  <2> QED BY <1>4, <2>1, PlacesAreCounted
<1> QED BY <1>4, <1>5

\* What is picked are the members at these places, as many as there are places.
LEMMA PickedMembers ==
    ASSUME NEW S, NEW s \in Seq(S), NEW places, places \subseteq DOMAIN s
    PROVE  /\ Picked(s, places) \in Seq(S)
           /\ Len(Picked(s, places)) = Cardinality(places) /\ Cardinality(places) \in Nat
           /\ DOMAIN Picked(s, places) = 1..Cardinality(places)
           /\ ToSet(Picked(s, places)) = {s[i] : i \in places}
<1> DEFINE size == Cardinality(places)
<1>1. Len(s) \in Nat /\ DOMAIN s = 1..Len(s) /\ \A i \in DOMAIN s : s[i] \in S
    BY LenProperties
<1>2. size \in Nat
    BY <1>1, PlacesAreCounted
<1>3. \A k \in 1..size : Nth(places, k) \in places
    BY <1>1, NthPlace
<1>4. \A i \in places : \E k \in 1..size : Nth(places, k) = i
    BY <1>1, NthPlace, PlacesAreCounted
<1> HIDE DEF size
<1>5. Picked(s, places) = [k \in 1..size |-> s[Nth(places, k)]]
    BY DEF Picked, size
<1>6. \A k \in 1..size : s[Nth(places, k)] \in S
    BY <1>1, <1>3
<1>7. Picked(s, places) \in [1..size -> S]
    BY <1>5, <1>6
<1>8. Picked(s, places) \in Seq(S) /\ Len(Picked(s, places)) = size
    BY <1>2, <1>7
<1>9. ToSet(Picked(s, places)) = {s[i] : i \in places}
  <2>1. ToSet(Picked(s, places)) = {Picked(s, places)[k] : k \in 1..size}
    BY <1>7 DEF ToSet
  <2>2. \A k \in 1..size : Picked(s, places)[k] = s[Nth(places, k)]
    BY <1>5
  <2> QED BY <1>3, <1>4, <2>1, <2>2
<1> QED BY <1>2, <1>7, <1>8, <1>9 DEF size

\* Where members differ from place to place, none is picked twice.
LEMMA PickedOnce ==
    ASSUME NEW S, NEW s \in Seq(S), NEW places, places \subseteq DOMAIN s,
           \A i, j \in places : s[i] = s[j] => i = j
    PROVE  IsInjective(Picked(s, places))
<1>1. Len(s) \in Nat /\ DOMAIN s = 1..Len(s)
    BY LenProperties
<1>2. DOMAIN Picked(s, places) = 1..Cardinality(places)
    BY PickedMembers
<1>3. ASSUME NEW k \in 1..Cardinality(places), NEW l \in 1..Cardinality(places),
             Picked(s, places)[k] = Picked(s, places)[l]
      PROVE  k = l
  <2>1. s[Nth(places, k)] = s[Nth(places, l)]
    BY <1>3 DEF Picked
  <2>2. Nth(places, k) \in places /\ Nth(places, l) \in places
    BY <1>1, NthPlace
  <2>3. Nth(places, k) = Nth(places, l)
    BY <2>1, <2>2
  <2> QED BY <1>1, <2>3, NthPlace
<1> QED BY <1>2, <1>3 DEF IsInjective

\* Every member of a sequence stands somewhere for the first time.
LEMMA EveryMemberHasAFirst ==
    ASSUME NEW S, NEW s \in Seq(S), NEW i \in DOMAIN s
    PROVE  \E k \in FirstPlaces(s) : k <= i /\ s[k] = s[i]
<1> DEFINE T == {k \in DOMAIN s : s[k] = s[i]}
<1>1. Len(s) \in Nat /\ DOMAIN s = 1..Len(s)
    BY LenProperties
<1>2. T \subseteq Nat /\ i \in T
    BY <1>1
<1>3. PICK k \in T : \A l \in T : k <= l
    BY <1>2, LeastNumber
<1>4. \A l \in 1..(k - 1) : s[l] # s[k]
  <2>1. \A l \in 1..(k - 1) : l \in DOMAIN s /\ ~(k <= l)
    BY <1>1
  <2> QED BY <1>3, <2>1
<1>5. k \in DOMAIN s /\ s[k] = s[i] /\ k <= i
    BY <1>2, <1>3
<1> QED BY <1>4, <1>5 DEF FirstPlaces

\* First places differ in their members.
LEMMA FirstsDiffer ==
    ASSUME NEW S, NEW s \in Seq(S), NEW i \in FirstPlaces(s), NEW k \in FirstPlaces(s), s[i] = s[k]
    PROVE  i = k
<1>1. Len(s) \in Nat /\ DOMAIN s = 1..Len(s) /\ i \in DOMAIN s /\ k \in DOMAIN s
    BY LenProperties DEF FirstPlaces
<1>2. i \notin 1..(k - 1) /\ k \notin 1..(i - 1)
    BY DEF FirstPlaces
<1> QED BY <1>1, <1>2

\* A sequence without repetitions is as long as it has members.
LEMMA LengthOfDistinct ==
    ASSUME NEW S, NEW s \in Seq(S), IsInjective(s)
    PROVE  IsFiniteSet(ToSet(s)) /\ Cardinality(ToSet(s)) = Len(s)
<1>1. Len(s) \in Nat /\ DOMAIN s = 1..Len(s) /\ s = [i \in 1..Len(s) |-> s[i]]
    BY LenProperties
<1>2. s \in Injection(1..Len(s), ToSet(s))
    BY <1>1 DEF Injection, IsInjective, ToSet
<1>3. s \in Surjection(1..Len(s), ToSet(s))
    BY <1>1 DEF Surjection, ToSet
<1>4. IsFiniteSet(1..Len(s)) /\ Cardinality(1..Len(s)) = Len(s)
  <2>1. \A n \in Nat : IsFiniteSet(1..n) /\ Cardinality(1..n) = n
    BY FS_Interval
  <2> QED BY <1>1, <2>1
<1> QED BY <1>2, <1>3, <1>4, FS_Surjection


-----------------------------------------------------------------------------
(* The signals.                                                            *)

SignalFields == {"rule", "category", "confidence", "background"}
SourceNames == {"product technologies", "site technologies", "job signals", "postings", "firmographics", "filings", "homepage",
                "structure", "infrastructure", "regulations", "mentions"}

\* One signal for a rule, a compound with two of the signals it is of, all of one category, and
\* these at least as sure as n.
OnePerRule(results) ==
    /\ \A p \in results : DOMAIN p = SignalFields /\ p.rule \notin SourceNames
    /\ \A p, q \in results : p.rule = q.rule => p = q
Based(results) ==
    \A p \in results : p.rule \in DOMAIN Compounds =>
        \E q, r \in results : q # r /\ q.rule \in Compounds[p.rule] /\ r.rule \in Compounds[p.rule]
OfOneCategory(results) ==
    \A c \in DOMAIN Compounds : \A p \in results : p.rule \in Compounds[c] \cup {c} => p.category = CompoundCategory[c]
AtLeast(results, n) ==
    \A c \in DOMAIN Compounds : \A p \in results : p.rule \in Compounds[c] => p.confidence \in Int /\ p.confidence >= n
Sound(results, n) == OnePerRule(results) /\ Based(results) /\ OfOneCategory(results) /\ AtLeast(results, n)

\* The compounds and what they are of.
LEMMA CompoundsAre ==
    /\ DOMAIN Compounds = {"systemic_security_underinvestment", "engineering_capacity_crisis", "marketing_infra_debt"}
    /\ Compounds["systemic_security_underinvestment"] = {"security_gap", "cert_gap"}
    /\ Compounds["engineering_capacity_crisis"] = {"tech_debt", "scaling_pressure", "hiring_velocity_anomaly"}
    /\ Compounds["marketing_infra_debt"] = {"identity_fragmentation", "tag_bloat", "marketing_product_mismatch"}
    /\ CompoundCategory["systemic_security_underinvestment"] = "security"
    /\ CompoundCategory["engineering_capacity_crisis"] = "engineering"
    /\ CompoundCategory["marketing_infra_debt"] = "marketing"
    BY DEF Compounds, CompoundCategory

\* What a rule says of its signals, whichever company it fires for.
CategoryOf(rule, j) ==
    CASE rule \in {"identity_fragmentation", "marketing_product_mismatch", "tag_bloat"} -> "marketing"
      [] rule \in {"tech_debt", "scaling_pressure", "hiring_velocity_anomaly",
                    "database_scaling_pressure"} -> "engineering"
      [] rule \in {"security_gap", "cert_gap", "compliance_gap"} -> "security"
      [] rule \in {"data_infra_pain", "data_program_capacity_gap"} -> "data"
      [] rule = "transformation_hiring_cluster" -> ClusterCategory(j.initiatives)
      [] OTHER -> "operations"
ConfidenceOf(rule) ==
    CASE rule = "observability_gap" -> 25
      [] rule = "marketing_product_mismatch" -> 45
      [] rule \in {"data_infra_pain", "hiring_velocity_anomaly", "auth_fragmentation"} -> 50
      [] rule \in {"scaling_pressure", "vendor_lock_in", "tool_sprawl", "database_scaling_pressure"} -> 55
      [] rule \in {"multi_cloud", "partner_delivery_motion", "tag_bloat", "transformation_hiring_cluster"} -> 60
      [] rule = "tech_debt" -> 65
      [] rule \in {"identity_fragmentation", "security_gap"} -> 75
      [] rule = "cert_gap" -> 85
      [] OTHER -> 70
SimpleRules ==
    {"identity_fragmentation", "tech_debt", "security_gap", "scaling_pressure", "multi_cloud", "cert_gap",
     "marketing_product_mismatch", "data_infra_pain", "partner_delivery_motion", "cloud_program_capacity_gap",
     "data_program_capacity_gap", "tag_bloat", "vendor_lock_in", "transformation_hiring_cluster", "compliance_gap",
     "hiring_velocity_anomaly", "tool_sprawl", "observability_stack_detected", "observability_gap",
     "database_scaling_pressure", "auth_fragmentation"}
FactOf(p, j) ==
    /\ p.rule \in SimpleRules
    /\ p = [rule |-> p.rule, category |-> CategoryOf(p.rule, j), confidence |-> ConfidenceOf(p.rule),
            background |-> FALSE]

\* A rule fires once or not at all, with what it says.
LEMMA FiredOnce ==
    ASSUME NEW rule, NEW category, NEW confidence, NEW fires, NEW j, NEW p \in Fire(rule, category, confidence, fires),
           rule \in SimpleRules, category = CategoryOf(rule, j), confidence = ConfidenceOf(rule)
    PROVE  FactOf(p, j)
<1>1. p = [rule |-> rule, category |-> category, confidence |-> confidence, background |-> FALSE]
    BY DEF Fire
<1> QED BY <1>1 DEF FactOf
\* The rules of this group say what the tables say.
LEMMA StackFacts ==
    ASSUME NEW t, NEW i, NEW j, NEW p \in StackRules(t, i, j)
    PROVE  FactOf(p, j)
    BY DEF StackRules, Fire, FactOf, SimpleRules, CategoryOf, ConfidenceOf

\* The rules of this group say what the tables say.
LEMMA ProgrammeFacts ==
    ASSUME NEW t, NEW i, NEW j, NEW p \in ProgrammeRules(t, i, j)
    PROVE  FactOf(p, j)
    BY DEF ProgrammeRules, Fire, FactOf, SimpleRules, CategoryOf, ConfidenceOf

\* The rules of this group say what the tables say.
LEMMA ClusterFacts ==
    ASSUME NEW t, NEW i, NEW j, NEW p \in ClusterRules(t, i, j)
    PROVE  FactOf(p, j)
    BY DEF ClusterRules, Fire, FactOf, SimpleRules, CategoryOf, ConfidenceOf

\* The rules of this group say what the tables say.
LEMMA CapacityFacts ==
    ASSUME NEW t, NEW i, NEW j, NEW p \in CapacityRules(t, i, j)
    PROVE  FactOf(p, j)
    BY DEF CapacityRules, Fire, FactOf, SimpleRules, CategoryOf, ConfidenceOf

\* The rules of this group say what the tables say.
LEMMA StoreFacts ==
    ASSUME NEW t, NEW i, NEW j, NEW p \in StoreRules(t, i, j)
    PROVE  FactOf(p, j)
    BY DEF StoreRules, Fire, FactOf, SimpleRules, CategoryOf, ConfidenceOf

Fired(t, i, j) ==
    StackRules(t, i, j) \cup ProgrammeRules(t, i, j) \cup ClusterRules(t, i, j) \cup CapacityRules(t, i, j)
    \cup StoreRules(t, i, j)

\* What fires is one signal for a rule, and no compound.
LEMMA FiredIsSound ==
    ASSUME NEW t, NEW i, NEW j
    PROVE  Sound(Fired(t, i, j), 45) /\ \A p \in Fired(t, i, j) : p.rule \notin DOMAIN Compounds
<1> DEFINE F == Fired(t, i, j)
<1>1. \A p \in F : FactOf(p, j)
    BY StackFacts, ProgrammeFacts, ClusterFacts, CapacityFacts, StoreFacts DEF Fired
<1> HIDE DEF F
<1>2. \A r \in SimpleRules : r \notin SourceNames /\ r \notin DOMAIN Compounds
    BY CompoundsAre DEF SimpleRules, SourceNames
<1>3. OnePerRule(F)
  <2>1. \A p \in F : DOMAIN p = SignalFields
    BY <1>1 DEF FactOf, SignalFields
  <2>2. \A p \in F : p.rule \notin SourceNames
    BY <1>1, <1>2 DEF FactOf
  <2>3. \A p, q \in F : p.rule = q.rule => p = q
    BY <1>1 DEF FactOf
  <2> QED BY <2>1, <2>2, <2>3 DEF OnePerRule
<1>4. \A p \in F : p.rule \notin DOMAIN Compounds
    BY <1>1, <1>2 DEF FactOf
<1>5. OfOneCategory(F)
  <2>1. \A c \in DOMAIN Compounds : \A p \in F : p.rule \in Compounds[c] => CategoryOf(p.rule, j) = CompoundCategory[c]
    BY CompoundsAre DEF CategoryOf
  <2>2. \A p \in F : p.category = CategoryOf(p.rule, j)
    BY <1>1 DEF FactOf
  <2> QED BY <1>4, <2>1, <2>2 DEF OfOneCategory
<1>6. AtLeast(F, 45)
  <2>1. \A c \in DOMAIN Compounds : \A r \in Compounds[c] : ConfidenceOf(r) \in Int /\ ConfidenceOf(r) >= 45
    BY CompoundsAre DEF ConfidenceOf
  <2>2. \A p \in F : p.confidence = ConfidenceOf(p.rule)
    BY <1>1 DEF FactOf
  <2> QED BY <2>1, <2>2 DEF AtLeast
<1> QED BY <1>3, <1>4, <1>5, <1>6 DEF Sound, Based, F

\* The confidence of a compound, and the compounds of what fired.
CompoundConfidence(results, c) ==
    Least(Max({0} \cup {p.confidence : p \in {q \in results : q.rule \in Compounds[c]}}) + 10, 95)
CompoundOf(results, c) ==
    [rule |-> c, category |-> CompoundCategory[c], confidence |-> CompoundConfidence(results, c), background |-> FALSE]

\* What is added is one signal for a compound, where two of its signals are.
LEMMA AddedAre ==
    ASSUME NEW results, NEW p
    PROVE  p \in WithCompounds(results) <=>
             \/ p \in results
             \/ \E c \in DOMAIN Compounds :
                  /\ p = CompoundOf(results, c)
                  /\ \E q, r \in results : q # r /\ q.rule \in Compounds[c] /\ r.rule \in Compounds[c]
<1> DEFINE Added(c) == LET found == {q \in results : q.rule \in Compounds[c]} IN
                       Fire(c, CompoundCategory[c], Least(Max({0} \cup {q.confidence : q \in found}) + 10, 95),
                            \E q, r \in found : q # r)
           Two(c) == \E q, r \in results : q # r /\ q.rule \in Compounds[c] /\ r.rule \in Compounds[c]
<1>1. ASSUME NEW c \in DOMAIN Compounds PROVE p \in Added(c) <=> p = CompoundOf(results, c) /\ Two(c)
  <2>1. (\E q, r \in {q \in results : q.rule \in Compounds[c]} : q # r) <=> Two(c)
    OBVIOUS
  <2> HIDE DEF Two
  <2>2. Added(c) = IF Two(c) THEN {CompoundOf(results, c)} ELSE {}
    BY <2>1 DEF Fire, CompoundOf, CompoundConfidence
  <2> HIDE DEF Added
  <2> QED BY <2>2
<1>2. WithCompounds(results) = results \cup UNION {Added(c) : c \in DOMAIN Compounds}
    BY DEF WithCompounds
<1> HIDE DEF Added, Two
<1>3. p \in WithCompounds(results) <=> p \in results \/ \E c \in DOMAIN Compounds : p = CompoundOf(results, c) /\ Two(c)
    BY <1>1, <1>2
<1> QED BY <1>3 DEF Two

\* With its compounds, what fired is as sound.
LEMMA CompoundsAreSound ==
    ASSUME NEW F, Sound(F, 45), \A p \in F : p.rule \notin DOMAIN Compounds
    PROVE  Sound(WithCompounds(F), 45)
<1> DEFINE W == WithCompounds(F)
           Two(c) == \E q, r \in F : q # r /\ q.rule \in Compounds[c] /\ r.rule \in Compounds[c]
<1>1. \A p : p \in W <=> p \in F \/ \E c \in DOMAIN Compounds : p = CompoundOf(F, c) /\ Two(c)
    BY AddedAre
<1> HIDE DEF W
<1>2. \A c : CompoundOf(F, c).rule = c /\ CompoundOf(F, c).category = CompoundCategory[c]
             /\ DOMAIN CompoundOf(F, c) = SignalFields
    BY DEF CompoundOf, SignalFields
<1>3. \A c \in DOMAIN Compounds : c \notin SourceNames /\ \A d \in DOMAIN Compounds : c \notin Compounds[d]
    BY CompoundsAre DEF SourceNames
<1>4. OnePerRule(W)
    BY <1>1, <1>2, <1>3 DEF OnePerRule, Sound
<1>5. Based(W)
  <2>1. ASSUME NEW p \in W, p.rule \in DOMAIN Compounds PROVE Two(p.rule)
    BY <1>1, <1>2, <2>1
  <2>2. F \subseteq W
    BY <1>1
  <2> QED BY <2>1, <2>2 DEF Based
<1> HIDE DEF Two
<1>6. OfOneCategory(W)
    BY <1>1, <1>2, <1>3 DEF OfOneCategory, Sound
<1>7. AtLeast(W, 45)
    BY <1>1, <1>2, <1>3 DEF AtLeast, Sound
<1> QED BY <1>4, <1>5, <1>6, <1>7 DEF Sound, W

\* What changes neither the rules nor the categories, and keeps the signals of compounds sure, keeps the rest.
LEMMA ChangedIsSound ==
    ASSUME NEW R, NEW n, Sound(R, n), NEW m, NEW f, f = [p \in R |-> f[p]],
           \A p \in R : f[p].rule = p.rule /\ f[p].category = p.category /\ DOMAIN f[p] = SignalFields,
           \A c \in DOMAIN Compounds : \A p \in R :
              p.rule \in Compounds[c] => f[p].confidence \in Int /\ f[p].confidence >= m,
           NEW T, T = {f[p] : p \in R}
    PROVE  Sound(T, m)
<1>1. OnePerRule(T)
    BY DEF OnePerRule, Sound
<1>2. Based(T)
  <2>1. ASSUME NEW p \in R, p.rule \in DOMAIN Compounds
        PROVE  \E q, r \in T : q # r /\ q.rule \in Compounds[p.rule] /\ r.rule \in Compounds[p.rule]
    <3>1. PICK q \in R, r \in R : q # r /\ q.rule \in Compounds[p.rule] /\ r.rule \in Compounds[p.rule]
      BY <2>1 DEF Sound, Based
    <3>2. q.rule # r.rule
      BY <3>1 DEF Sound, OnePerRule
    <3>3. f[q].rule # f[r].rule /\ f[q].rule \in Compounds[p.rule] /\ f[r].rule \in Compounds[p.rule]
      BY <3>1, <3>2
    <3>4. f[q] \in T /\ f[r] \in T /\ f[q] # f[r]
      BY <3>3
    <3> QED BY <3>3, <3>4
  <2> QED BY <2>1 DEF Based
<1>3. OfOneCategory(T)
    BY DEF OfOneCategory, Sound
<1>4. AtLeast(T, m)
    BY DEF AtLeast
<1> QED BY <1>1, <1>2, <1>3, <1>4 DEF Sound

\* The other signals of compounds are none of those that are dampened.
LEMMA DampenedIsSound ==
    ASSUME NEW R, Sound(R, 45), NEW t, NEW j
    PROVE  Sound(Dampened(R, t, j), 45)
<1> DEFINE Less(p) == CASE p.rule = "tool_sprawl" /\ t.sites > 3 -> Least(10 * (t.sites - 3), p.confidence - 30)
                        [] p.rule = "database_scaling_pressure" /\ j # Unseen /\ "pipelines" \in j.mentions -> 10
                        [] OTHER -> 0
           f == [p \in R |->
                    [p EXCEPT !.confidence = IF p.confidence - Less(p) < 10 THEN 10 ELSE p.confidence - Less(p)]]
<1>1. Dampened(R, t, j) = {f[p] : p \in R}
    BY DEF Dampened
<1>2. \A c \in DOMAIN Compounds : \A r \in Compounds[c] : r # "tool_sprawl" /\ r # "database_scaling_pressure"
    BY CompoundsAre
<1>3. \A c \in DOMAIN Compounds : \A p \in R : p.rule \in Compounds[c] => Less(p) = 0
    BY <1>2
<1> HIDE DEF Less
<1>4. \A p \in R : f[p].rule = p.rule /\ f[p].category = p.category /\ DOMAIN f[p] = SignalFields
    BY DEF Sound, OnePerRule, SignalFields
<1>5. \A c \in DOMAIN Compounds : \A p \in R :
         p.rule \in Compounds[c] => f[p].confidence \in Int /\ f[p].confidence >= 45
    BY <1>3 DEF Sound, OnePerRule, SignalFields, AtLeast
<1>6. f = [p \in R |-> f[p]]
    OBVIOUS
<1> HIDE DEF f
<1> QED BY <1>1, <1>4, <1>5, <1>6, ChangedIsSound

\* A percentage that is not low stays what it is, up to a bound.
LEMMA ClampedAre ==
    ASSUME NEW n \in Int PROVE Clamped(n) \in Int /\ Clamped(n) >= 10 /\ \A m \in 0 .. 95 : n >= m => Clamped(n) >= m
    BY DEF Clamped, Least

\* A doubt takes twenty at most.
LEMMA DoubtedIsSound ==
    ASSUME NEW R, Sound(R, 45), NEW t, \A r \in DOMAIN t.doubt : t.doubt[r] \in {0, 10, 20}
    PROVE  Sound(Doubted(R, t), 25)
<1> DEFINE f == [p \in R |-> IF p.rule \in DOMAIN t.doubt
                             THEN [p EXCEPT !.confidence = Clamped(p.confidence - t.doubt[p.rule])] ELSE p]
<1>1. Doubted(R, t) = {f[p] : p \in R}
    BY DEF Doubted
<1>2. \A p \in R : f[p].rule = p.rule /\ f[p].category = p.category /\ DOMAIN f[p] = SignalFields
    BY DEF Sound, OnePerRule, SignalFields
<1>3. ASSUME NEW c \in DOMAIN Compounds, NEW p \in R, p.rule \in Compounds[c]
      PROVE  f[p].confidence \in Int /\ f[p].confidence >= 25
  <2>1. p.confidence \in Int /\ p.confidence >= 45 /\ "confidence" \in DOMAIN p
    BY <1>3 DEF Sound, AtLeast, OnePerRule, SignalFields
  <2>2. CASE p.rule \in DOMAIN t.doubt
    <3> DEFINE n == p.confidence - t.doubt[p.rule]
    <3>1. f[p].confidence = Clamped(n)
      BY <2>1, <2>2
    <3>2. n \in Int /\ n >= 25 /\ 25 \in 0 .. 95
      BY <2>1, <2>2
    <3> HIDE DEF n, f
    <3> QED BY <3>1, <3>2, ClampedAre
  <2>3. CASE p.rule \notin DOMAIN t.doubt
    BY <2>1, <2>3
  <2> QED BY <2>2, <2>3
<1>4. f = [p \in R |-> f[p]]
    OBVIOUS
<1> HIDE DEF f
<1> QED BY <1>1, <1>2, <1>3, <1>4, ChangedIsSound

\* What the seller does not sell is dropped with all its compound is of, and nothing else is.
LEMMA WeightedIsSound ==
    ASSUME NEW R, Sound(R, 25), NEW s
    PROVE  Sound(Weighted(R, s), 1)
<1> DEFINE hits(c) == s.hits[c]
           most == Max({s.hits[c] : c \in DOMAIN s.hits})
           Suppressed(p) == p.category = "security" /\ hits("security") = 0
           Change(p) == (IF hits(p.category) >= 1 THEN 15 ELSE IF most >= 2 THEN -10 ELSE 0)
           Boost(p, n) == IF n > 0 /\ p.rule \in Boosts(s.category) THEN n + 15 ELSE n
           Service(p, n) == IF s.services /\ p.category \in {"operations", "data"} THEN n + 5 ELSE n
           Of(p) == IF Suppressed(p) THEN 0
                    ELSE IF most = 0 /\ s.category = "" THEN p.confidence
                    ELSE LET n == Service(p, Boost(p, p.confidence + Change(p))) IN IF n > 0 THEN Clamped(n) ELSE n
           f == [p \in R |-> [p EXCEPT !.confidence = Of(p)]]
           M == {f[p] : p \in R}
<1>1. Weighted(R, s) = {p \in M : p.confidence > 0}
    BY DEF Weighted
<1>2. \A p \in R : Suppressed(p) => Of(p) = 0
    OBVIOUS
<1>3. ASSUME NEW p \in R, p.confidence \in Int, p.confidence >= 25, ~Suppressed(p)
      PROVE  Of(p) \in Int /\ Of(p) >= 1
  <2>1. Change(p) \in {15, -10, 0}
    OBVIOUS
  <2> HIDE DEF Change
  <2>2. p.confidence + Change(p) \in Int /\ p.confidence + Change(p) >= 15
    BY <1>3, <2>1
  <2>3. \A n \in Int : n >= 15 => Boost(p, n) \in Int /\ Boost(p, n) >= 15
    OBVIOUS
  <2>4. \A n \in Int : n >= 15 => Service(p, n) \in Int /\ Service(p, n) >= 15
    OBVIOUS
  <2> HIDE DEF Boost, Service, most, Suppressed
  <2>5. Of(p) \in {p.confidence, Clamped(Service(p, Boost(p, p.confidence + Change(p))))}
    <3> DEFINE n == Service(p, Boost(p, p.confidence + Change(p)))
    <3>1. n > 0
      BY <2>2, <2>3, <2>4
    <3> HIDE DEF n
    <3>2. Of(p) = IF most = 0 /\ s.category = "" THEN p.confidence ELSE IF n > 0 THEN Clamped(n) ELSE n
      BY <1>3 DEF n
    <3> QED BY <3>1, <3>2 DEF n
  <2> HIDE DEF Of
  <2>6. Clamped(Service(p, Boost(p, p.confidence + Change(p)))) \in Int
        /\ Clamped(Service(p, Boost(p, p.confidence + Change(p)))) >= 10
    BY <2>2, <2>3, <2>4, ClampedAre
  <2> QED BY <1>3, <2>5, <2>6
<1> HIDE DEF Of
<1>4. \A p \in R : /\ f[p].rule = p.rule /\ f[p].category = p.category /\ DOMAIN f[p] = SignalFields
                   /\ f[p].confidence = Of(p)
    BY DEF Sound, OnePerRule, SignalFields
<1>5. f = [p \in R |-> f[p]]
    OBVIOUS
<1> HIDE DEF f
<1>6. ASSUME NEW c \in DOMAIN Compounds, NEW p \in R, p.rule \in Compounds[c]
      PROVE  p.confidence \in Int /\ p.confidence >= 25
    BY <1>6 DEF Sound, AtLeast
<1>7. \A c \in DOMAIN Compounds : \A p \in R :
         p.rule \in Compounds[c] => f[p].confidence \in Int /\ f[p].confidence >= 0
  <2> HIDE DEF Suppressed
  <2> QED BY <1>2, <1>3, <1>4, <1>6
<1>8. Sound(M, 0)
    BY <1>4, <1>5, <1>7, ChangedIsSound
<1>9. ASSUME NEW c \in DOMAIN Compounds, NEW p \in M, p.rule \in Compounds[c], ~Suppressed(p)
      PROVE  p.confidence \in Int /\ p.confidence >= 1
  <2>1. PICK q \in R : p = f[q]
    OBVIOUS
  <2>2. ~Suppressed(q) /\ q.rule \in Compounds[c]
    BY <1>4, <1>9, <2>1
  <2> HIDE DEF Suppressed
  <2> QED BY <1>3, <1>4, <1>6, <2>1, <2>2
<1>10. \A p \in M : Suppressed(p) => p.confidence = 0
  <2>1. ASSUME NEW q \in R, Suppressed(f[q]) PROVE f[q].confidence = 0
    <3>1. Suppressed(q)
      BY <1>4, <2>1
    <3> QED BY <1>2, <1>4, <3>1
  <2> QED BY <2>1
<1> DEFINE W == {p \in M : p.confidence > 0}
<1> HIDE DEF M
<1>11. OnePerRule(W) /\ OfOneCategory(W)
    BY <1>8 DEF Sound, OnePerRule, OfOneCategory
<1>12. AtLeast(W, 1)
  <2>1. ASSUME NEW c \in DOMAIN Compounds, NEW p \in W, p.rule \in Compounds[c]
        PROVE  p.confidence \in Int /\ p.confidence >= 1
    BY <1>9, <1>10, <2>1
  <2> QED BY <2>1 DEF AtLeast
<1>13. Based(W)
  <2>1. ASSUME NEW p \in W, p.rule \in DOMAIN Compounds
        PROVE  \E q, r \in W : q # r /\ q.rule \in Compounds[p.rule] /\ r.rule \in Compounds[p.rule]
    <3>1. PICK q \in M, r \in M : q # r /\ q.rule \in Compounds[p.rule] /\ r.rule \in Compounds[p.rule]
      BY <1>8, <2>1 DEF Sound, Based
    <3>2. p.category = q.category /\ p.category = r.category
      BY <1>8, <2>1, <3>1 DEF Sound, OfOneCategory
    <3>3. ~Suppressed(p)
      BY <1>10
    <3>4. ~Suppressed(q) /\ ~Suppressed(r)
      BY <3>2, <3>3
    <3> HIDE DEF Suppressed
    <3>5. q.confidence > 0 /\ r.confidence > 0
      <4>1. q.confidence \in Int /\ q.confidence >= 1 /\ r.confidence \in Int /\ r.confidence >= 1
        BY <1>9, <2>1, <3>1, <3>4
      <4> QED BY <4>1
    <3> QED BY <3>1, <3>5
  <2> QED BY <2>1 DEF Based
<1> QED BY <1>1, <1>11, <1>12, <1>13 DEF Sound

\* The demotion changes nothing but whether a signal is background, which its rule decides.
LEMMA DemotedIsSound ==
    ASSUME NEW R, Sound(R, 1), NEW t, NEW category
    PROVE  /\ Sound(Demoted(R, t, category), 1)
           /\ \A p \in Demoted(R, t, category) : p.background = ~ActionRelevant(p, t, category)
<1> DEFINE f == [p \in R |-> [p EXCEPT !.background = ~ActionRelevant(p, t, category)]]
<1>1. Demoted(R, t, category) = {f[p] : p \in R}
    BY DEF Demoted
<1>2. \A p \in R : /\ f[p].rule = p.rule /\ f[p].category = p.category /\ DOMAIN f[p] = SignalFields
                   /\ f[p].confidence = p.confidence
    BY DEF Sound, OnePerRule, SignalFields
<1>3. \A p \in R : f[p].background = ~ActionRelevant(p, t, category)
    BY DEF Sound, OnePerRule, SignalFields
<1>4. \A p \in R : ActionRelevant(f[p], t, category) <=> ActionRelevant(p, t, category)
    BY <1>2 DEF ActionRelevant
<1>5. \A c \in DOMAIN Compounds : \A p \in R :
         p.rule \in Compounds[c] => f[p].confidence \in Int /\ f[p].confidence >= 1
    BY <1>2 DEF Sound, AtLeast
<1>6. f = [p \in R |-> f[p]]
    OBVIOUS
<1> HIDE DEF f
<1>7. Sound({f[p] : p \in R}, 1)
    BY <1>2, <1>5, <1>6, ChangedIsSound
<1> QED BY <1>1, <1>3, <1>4, <1>7

\* What the engine infers is sound, and the background of each signal as its rule has it.
LEMMA EvaluatedIsSound ==
    ASSUME NEW c \in Bundles, NEW s
    PROVE  /\ Sound(Evaluate(c, s), 1)
           /\ \A p \in Evaluate(c, s) : p.background = ~ActionRelevant(p, c.tech, s.category)
<1> DEFINE j == Parsed(c.jobs)
           F == Fired(c.tech, c.infra, j)
           D == Doubted(Dampened(WithCompounds(F), c.tech, j), c.tech)
<1>1. Sound(F, 45) /\ \A p \in F : p.rule \notin DOMAIN Compounds
    BY FiredIsSound
<1>2. Evaluate(c, s) = Demoted(Weighted(D, s), c.tech, s.category)
    BY DEF Evaluate, Fired
<1>3. \A r \in DOMAIN c.tech.doubt : c.tech.doubt[r] \in {0, 10, 20}
    BY InferConstants
<1> HIDE DEF j, F
<1>4. Sound(D, 25)
    BY <1>1, <1>3, CompoundsAreSound, DampenedIsSound, DoubtedIsSound
<1> HIDE DEF D
<1> QED BY <1>2, <1>4, WeightedIsSound, DemotedIsSound

\* A compound that is no background has no ground that is, but for one compound and one kind of seller.
LEMMA GroundsAreAhead ==
    ASSUME NEW c \in DOMAIN Compounds, NEW p, NEW q, p.rule = c, q.rule \in Compounds[c], NEW t, NEW category,
           t.linked \cap DOMAIN Compounds = {}, ActionRelevant(p, t, category),
           ~(c = "marketing_infra_debt" /\ category = "devtools")
    PROVE  ActionRelevant(q, t, category)
<1>1. ~Linked(c, t, category)
    BY DEF Linked
<1>2. Family(c) \cap Denied(category) = {}
    BY <1>1 DEF ActionRelevant
<1>3. CASE c # "marketing_infra_debt"
  <2>1. Family(q.rule) = {}
    BY <1>3, CompoundsAre DEF Family
  <2> QED BY <2>1 DEF ActionRelevant
<1>4. CASE c = "marketing_infra_debt"
  <2>1. Family(c) = {"marketing_tags"}
    BY <1>4 DEF Family
  <2>2. Denied(category) = {}
    BY <1>2, <2>1 DEF Denied
  <2> QED BY <2>2 DEF ActionRelevant
<1> QED BY <1>3, <1>4

-----------------------------------------------------------------------------
(* The prompt.                                                             *)

Signed(sources, ps, ofSource, ofPain) ==
    {<<ofSource[s], s>> : s \in sources} \cup {<<ofPain[p], p.rule>> : p \in ps}

Naming(entries, x) == {entry \in entries : entry[2] = x}

\* A prompt has one entry for every source and every signal.
LEMMA PromptHasAll ==
    ASSUME NEW sources, NEW ps, OnePerRule(ps), sources \subseteq SourceNames, NEW ofSource, NEW ofPain,
           NEW entries, entries = Signed(sources, ps, ofSource, ofPain)
    PROVE  /\ \A x \in sources \cup {p.rule : p \in ps} : Cardinality(Naming(entries, x)) = 1
           /\ \A x \in SourceNames \ sources : Naming(entries, x) = {}
           /\ \A x \in sources : Naming(entries, x) = {<<ofSource[x], x>>}
           /\ \A p \in ps : \A tier : <<tier, p.rule>> \in entries => tier = ofPain[p]
<1>1. \A p \in ps : p.rule \notin sources
    BY DEF OnePerRule
<1>2. ASSUME NEW x \in sources PROVE Naming(entries, x) = {<<ofSource[x], x>>}
    BY <1>1 DEF Signed, Naming
<1>3. ASSUME NEW p \in ps PROVE Naming(entries, p.rule) = {<<ofPain[p], p.rule>>}
  <2>1. \A q \in ps : q.rule = p.rule => q = p
    BY DEF OnePerRule
  <2> QED BY <1>1, <2>1 DEF Signed, Naming
<1>4. \A x \in sources : Cardinality(Naming(entries, x)) = 1
    BY <1>2, FS_Singleton
<1>5. \A p \in ps : Cardinality(Naming(entries, p.rule)) = 1
    BY <1>3, FS_Singleton
<1>6. ASSUME NEW p \in ps, NEW tier, <<tier, p.rule>> \in entries PROVE tier = ofPain[p]
  <2>1. <<tier, p.rule>> \in Naming(entries, p.rule)
    BY <1>6 DEF Naming
  <2>2. <<tier, p.rule>> = <<ofPain[p], p.rule>>
    BY <1>3, <2>1
  <2> QED BY <2>2
<1>7. ASSUME NEW x \in SourceNames \ sources PROVE Naming(entries, x) = {}
  <2>1. \A p \in ps : p.rule # x
    BY DEF OnePerRule
  <2> QED BY <2>1 DEF Signed, Naming
<1> QED BY <1>2, <1>4, <1>5, <1>6, <1>7

\* Of the sources the flat prompt names all, under one heading, and a tiered one none of the
\* marketing sites, in tiers alone; both put apart what is background.
NamedIn(flat, sources) == IF flat THEN sources ELSE sources \ {"site technologies"}
ApartAs(flat, ofSource, ofPain, sources, ps, entries) ==
    /\ entries = Signed(NamedIn(flat, sources), ps, ofSource, ofPain)
    /\ \A x \in NamedIn(flat, sources) : ofSource[x] = "flat" <=> flat
    /\ \A p \in ps : ~flat => ofPain[p] # "flat"
    /\ \A p \in ps : p.background => ofPain[p] \in {"tier3", "background"}
SignedApart(sources, ps, entries) ==
    \E flat \in BOOLEAN : \E ofSource, ofPain : ApartAs(flat, ofSource, ofPain, sources, ps, entries)

\* Both prompts are such.
LEMMA PromptsAreSigned ==
    ASSUME NEW sources, NEW ps, NEW entries, sources \subseteq SourceNames,
           entries = TieredUserPrompt(sources, ps) \/ entries = FlatUserPrompt(sources, ps)
    PROVE  SignedApart(sources, ps, entries)
<1>1. CASE entries = TieredUserPrompt(sources, ps)
  <2> DEFINE a == [s \in sources \ {"site technologies"} |-> SourceTier(s)]
             b == [p \in ps |-> PainTier(p)]
  <2>1. entries = Signed(NamedIn(FALSE, sources), ps, a, b)
    BY <1>1 DEF TieredUserPrompt, Signed, NamedIn
  <2>2. \A p \in ps : p.background => b[p] = "tier3"
    BY DEF PainTier
  <2>3. \A p \in ps : b[p] # "flat"
    BY DEF PainTier
  <2>4. \A x \in NamedIn(FALSE, sources) : a[x] # "flat"
    BY DEF SourceTier, SourceNames, NamedIn
  <2> HIDE DEF a, b
  <2>5. ApartAs(FALSE, a, b, sources, ps, entries)
    BY <2>1, <2>2, <2>3, <2>4 DEF ApartAs
  <2> QED BY <2>5 DEF SignedApart
<1>2. CASE entries = FlatUserPrompt(sources, ps)
  <2> DEFINE a == [s \in sources |-> "flat"]
             b == [p \in ps |-> IF p.background THEN "background" ELSE "flat"]
  <2>1. entries = Signed(NamedIn(TRUE, sources), ps, a, b)
    BY <1>2 DEF FlatUserPrompt, Signed, NamedIn
  <2>2. \A p \in ps : p.background => b[p] = "background"
    OBVIOUS
  <2>3. \A x \in NamedIn(TRUE, sources) : a[x] = "flat"
    BY DEF NamedIn
  <2> HIDE DEF a, b
  <2>4. ApartAs(TRUE, a, b, sources, ps, entries)
    BY <2>1, <2>2, <2>3 DEF ApartAs
  <2> QED BY <2>4 DEF SignedApart
<1> QED BY <1>1, <1>2

-----------------------------------------------------------------------------
(* The engine.                                                             *)

\* What was inferred is of the company and the seller, and the prompt of what was inferred.
InferInv ==
    /\ reading \in {"idle", "collected"} => pains = {}
    /\ reading \in {"idle", "collected", "inferred", "prompted"}
    /\ reading # "idle" => company \in Bundles
    /\ reading \in {"inferred", "prompted"} => pains = Evaluate(company, seller)
    /\ reading = "prompted" =>
         \/ prompt = TieredUserPrompt(Relevant(company, seller), pains)
         \/ prompt = FlatUserPrompt(Relevant(company, seller), pains)

\* Every step of the engine keeps that.
LEMMA InferStep ==
    ASSUME InferInv, InferNext \/ UNCHANGED inferVars
    PROVE  InferInv'
<1>1. CASE Collected
    BY <1>1 DEF InferInv, Collected
<1>2. CASE Infer
    BY <1>2 DEF InferInv, Infer
<1>3. CASE BuildUserPrompt
  <2>1. \/ prompt' = TieredUserPrompt(Relevant(company, seller), pains)
        \/ prompt' = FlatUserPrompt(Relevant(company, seller), pains)
    BY <1>3 DEF BuildUserPrompt
  <2> QED BY <1>3, <2>1 DEF InferInv, BuildUserPrompt
<1>4. CASE UNCHANGED inferVars
    BY <1>4 DEF InferInv, inferVars
<1> QED BY <1>1, <1>2, <1>3, <1>4 DEF InferNext

\* It is enough for what is said of compounds and of prompts.
LEMMA InferenceStands ==
    ASSUME InferInv
    PROVE  CompoundsStandOnSignals /\ PromptIsComplete
<1>1. CASE reading \in {"idle", "collected"}
  <2>1. pains = {} /\ reading # "prompted"
    BY <1>1 DEF InferInv
  <2> QED BY <2>1 DEF CompoundsStandOnSignals, PromptIsComplete
<1>2. CASE reading \in {"inferred", "prompted"}
  <2>1. company \in Bundles /\ pains = Evaluate(company, seller)
    BY <1>2 DEF InferInv
  <2>2. Sound(pains, 1) /\ \A p \in pains : p.background = ~ActionRelevant(p, company.tech, seller.category)
    BY <2>1, EvaluatedIsSound
  <2>3. company.tech.linked \cap DOMAIN Compounds = {} /\ company.sources \subseteq SourceNames
    BY <2>1, InferConstants DEF SourceNames
  <2>4. CompoundsStandOnSignals
    <3>1. ASSUME NEW p \in pains, p.rule \in DOMAIN Compounds
          PROVE  LET grounds == {q \in pains : q.rule \in Compounds[p.rule]} IN
                 /\ \E q, r \in grounds : q # r
                 /\ ~p.background => \/ \A q \in grounds : ~q.background
                                     \/ p.rule = "marketing_infra_debt" /\ seller.category = "devtools"
      <4>1. \E q, r \in pains : q # r /\ q.rule \in Compounds[p.rule] /\ r.rule \in Compounds[p.rule]
        BY <2>2, <3>1 DEF Sound, Based
      <4>2. ASSUME ~p.background, ~(p.rule = "marketing_infra_debt" /\ seller.category = "devtools"),
                   NEW q \in pains, q.rule \in Compounds[p.rule]
            PROVE  ~q.background
        <5>1. ActionRelevant(p, company.tech, seller.category)
          BY <2>2, <4>2
        <5>2. ActionRelevant(q, company.tech, seller.category)
          BY <2>3, <3>1, <4>2, <5>1, GroundsAreAhead
        <5> QED BY <2>2, <5>2
      <4> QED BY <4>1, <4>2
    <3> QED BY <3>1 DEF CompoundsStandOnSignals
  <2>5. ASSUME reading = "prompted"
        PROVE  PromptIsComplete
    <3> DEFINE sources == Relevant(company, seller)
    <3>1. prompt = TieredUserPrompt(sources, pains) \/ prompt = FlatUserPrompt(sources, pains)
      BY <2>5 DEF InferInv
    <3>2. sources \subseteq company.sources /\ sources \subseteq SourceNames /\ company.sources \subseteq SourceNames
      BY <2>3 DEF Relevant
    <3> HIDE DEF sources
    <3>3. OnePerRule(pains)
      BY <2>2 DEF Sound
    <3>4. SignedApart(sources, pains, prompt)
      BY <3>1, <3>2, PromptsAreSigned
    <3>a. PICK flat \in BOOLEAN : \E ofSource, ofPain : ApartAs(flat, ofSource, ofPain, sources, pains, prompt)
      BY <3>4 DEF SignedApart
    <3>5. PICK ofSource, ofPain : ApartAs(flat, ofSource, ofPain, sources, pains, prompt)
      BY <3>a
    <3> DEFINE named == NamedIn(flat, sources)
    <3>6. named \subseteq SourceNames /\ named \subseteq sources
      BY <3>2 DEF NamedIn
    <3>7. prompt = Signed(named, pains, ofSource, ofPain)
      BY <3>5 DEF ApartAs
    <3> HIDE DEF named
    <3>8. /\ \A x \in named \cup {p.rule : p \in pains} : Cardinality(Naming(prompt, x)) = 1
          /\ \A x \in SourceNames \ named : Naming(prompt, x) = {}
          /\ \A x \in named : Naming(prompt, x) = {<<ofSource[x], x>>}
          /\ \A p \in pains : \A tier : <<tier, p.rule>> \in prompt => tier = ofPain[p]
      BY <3>3, <3>6, <3>7, PromptHasAll
    <3>9. \A entry \in {e \in prompt : e[2] = "site technologies"} : entry[1] = "flat"
      <4> SUFFICES ASSUME NEW entry \in Naming(prompt, "site technologies") PROVE entry[1] = "flat"
        BY DEF Naming
      <4>1. "site technologies" \in named
        <5>1. "site technologies" \in SourceNames
          BY DEF SourceNames
        <5> QED BY <3>8, <5>1
      <4>2. ofSource["site technologies"] = "flat"
        BY <3>5, <4>1 DEF ApartAs, named, NamedIn
      <4>3. entry = <<"flat", "site technologies">>
        BY <3>8, <4>1, <4>2
      <4> QED BY <4>3
    <3>10. ASSUME "site technologies" \in sources, NEW entry \in prompt, entry[1] = "flat"
           PROVE  <<"flat", "site technologies">> \in prompt
      <4>1. ASSUME NEW x \in named, entry = <<ofSource[x], x>> PROVE flat
        BY <3>5, <3>10, <4>1 DEF ApartAs, named
      <4>2. ASSUME NEW p \in pains, entry = <<ofPain[p], p.rule>> PROVE flat
        BY <3>5, <3>10, <4>2 DEF ApartAs
      <4>3. flat
        BY <3>7, <3>10, <4>1, <4>2 DEF Signed
      <4>4. "site technologies" \in named /\ ofSource["site technologies"] = "flat"
        BY <3>5, <3>10, <4>3 DEF ApartAs, named, NamedIn
      <4> QED BY <3>7, <4>4 DEF Signed
    <3>11. \A x \in (sources \ {"site technologies"}) \cup {p.rule : p \in pains} :
              Cardinality({entry \in prompt : entry[2] = x}) = 1
      BY <3>8 DEF named, NamedIn, Naming
    <3>12. \A x \in company.sources \ sources : {entry \in prompt : entry[2] = x} = {}
      <4>1. \A x \in company.sources \ sources : x \in SourceNames \ named
        BY <3>2, <3>6
      <4> QED BY <3>8, <4>1 DEF Naming
    <3>13. \A p \in pains : p.background =>
              \A tier \in {"tier1", "tier2", "flat"} : <<tier, p.rule>> \notin prompt
      BY <3>5, <3>8 DEF ApartAs
    <3> QED BY <3>9, <3>10, <3>11, <3>12, <3>13 DEF PromptIsComplete, sources
  <2>6. PromptIsComplete
    <3>1. CASE reading # "prompted"
      BY <3>1 DEF PromptIsComplete
    <3> QED BY <2>5, <3>1
  <2> QED BY <2>4, <2>6
<1> QED BY <1>1, <1>2 DEF InferInv


-----------------------------------------------------------------------------
(* Answers and their scores.                                               *)

\* A rounded mean of three percentages lies between the lowest and the highest.
LEMMA MeanIsBetween ==
    ASSUME NEW p \in Nat, NEW f \in Nat, NEW t \in Nat, NEW low \in Nat, NEW high \in Nat,
           low <= p, low <= f, low <= t, p <= high, f <= high, t <= high
    PROVE  Composite(p, f, t) \in low .. high
<1> DEFINE n == 40 * p + 35 * f + 25 * t
           q == n \div 100
           r == n % 100
           up == r > 50 \/ (r = 50 /\ q % 2 = 1)
<1>1. n \in Nat /\ 100 * low <= n /\ n <= 100 * high
    OBVIOUS
<1>2. Composite(p, f, t) = q + (IF up THEN 1 ELSE 0)
    BY DEF Composite
<1> HIDE DEF n
<1>3. q \in Nat /\ r \in 0 .. 99 /\ n = 100 * q + r
    BY <1>1
<1> HIDE DEF q, r
<1>4. low <= q /\ q <= high
    BY <1>1, <1>3
<1>5. r > 0 => q < high
    BY <1>1, <1>3
<1>6. up => r > 0
    BY <1>3
<1> HIDE DEF up
<1> QED BY <1>2, <1>3, <1>4, <1>5, <1>6

\* Of three numbers one is the least and one the greatest.
LEMMA LeastAndGreatest ==
    ASSUME NEW p \in Nat, NEW f \in Nat, NEW t \in Nat
    PROVE  \E low, high \in {p, f, t} : low <= p /\ low <= f /\ low <= t /\ p <= high /\ f <= high /\ t <= high
<1>1. \E low \in {p, f, t} : low <= p /\ low <= f /\ low <= t
    OBVIOUS
<1>2. \E high \in {p, f, t} : p <= high /\ f <= high /\ t <= high
    OBVIOUS
<1> QED BY <1>1, <1>2

\* A composite that the answer leaves out is computed of the other scores, and lies between them.
LEMMA CompositeStands ==
    ASSUME NEW a \in Answers, NEW sc, sc = ParseScores(a), a.scores.composite = Absent, sc.composite # Absent
    PROVE  \E low, high \in {sc.pain, sc.fit, sc.timing} : sc.composite \in low .. high
<1> DEFINE Read(n) == IF n > 100 THEN 100 ELSE n
           p == Read(a.scores.pain)
           f == Read(a.scores.fit)
           t == Read(a.scores.timing)
<1>1. \A n \in Nat \cup {Absent} : Read(n) \in Nat \cup {Absent}
    BY DEF Absent
<1>2. a.scores.pain \in Nat \cup {Absent} /\ a.scores.fit \in Nat \cup {Absent} /\ a.scores.timing \in Nat \cup {Absent}
    BY GenerationConstants
<1>3. Read(Absent) = Absent
    BY DEF Absent
<1> HIDE DEF Read
<1>4. sc.pain = p /\ sc.fit = f /\ sc.timing = t
    BY DEF ParseScores, Read
<1>5. sc.composite = IF a.scores.composite # Absent \/ Absent \in {p, f, t} THEN Read(a.scores.composite)
                     ELSE Composite(p, f, t)
    BY DEF ParseScores, Read
<1>6. Absent \notin {p, f, t} /\ sc.composite = Composite(p, f, t)
    BY <1>3, <1>5
<1>7. p \in Nat /\ f \in Nat /\ t \in Nat
    BY <1>1, <1>2, <1>6
<1> HIDE DEF p, f, t
<1>8. PICK low \in {p, f, t}, high \in {p, f, t} :
         low <= p /\ low <= f /\ low <= t /\ p <= high /\ f <= high /\ t <= high
    BY <1>7, LeastAndGreatest
<1>9. Composite(p, f, t) \in low .. high
  <2>1. low \in Nat /\ high \in Nat
    BY <1>7, <1>8
  <2> QED BY <1>7, <1>8, <2>1, MeanIsBetween
<1> QED BY <1>4, <1>6, <1>8, <1>9

-----------------------------------------------------------------------------
(* The sections.                                                           *)

\* The sections of an answer are sequences of lines, and so are these without their hedges.
LEMMA SectionsAreSequences ==
    ASSUME NEW a \in Answers, NEW s \in Sections
    PROVE  /\ ParseSections(a)[s] \in Seq(ToSet(ParseSections(a)[s]))
           /\ Unhedged(ParseSections(a)[s]) \in Seq(ToSet(Unhedged(ParseSections(a)[s])))
<1> DEFINE own == {i \in DOMAIN a.blocks : s \in SectionOf(a.blocks[i].header)}
           told == ParseSections(a)[s]
<1>1. told = IF own = {} THEN <<>> ELSE a.blocks[Max(own)].lines
    BY DEF ParseSections
<1>2. own # {} => Max(own) \in own
  <2>1. Len(a.blocks) \in Nat /\ DOMAIN a.blocks = 1..Len(a.blocks)
    BY GenerationConstants, LenProperties
  <2>2. own \subseteq 0..Len(a.blocks)
    BY <2>1
  <2> HIDE DEF own
  <2>3. own # {} => \E x \in own : \A y \in own : x >= y
    BY <2>1, <2>2, GreatestNumber
  <2> QED BY <2>3 DEF Max
<1>3. told \in Seq(ToSet(told))
  <2>1. CASE own = {}
    BY <1>1, <2>1, EmptySeq
  <2>2. CASE own # {}
    <3>1. \A i \in DOMAIN a.blocks : a.blocks[i].lines \in Seq(ToSet(a.blocks[i].lines))
      BY GenerationConstants
    <3>2. Max(own) \in DOMAIN a.blocks
      BY <1>2, <2>2
    <3> HIDE DEF own, told
    <3> QED BY <1>1, <2>2, <3>1, <3>2
  <2> QED BY <2>1, <2>2
<1> HIDE DEF told
<1>4. Unhedged(told) \in Seq(ToSet(Unhedged(told)))
  <2>1. Len(told) \in Nat /\ DOMAIN told = 1..Len(told)
    BY <1>3, LenProperties
  <2>2. DOMAIN Unhedged(told) = 1..Len(told) /\ Unhedged(told) = [i \in 1..Len(told) |-> Unhedged(told)[i]]
    BY <2>1 DEF Unhedged
  <2>3. \A i \in 1..Len(told) : Unhedged(told)[i] \in ToSet(Unhedged(told))
    BY <2>2 DEF ToSet
  <2>4. Unhedged(told) \in [1..Len(told) -> ToSet(Unhedged(told))]
    BY <2>2, <2>3
  <2> QED BY <2>1, <2>4
<1> QED BY <1>3, <1>4 DEF told

\* The sections of a document before its formatter: sequences all of them.
Sequences4(secs) == \A s \in Sections : secs[s] \in Seq(ToSet(secs[s]))
KeptPlaces(secs, s) == DOMAIN secs[s] \ Repeated(secs, s)

\* A section that is gone through keeps the lines that were not said before.
LEMMA KeptLines ==
    ASSUME NEW secs, Sequences4(secs), NEW s \in DOMAIN Priority
    PROVE  ToSet(DeduplicateAcrossSections(secs)[s]) = {secs[s][i] : i \in KeptPlaces(secs, s)}
<1>1. s \in Sections
    BY DEF Priority, Sections
<1>2. DeduplicateAcrossSections(secs)[s] = Picked(secs[s], KeptPlaces(secs, s))
    BY <1>1 DEF DeduplicateAcrossSections, KeptPlaces
<1>3. secs[s] \in Seq(ToSet(secs[s])) /\ KeptPlaces(secs, s) \subseteq DOMAIN secs[s]
    BY <1>1 DEF Sequences4, KeptPlaces
<1> QED BY <1>2, <1>3, PickedMembers

\* Sections are told apart by their priorities, which are numbers.
LEMMA PrioritiesDiffer ==
    /\ DOMAIN Priority = {"edp", "before", "problems", "points"}
    /\ \A s \in DOMAIN Priority : Priority[s] \in Nat
    /\ \A s, r \in DOMAIN Priority : s # r => Priority[s] < Priority[r] \/ Priority[r] < Priority[s]
    BY DEF Priority

\* A long line that is kept is said in no section that goes first.
LEMMA KeptIsNew ==
    ASSUME NEW secs, NEW s \in DOMAIN Priority, NEW r \in DOMAIN Priority, Priority[r] < Priority[s],
           NEW i \in KeptPlaces(secs, s), IsLong(secs[s][i])
    PROVE  secs[s][i] \notin ToSet(secs[r])
    BY DEF KeptPlaces, Repeated

\* A line is said in its section or in one that goes first.
LEMMA SaidSomewhere ==
    ASSUME NEW secs, Sequences4(secs), NEW s \in DOMAIN Priority, NEW line \in ToSet(secs[s])
    PROVE  \E r \in DOMAIN Priority : Priority[r] <= Priority[s] /\ line \in ToSet(DeduplicateAcrossSections(secs)[r])
<1> DEFINE T == {Priority[r] : r \in {q \in DOMAIN Priority : line \in ToSet(secs[q])}}
<1>1. T \subseteq Nat /\ Priority[s] \in T
    BY PrioritiesDiffer
<1>2. PICK n \in T : \A m \in T : n <= m
    BY <1>1, LeastNumber
<1>3. PICK r \in DOMAIN Priority : n = Priority[r] /\ line \in ToSet(secs[r])
    BY <1>2
<1>4. Priority[r] <= Priority[s]
    BY <1>1, <1>2, <1>3
<1>5. ASSUME NEW q \in DOMAIN Priority, Priority[q] < Priority[r] PROVE line \notin ToSet(secs[q])
  <2>1. Priority[q] \in Nat /\ Priority[r] \in Nat
    BY PrioritiesDiffer
  <2>2. Priority[q] \notin T
    BY <1>2, <1>3, <1>5, <2>1
  <2> QED BY <2>2
<1> HIDE DEF T
<1>6. r \in Sections
    BY DEF Priority, Sections
<1>7. secs[r] \in Seq(ToSet(secs[r]))
    BY <1>6 DEF Sequences4
<1>8. PICK i \in DOMAIN secs[r] : secs[r][i] = line
    BY <1>3 DEF ToSet
<1>9. PICK k \in FirstPlaces(secs[r]) : secs[r][k] = line
    BY <1>7, <1>8, EveryMemberHasAFirst
<1>10. k \in DOMAIN secs[r]
    BY DEF FirstPlaces
<1>11. k \in KeptPlaces(secs, r)
    BY <1>5, <1>9, <1>10 DEF KeptPlaces, Repeated
<1>12. line \in ToSet(DeduplicateAcrossSections(secs)[r])
    BY <1>9, <1>11, KeptLines
<1> QED BY <1>4, <1>12

\* A long line is said once in the sections that are gone through, none of them
\* is lost, and the others keep theirs: of the sections told before the formatter and those after it.
HeldOf(secs, s) == {line \in ToSet(secs[s]) : IsLong(line)}
SaidOnce(told, secs) ==
    /\ \A s, r \in DOMAIN Priority : s # r => HeldOf(secs, s) \cap HeldOf(secs, r) = {}
    /\ \A s \in DOMAIN Priority : \A line \in ToSet(Unhedged(told[s])) :
         \E r \in DOMAIN Priority : Priority[r] <= Priority[s] /\ line \in ToSet(secs[r])
    /\ \A s \in Sections \ DOMAIN Priority : secs[s] = Unhedged(told[s])

\* What the formatter makes of an answer says everything once.
LEMMA FormatSaysOnce ==
    ASSUME NEW a \in Answers
    PROVE  SaidOnce(ParseSections(a), FormatSections(ParseSections(a)))
<1> DEFINE told == ParseSections(a)
           raw == [s \in Sections |-> Unhedged(told[s])]
           secs == DeduplicateAcrossSections(raw)
<1>1. FormatSections(ParseSections(a)) = secs
    BY DEF FormatSections
<1>2. Sequences4(raw)
    BY SectionsAreSequences DEF Sequences4
<1>3. DOMAIN Priority \subseteq Sections
    BY DEF Priority, Sections
<1>4. \A s \in Sections : raw[s] = Unhedged(told[s])
    OBVIOUS
<1> HIDE DEF raw
<1>5. \A s \in Sections \ DOMAIN Priority : secs[s] = raw[s]
    BY DEF DeduplicateAcrossSections
<1> HIDE DEF secs
<1>6. ASSUME NEW s \in DOMAIN Priority, NEW r \in DOMAIN Priority, Priority[r] < Priority[s]
      PROVE  HeldOf(secs, s) \cap HeldOf(secs, r) = {}
  <2>1. SUFFICES ASSUME NEW line, line \in HeldOf(secs, s), line \in HeldOf(secs, r) PROVE FALSE
    OBVIOUS
  <2>2. IsLong(line) /\ line \in ToSet(secs[s]) /\ line \in ToSet(secs[r])
    BY <2>1 DEF HeldOf
  <2>3. PICK i \in KeptPlaces(raw, s) : line = raw[s][i]
    BY <1>2, <2>2, KeptLines DEF secs
  <2>4. PICK k \in KeptPlaces(raw, r) : line = raw[r][k]
    BY <1>2, <2>2, KeptLines DEF secs
  <2>5. line \in ToSet(raw[r])
    BY <2>4 DEF KeptPlaces, ToSet
  <2> QED BY <1>6, <2>2, <2>3, <2>5, KeptIsNew
<1>7. \A s, r \in DOMAIN Priority : s # r => HeldOf(secs, s) \cap HeldOf(secs, r) = {}
    BY <1>6, PrioritiesDiffer
<1>8. ASSUME NEW s \in DOMAIN Priority, NEW line \in ToSet(Unhedged(told[s]))
      PROVE  \E r \in DOMAIN Priority : Priority[r] <= Priority[s] /\ line \in ToSet(secs[r])
  <2>1. line \in ToSet(raw[s])
    BY <1>3, <1>4
  <2> QED BY <1>2, <2>1, SaidSomewhere DEF secs
<1>9. \A s \in Sections \ DOMAIN Priority : secs[s] = Unhedged(told[s])
    BY <1>4, <1>5
<1> QED BY <1>1, <1>7, <1>8, <1>9 DEF SaidOnce

-----------------------------------------------------------------------------
(* The document over its steps.                                            *)

\* One answer from its receipt to the document: its text, its scores, its sections, and a valid one
\* where one was received.
OfOneAnswer == (\E i \in DOMAIN answers : markdown = answers[i]) /\ markdown \in Answers /\ scores = ParseScores(markdown)
Best == Validation /\ (\E i \in DOMAIN answers : IsValid(answers[i])) => IsValid(markdown)
Formatted == sections = IF TightWriting THEN FormatSections(ParseSections(markdown)) ELSE ParseSections(markdown)
GenerationInv ==
    /\ writing \in {"idle", "asked", "repairing", "kept", "done", "failed"}
    /\ writing \in {"repairing", "kept", "done"} => OfOneAnswer
    /\ writing = "repairing" => answers = <<markdown>> /\ ~IsValid(markdown)
    /\ writing \in {"repairing", "kept"} => sections = ParseSections(markdown)
    /\ writing \in {"kept", "done"} => Best
    /\ writing = "done" => Formatted

\* Before the first answer there is nothing to be kept.
LEMMA GenerationStart == GenerationInit => GenerationInv
    BY DEF GenerationInit, GenerationInv

\* Every step of the generation keeps what is known of the answers.
LEMMA GenerationStep == GenerationInv /\ (GenerationNext \/ UNCHANGED generationVars) => GenerationInv'
<1> SUFFICES ASSUME GenerationInv, GenerationNext \/ UNCHANGED generationVars PROVE GenerationInv'
    OBVIOUS
<1>1. ASSUME AskForResearch \/ GenerationFails PROVE GenerationInv'
    BY <1>1 DEF AskForResearch, GenerationFails, GenerationInv
<1>2. ASSUME NEW answer \in Answers, GenerationAnswers(answer) PROVE GenerationInv'
  <2>1. /\ markdown' = answer /\ sections' = ParseSections(answer) /\ scores' = ParseScores(answer)
        /\ answers' = <<answer>>
        /\ writing' = IF Validation /\ ~IsValid(answer) THEN "repairing" ELSE "kept"
    BY <1>2 DEF GenerationAnswers, Take
  <2>2. DOMAIN answers' = {1} /\ answers'[1] = answer
    BY <2>1
  <2>3. OfOneAnswer'
    BY <2>1, <2>2 DEF OfOneAnswer
  <2>4. writing' = "kept" => Best'
    BY <2>1, <2>2 DEF Best
  <2>5. writing' = "repairing" => ~IsValid(markdown')
    BY <2>1
  <2>6. IsValid(markdown)' <=> IsValid(markdown')
    BY DEF IsValid, ParseSections, ParseScores
  <2> QED BY <2>1, <2>3, <2>4, <2>5, <2>6 DEF GenerationInv
<1>3. ASSUME NEW answer \in Answers, RepairAnswers(answer) PROVE GenerationInv'
  <2>1. /\ OfOneAnswer /\ answers = <<markdown>> /\ ~IsValid(markdown) /\ sections = ParseSections(markdown)
        /\ answers' = Append(answers, answer) /\ writing' = "kept"
    BY <1>3 DEF RepairAnswers, GenerationInv
  <2>2. IF IsValid(answer) THEN markdown' = answer /\ sections' = ParseSections(answer) /\ scores' = ParseScores(answer)
        ELSE markdown' = markdown /\ sections' = sections /\ scores' = scores
    BY <1>3 DEF RepairAnswers, Take
  <2>3. DOMAIN answers' = {1, 2} /\ answers'[1] = markdown /\ answers'[2] = answer
    BY <2>1
  <2>4. OfOneAnswer' /\ sections' = ParseSections(markdown')
    BY <2>1, <2>2, <2>3 DEF OfOneAnswer
  <2>5. (\E i \in DOMAIN answers' : IsValid(answers'[i])) => IsValid(markdown')
    BY <2>1, <2>2, <2>3
  <2>6. Best'
    BY <2>5 DEF Best
  <2> QED BY <2>1, <2>4, <2>6 DEF GenerationInv
<1>4. ASSUME RepairFails PROVE GenerationInv'
  <2>1. /\ OfOneAnswer /\ answers = <<markdown>> /\ ~IsValid(markdown) /\ sections = ParseSections(markdown)
        /\ writing' = "kept" /\ UNCHANGED <<answers, markdown, sections, scores>>
    BY <1>4 DEF RepairFails, GenerationInv
  <2>2. DOMAIN answers' = {1} /\ answers'[1] = markdown
    BY <2>1
  <2>3. OfOneAnswer'
    BY <2>1, <2>2 DEF OfOneAnswer
  <2>4. Best'
    BY <2>1, <2>2 DEF Best
  <2> QED BY <2>1, <2>3, <2>4 DEF GenerationInv
<1>5. ASSUME Format PROVE GenerationInv'
  <2>1. /\ OfOneAnswer /\ Best /\ sections = ParseSections(markdown) /\ writing' = "done"
        /\ sections' = (IF TightWriting THEN FormatSections(sections) ELSE sections)
        /\ UNCHANGED <<answers, markdown, scores>>
    BY <1>5 DEF Format, GenerationInv
  <2>2. OfOneAnswer' /\ Best'
    BY <2>1 DEF OfOneAnswer, Best
  <2>3. Formatted'
    BY <2>1 DEF Formatted
  <2> QED BY <2>1, <2>2, <2>3 DEF GenerationInv
<1>6. ASSUME UNCHANGED generationVars PROVE GenerationInv'
  <2>1. UNCHANGED <<writing, answers, markdown, sections, scores>>
    BY <1>6 DEF generationVars
  <2>2. (OfOneAnswer' <=> OfOneAnswer) /\ (Best' <=> Best) /\ (Formatted' <=> Formatted)
    BY <2>1 DEF OfOneAnswer, Best, Formatted
  <2> QED BY <2>1, <2>2 DEF GenerationInv
<1> QED BY <1>1, <1>2, <1>3, <1>4, <1>5, <1>6 DEF GenerationNext

\* A document that is done is one answer, says a fact once, and its composite lies between its scores.
LEMMA GenerationStands == GenerationInv => DocumentIsOneAnswer /\ FactsSaidOnce /\ CompositeIsMean
<1> SUFFICES ASSUME GenerationInv PROVE DocumentIsOneAnswer /\ FactsSaidOnce /\ CompositeIsMean
    OBVIOUS
<1>1. writing = "done" => OfOneAnswer /\ Best /\ Formatted
    BY DEF GenerationInv
<1>2. DocumentIsOneAnswer
    BY <1>1 DEF DocumentIsOneAnswer, OfOneAnswer, Best, Formatted
<1>3. FactsSaidOnce
  <2>1. SUFFICES ASSUME writing = "done", TightWriting PROVE SaidOnce(ParseSections(markdown), sections)
    BY DEF FactsSaidOnce, SaidOnce, HeldOf
  <2>2. markdown \in Answers /\ sections = FormatSections(ParseSections(markdown))
    BY <1>1, <2>1 DEF OfOneAnswer, Formatted
  <2> QED BY <2>2, FormatSaysOnce
<1>4. CompositeIsMean
  <2>1. SUFFICES ASSUME writing = "done", markdown.scores.composite = Absent, scores.composite # Absent
                 PROVE  \E low, high \in {scores.pain, scores.fit, scores.timing} : scores.composite \in low .. high
    BY DEF CompositeIsMean
  <2>2. markdown \in Answers /\ scores = ParseScores(markdown)
    BY <1>1, <2>1 DEF OfOneAnswer
  <2> QED BY <2>1, <2>2, CompositeStands
<1> QED BY <1>2, <1>3, <1>4


-----------------------------------------------------------------------------
(* The pages a profile is made of.                                         *)

ProfileBuckets == {"product", "audience", "proof"}
\* The pages of a list that a scrape may be spent on, beside the homepage.
Usable(own) == {p \in ToSet(own) \ {Home} : ~p.excluded}

\* The members of a sequence are those at its places.
LEMMA Members ==
    ASSUME NEW S, NEW s \in Seq(S)
    PROVE  /\ Len(s) \in Nat /\ DOMAIN s = 1..Len(s) /\ ToSet(s) \subseteq S
           /\ \A i \in DOMAIN s : s[i] \in ToSet(s) /\ s[i] \in S
           /\ \A m \in ToSet(s) : \E i \in DOMAIN s : s[i] = m
    BY LenProperties DEF ToSet

\* Where a member is appended, the others stay.
LEMMA OneMore ==
    ASSUME NEW S, NEW s \in Seq(S), NEW m \in S
    PROVE  /\ Append(s, m) \in Seq(S) /\ Len(Append(s, m)) = Len(s) + 1
           /\ DOMAIN Append(s, m) = 1..(Len(s) + 1)
           /\ \A i \in 1..Len(s) : Append(s, m)[i] = s[i]
           /\ Append(s, m)[Len(s) + 1] = m
           /\ ToSet(Append(s, m)) = ToSet(s) \cup {m}
<1>1. /\ Append(s, m) \in Seq(S) /\ Len(Append(s, m)) = Len(s) + 1
      /\ \A i \in 1..Len(s) : Append(s, m)[i] = s[i]
      /\ Append(s, m)[Len(s) + 1] = m
    BY AppendProperties
<1>2. Len(s) \in Nat /\ DOMAIN s = 1..Len(s) /\ DOMAIN Append(s, m) = 1..(Len(s) + 1)
    BY <1>1, LenProperties
<1>3. \A i \in 1..(Len(s) + 1) : i \in 1..Len(s) \/ i = Len(s) + 1
    BY <1>2
<1>4. \A i \in 1..Len(s) : i \in 1..(Len(s) + 1)
    BY <1>2
<1>5. Len(s) + 1 \in 1..(Len(s) + 1)
    BY <1>2
<1>6. ToSet(Append(s, m)) = {Append(s, m)[i] : i \in 1..(Len(s) + 1)} /\ ToSet(s) = {s[i] : i \in 1..Len(s)}
    BY <1>2 DEF ToSet
<1> QED BY <1>1, <1>2, <1>3, <1>4, <1>5, <1>6

\* The own pages of a list are all pages of it that are on the seller's host, each once.
LEMMA OwnPagesOnce ==
    ASSUME NEW urls \in Seq(SitePages)
    PROVE  /\ OwnPages(urls) \in Seq(SitePages) /\ IsInjective(OwnPages(urls))
           /\ ToSet(OwnPages(urls)) = {p \in ToSet(urls) : p.host = Home.host}
<1> DEFINE places == {i \in FirstPlaces(urls) : urls[i].host = Home.host}
<1>1. places \subseteq DOMAIN urls
    BY DEF FirstPlaces
<1>2. \A i, k \in places : urls[i] = urls[k] => i = k
    BY FirstsDiffer
<1>3. \A i \in DOMAIN urls : \E k \in FirstPlaces(urls) : urls[k] = urls[i]
    BY EveryMemberHasAFirst
<1>4. OwnPages(urls) = Picked(urls, places)
    BY DEF OwnPages
<1>5. {urls[i] : i \in places} = {p \in ToSet(urls) : p.host = Home.host}
  <2>1. \A p \in ToSet(urls) : \E k \in FirstPlaces(urls) : urls[k] = p
    BY <1>3, Members
  <2>2. \A i \in FirstPlaces(urls) : urls[i] \in ToSet(urls)
    BY Members DEF FirstPlaces
  <2> QED BY <2>1, <2>2
<1> HIDE DEF places
<1> QED BY <1>1, <1>2, <1>4, <1>5, PickedMembers, PickedOnce

\* A page that is excluded scores for no bucket; another scores its weight and two at most.
LEMMA ScoresAreSmall ==
    ASSUME NEW p \in SitePages, NEW b \in ProfileBuckets
    PROVE  /\ ScoreUrl(p, b) \in Int
           /\ ScoreUrl(p, b) <= 12
           /\ p.excluded => ScoreUrl(p, b) = -1
           /\ ~p.excluded => p.weights[b] <= ScoreUrl(p, b) /\ ScoreUrl(p, b) <= p.weights[b] + 2
           /\ p.weights[b] \in {0} \cup 3..10
<1> DEFINE w == p.weights[b]
<1>1. w \in {0} \cup 3..10
    BY ProfileConstants DEF ProfileBuckets
<1> HIDE DEF w
<1>2. ScoreUrl(p, b) = IF p.excluded THEN -1 ELSE w + (IF p.deep THEN 0 ELSE 1) + (IF p.long THEN 0 ELSE 1)
    BY DEF ScoreUrl, w
<1>3. w \in Int
    BY <1>1
<1>4. ScoreUrl(p, b) \in Int /\ ScoreUrl(p, b) <= 12
      /\ (p.excluded => ScoreUrl(p, b) = -1)
      /\ (~p.excluded => w <= ScoreUrl(p, b) /\ ScoreUrl(p, b) <= w + 2)
    BY <1>1, <1>2, <1>3
<1> QED BY <1>1, <1>4 DEF w

\* The pages left for a bucket, and the first of the best among them.
LeftFor(chosen, b, urls) == {i \in DOMAIN urls : urls[i] \notin ToSet(chosen) /\ ScoreUrl(urls[i], b) > 0}
FirstOfBest(i, left, b, urls) ==
    \A k \in left : \/ ScoreUrl(urls[k], b) < ScoreUrl(urls[i], b)
                    \/ ScoreUrl(urls[k], b) = ScoreUrl(urls[i], b) /\ i <= k

\* Where pages are left, one of them is the first of the best.
LEMMA BestIsThere ==
    ASSUME NEW urls \in Seq(SitePages), NEW b \in ProfileBuckets, NEW chosen,
           LeftFor(chosen, b, urls) # {}
    PROVE  \E i \in LeftFor(chosen, b, urls) : FirstOfBest(i, LeftFor(chosen, b, urls), b, urls)
<1> DEFINE left == LeftFor(chosen, b, urls)
           T == {ScoreUrl(urls[i], b) : i \in left}
<1>1. \A i \in left : i \in DOMAIN urls /\ urls[i] \in SitePages /\ ScoreUrl(urls[i], b) > 0
    BY Members DEF LeftFor
<1>2. \A i \in left : ScoreUrl(urls[i], b) \in Int /\ ScoreUrl(urls[i], b) <= 12
    BY <1>1, ScoresAreSmall
<1>3. \A i \in left : ScoreUrl(urls[i], b) \in 0..12
    BY <1>1, <1>2
<1>4. left \subseteq Nat
    BY <1>1, Members
<1> HIDE DEF left
<1>5. T \subseteq 0..12 /\ T # {}
    BY <1>3 DEF left
<1>6. PICK m \in T : \A n \in T : m >= n
    BY <1>5, GreatestNumber
<1> DEFINE R == {i \in left : ScoreUrl(urls[i], b) = m}
<1>7. R \subseteq Nat /\ R # {}
    BY <1>4
<1>8. PICK i \in R : \A k \in R : i <= k
    BY <1>7, LeastNumber
<1>9. m \in Int /\ i \in left /\ ScoreUrl(urls[i], b) = m
    BY <1>5
<1>10. ASSUME NEW k \in left
       PROVE  ScoreUrl(urls[k], b) < ScoreUrl(urls[i], b) \/ (ScoreUrl(urls[k], b) = ScoreUrl(urls[i], b) /\ i <= k)
  <2>1. ScoreUrl(urls[k], b) \in T /\ ScoreUrl(urls[k], b) \in Int
    BY <1>3
  <2>2. ScoreUrl(urls[k], b) <= m
    BY <1>6, <1>9, <2>1
  <2>3. ScoreUrl(urls[k], b) = m => i <= k
    BY <1>8
  <2> QED BY <1>9, <2>1, <2>2, <2>3
<1> QED BY <1>9, <1>10 DEF FirstOfBest, left

\* A bucket takes the first of its best pages, when there are one and a scrape for it.
LEMMA PickForTakes ==
    ASSUME NEW urls \in Seq(SitePages), NEW b \in ProfileBuckets, NEW chosen
    PROVE  LET left == LeftFor(chosen, b, urls) IN
           IF Len(chosen) >= MaxProfileScrapes \/ left = {} THEN PickFor(chosen, b, urls) = chosen
           ELSE \E i \in left : FirstOfBest(i, left, b, urls) /\ PickFor(chosen, b, urls) = Append(chosen, urls[i])
<1> DEFINE left == LeftFor(chosen, b, urls)
<1>1. PickFor(chosen, b, urls) =
         IF Len(chosen) >= MaxProfileScrapes \/ left = {} THEN chosen
         ELSE Append(chosen, urls[CHOOSE i \in left : FirstOfBest(i, left, b, urls)])
    BY DEF PickFor, LeftFor, FirstOfBest
<1>2. left # {} => \E i \in left : FirstOfBest(i, left, b, urls)
    BY BestIsThere
<1> HIDE DEF left
<1>3. left # {} => (CHOOSE i \in left : FirstOfBest(i, left, b, urls)) \in left
                   /\ FirstOfBest(CHOOSE i \in left : FirstOfBest(i, left, b, urls), left, b, urls)
    BY <1>2
<1> QED BY <1>1, <1>3 DEF left

\* What is chosen: the homepage, then usable pages, none twice, three at most.
Spent(chosen, own) ==
    /\ chosen \in Seq(SitePages) /\ Len(chosen) \in 1..MaxProfileScrapes
    /\ chosen[1] = Home /\ IsInjective(chosen)
    /\ ToSet(chosen) \subseteq {Home} \cup Usable(own)

\* A bucket spends at most one scrape, on a usable page that was not chosen.
LEMMA PickForSpends ==
    ASSUME NEW own \in Seq(SitePages), NEW b \in ProfileBuckets, NEW chosen, Spent(chosen, own)
    PROVE  /\ Spent(PickFor(chosen, b, own), own)
           /\ Len(PickFor(chosen, b, own)) <= Len(chosen) + 1
           /\ ToSet(chosen) \subseteq ToSet(PickFor(chosen, b, own))
<1> DEFINE left == LeftFor(chosen, b, own)
           more == PickFor(chosen, b, own)
<1>1. chosen \in Seq(SitePages) /\ Len(chosen) \in 1..3 /\ chosen[1] = Home /\ IsInjective(chosen)
      /\ ToSet(chosen) \subseteq {Home} \cup Usable(own) /\ DOMAIN chosen = 1..Len(chosen)
    BY Members DEF Spent, MaxProfileScrapes
<1>2. CASE more = chosen
  <2>1. Len(chosen) <= Len(chosen) + 1
    BY <1>1
  <2> QED BY <1>2, <2>1
<1>3. CASE more # chosen
  <2>1. Len(chosen) < 3 /\ \E i \in left : more = Append(chosen, own[i])
    BY <1>1, <1>3, PickForTakes DEF MaxProfileScrapes
  <2>2. PICK i \in left : more = Append(chosen, own[i])
    BY <2>1
  <2> DEFINE p == own[i]
  <2>3. p \in SitePages /\ p \in ToSet(own) /\ p \notin ToSet(chosen) /\ ScoreUrl(p, b) > 0
    BY Members DEF LeftFor
  <2> HIDE DEF p, left, more
  <2>4. ~p.excluded
    BY <2>3, ScoresAreSmall
  <2>5. Home \in ToSet(chosen)
    BY <1>1, Members
  <2>6. p \in Usable(own)
    BY <2>3, <2>4, <2>5 DEF Usable
  <2>7. more = Append(chosen, p)
    BY <2>2 DEF p
  <2>8. /\ more \in Seq(SitePages) /\ Len(more) = Len(chosen) + 1
        /\ DOMAIN more = 1..(Len(chosen) + 1)
        /\ \A k \in 1..Len(chosen) : more[k] = chosen[k]
        /\ more[Len(chosen) + 1] = p
        /\ ToSet(more) = ToSet(chosen) \cup {p}
    BY <1>1, <2>3, <2>7, OneMore
  <2>9. \A k \in 1..Len(chosen) : chosen[k] # p
    BY <1>1, <2>3, Members
  <2>10. \A k \in 1..(Len(chosen) + 1) : k \in 1..Len(chosen) \/ k = Len(chosen) + 1
    BY <1>1
  <2>11. IsInjective(more)
    BY <1>1, <2>8, <2>9, <2>10 DEF IsInjective
  <2>12. Len(more) \in 1..3 /\ more[1] = Home
    BY <1>1, <2>1, <2>8
  <2>13. Spent(more, own)
    BY <1>1, <2>6, <2>8, <2>11, <2>12 DEF Spent, MaxProfileScrapes
  <2>14. Len(more) <= Len(chosen) + 1 /\ ToSet(chosen) \subseteq ToSet(more)
    BY <1>1, <2>8
  <2> QED BY <2>13, <2>14 DEF more
<1> QED BY <1>2, <1>3

\* A bucket that has a page of weight is read on one, if a scrape is left for it.
LEMMA PickForReads ==
    ASSUME NEW own \in Seq(SitePages), NEW b \in ProfileBuckets, NEW chosen, Spent(chosen, own), Len(chosen) < 3,
           NEW p \in ToSet(own), ~p.excluded, p.weights[b] > 0
    PROVE  \E q \in ToSet(PickFor(chosen, b, own)) : q.weights[b] > 0
<1> DEFINE left == LeftFor(chosen, b, own)
<1>1. ToSet(chosen) \subseteq ToSet(PickFor(chosen, b, own))
    BY PickForSpends
<1>2. CASE p \in ToSet(chosen)
    BY <1>1, <1>2
<1>3. CASE p \notin ToSet(chosen)
  <2>1. PICK k \in DOMAIN own : own[k] = p
    BY Members
  <2>2. p \in SitePages
    BY Members
  <2>3. p.weights[b] \in 3..10 /\ ScoreUrl(p, b) \in Int /\ ScoreUrl(p, b) >= 3
    <3>1. p.weights[b] \in {0} \cup 3..10 /\ p.weights[b] <= ScoreUrl(p, b) /\ ScoreUrl(p, b) \in Int
      BY <2>2, ScoresAreSmall
    <3> QED BY <3>1
  <2>4. k \in left
    BY <1>3, <2>1, <2>3 DEF LeftFor
  <2>5. chosen \in Seq(SitePages) /\ ~(Len(chosen) >= MaxProfileScrapes)
    BY Members DEF Spent, MaxProfileScrapes
  <2>6. PICK i \in left : FirstOfBest(i, left, b, own) /\ PickFor(chosen, b, own) = Append(chosen, own[i])
    BY <2>4, <2>5, PickForTakes
  <2> DEFINE q == own[i]
  <2>7. q \in SitePages /\ ScoreUrl(q, b) > 0
    BY Members DEF LeftFor
  <2>8. ScoreUrl(p, b) < ScoreUrl(q, b) \/ ScoreUrl(p, b) = ScoreUrl(q, b)
    BY <2>1, <2>4, <2>6 DEF FirstOfBest
  <2> HIDE DEF q, left
  <2>9. q.weights[b] > 0
    <3>1. ScoreUrl(q, b) \in Int /\ (q.excluded => ScoreUrl(q, b) = -1)
          /\ (~q.excluded => ScoreUrl(q, b) <= q.weights[b] + 2) /\ q.weights[b] \in {0} \cup 3..10
      BY <2>7, ScoresAreSmall
    <3> QED BY <2>3, <2>7, <2>8, <3>1
  <2>10. q \in ToSet(PickFor(chosen, b, own))
    BY <2>5, <2>6, <2>7, OneMore DEF q
  <2> QED BY <2>9, <2>10
<1> QED BY <1>2, <1>3

\* Two sequences that share no member and repeat none: their concatenation repeats none.
LEMMA JoinedOnce ==
    ASSUME NEW S, NEW s \in Seq(S), NEW r \in Seq(S), IsInjective(s), IsInjective(r), ToSet(s) \cap ToSet(r) = {}
    PROVE  /\ s \o r \in Seq(S) /\ Len(s \o r) = Len(s) + Len(r) /\ IsInjective(s \o r)
           /\ \A i \in 1..Len(s) : (s \o r)[i] = s[i]
           /\ ToSet(s \o r) = ToSet(s) \cup ToSet(r)
<1>1. /\ s \o r \in Seq(S) /\ Len(s \o r) = Len(s) + Len(r)
      /\ \A i \in 1..(Len(s) + Len(r)) : (s \o r)[i] = IF i <= Len(s) THEN s[i] ELSE r[i - Len(s)]
    BY ConcatProperties
<1>2. /\ Len(s) \in Nat /\ DOMAIN s = 1..Len(s) /\ Len(r) \in Nat /\ DOMAIN r = 1..Len(r)
      /\ DOMAIN (s \o r) = 1..(Len(s) + Len(r))
    BY <1>1, Members
<1> DEFINE both == s \o r
           m == Len(s)
           n == Len(r)
<1> HIDE DEF both, m, n
<1>3. /\ m \in Nat /\ n \in Nat /\ DOMAIN s = 1..m /\ DOMAIN r = 1..n /\ DOMAIN both = 1..(m + n)
      /\ \A i \in 1..(m + n) : both[i] = IF i <= m THEN s[i] ELSE r[i - m]
    BY <1>1, <1>2 DEF both, m, n
<1>4. \A i \in 1..m : both[i] = s[i]
    BY <1>3
<1>5. \A i \in 1..n : i + m \in 1..(m + n) /\ both[i + m] = r[i]
    BY <1>3
<1>6. \A i \in 1..(m + n) : i \in 1..m \/ i - m \in 1..n
    BY <1>3
<1>7. \A i \in 1..(m + n) : i \notin 1..m => both[i] = r[i - m]
    BY <1>3
<1>8. ToSet(both) = {both[i] : i \in 1..(m + n)} /\ ToSet(s) = {s[i] : i \in 1..m} /\ ToSet(r) = {r[i] : i \in 1..n}
    BY <1>3 DEF ToSet
<1>9. ToSet(both) = ToSet(s) \cup ToSet(r)
  <2>1. \A i \in 1..m : i \in 1..(m + n)
    BY <1>3
  <2> QED BY <1>4, <1>5, <1>6, <1>7, <1>8, <2>1
<1>10. IsInjective(both)
  <2>1. SUFFICES ASSUME NEW i \in 1..(m + n), NEW k \in 1..(m + n), both[i] = both[k] PROVE i = k
    BY <1>3 DEF IsInjective
  <2>2. CASE i \in 1..m /\ k \in 1..m
    BY <1>3, <1>4, <2>1, <2>2 DEF IsInjective
  <2>3. CASE i \notin 1..m /\ k \notin 1..m
    <3>1. i - m \in 1..n /\ k - m \in 1..n /\ r[i - m] = r[k - m]
      BY <1>6, <1>7, <2>1, <2>3
    <3>2. i - m = k - m
      BY <1>3, <3>1 DEF IsInjective
    <3> QED BY <1>3, <3>2
  <2>4. ASSUME NEW x \in 1..m, NEW y \in 1..(m + n), y \notin 1..m, both[x] = both[y] PROVE FALSE
    <3>1. s[x] = r[y - m] /\ y - m \in 1..n
      BY <1>4, <1>6, <1>7, <2>4
    <3> QED BY <1>8, <3>1
  <2> QED BY <2>1, <2>2, <2>3, <2>4
<1> QED BY <1>1, <1>4, <1>9, <1>10 DEF both, m, n

\* The pages that fill up a choice are the usable ones that are not chosen.
LEMMA RestIsUsable ==
    ASSUME NEW own \in Seq(SitePages), IsInjective(own), NEW best, Spent(best, own), NEW rest,
           rest = Picked(own, {i \in DOMAIN own : own[i] \notin ToSet(best) /\ ~own[i].excluded})
    PROVE  /\ rest \in Seq(SitePages) /\ IsInjective(rest)
           /\ ToSet(rest) = Usable(own) \ ToSet(best)
<1> DEFINE places == {i \in DOMAIN own : own[i] \notin ToSet(best) /\ ~own[i].excluded}
<1>1. places \subseteq DOMAIN own /\ \A i, k \in places : own[i] = own[k] => i = k
    BY DEF IsInjective
<1>2. Home \in ToSet(best)
  <2>1. best \in Seq(SitePages) /\ Len(best) \in 1..3 /\ best[1] = Home
    BY DEF Spent, MaxProfileScrapes
  <2>2. 1 \in DOMAIN best
    BY <2>1, Members
  <2> QED BY <2>1, <2>2, Members
<1>3. {own[i] : i \in places} = Usable(own) \ ToSet(best)
  <2>1. \A i \in DOMAIN own : own[i] \in ToSet(own)
    BY Members
  <2>2. \A p \in ToSet(own) : \E i \in DOMAIN own : own[i] = p
    BY Members
  <2> QED BY <1>2, <2>1, <2>2 DEF Usable
<1> HIDE DEF places
<1>4. rest = Picked(own, places)
    BY DEF places
<1>5. rest \in Seq(SitePages) /\ ToSet(rest) = {own[i] : i \in places}
  <2>1. places \subseteq DOMAIN own
    BY <1>1
  <2>2. Picked(own, places) \in Seq(SitePages) /\ ToSet(Picked(own, places)) = {own[i] : i \in places}
    BY <2>1, PickedMembers
  <2> QED BY <1>4, <2>2
<1>6. IsInjective(rest)
  <2>1. IsInjective(Picked(own, places))
    BY <1>1, PickedOnce
  <2> QED BY <1>4, <2>1
<1> QED BY <1>3, <1>5, <1>6

\* The scrapes of a list of pages are spent well: the homepage and usable pages, as many as there
\* are up to three, and a page for the product and for the audience where there is one.
WellSpent(urls, pages) ==
    LET usable == {p \in ToSet(urls) \ {Home} : p.host = Home.host /\ ~p.excluded} IN
    /\ Len(pages) = Least(MaxProfileScrapes, 1 + Cardinality(usable))
    /\ pages[1] = Home
    /\ ToSet(Tail(pages)) \subseteq usable /\ IsInjective(pages)
Reads(urls, pages) ==
    \A b \in {"product", "audience"} :
        (\E p \in ToSet(urls) : p.host = Home.host /\ ~p.excluded /\ p.weights[b] > 0)
            => \E p \in ToSet(pages) : p.weights[b] > 0

\* The choice for the three buckets, on the own pages of a list.
BestOf(own) == PickFor(PickFor(PickFor(<<Home>>, "product", own), "audience", own), "proof", own)

\* The choice for the buckets is the homepage and usable pages, and reads what there is to read.
LEMMA BestIsSpent ==
    ASSUME NEW own \in Seq(SitePages)
    PROVE  /\ Spent(BestOf(own), own)
           /\ \A b \in {"product", "audience"} :
                 (\E p \in ToSet(own) : ~p.excluded /\ p.weights[b] > 0)
                     => \E p \in ToSet(BestOf(own)) : p.weights[b] > 0
<1> DEFINE first == PickFor(<<Home>>, "product", own)
           second == PickFor(first, "audience", own)
           third == PickFor(second, "proof", own)
<1>1. Spent(<<Home>>, own) /\ Len(<<Home>>) = 1
    BY ProfileConstants DEF Spent, MaxProfileScrapes, IsInjective, ToSet
<1>2. "product" \in ProfileBuckets /\ "audience" \in ProfileBuckets /\ "proof" \in ProfileBuckets
    BY DEF ProfileBuckets
<1>3. Spent(first, own) /\ Len(first) < 3
  <2>1. Spent(first, own) /\ Len(first) <= Len(<<Home>>) + 1
    BY <1>1, <1>2, PickForSpends
  <2>2. Len(first) \in 1..3
    BY <2>1 DEF Spent, MaxProfileScrapes
  <2> QED BY <1>1, <2>1, <2>2
<1> HIDE DEF first
<1>4. Spent(second, own) /\ ToSet(first) \subseteq ToSet(second)
    BY <1>2, <1>3, PickForSpends
<1> HIDE DEF second
<1>5. Spent(third, own) /\ ToSet(second) \subseteq ToSet(third)
    BY <1>2, <1>4, PickForSpends
<1> HIDE DEF third
<1>6. third = BestOf(own)
    BY DEF first, second, third, BestOf
<1>7. ASSUME NEW p \in ToSet(own), ~p.excluded, p.weights["product"] > 0
      PROVE  \E q \in ToSet(third) : q.weights["product"] > 0
  <2>1. Len(<<Home>>) < 3
    BY <1>1
  <2>2. \E q \in ToSet(first) : q.weights["product"] > 0
    BY <1>1, <1>2, <1>7, <2>1, PickForReads DEF first
  <2> QED BY <1>4, <1>5, <2>2
<1>8. ASSUME NEW p \in ToSet(own), ~p.excluded, p.weights["audience"] > 0
      PROVE  \E q \in ToSet(third) : q.weights["audience"] > 0
  <2>1. \E q \in ToSet(second) : q.weights["audience"] > 0
    BY <1>2, <1>3, <1>8, PickForReads DEF second
  <2> QED BY <1>5, <2>1
<1> QED BY <1>5, <1>6, <1>7, <1>8

\* The first n members of a sequence.
LEMMA FirstMembers ==
    ASSUME NEW S, NEW s \in Seq(S), NEW n \in Nat, n >= 1, n <= Len(s)
    PROVE  /\ SubSeq(s, 1, n) \in Seq(S) /\ Len(SubSeq(s, 1, n)) = n
           /\ \A i \in 1..n : SubSeq(s, 1, n)[i] = s[i]
<1> DEFINE cut == SubSeq(s, 1, n)
<1>1. 1 \in Int /\ n \in Int /\ \A i \in 1..n : s[i] \in S
    BY LenProperties
<1>2. /\ cut \in Seq(S) /\ Len(cut) = IF 1 <= n THEN n - 1 + 1 ELSE 0
      /\ \A i \in 1..(n - 1 + 1) : cut[i] = s[1 + i - 1]
    BY <1>1, SubSeqProperties
<1> HIDE DEF cut
<1>3. Len(cut) = n
    BY <1>2
<1>4. n - 1 + 1 = n /\ \A i \in 1..n : 1 + i - 1 = i
    OBVIOUS
<1>5. \A i \in 1..n : cut[i] = s[i]
    BY <1>2, <1>4
<1> QED BY <1>2, <1>3, <1>5 DEF cut

\* The first three of a sequence, or all of it.
FirstThree(s) == SubSeq(s, 1, Least(3, Len(s)))

\* The first three of a sequence that repeats nothing repeat nothing.
LEMMA FirstOnes ==
    ASSUME NEW S, NEW s \in Seq(S), Len(s) >= 1, IsInjective(s), NEW cut, cut = FirstThree(s)
    PROVE  /\ cut \in Seq(S) /\ Len(cut) = Least(3, Len(s)) /\ Len(cut) \in 1..3
           /\ \A i \in 1..Len(cut) : i \in 1..Len(s) /\ cut[i] = s[i]
           /\ IsInjective(cut)
           /\ ToSet(Tail(cut)) \subseteq ToSet(s) \ {s[1]}
<1> DEFINE n == Least(3, Len(s))
<1>1. Len(s) \in Nat /\ DOMAIN s = 1..Len(s)
    BY Members
<1>2. n \in 1..3 /\ n \in Nat /\ n <= Len(s)
    BY <1>1 DEF Least
<1> HIDE DEF n
<1>3. \A i \in 1..n : i \in 1..Len(s) /\ s[i] \in S
    BY <1>1, <1>2, Members
<1>4. cut \in Seq(S) /\ Len(cut) = n /\ \A i \in 1..n : cut[i] = s[i]
    BY <1>2, FirstMembers DEF FirstThree, n
<1>6. cut \in Seq(S) /\ Len(cut) = n /\ DOMAIN cut = 1..n
    BY <1>4, Members
<1>7. \A i \in 1..n : cut[i] = s[i]
    BY <1>4
<1>8. IsInjective(cut)
  <2>1. \A i, k \in 1..n : s[i] = s[k] => i = k
    BY <1>1, <1>3 DEF IsInjective
  <2> QED BY <1>6, <1>7, <2>1 DEF IsInjective
<1>9. ToSet(Tail(cut)) \subseteq ToSet(s) \ {s[1]}
  <2>1. SUFFICES ASSUME NEW p \in ToSet(Tail(cut)) PROVE p \in ToSet(s) /\ p # s[1]
    OBVIOUS
  <2>2. Len(Tail(cut)) = n - 1 /\ DOMAIN Tail(cut) = 1..(n - 1) /\ \A i \in 1..(n - 1) : Tail(cut)[i] = cut[i + 1]
    BY <1>2, <1>6
  <2>3. PICK i \in 1..(n - 1) : p = Tail(cut)[i]
    BY <2>2 DEF ToSet
  <2>4. i + 1 \in 1..n /\ i + 1 # 1
    BY <1>2
  <2>5. p = cut[i + 1]
    BY <2>2, <2>3
  <2>6. p = s[i + 1] /\ i + 1 \in DOMAIN s
    BY <1>1, <1>3, <1>7, <2>4, <2>5
  <2>7. 1 \in DOMAIN s
    BY <1>1
  <2> QED BY <2>4, <2>6, <2>7, Members DEF IsInjective
<1> QED BY <1>2, <1>3, <1>6, <1>7, <1>8, <1>9 DEF n

\* The pages selected from a list are well spent, and read what there is to read.
LEMMA SelectionIsWellSpent ==
    ASSUME NEW urls \in Seq(SitePages)
    PROVE  /\ WellSpent(urls, SelectProfileUrls(urls)) /\ Reads(urls, SelectProfileUrls(urls))
           /\ SelectProfileUrls(urls) \in Seq(SitePages) /\ Len(SelectProfileUrls(urls)) >= 1
<1> DEFINE own == OwnPages(urls)
           best == BestOf(own)
           rest == Picked(own, {i \in DOMAIN own : own[i] \notin ToSet(best) /\ ~own[i].excluded})
           filled == best \o rest
           pages == FirstThree(filled)
           usable == {p \in ToSet(urls) \ {Home} : p.host = Home.host /\ ~p.excluded}
<1>1. pages = SelectProfileUrls(urls)
    BY DEF SelectProfileUrls, BestOf, MaxProfileScrapes, FirstThree
<1>2. own \in Seq(SitePages) /\ IsInjective(own) /\ ToSet(own) = {p \in ToSet(urls) : p.host = Home.host}
    BY OwnPagesOnce
<1>3. Usable(own) = usable
    BY <1>2 DEF Usable
<1> HIDE DEF own, pages, usable
<1>4. Spent(best, own)
    BY <1>2, BestIsSpent
<1>5. \A b \in {"product", "audience"} :
         (\E p \in ToSet(own) : ~p.excluded /\ p.weights[b] > 0) => \E p \in ToSet(best) : p.weights[b] > 0
    BY <1>2, BestIsSpent
<1>6. rest \in Seq(SitePages) /\ IsInjective(rest) /\ ToSet(rest) = usable \ ToSet(best)
    BY <1>2, <1>3, <1>4, RestIsUsable
<1> HIDE DEF best, rest
<1>7. /\ best \in Seq(SitePages) /\ Len(best) \in 1..3 /\ best[1] = Home /\ IsInjective(best)
      /\ ToSet(best) \subseteq {Home} \cup usable /\ Home \in ToSet(best)
  <2>1. /\ best \in Seq(SitePages) /\ Len(best) \in 1..3 /\ best[1] = Home /\ IsInjective(best)
        /\ ToSet(best) \subseteq {Home} \cup usable
    BY <1>3, <1>4 DEF Spent, MaxProfileScrapes
  <2>2. 1 \in DOMAIN best
    BY <2>1, Members
  <2> QED BY <2>1, <2>2, Members
<1>8. /\ filled \in Seq(SitePages) /\ Len(filled) = Len(best) + Len(rest) /\ IsInjective(filled)
      /\ \A i \in 1..Len(best) : filled[i] = best[i]
      /\ ToSet(filled) = ToSet(best) \cup ToSet(rest)
  <2>1. ToSet(best) \cap ToSet(rest) = {}
    BY <1>6
  <2> QED BY <1>6, <1>7, <2>1, JoinedOnce
<1>9. Len(rest) \in Nat /\ Len(filled) >= Len(best) /\ Len(filled) >= 1 /\ Len(filled) \in Nat
  <2>1. Len(rest) \in Nat
    BY <1>6, Members
  <2> QED BY <1>7, <1>8, <2>1
<1>10. ToSet(filled) = {Home} \cup usable /\ Home \notin usable
  <2>1. Home \notin usable
    BY DEF usable
  <2> QED BY <1>6, <1>7, <1>8, <2>1
<1> HIDE DEF filled
<1>11. Len(filled) = 1 + Cardinality(usable)
  <2>1. IsFiniteSet(ToSet(filled)) /\ Cardinality(ToSet(filled)) = Len(filled)
    BY <1>8, LengthOfDistinct
  <2>2. IsFiniteSet(usable)
    BY <1>10, <2>1, FS_Subset
  <2>3. Cardinality(usable \cup {Home}) = Cardinality(usable) + 1 /\ Cardinality(usable) \in Nat
    BY <1>10, <2>2, FS_AddElement, FS_CardinalityType
  <2>4. usable \cup {Home} = ToSet(filled)
    BY <1>10
  <2>5. Len(filled) = Cardinality(usable) + 1
    BY <2>1, <2>3, <2>4
  <2> QED BY <2>3, <2>5
<1>12. /\ pages \in Seq(SitePages) /\ Len(pages) = Least(3, Len(filled)) /\ Len(pages) \in 1..3
       /\ \A i \in 1..Len(pages) : i \in 1..Len(filled) /\ pages[i] = filled[i]
       /\ IsInjective(pages)
       /\ ToSet(Tail(pages)) \subseteq ToSet(filled) \ {filled[1]}
  <2>1. pages = FirstThree(filled)
    BY DEF pages
  <2>2. filled \in Seq(SitePages) /\ IsInjective(filled) /\ Len(filled) >= 1
    BY <1>8, <1>9
  <2>3. /\ pages \in Seq(SitePages) /\ Len(pages) = Least(3, Len(filled)) /\ Len(pages) \in 1..3
        /\ \A i \in 1..Len(pages) : i \in 1..Len(filled) /\ pages[i] = filled[i]
    BY <2>1, <2>2, FirstOnes
  <2>4. IsInjective(pages) /\ ToSet(Tail(pages)) \subseteq ToSet(filled) \ {filled[1]}
    BY <2>1, <2>2, FirstOnes
  <2> QED BY <2>3, <2>4
<1>13. filled[1] = Home /\ pages[1] = Home
  <2>1. 1 \in 1..Len(best) /\ 1 \in 1..Len(pages)
    BY <1>7, <1>12
  <2> QED BY <1>7, <1>8, <1>12, <2>1
<1>14. WellSpent(urls, pages)
    BY <1>10, <1>11, <1>12, <1>13 DEF WellSpent, MaxProfileScrapes, usable
<1>15. ToSet(best) \subseteq ToSet(pages)
  <2>1. Len(best) <= Len(pages)
    <3>1. Len(pages) = 3 \/ Len(pages) = Len(filled)
      BY <1>12 DEF Least
    <3>2. Len(best) \in 1..3
      BY <1>7
    <3>3. Len(filled) \in Nat /\ Len(filled) >= Len(best)
      BY <1>9
    <3>4. \A x \in 1..3 : \A y \in Nat : \A z :
           y >= x /\ (z = 3 \/ z = y) => x <= z
      OBVIOUS
    <3> QED BY <3>1, <3>2, <3>3, <3>4
  <2>2. \A i \in 1..Len(best) : i \in 1..Len(pages) /\ pages[i] = best[i]
    BY <1>7, <1>8, <1>12, <2>1
  <2>3. \A i \in 1..Len(pages) : pages[i] \in ToSet(pages)
    BY <1>12, Members
  <2>4. \A p \in ToSet(best) : \E i \in 1..Len(best) : best[i] = p
    BY <1>7, Members
  <2> QED BY <2>2, <2>3, <2>4
<1>16. Reads(urls, pages)
    BY <1>2, <1>5, <1>15 DEF Reads
<1>17. pages \in Seq(SitePages) /\ Len(pages) >= 1
    BY <1>12
<1> QED BY <1>1, <1>14, <1>16, <1>17

\* A list that is cleaned names nothing twice.
LEMMA CleanListOnce ==
    ASSUME NEW items \in Payloads
    PROVE  IsInjective(CleanList(items))
<1> DEFINE places == {i \in DOMAIN items :
                         ~items[i].blank /\ \A k \in 1..(i - 1) : items[k].blank \/ items[k].key # items[i].key}
           kept == Picked(items, places)
           n == Least(MaxItems, Len(kept))
<1>1. items \in Seq([key : STRING, blank : BOOLEAN])
    BY ProfileConstants
<1>2. Len(items) \in Nat /\ DOMAIN items = 1..Len(items) /\ places \subseteq 1..Len(items)
    BY <1>1, Members
<1>3. \A i, k \in places : items[i].key = items[k].key => i = k
  <2>1. SUFFICES ASSUME NEW i \in places, NEW k \in places, items[i].key = items[k].key, i < k PROVE FALSE
    BY <1>2
  <2>2. i \in 1..(k - 1)
    BY <1>2, <2>1
  <2> QED BY <2>1, <2>2
<1> HIDE DEF places
<1>4. Len(kept) = Cardinality(places) /\ Cardinality(places) \in Nat
    BY <1>1, <1>2, PickedMembers
<1>5. \A k \in 1..Cardinality(places) : kept[k] = items[Nth(places, k)] /\ Nth(places, k) \in places
    BY <1>2, NthPlace DEF Picked
<1>6. \A k, l \in 1..Cardinality(places) : Nth(places, k) = Nth(places, l) => k = l
  <2>1. \A k \in 1..Cardinality(places) : Cardinality(UpTo(places, Nth(places, k))) = k
    BY <1>2, NthPlace
  <2> QED BY <2>1
<1> HIDE DEF kept
<1>7. n \in Nat /\ \A k \in 1..n : k \in 1..Cardinality(places)
    BY <1>4 DEF Least, MaxItems
<1>8. CleanList(items) = [k \in 1..n |-> kept[k].key]
    BY DEF CleanList, kept, places
<1> HIDE DEF n
<1>9. \A k, l \in 1..n : kept[k].key = kept[l].key => k = l
    BY <1>3, <1>5, <1>6, <1>7
<1> QED BY <1>8, <1>9 DEF IsInjective

-----------------------------------------------------------------------------
(* The profile over its steps.                                             *)

ProfileStages == {"idle", "listed", "selected", "scraped", "built"}
ProfileTold ==
    /\ scraped # <<>> => profile.sources = scraped
    /\ scraped = <<>> => profile = [summary |-> "", items |-> <<>>, sources |-> <<Home>>]
    /\ IsInjective(profile.items)
ProfileInv ==
    /\ stage \in ProfileStages
    /\ stage # "idle" => candidates \in Seq(SitePages)
    /\ stage \notin {"idle", "listed"} => selected = SelectProfileUrls(candidates)
    /\ stage = "built" => ProfileTold

\* Before the first step nothing is listed.
LEMMA ProfileStart == ProfileInit => ProfileInv
    BY DEF ProfileInit, ProfileInv, ProfileStages

\* A sequence of one is its member.
LEMMA OneAlone ==
    ASSUME NEW S, NEW s \in Seq(S), Len(s) = 1
    PROVE  s = <<s[1]>>
    OBVIOUS

\* The empty list holds nothing twice.
LEMMA NothingTwice == IsInjective(<<>>)
<1>1. DOMAIN <<>> = {}
    OBVIOUS
<1> QED BY <1>1 DEF IsInjective

\* What is listed are pages.
LEMMA ListsHoldPages ==
    ASSUME NEW map \in MapSite, NEW locations \in Sitemaps \cup {<<>>}
    PROVE  <<Home>> \o map \o FetchSitemap(locations) \in Seq(SitePages)
<1>1. map \in Seq(SitePages)
    BY ProfileConstants, EmptySeq DEF MapSite
<1>2. locations \in Seq(SitePages)
    BY ProfileConstants, EmptySeq
<1>3. FetchSitemap(locations) \in Seq(SitePages)
  <2> DEFINE places == {i \in DOMAIN locations : /\ locations[i].category # "none"
                                    /\ \A k \in 1..(i - 1) : locations[k].category # locations[i].category}
  <2>1. FetchSitemap(locations) = Picked(locations, places) /\ places \subseteq DOMAIN locations
    BY DEF FetchSitemap
  <2> HIDE DEF places
  <2> QED BY <1>2, <2>1, PickedMembers
<1>4. <<Home>> \in Seq(SitePages)
    BY ProfileConstants
<1>5. <<Home>> \o map \in Seq(SitePages)
    BY <1>1, <1>4, ConcatProperties
<1> QED BY <1>3, <1>5, ConcatProperties

\* Every step of the profile keeps what is known of it.
LEMMA ProfileStep == ProfileInv /\ (ProfileNext \/ UNCHANGED profileVars) => ProfileInv'
<1> SUFFICES ASSUME ProfileInv, ProfileNext \/ UNCHANGED profileVars PROVE ProfileInv'
    OBVIOUS
<1>1. ASSUME ListPages PROVE ProfileInv'
  <2>1. stage' = "listed" /\ candidates' \in Seq(SitePages)
    BY <1>1, ListsHoldPages DEF ListPages
  <2> QED BY <2>1 DEF ProfileInv, ProfileStages
<1>2. ASSUME SelectPages PROVE ProfileInv'
    BY <1>2 DEF SelectPages, ProfileInv, ProfileStages
<1>3. ASSUME ScrapePages PROVE ProfileInv'
    BY <1>3 DEF ScrapePages, ProfileInv, ProfileStages
<1>4. ASSUME NEW summary, NEW items, NEW sources, Built(summary, items, sources),
             scraped # <<>> => sources = scraped,
             scraped = <<>> => summary = "" /\ items = <<>> /\ sources = <<Home>>,
             IsInjective(items)
      PROVE  ProfileInv'
  <2>1. /\ stage = "scraped" /\ stage' = "built" /\ UNCHANGED <<candidates, selected, scraped>>
        /\ profile' = [summary |-> summary, items |-> items, sources |-> sources]
    BY <1>4 DEF Built
  <2>2. ProfileTold'
    BY <1>4, <2>1 DEF ProfileTold
  <2> QED BY <2>1, <2>2 DEF ProfileInv, ProfileStages
<1>5. ASSUME NothingScraped PROVE ProfileInv'
  <2>1. scraped = <<>> /\ Built("", <<>>, SubSeq(selected, 1, 1))
    BY <1>5 DEF NothingScraped
  <2>2. stage = "scraped" /\ candidates \in Seq(SitePages) /\ selected = SelectProfileUrls(candidates)
    BY <2>1 DEF Built, ProfileInv
  <2>3. selected \in Seq(SitePages) /\ Len(selected) >= 1 /\ selected[1] = Home
    BY <2>2, SelectionIsWellSpent DEF WellSpent
  <2>4. SubSeq(selected, 1, 1) = <<Home>>
    <3>1. 1 \in Nat /\ 1 >= 1 /\ 1 <= Len(selected)
      BY <2>3
    <3>2. /\ SubSeq(selected, 1, 1) \in Seq(SitePages) /\ Len(SubSeq(selected, 1, 1)) = 1
          /\ \A i \in 1..1 : SubSeq(selected, 1, 1)[i] = selected[i]
      BY <2>3, <3>1, FirstMembers
    <3>3. SubSeq(selected, 1, 1)[1] = Home
      BY <2>3, <3>2
    <3> QED BY <3>2, <3>3, OneAlone
  <2> QED BY <1>4, <2>1, <2>4, NothingTwice
<1>6. ASSUME Synthesize PROVE ProfileInv'
  <2>1. scraped # <<>>
    BY <1>6 DEF Synthesize
  <2>2. PICK items \in Payloads, summary \in {"model", ""} : Built(summary, CleanList(items), scraped)
    BY <1>6 DEF Synthesize
  <2> QED BY <1>4, <2>1, <2>2, CleanListOnce
<1>7. ASSUME FallbackProfile PROVE ProfileInv'
  <2>1. scraped # <<>>
    BY <1>7 DEF FallbackProfile
  <2>2. PICK summary \in {scraped[1].name, ""} : Built(summary, <<>>, scraped)
    BY <1>7 DEF FallbackProfile
  <2> QED BY <1>4, <2>1, <2>2, NothingTwice
<1>8. ASSUME UNCHANGED profileVars PROVE ProfileInv'
    BY <1>8 DEF profileVars, ProfileInv, ProfileTold
<1> QED BY <1>1, <1>2, <1>3, <1>5, <1>6, <1>7, <1>8 DEF ProfileNext

\* The scrapes of a profile are well spent, the product and the audience are read, and its sources
\* are the pages it was given.
LEMMA ProfileStands == ProfileInv => ScrapesAreWellSpent /\ ProductAndAudienceAreRead /\ SourcesWereRead
<1> SUFFICES ASSUME ProfileInv PROVE ScrapesAreWellSpent /\ ProductAndAudienceAreRead /\ SourcesWereRead
    OBVIOUS
<1>1. stage \notin {"idle", "listed"} => WellSpent(candidates, selected) /\ Reads(candidates, selected)
    BY SelectionIsWellSpent DEF ProfileInv
<1>2. ScrapesAreWellSpent
    BY <1>1 DEF ScrapesAreWellSpent, WellSpent
<1>3. ProductAndAudienceAreRead
    BY <1>1 DEF ProductAndAudienceAreRead, Reads
<1>4. SourcesWereRead
    BY DEF SourcesWereRead, ProfileInv, ProfileTold
<1> QED BY <1>2, <1>3, <1>4


-----------------------------------------------------------------------------
(* The table.                                                              *)

\* A finite set of numbers has a greatest one.
LEMMA FiniteHasGreatest ==
    ASSUME NEW S, IsFiniteSet(S), S \subseteq Nat, S # {}
    PROVE  Max(S) \in S /\ \A y \in S : Max(S) >= y
<1> DEFINE Topped(U) == \E x \in U : \A y \in U : x >= y
           T == {n \in Nat : \E U \in SUBSET S : U # {} /\ Cardinality(U) = n /\ ~Topped(U)}
<1>1. T = {}
  <2>1. SUFFICES ASSUME T # {} PROVE FALSE
    OBVIOUS
  <2>2. PICK n \in T : \A k \in T : n <= k
    BY <2>1, LeastNumber
  <2>3. PICK U \in SUBSET S : U # {} /\ Cardinality(U) = n /\ ~Topped(U)
    BY <2>2
  <2>4. PICK x \in U : TRUE
    BY <2>3
  <2> DEFINE R == U \ {x}
  <2>5. IsFiniteSet(U) /\ IsFiniteSet(R) /\ n \in Nat /\ Cardinality(R) \in Nat /\ Cardinality(R) = n - 1
    <3>1. IsFiniteSet(U)
      BY FS_Subset
    <3>2. IsFiniteSet(R) /\ Cardinality(R) = Cardinality(U) - 1
      BY <3>1, <2>4, FS_RemoveElement
    <3> QED BY <2>3, <3>1, <3>2, FS_CardinalityType
  <2> HIDE DEF T, Topped
  <2>6. Cardinality(R) \notin T
    <3>1. ~(n <= Cardinality(R))
      BY <2>5
    <3> QED BY <2>2, <3>1
  <2>7. R # {} => Topped(R)
    BY <2>5, <2>6 DEF T
  <2> USE DEF Topped
  <2>8. x \in Nat /\ U \subseteq Nat /\ U = R \cup {x}
    BY <2>4
  <2>9. CASE R = {}
    BY <2>3, <2>8, <2>9
  <2>10. CASE R # {}
    <3>1. PICK g \in R : \A y \in R : g >= y
      BY <2>7, <2>10
    <3>2. g \in Nat /\ (g >= x \/ x >= g) /\ \A y \in R : y \in Nat
      BY <2>8
    <3>3. CASE g >= x
      BY <2>3, <2>8, <3>1, <3>3
    <3>4. CASE x >= g
      <4>1. \A y \in R : x >= y
        BY <2>8, <3>1, <3>2, <3>4
      <4> QED BY <2>3, <2>8, <4>1
    <3> QED BY <3>2, <3>3, <3>4
  <2> QED BY <2>9, <2>10
<1>2. Cardinality(S) \in Nat /\ Cardinality(S) \notin T
  <2>1. Cardinality(S) \in Nat
    BY FS_CardinalityType
  <2> HIDE DEF T
  <2> QED BY <1>1, <2>1
<1>3. Topped(S)
  <2>1. S \in SUBSET S
    OBVIOUS
  <2> HIDE DEF Topped
  <2> QED BY <1>2, <2>1
<1> QED BY <1>3 DEF Max

\* A name stands for one line of the table.
LEMMA TechOfName ==
    /\ \A name \in TechNames : Tech(name) \in ToSet(Technologies) /\ Tech(name).name = name
    /\ \A i \in DOMAIN Technologies : Technologies[i].name \in TechNames /\ Tech(Technologies[i].name) = Technologies[i]
    /\ \A name \in TechNames : Tech(name).implies \in Seq([to : TechNames, confidence : Nat])
<1>1. Technologies \in Seq(ToSet(Technologies))
      /\ \A i, j \in DOMAIN Technologies : Technologies[i].name = Technologies[j].name => i = j
    BY TechConstants
<1>2. /\ \A i \in DOMAIN Technologies : Technologies[i] \in ToSet(Technologies)
      /\ \A t \in ToSet(Technologies) : \E i \in DOMAIN Technologies : Technologies[i] = t
    BY <1>1, Members
<1>3. \A name \in TechNames : \E t \in ToSet(Technologies) : t.name = name
    BY <1>2 DEF TechNames
<1>4. \A name \in TechNames : Tech(name) \in ToSet(Technologies) /\ Tech(name).name = name
    BY <1>3 DEF Tech
<1>5. ASSUME NEW i \in DOMAIN Technologies
      PROVE  Technologies[i].name \in TechNames /\ Tech(Technologies[i].name) = Technologies[i]
  <2>1. Technologies[i].name \in TechNames
    BY DEF TechNames
  <2>2. PICK j \in DOMAIN Technologies : Technologies[j] = Tech(Technologies[i].name)
    BY <1>2, <1>4, <2>1
  <2>3. Technologies[j].name = Technologies[i].name
    BY <1>4, <2>1, <2>2
  <2> QED BY <1>1, <2>1, <2>2, <2>3
<1>6. \A t \in ToSet(Technologies) : t.implies \in Seq([to : TechNames, confidence : Nat])
    BY TechConstants
<1> QED BY <1>4, <1>5, <1>6

\* What is checked of a technology that matched is a number.
LEMMA ChecksAreNumbers ==
    ASSUME NEW tech \in ToSet(Technologies), NEW response, Matched(tech, response) # {}
    PROVE  /\ DOMAIN CheckTechnology(tech, response) = {"confidence", "kinds"}
           /\ CheckTechnology(tech, response).confidence \in Nat
<1> DEFINE found == Matched(tech, response)
           numbers == {p.confidence : p \in found}
           all == {Prepared(q) : q \in tech.patterns}
<1>1. IsFiniteSet(tech.patterns) /\ \A q \in tech.patterns :
         q \in [kind : STRING, key : STRING, regex : STRING, marked : BOOLEAN, confidence : Nat]
    BY TechConstants
<1>2. \A q \in tech.patterns : Prepared(q).confidence \in Nat
    BY <1>1 DEF Prepared
<1>3. IsFiniteSet(all)
  <2> DEFINE f == [q \in tech.patterns |-> Prepared(q)]
  <2>1. DOMAIN f = tech.patterns /\ f = [q \in tech.patterns |-> f[q]] /\ all = {f[q] : q \in tech.patterns}
    OBVIOUS
  <2> HIDE DEF f, all
  <2> QED BY <1>1, <2>1, ImageIsFinite
<1>4. found \subseteq all
    BY DEF Matched
<1>5. IsFiniteSet(found)
    BY <1>3, <1>4, FS_Subset
<1>6. \A p \in found : p.confidence \in Nat
    BY <1>2, <1>4
<1> HIDE DEF found, all
<1>7. IsFiniteSet(numbers)
  <2> DEFINE f == [p \in found |-> p.confidence]
  <2>1. DOMAIN f = found /\ f = [p \in found |-> f[p]] /\ numbers = {f[p] : p \in found}
    OBVIOUS
  <2> HIDE DEF f, numbers
  <2> QED BY <1>5, <2>1, ImageIsFinite
<1>8. numbers \subseteq Nat /\ numbers # {}
    BY <1>6 DEF found
<1> HIDE DEF numbers
<1>9. Max(numbers) \in Nat
    BY <1>7, <1>8, FiniteHasGreatest
<1>10. CheckTechnology(tech, response) = [confidence |-> Max(numbers), kinds |-> {p.kind : p \in found}]
    BY DEF CheckTechnology, found, numbers
<1> QED BY <1>9, <1>10

-----------------------------------------------------------------------------
(* Chains of implications.                                                 *)

\* Surely and Chained, of the matches m.
MatchedAt(m, c) == {n \in DOMAIN m : m[n] >= c}
ChainedFrom(m, c) == {n \in TechNames : \A set \in Unleft(MatchedAt(m, c), Links(c)) : n \in set}

\* What is surer stays within what is less sure, and a match is the start of a chain.
LEMMA SurerIsWithin ==
    ASSUME NEW m, DOMAIN m \subseteq TechNames, \A n \in DOMAIN m : m[n] \in Nat,
           NEW c \in Nat, NEW b \in Nat, b <= c
    PROVE  /\ MatchedAt(m, c) \subseteq MatchedAt(m, b)
           /\ ChainedFrom(m, c) \subseteq ChainedFrom(m, b)
           /\ MatchedAt(m, b) \subseteq ChainedFrom(m, b)
<1>1. MatchedAt(m, c) \subseteq MatchedAt(m, b)
    BY DEF MatchedAt
<1>2. Links(c) \subseteq Links(b)
  <2>1. ASSUME NEW n \in TechNames, NEW e \in ToSet(Tech(n).implies), e.confidence >= c
        PROVE  e.confidence >= b
    <3>1. Tech(n).implies \in Seq([to : TechNames, confidence : Nat])
      BY TechOfName
    <3> HIDE DEF Tech
    <3>2. ToSet(Tech(n).implies) \subseteq [to : TechNames, confidence : Nat]
      BY <3>1, Members
    <3>3. e.confidence \in Nat
      BY <3>2
    <3> QED BY <2>1, <3>3
  <2> QED BY <2>1 DEF Links
<1>3. Unleft(MatchedAt(m, b), Links(b)) \subseteq Unleft(MatchedAt(m, c), Links(c))
    BY <1>1, <1>2 DEF Unleft
<1>4. ChainedFrom(m, c) \subseteq ChainedFrom(m, b)
    BY <1>3 DEF ChainedFrom
<1>5. MatchedAt(m, b) \subseteq ChainedFrom(m, b)
    BY DEF MatchedAt, ChainedFrom, Unleft
<1> QED BY <1>1, <1>4, <1>5

\* A link as sure as a chain makes the chain longer.
LEMMA ChainGrows ==
    ASSUME NEW m, NEW c \in Nat, NEW n \in ChainedFrom(m, c), NEW e \in ToSet(Tech(n).implies), e.confidence >= c,
           e.to \in TechNames
    PROVE  e.to \in ChainedFrom(m, c)
<1>1. n \in TechNames
    BY DEF ChainedFrom
<1>2. <<n, e.to>> \in Links(c)
    BY <1>1 DEF Links
<1>3. ASSUME NEW set \in Unleft(MatchedAt(m, c), Links(c)) PROVE e.to \in set
  <2>1. n \in set
    BY DEF ChainedFrom
  <2>2. \A l \in Links(c) : l[1] \in set => l[2] \in set
    BY DEF Unleft
  <2> QED BY <1>2, <2>1, <2>2
<1> QED BY <1>3 DEF ChainedFrom

-----------------------------------------------------------------------------
(* The analysis of a site.                                                 *)

\* The matches m, what is detected d, and what is still to be expanded q.
Shape(m, d, q) ==
    /\ DOMAIN m \subseteq DOMAIN d /\ DOMAIN d \subseteq TechNames /\ q \in Seq(DOMAIN d)
    /\ \A n \in DOMAIN m : m[n] \in Nat
    /\ \A n \in DOMAIN d : DOMAIN d[n] = {"confidence", "kinds"} /\ d[n].confidence \in Nat
\* No match is forgotten, what is only implied is half sure, and a confidence has its chain.
Grounded(m, d) ==
    /\ \A n \in DOMAIN m : d[n].confidence >= m[n]
    /\ \A n \in DOMAIN d \ DOMAIN m : d[n].confidence >= 50
    /\ \A n \in DOMAIN d : \/ n \in MatchedAt(m, d[n].confidence)
                           \/ d[n].confidence >= 50 /\ n \in ChainedFrom(m, d[n].confidence)
\* What was expanded while it was half sure has what it implies, half sure.
Late(m, n) == n \in DOMAIN m /\ m[n] < 50 /\ Tech(n).implies # <<>>
Closed(m, d, q) ==
    \A n \in DOMAIN d \ ToSet(q) :
        d[n].confidence >= 50 /\ ~Late(m, n) =>
            \A e \in ToSet(Tech(n).implies) :
                e.confidence >= 50 => e.to \in DOMAIN d /\ d[e.to].confidence >= 50
Analysis(m, d, q) == Shape(m, d, q) /\ Grounded(m, d) /\ Closed(m, d, q)

\* The edges that are strong enough.
StrongEdges(edges, parent) == {i \in DOMAIN edges : Effective(edges[i], parent) >= 50}

\* What is gained by a technology, of the strong edges that lead to it.
GainedBy(edges, parent, strong, n) == Max({Effective(edges[i], parent) : i \in {k \in strong : edges[k].to = n}})

\* What is gained is a number from fifty to the confidence of the parent, and no more than an edge has.
GainStands(edges, parent, n) ==
    LET gain == GainedBy(edges, parent, StrongEdges(edges, parent), n) IN
    /\ gain \in Nat /\ gain >= 50 /\ gain <= parent /\ n \in TechNames
    /\ \E i \in StrongEdges(edges, parent) : edges[i].to = n /\ edges[i].confidence >= gain

\* What is gained is of one strong edge, and of the best of them.
LEMMA GainIsOfAnEdge ==
    ASSUME NEW edges \in Seq([to : TechNames, confidence : Nat]), NEW parent \in Nat,
           NEW k \in StrongEdges(edges, parent)
    PROVE  GainStands(edges, parent, edges[k].to)
<1> DEFINE strong == StrongEdges(edges, parent)
           n == edges[k].to
           own == {i \in strong : edges[i].to = n}
           T == {Effective(edges[i], parent) : i \in own}
<1>1. \A i \in DOMAIN edges : edges[i] \in [to : TechNames, confidence : Nat]
    BY Members
<1>2. \A i \in DOMAIN edges : edges[i].to \in TechNames /\ edges[i].confidence \in Nat
    BY <1>1
<1>3. \A i \in own : i \in DOMAIN edges /\ edges[i].to = n /\ Effective(edges[i], parent) >= 50
    BY DEF StrongEdges
<1>4. \A i \in DOMAIN edges : /\ Effective(edges[i], parent) \in 0..parent
                              /\ edges[i].confidence >= Effective(edges[i], parent)
    BY <1>2 DEF Effective, Least
<1>5. own # {}
    OBVIOUS
<1> HIDE DEF own
<1>6. T \subseteq 0..parent /\ T # {}
    BY <1>3, <1>4, <1>5
<1>7. \E x \in T : \A y \in T : x >= y
    BY <1>6, GreatestNumber
<1>8. Max(T) \in T
    BY <1>7 DEF Max
<1>9. PICK i \in own : Max(T) = Effective(edges[i], parent)
    BY <1>8
<1>10. Max(T) = GainedBy(edges, parent, strong, n)
    BY DEF GainedBy, own
<1>11. i \in strong /\ n \in TechNames
    BY <1>2, <1>3 DEF own
<1> HIDE DEF T
<1>12. Max(T) \in 0..parent /\ Max(T) >= 50 /\ edges[i].confidence >= Max(T)
    BY <1>3, <1>4, <1>9
<1> DEFINE gain == GainedBy(edges, parent, strong, n)
<1>13. gain \in 0..parent /\ gain >= 50 /\ edges[i].confidence >= gain
    BY <1>10, <1>12
<1>14. edges[i].to = n
    BY <1>3
<1> HIDE DEF gain
<1>15. gain \in Nat /\ gain <= parent
    BY <1>13
<1> QED BY <1>11, <1>13, <1>14, <1>15 DEF gain, GainStands

\* A sequence over a set is one over a larger set.
LEMMA WiderSeq ==
    ASSUME NEW S, NEW R, S \subseteq R, NEW s \in Seq(S)
    PROVE  s \in Seq(R)
<1>1. Len(s) \in Nat /\ s \in [1..Len(s) -> S]
    BY LenProperties
<1>2. s \in [1..Len(s) -> R]
    BY <1>1
<1> QED BY <1>1, <1>2

\* A sequence is one over its members.
LEMMA NarrowSeq ==
    ASSUME NEW S, NEW R, NEW s \in Seq(S), ToSet(s) \subseteq R
    PROVE  s \in Seq(R)
<1>1. Len(s) \in Nat /\ s \in [1..Len(s) -> S]
    BY LenProperties
<1>2. \A i \in 1..Len(s) : s[i] \in R
    BY <1>1 DEF ToSet
<1>3. s \in [1..Len(s) -> R]
    BY <1>1, <1>2
<1> QED BY <1>1, <1>3

\* The members of a concatenation.
LEMMA JoinedMembers ==
    ASSUME NEW S, NEW s \in Seq(S), NEW r \in Seq(S)
    PROVE  s \o r \in Seq(S) /\ ToSet(s \o r) = ToSet(s) \cup ToSet(r)
<1> DEFINE m == Len(s)
           n == Len(r)
           both == s \o r
<1>1. /\ both \in Seq(S) /\ Len(both) = m + n
      /\ \A i \in 1..(m + n) : both[i] = IF i <= m THEN s[i] ELSE r[i - m]
    BY ConcatProperties
<1> HIDE DEF both
<1>2. m \in Nat /\ n \in Nat /\ DOMAIN s = 1..m /\ DOMAIN r = 1..n /\ DOMAIN both = 1..(m + n)
    BY <1>1, Members
<1> HIDE DEF m, n
<1>3. \A i \in 1..m : i \in 1..(m + n) /\ both[i] = s[i]
    BY <1>1, <1>2
<1>4. \A i \in 1..n : i + m \in 1..(m + n) /\ both[i + m] = r[i]
    BY <1>1, <1>2
<1>5. \A i \in 1..(m + n) : i \in 1..m \/ (i - m \in 1..n /\ both[i] = r[i - m])
    BY <1>1, <1>2
<1>6. ToSet(both) = {both[i] : i \in 1..(m + n)} /\ ToSet(s) = {s[i] : i \in 1..m} /\ ToSet(r) = {r[i] : i \in 1..n}
    BY <1>2 DEF ToSet
<1>7. ToSet(both) = ToSet(s) \cup ToSet(r)
    BY <1>3, <1>4, <1>5, <1>6
<1> QED BY <1>1, <1>7 DEF both

\* A sequence is its first member and the rest.
LEMMA HeadAndRest ==
    ASSUME NEW S, NEW q \in Seq(S), q # <<>>
    PROVE  Head(q) \in S /\ Tail(q) \in Seq(S) /\ ToSet(q) = {Head(q)} \cup ToSet(Tail(q))
<1> DEFINE t == Tail(q)
           h == Head(q)
           n == Len(q)
<1>1. h \in S /\ t \in Seq(S) /\ Len(t) = n - 1 /\ \A i \in 1..Len(t) : t[i] = q[i + 1]
    BY HeadTailProperties
<1>2. h = q[1]
    OBVIOUS
<1>3. n \in Nat /\ n # 0 /\ DOMAIN q = 1..n
    OBVIOUS
<1> HIDE DEF t, h, n
<1>4. DOMAIN t = 1..(n - 1) /\ \A i \in 1..(n - 1) : t[i] = q[i + 1]
    BY <1>1, Members
<1>5. 1 \in 1..n /\ \A i \in 1..(n - 1) : i + 1 \in 1..n
    BY <1>3
<1>6. \A i \in 1..n : i = 1 \/ (i - 1 \in 1..(n - 1) /\ i = (i - 1) + 1)
    BY <1>3
<1>7. ToSet(q) = {q[i] : i \in 1..n} /\ ToSet(t) = {t[i] : i \in 1..(n - 1)}
    BY <1>3, <1>4 DEF ToSet
<1>8. ToSet(q) = {h} \cup ToSet(t)
    BY <1>2, <1>4, <1>5, <1>6, <1>7
<1> QED BY <1>1, <1>8 DEF t, h

\* The strong edges to names outside D, the first edge to each, and these names.
FreshEdges(edges, strong, D) ==
    {i \in strong : edges[i].to \notin D /\ \A k \in strong : edges[k].to = edges[i].to => i <= k}
FreshNames(edges, strong, D) == Picked([i \in DOMAIN edges |-> edges[i].to], FreshEdges(edges, strong, D))

\* What is implied and was not seen goes to the end of the queue, each name by its first edge.
LEMMA FreshAreTold ==
    ASSUME NEW edges \in Seq([to : TechNames, confidence : Nat]), NEW strong, strong \subseteq DOMAIN edges, NEW D,
           NEW R, R = {edges[i].to : i \in strong}
    PROVE  /\ FreshNames(edges, strong, D) \in Seq(R)
           /\ \A n \in R \ D : n \in ToSet(FreshNames(edges, strong, D))
<1> DEFINE tos == [i \in DOMAIN edges |-> edges[i].to]
           fresh == FreshEdges(edges, strong, D)
           more == FreshNames(edges, strong, D)
           size == Len(edges)
<1>1. size \in Nat /\ DOMAIN edges = 1..size /\ \A i \in DOMAIN edges : edges[i] \in [to : TechNames, confidence : Nat]
    BY Members
<1>2. \A i \in 1..size : edges[i].to \in TechNames
    BY <1>1
<1>3. tos = [i \in 1..size |-> edges[i].to]
    BY <1>1
<1>4. more = Picked(tos, fresh)
    BY DEF FreshNames
<1>13. fresh = {i \in strong : edges[i].to \notin D /\ \A k \in strong : edges[k].to = edges[i].to => i <= k}
    BY DEF FreshEdges
<1> HIDE DEF tos, size, fresh, more
<1>5. tos \in [1..size -> TechNames]
    BY <1>2, <1>3
<1>6. tos \in Seq(TechNames) /\ DOMAIN tos = 1..size
    BY <1>1, <1>5
<1>7. fresh \subseteq DOMAIN tos /\ fresh \subseteq strong
    BY <1>1, <1>6, <1>13
<1>8. Picked(tos, fresh) \in Seq(TechNames) /\ ToSet(Picked(tos, fresh)) = {tos[i] : i \in fresh}
    BY <1>6, <1>7, PickedMembers
<1>9. ToSet(more) = {edges[i].to : i \in fresh}
    BY <1>1, <1>3, <1>4, <1>7, <1>8
<1>10. ToSet(more) \subseteq R
    BY <1>7, <1>9
<1>11. more \in Seq(R)
  <2>1. more \in Seq(TechNames)
    BY <1>4, <1>8
  <2> QED BY <1>10, <2>1, NarrowSeq
<1>12. ASSUME NEW n \in R, n \notin D PROVE n \in ToSet(more)
  <2> DEFINE T == {i \in strong : edges[i].to = n}
  <2>1. T \subseteq Nat /\ T # {}
    BY <1>1
  <2>2. PICK i \in T : \A k \in T : i <= k
    BY <2>1, LeastNumber
  <2>3. i \in fresh /\ edges[i].to = n
    BY <1>12, <1>13, <2>2
  <2> QED BY <1>9, <2>3
<1> QED BY <1>11, <1>12 DEF more

\* What an edge to a technology gains for it: g[n], for every n that is implied.
EdgeGains(name, parent, g) ==
    \A n \in DOMAIN g : /\ g[n] \in Nat /\ g[n] >= 50 /\ g[n] <= parent /\ n \in TechNames
                        /\ \E x \in ToSet(Tech(name).implies) : x.to = n /\ x.confidence >= g[n]
AllGained(name, parent, g) ==
    parent >= 50 => \A x \in ToSet(Tech(name).implies) : x.confidence >= 50 => x.to \in DOMAIN g
\* The confidences d and those after the gains, e.
RaisedBy(d, e, g) ==
    /\ DOMAIN e = DOMAIN d \cup DOMAIN g
    /\ \A n \in DOMAIN d \ DOMAIN g : e[n] = d[n]
    /\ \A n \in DOMAIN d \cap DOMAIN g : e[n] = [d[n] EXCEPT !.confidence = Greatest(d[n].confidence, g[n])]
    /\ \A n \in DOMAIN g \ DOMAIN d : e[n] = [confidence |-> g[n], kinds |-> {"implied"}]
Rises(d, e, g) ==
    /\ DOMAIN e = DOMAIN d \cup DOMAIN g
    /\ \A n \in DOMAIN d : e[n].confidence >= d[n].confidence
    /\ \A n \in DOMAIN g : e[n].confidence >= 50
    /\ \A n \in DOMAIN e : /\ DOMAIN e[n] = {"confidence", "kinds"} /\ e[n].confidence \in Nat
                           /\ \/ n \in DOMAIN d /\ e[n].confidence = d[n].confidence
                              \/ n \in DOMAIN g /\ e[n].confidence = g[n]

\* What the strong edges gain for the names they lead to.
Gains(edges, parent) ==
    [n \in {edges[i].to : i \in StrongEdges(edges, parent)} |-> GainedBy(edges, parent, StrongEdges(edges, parent), n)]

\* The edges of a technology gain what their names say, each of them at least half sure.
LEMMA EdgesGain ==
    ASSUME NEW name \in TechNames, NEW parent \in Nat
    PROVE  EdgeGains(name, parent, Gains(Tech(name).implies, parent))
           /\ AllGained(name, parent, Gains(Tech(name).implies, parent))
<1> DEFINE edges == Tech(name).implies
           strong == StrongEdges(edges, parent)
           g == Gains(edges, parent)
<1>1. edges \in Seq([to : TechNames, confidence : Nat])
    BY TechOfName
<1> HIDE DEF edges
<1>2. /\ \A i \in DOMAIN edges : edges[i] \in ToSet(edges) /\ edges[i] \in [to : TechNames, confidence : Nat]
      /\ \A x \in ToSet(edges) : \E i \in DOMAIN edges : edges[i] = x
    BY <1>1, Members
<1>3. strong = {i \in DOMAIN edges : Effective(edges[i], parent) >= 50}
    BY DEF StrongEdges
<1>4. DOMAIN g = {edges[i].to : i \in strong} /\ \A n \in DOMAIN g : g[n] = GainedBy(edges, parent, strong, n)
    BY DEF Gains
<1> HIDE DEF strong, g
<1>5. ASSUME NEW n \in DOMAIN g
      PROVE  /\ g[n] \in Nat /\ g[n] >= 50 /\ g[n] <= parent /\ n \in TechNames
             /\ \E i \in strong : edges[i].to = n /\ edges[i].confidence >= g[n]
  <2>1. PICK k \in strong : n = edges[k].to
    BY <1>4
  <2>2. g[n] = GainedBy(edges, parent, strong, n)
    BY <1>4
  <2>3. GainStands(edges, parent, edges[k].to)
    BY <1>1, GainIsOfAnEdge DEF strong
  <2>4. GainStands(edges, parent, n)
    BY <2>1, <2>3
  <2> QED BY <2>2, <2>4 DEF GainStands, strong
<1>6. strong \subseteq DOMAIN edges
    BY <1>3
<1>7. EdgeGains(name, parent, g)
  <2>1. ASSUME NEW n \in DOMAIN g PROVE \E x \in ToSet(edges) : x.to = n /\ x.confidence >= g[n]
    BY <1>2, <1>5, <1>6
  <2> QED BY <1>5, <2>1 DEF EdgeGains, edges
<1>8. AllGained(name, parent, g)
  <2>1. SUFFICES ASSUME parent >= 50, NEW x \in ToSet(edges), x.confidence >= 50 PROVE x.to \in DOMAIN g
    BY DEF AllGained, edges
  <2>2. PICK i \in DOMAIN edges : edges[i] = x
    BY <1>2
  <2>3. x.confidence \in Nat
    BY <1>2, <2>2
  <2>4. Effective(edges[i], parent) >= 50
    BY <2>1, <2>2, <2>3 DEF Effective, Least
  <2> QED BY <1>3, <1>4, <2>2, <2>4
<1> QED BY <1>7, <1>8 DEF edges, g

\* Gains raise confidences and lower none.
LEMMA GainsRaise ==
    ASSUME NEW name, NEW parent, NEW g, EdgeGains(name, parent, g), NEW d, NEW e, RaisedBy(d, e, g),
           \A n \in DOMAIN d : DOMAIN d[n] = {"confidence", "kinds"} /\ d[n].confidence \in Nat
    PROVE  Rises(d, e, g)
<1>1. DOMAIN e = DOMAIN d \cup DOMAIN g
    BY DEF RaisedBy
<1>2. \A n \in DOMAIN g : g[n] \in Nat /\ g[n] >= 50
    BY DEF EdgeGains
<1>3. ASSUME NEW n \in DOMAIN d, n \notin DOMAIN g
      PROVE  DOMAIN e[n] = {"confidence", "kinds"} /\ e[n].confidence = d[n].confidence
    BY <1>3 DEF RaisedBy
<1>4. ASSUME NEW n \in DOMAIN d, n \in DOMAIN g
      PROVE  DOMAIN e[n] = {"confidence", "kinds"} /\ e[n].confidence = Greatest(d[n].confidence, g[n])
  <2>1. e[n] = [d[n] EXCEPT !.confidence = Greatest(d[n].confidence, g[n])]
    BY <1>4 DEF RaisedBy
  <2> QED BY <2>1
<1>5. ASSUME NEW n \in DOMAIN g, n \notin DOMAIN d
      PROVE  DOMAIN e[n] = {"confidence", "kinds"} /\ e[n].confidence = g[n]
  <2>1. e[n] = [confidence |-> g[n], kinds |-> {"implied"}]
    BY <1>5 DEF RaisedBy
  <2> QED BY <2>1
<1>6. \A x, y \in Nat : /\ Greatest(x, y) \in {x, y} /\ Greatest(x, y) >= x /\ Greatest(x, y) >= y
    BY DEF Greatest
<1>7. ASSUME NEW n \in DOMAIN d PROVE e[n].confidence >= d[n].confidence /\ e[n].confidence \in Nat
  <2>1. CASE n \notin DOMAIN g
    <3>1. d[n].confidence \in Nat
      OBVIOUS
    <3> QED BY <1>3, <2>1, <3>1
  <2>2. CASE n \in DOMAIN g
    <3>1. d[n].confidence \in Nat /\ g[n] \in Nat
      BY <1>2, <2>2
    <3> QED BY <1>4, <1>6, <2>2, <3>1
  <2> QED BY <2>1, <2>2
<1>8. ASSUME NEW n \in DOMAIN g PROVE e[n].confidence >= 50 /\ e[n].confidence \in Nat
  <2>1. CASE n \notin DOMAIN d
    BY <1>2, <1>5, <2>1
  <2>2. CASE n \in DOMAIN d
    <3>1. d[n].confidence \in Nat /\ g[n] \in Nat /\ g[n] >= 50
      BY <1>2, <2>2
    <3>2. e[n].confidence >= g[n] /\ e[n].confidence \in Nat
      BY <1>4, <1>6, <2>2, <3>1
    <3> QED BY <3>1, <3>2
  <2> QED BY <2>1, <2>2
<1>9. ASSUME NEW n \in DOMAIN e
      PROVE  /\ DOMAIN e[n] = {"confidence", "kinds"}
             /\ \/ n \in DOMAIN d /\ e[n].confidence = d[n].confidence
                \/ n \in DOMAIN g /\ e[n].confidence = g[n]
    BY <1>1, <1>2, <1>3, <1>4, <1>5, <1>6
<1> QED BY <1>1, <1>7, <1>8, <1>9 DEF Rises

\* Gains keep a chain for every confidence.
LEMMA GainsAreGrounded ==
    ASSUME NEW m, NEW d, NEW q, Shape(m, d, q), Grounded(m, d), NEW name \in DOMAIN d,
           NEW g, EdgeGains(name, d[name].confidence, g), NEW e, Rises(d, e, g)
    PROVE  Grounded(m, e)
<1> DEFINE parent == d[name].confidence
<1>1. /\ DOMAIN m \subseteq DOMAIN d /\ DOMAIN d \subseteq TechNames
      /\ \A n \in DOMAIN m : m[n] \in Nat
      /\ \A n \in DOMAIN d : d[n].confidence \in Nat
    BY DEF Shape
<1>2. /\ \A n \in DOMAIN m : d[n].confidence >= m[n]
      /\ \A n \in DOMAIN d \ DOMAIN m : d[n].confidence >= 50
      /\ \A n \in DOMAIN d : \/ n \in MatchedAt(m, d[n].confidence)
                             \/ d[n].confidence >= 50 /\ n \in ChainedFrom(m, d[n].confidence)
    BY DEF Grounded
<1>3. /\ DOMAIN e = DOMAIN d \cup DOMAIN g
      /\ \A n \in DOMAIN d : e[n].confidence >= d[n].confidence
      /\ \A n \in DOMAIN g : e[n].confidence >= 50
      /\ \A n \in DOMAIN e : e[n].confidence \in Nat
      /\ \A n \in DOMAIN e : \/ n \in DOMAIN d /\ e[n].confidence = d[n].confidence
                             \/ n \in DOMAIN g /\ e[n].confidence = g[n]
    BY DEF Rises
<1>4. ASSUME NEW n \in DOMAIN m PROVE e[n].confidence >= m[n]
  <2>1. n \in DOMAIN d /\ m[n] \in Nat /\ d[n].confidence \in Nat /\ d[n].confidence >= m[n]
    BY <1>1, <1>2
  <2>2. e[n].confidence \in Nat /\ e[n].confidence >= d[n].confidence
    BY <1>3, <2>1
  <2> QED BY <2>1, <2>2
<1>5. ASSUME NEW n \in DOMAIN e, n \notin DOMAIN m PROVE e[n].confidence >= 50
  <2>1. CASE n \in DOMAIN g
    BY <1>3, <2>1
  <2>2. CASE n \notin DOMAIN g
    BY <1>2, <1>3, <1>5, <2>2
  <2> QED BY <2>1, <2>2
<1>6. parent \in Nat /\ name \in TechNames
    BY <1>1
<1>7. ASSUME NEW n \in DOMAIN g PROVE n \in ChainedFrom(m, g[n])
  <2>1. g[n] \in Nat /\ g[n] <= parent /\ n \in TechNames
    BY DEF EdgeGains
  <2>2. PICK x \in ToSet(Tech(name).implies) : x.to = n /\ x.confidence >= g[n]
    BY DEF EdgeGains
  <2>3. name \in MatchedAt(m, parent) \/ name \in ChainedFrom(m, parent)
    BY <1>2
  <2> HIDE DEF parent
  <2>4. /\ MatchedAt(m, parent) \subseteq MatchedAt(m, g[n])
        /\ ChainedFrom(m, parent) \subseteq ChainedFrom(m, g[n])
        /\ MatchedAt(m, g[n]) \subseteq ChainedFrom(m, g[n])
    <3>1. DOMAIN m \subseteq TechNames
      BY <1>1
    <3> QED BY <1>1, <1>6, <2>1, <3>1, SurerIsWithin
  <2>5. name \in ChainedFrom(m, g[n])
    BY <2>3, <2>4
  <2> QED BY <2>1, <2>2, <2>5, ChainGrows
<1>8. ASSUME NEW n \in DOMAIN e
      PROVE  n \in MatchedAt(m, e[n].confidence) \/ (e[n].confidence >= 50 /\ n \in ChainedFrom(m, e[n].confidence))
  <2>1. CASE n \in DOMAIN d /\ e[n].confidence = d[n].confidence
    BY <1>2, <2>1
  <2>2. CASE n \in DOMAIN g /\ e[n].confidence = g[n]
    BY <1>3, <1>7, <2>2
  <2> QED BY <1>3, <2>1, <2>2
<1> QED BY <1>4, <1>5, <1>8 DEF Grounded

\* The technology that is expanded is closed by its gains, and the others stay as they were.
LEMMA GainsClose ==
    ASSUME NEW m, NEW d, NEW q, Shape(m, d, q), Grounded(m, d), Closed(m, d, q), NEW name \in DOMAIN d,
           NEW g, AllGained(name, d[name].confidence, g), NEW e, Rises(d, e, g),
           NEW r, DOMAIN g \ DOMAIN d \subseteq ToSet(r), ToSet(q) \subseteq {name} \cup ToSet(r)
    PROVE  Closed(m, e, r)
<1>1. /\ \A n \in DOMAIN m : m[n] \in Nat
      /\ \A n \in DOMAIN d : d[n].confidence \in Nat
    BY DEF Shape
<1>2. /\ DOMAIN e = DOMAIN d \cup DOMAIN g
      /\ \A n \in DOMAIN d : e[n].confidence >= d[n].confidence
      /\ \A n \in DOMAIN g : e[n].confidence >= 50
      /\ \A n \in DOMAIN e : e[n].confidence \in Nat
    BY DEF Rises
<1>3. SUFFICES ASSUME NEW n \in DOMAIN e, n \notin ToSet(r), e[n].confidence >= 50, ~Late(m, n),
                      NEW x \in ToSet(Tech(n).implies), x.confidence >= 50
               PROVE  x.to \in DOMAIN e /\ e[x.to].confidence >= 50
    BY DEF Closed
<1>4. n \in DOMAIN d /\ (n \notin ToSet(q) \/ n = name)
    BY <1>2, <1>3
<1>5. d[n].confidence >= 50
  <2>1. SUFFICES ASSUME ~(d[n].confidence >= 50) PROVE FALSE
    OBVIOUS
  <2>2. n \in DOMAIN m /\ d[n].confidence >= m[n]
    BY <1>4, <2>1 DEF Grounded
  <2>3. m[n] < 50
    <3>1. m[n] \in Nat /\ d[n].confidence \in Nat
      BY <1>1, <1>4, <2>2
    <3> QED BY <2>1, <2>2, <3>1
  <2>4. Tech(n).implies # <<>>
    <3>1. ToSet(<<>>) = {}
      BY DEF ToSet
    <3> QED BY <1>3, <3>1
  <2> QED BY <1>3, <2>2, <2>3, <2>4 DEF Late
<1>6. CASE n = name
  <2>1. x.to \in DOMAIN g
    BY <1>3, <1>5, <1>6 DEF AllGained
  <2> QED BY <1>2, <2>1
<1>7. CASE n # name
  <2>1. x.to \in DOMAIN d /\ d[x.to].confidence >= 50
    BY <1>3, <1>4, <1>5, <1>7 DEF Closed
  <2>2. e[x.to].confidence \in Nat /\ e[x.to].confidence >= d[x.to].confidence /\ d[x.to].confidence \in Nat
    BY <1>1, <1>2, <2>1
  <2> QED BY <1>2, <2>1, <2>2
<1> QED BY <1>6, <1>7

\* A technology that is expanded leaves the analysis as sound as it was.
LEMMA ExpansionIsSound ==
    ASSUME NEW m, NEW d, NEW q, Analysis(m, d, q), NEW name \in DOMAIN d,
           NEW g, EdgeGains(name, d[name].confidence, g), AllGained(name, d[name].confidence, g),
           NEW e, RaisedBy(d, e, g), NEW rest \in Seq(DOMAIN d), ToSet(q) = {name} \cup ToSet(rest),
           NEW more \in Seq(DOMAIN g), \A n \in DOMAIN g \ DOMAIN d : n \in ToSet(more),
           NEW r, r = rest \o more
    PROVE  Analysis(m, e, r)
<1>1. Shape(m, d, q) /\ Grounded(m, d) /\ Closed(m, d, q)
    BY DEF Analysis
<1>2. \A n \in DOMAIN d : DOMAIN d[n] = {"confidence", "kinds"} /\ d[n].confidence \in Nat
    BY <1>1 DEF Shape
<1>3. Rises(d, e, g)
    BY <1>2, GainsRaise
<1>4. r \in Seq(DOMAIN e) /\ ToSet(r) = ToSet(rest) \cup ToSet(more)
  <2>1. DOMAIN d \subseteq DOMAIN e /\ DOMAIN g \subseteq DOMAIN e
    BY <1>3 DEF Rises
  <2>2. rest \in Seq(DOMAIN e)
    BY <2>1, WiderSeq
  <2>3. more \in Seq(DOMAIN e)
    BY <2>1, WiderSeq
  <2> QED BY <2>2, <2>3, JoinedMembers
<1>5. Grounded(m, e)
    BY <1>1, <1>3, GainsAreGrounded
<1>6. Closed(m, e, r)
  <2>1. DOMAIN g \ DOMAIN d \subseteq ToSet(r) /\ ToSet(q) \subseteq {name} \cup ToSet(r)
    BY <1>4
  <2> QED BY <1>1, <1>3, <2>1, GainsClose
<1>7. Shape(m, e, r)
  <2>1. /\ DOMAIN m \subseteq DOMAIN e
        /\ \A n \in DOMAIN m : m[n] \in Nat
        /\ \A n \in DOMAIN e : DOMAIN e[n] = {"confidence", "kinds"} /\ e[n].confidence \in Nat
    BY <1>1, <1>3 DEF Rises, Shape
  <2>2. DOMAIN e \subseteq TechNames
    BY <1>1, <1>3 DEF Rises, Shape, EdgeGains
  <2> QED BY <1>4, <2>1, <2>2 DEF Shape
<1> QED BY <1>5, <1>6, <1>7 DEF Analysis


\* The names of what matched at these places of the table.
HitNames(places) == [i \in DOMAIN Picked(Technologies, places) |-> Picked(Technologies, places)[i].name]

\* What matched is named in the order of the table, and all of it.
LEMMA HitsAreNamed ==
    ASSUME NEW places, places \subseteq DOMAIN Technologies
    PROVE  /\ HitNames(places) \in Seq(ToSet(HitNames(places)))
           /\ ToSet(HitNames(places)) = {Technologies[i].name : i \in places}
<1> DEFINE hits == Picked(Technologies, places)
           names == HitNames(places)
           size == Len(hits)
<1>1. Technologies \in Seq(ToSet(Technologies))
    BY TechConstants
<1>2. hits \in Seq(ToSet(Technologies)) /\ ToSet(hits) = {Technologies[i] : i \in places}
    BY <1>1, PickedMembers
<1>3. names = [i \in DOMAIN hits |-> hits[i].name]
    BY DEF HitNames
<1> HIDE DEF hits, names
<1>4. size \in Nat /\ DOMAIN hits = 1..size /\ ToSet(hits) = {hits[i] : i \in 1..size}
    BY <1>2, Members DEF ToSet
<1> HIDE DEF size
<1>5. DOMAIN names = 1..size /\ names = [i \in 1..size |-> hits[i].name]
    BY <1>3, <1>4
<1>6. ToSet(names) = {hits[i].name : i \in 1..size}
    BY <1>5 DEF ToSet
<1>7. \A i \in 1..size : names[i] \in ToSet(names)
    BY <1>5, <1>6
<1>8. names \in [1..size -> ToSet(names)]
    BY <1>5, <1>7
<1>9. names \in Seq(ToSet(names))
    BY <1>4, <1>8
<1>10. ToSet(names) = {Technologies[i].name : i \in places}
  <2>1. \A i \in 1..size : \E k \in places : hits[i] = Technologies[k]
    BY <1>2, <1>4
  <2>2. \A k \in places : \E i \in 1..size : hits[i] = Technologies[k]
    BY <1>2, <1>4
  <2>3. \A i \in 1..size : \E k \in places : hits[i].name = Technologies[k].name
    BY <2>1
  <2>4. \A k \in places : \E i \in 1..size : hits[i].name = Technologies[k].name
    BY <2>2
  <2> QED BY <1>6, <2>3, <2>4
<1> QED BY <1>9, <1>10 DEF names

\* An analysis starts from its matches, with everything still to be expanded.
LEMMA MatchesAreSound ==
    ASSUME NEW response, NEW names,
           names = HitNames({i \in DOMAIN Technologies : Matched(Technologies[i], response) # {}}),
           NEW d, d = [n \in ToSet(names) |-> CheckTechnology(Tech(n), response)],
           NEW m, m = [n \in ToSet(names) |-> CheckTechnology(Tech(n), response).confidence]
    PROVE  Analysis(m, d, names) /\ DOMAIN d = ToSet(names)
<1> DEFINE places == {i \in DOMAIN Technologies : Matched(Technologies[i], response) # {}}
           D == ToSet(names)
<1>1. names \in Seq(D) /\ D = {Technologies[i].name : i \in places}
  <2>1. places \subseteq DOMAIN Technologies /\ names = HitNames(places)
    OBVIOUS
  <2> HIDE DEF places
  <2> QED BY <2>1, HitsAreNamed
<1>2. DOMAIN d = D /\ DOMAIN m = D
    OBVIOUS
<1>3. ASSUME NEW n \in D
      PROVE  /\ n \in TechNames /\ d[n] = CheckTechnology(Tech(n), response) /\ m[n] = d[n].confidence
             /\ DOMAIN d[n] = {"confidence", "kinds"} /\ d[n].confidence \in Nat
  <2>1. PICK i \in DOMAIN Technologies : n = Technologies[i].name /\ Matched(Technologies[i], response) # {}
    BY <1>1
  <2>2. n \in TechNames /\ Tech(n) = Technologies[i] /\ Tech(n) \in ToSet(Technologies)
    BY <2>1, TechOfName
  <2>3. d[n] = CheckTechnology(Tech(n), response) /\ m[n] = CheckTechnology(Tech(n), response).confidence
    OBVIOUS
  <2>4. DOMAIN CheckTechnology(Tech(n), response) = {"confidence", "kinds"}
        /\ CheckTechnology(Tech(n), response).confidence \in Nat
    BY <2>1, <2>2, ChecksAreNumbers
  <2> QED BY <2>2, <2>3, <2>4
<1> HIDE DEF D
<1>4. Shape(m, d, names)
    BY <1>1, <1>2, <1>3 DEF Shape
<1>5. Grounded(m, d)
  <2>1. \A x \in Nat : x >= x
    OBVIOUS
  <2>2. \A n \in D : d[n].confidence >= m[n] /\ m[n] >= d[n].confidence
    BY <1>3, <2>1
  <2>3. \A n \in D : n \in MatchedAt(m, d[n].confidence)
    BY <1>2, <2>2 DEF MatchedAt
  <2> QED BY <1>2, <2>2, <2>3 DEF Grounded
<1>6. Closed(m, d, names)
    BY <1>2 DEF Closed, D
<1> QED BY <1>2, <1>4, <1>5, <1>6 DEF Analysis, D

\* Where nothing is to be expanded, what is detected is what the matches imply.
LEMMA AnalysisStands ==
    ASSUME Analysis(matches, detected, <<>>)
    PROVE  /\ \A n \in DOMAIN detected :
                LET c == detected[n].confidence IN n \in Surely(c) \/ (c >= 50 /\ n \in Chained(c))
           /\ \A n \in DOMAIN matches : detected[n].confidence >= matches[n]
           /\ \A n \in DOMAIN detected \ DOMAIN matches : detected[n].confidence >= 50
           /\ RaisedLate = {} => DOMAIN detected = DOMAIN matches \cup Chained(50)
<1>1. \A c : Surely(c) = MatchedAt(matches, c) /\ Chained(c) = ChainedFrom(matches, c)
    BY DEF Surely, Chained, MatchedAt, ChainedFrom
<1>2. Shape(matches, detected, <<>>) /\ Grounded(matches, detected) /\ Closed(matches, detected, <<>>)
    BY DEF Analysis
<1>3. /\ DOMAIN matches \subseteq DOMAIN detected /\ DOMAIN detected \subseteq TechNames
      /\ \A n \in DOMAIN matches : matches[n] \in Nat
      /\ \A n \in DOMAIN detected : detected[n].confidence \in Nat
    BY <1>2 DEF Shape
<1>4. /\ \A n \in DOMAIN matches : detected[n].confidence >= matches[n]
      /\ \A n \in DOMAIN detected \ DOMAIN matches : detected[n].confidence >= 50
      /\ \A n \in DOMAIN detected : \/ n \in MatchedAt(matches, detected[n].confidence)
                                    \/ /\ detected[n].confidence >= 50
                                       /\ n \in ChainedFrom(matches, detected[n].confidence)
    BY <1>2 DEF Grounded
<1>5. ASSUME NEW n \in DOMAIN detected, n \notin DOMAIN matches PROVE n \in ChainedFrom(matches, 50)
  <2> DEFINE c == detected[n].confidence
  <2>1. c \in Nat /\ c >= 50 /\ n \in ChainedFrom(matches, c)
    BY <1>3, <1>4, <1>5 DEF MatchedAt
  <2> HIDE DEF c
  <2>2. 50 \in Nat /\ 50 <= c /\ DOMAIN matches \subseteq TechNames
    BY <1>3, <2>1
  <2>3. ChainedFrom(matches, c) \subseteq ChainedFrom(matches, 50)
    BY <1>3, <2>1, <2>2, SurerIsWithin
  <2> QED BY <2>1, <2>3
<1>6. ASSUME RaisedLate = {}, NEW n \in ChainedFrom(matches, 50) PROVE n \in DOMAIN detected
  <2> DEFINE sure == {x \in DOMAIN detected : detected[x].confidence >= 50}
  <2>1. MatchedAt(matches, 50) \subseteq sure
    <3>1. ASSUME NEW x \in DOMAIN matches, matches[x] >= 50 PROVE x \in DOMAIN detected /\ detected[x].confidence >= 50
      <4>1. x \in DOMAIN detected /\ matches[x] \in Nat /\ detected[x].confidence \in Nat
            /\ detected[x].confidence >= matches[x]
        BY <1>3, <1>4
      <4> QED BY <3>1, <4>1
    <3> QED BY <3>1 DEF MatchedAt
  <2>2. ASSUME NEW l \in Links(50), l[1] \in sure PROVE l[2] \in sure
    <3>1. PICK x \in TechNames : l \in {<<x, e.to>> : e \in {y \in ToSet(Tech(x).implies) : y.confidence >= 50}}
      BY <2>2 DEF Links
    <3>2. PICK e \in ToSet(Tech(x).implies) : e.confidence >= 50 /\ l = <<x, e.to>>
      BY <3>1
    <3>3. x \in DOMAIN detected /\ detected[x].confidence >= 50
      BY <2>2, <3>2
    <3>4. ~Late(matches, x)
      BY <1>6, <3>3 DEF Late, RaisedLate
    <3>5. x \notin ToSet(<<>>)
      BY DEF ToSet
    <3>6. e.to \in DOMAIN detected /\ detected[e.to].confidence >= 50
      BY <1>2, <3>2, <3>3, <3>4, <3>5 DEF Closed
    <3> QED BY <3>2, <3>6
  <2>3. sure \in Unleft(MatchedAt(matches, 50), Links(50))
    <3>1. sure \in SUBSET TechNames
      BY <1>3
    <3> HIDE DEF sure
    <3> QED BY <2>1, <2>2, <3>1 DEF Unleft
  <2> QED BY <1>6, <2>3 DEF ChainedFrom
<1>7. RaisedLate = {} => DOMAIN detected = DOMAIN matches \cup ChainedFrom(matches, 50)
    BY <1>3, <1>5, <1>6
<1> QED BY <1>1, <1>4, <1>7

-----------------------------------------------------------------------------
(* The stacks.                                                             *)

\* The names of all stacks, and of those of subdomains.
NamesIn(all) == UNION {NamesOf(k.techs) : k \in all}
SubdomainNames(all) == NamesIn({k \in all : k.site \in Subdomains})
PathsAreApart(all) == \A k \in all : k.site \in Paths => NamesOf(k.techs) \cap SubdomainNames(all) = {}

\* What is parsed of an analysis are the names that were detected.
LEMMA ParsedNames ==
    ASSUME NEW d, NEW apart
    PROVE  /\ NamesOf(ParseTechnologies(d)) = DOMAIN d
           /\ NamesOf({t \in ParseTechnologies(d) : t.name \notin apart}) = DOMAIN d \ apart
<1> DEFINE all == ParseTechnologies(d)
<1>1. \A t \in all : t.name \in DOMAIN d
    BY DEF ParseTechnologies
<1>2. ASSUME NEW n \in DOMAIN d PROVE \E t \in all : t.name = n
  <2> DEFINE t == [name |-> n, confidence |-> d[n].confidence, kinds |-> d[n].kinds]
  <2>1. t \in all
    BY DEF ParseTechnologies
  <2>2. t.name = n
    OBVIOUS
  <2> QED BY <2>1, <2>2
<1> HIDE DEF all
<1>3. NamesOf(all) = DOMAIN d
    BY <1>1, <1>2 DEF NamesOf
<1>4. NamesOf({t \in all : t.name \notin apart}) = DOMAIN d \ apart
    BY <1>1, <1>2 DEF NamesOf
<1> QED BY <1>3, <1>4 DEF all

\* What is told of a site, and the stacks with it.
ToldOf(all, d, site) ==
    IF site \in Subdomains THEN ParseTechnologies(d)
    ELSE {t \in ParseTechnologies(d) : t.name \notin SubdomainNames(all)}
StacksWith(all, d, site, kept) ==
    all \cup (IF ToldOf(all, d, site) = {} THEN {}
              ELSE {[site |-> site, techs |-> ToldOf(all, d, site), archetypes |-> kept]})

\* The stack of a site is listed with what was detected on it, apart from the subdomains if it is a path.
LEMMA StackIsListed ==
    ASSUME NEW all, PathsAreApart(all), NEW d, NEW site \in Subdomains \cup Paths,
           site \in Subdomains => \A k \in all : k.site \notin Paths,
           NEW kept
    PROVE  LET more == StacksWith(all, d, site, kept) IN
           /\ PathsAreApart(more) /\ NamesIn(more) = NamesIn(all) \cup DOMAIN d
           /\ \A k \in more \ all : k.site = site
<1> DEFINE told == ToldOf(all, d, site)
           more == StacksWith(all, d, site, kept)
           new == [site |-> site, techs |-> told, archetypes |-> kept]
<1>1. Subdomains \cap Paths = {}
    BY TechConstants
<1>2. new.site = site /\ new.techs = told
    OBVIOUS
<1>3. NamesOf(told) = IF site \in Subdomains THEN DOMAIN d ELSE DOMAIN d \ SubdomainNames(all)
    BY ParsedNames DEF ToldOf
<1>4. told = {} => NamesOf(told) = {}
    BY DEF NamesOf
<1>5. SubdomainNames(all) \subseteq NamesIn(all)
    BY DEF SubdomainNames, NamesIn
<1>6. more = all \/ more = all \cup {new}
    BY DEF StacksWith
<1>7. told # {} => new \in more
    BY DEF StacksWith
<1>8. told = {} => more = all
    BY DEF StacksWith
<1> HIDE DEF new, told, more
<1>9. NamesIn(more) = NamesIn(all) \cup NamesOf(told)
    BY <1>2, <1>4, <1>6, <1>7, <1>8 DEF NamesIn
<1>10. NamesIn(all) \cup NamesOf(told) = NamesIn(all) \cup DOMAIN d
    BY <1>3, <1>5
<1>11. \A k \in more \ all : k.site = site
    BY <1>2, <1>6
<1>12. PathsAreApart(more)
  <2>1. CASE site \in Subdomains
    <3>1. \A k \in more : k.site \notin Paths
      BY <1>1, <1>2, <1>6, <2>1
    <3> QED BY <3>1 DEF PathsAreApart
  <2>2. CASE site \notin Subdomains
    <3>1. {k \in more : k.site \in Subdomains} = {k \in all : k.site \in Subdomains}
      BY <1>2, <1>6, <2>2
    <3>2. SubdomainNames(more) = SubdomainNames(all)
      BY <3>1 DEF SubdomainNames
    <3>3. NamesOf(told) \cap SubdomainNames(all) = {}
      BY <1>3, <2>2
    <3>4. ASSUME NEW k \in more, k.site \in Paths PROVE NamesOf(k.techs) \cap SubdomainNames(all) = {}
      <4>1. CASE k \in all
        BY <3>4, <4>1 DEF PathsAreApart
      <4>2. CASE k = new
        BY <1>2, <3>3, <4>2
      <4> QED BY <1>6, <4>1, <4>2
    <3> QED BY <3>2, <3>4 DEF PathsAreApart
  <2> QED BY <2>1, <2>2
<1> QED BY <1>9, <1>10, <1>11, <1>12 DEF more

-----------------------------------------------------------------------------
(* The detection over its steps.                                           *)

AtWork == IF phase = "subdomains" THEN Subdomains ELSE IF phase = "paths" THEN Paths ELSE {}
ListedInv ==
    /\ phase \in {"idle", "subdomains", "paths", "stored"}
    /\ scanning \in AtWork \cup {NoSite}
    /\ phase \in {"idle", "subdomains"} => \A k \in stacks : k.site \notin Paths
    /\ PathsAreApart(stacks) /\ NamesIn(stacks) = known
    /\ phase = "stored" => {r.name : r \in signals} = known
TechInv ==
    /\ Analysis(matches, detected, queue) /\ seen = DOMAIN detected
    /\ ListedInv

\* No analysis is a sound one.
LEMMA NothingIsSound == Analysis(<<>>, <<>>, <<>>)
<1>1. DOMAIN <<>> = {} /\ <<>> \in Seq(DOMAIN <<>>)
    OBVIOUS
<1> QED BY <1>1 DEF Analysis, Shape, Grounded, Closed

\* Before the first step nothing is detected.
LEMMA TechStart == TechInit => TechInv
<1> SUFFICES ASSUME TechInit PROVE TechInv
    OBVIOUS
<1>1. matches = <<>> /\ detected = <<>> /\ queue = <<>> /\ seen = {} /\ scanning = NoSite /\ phase = "idle"
      /\ stacks = {} /\ known = {}
    BY DEF TechInit
<1>2. seen = DOMAIN detected
    BY <1>1
<1>3. ListedInv
    BY <1>1 DEF ListedInv, PathsAreApart, NamesIn
<1>4. Analysis(matches, detected, queue)
    BY <1>1, NothingIsSound
<1> QED BY <1>2, <1>3, <1>4 DEF TechInv

\* Every step of the detection keeps it sound.
LEMMA TechStep == TechInv /\ (TechNext \/ UNCHANGED techVars) => TechInv'
<1> SUFFICES ASSUME TechInv, TechNext \/ UNCHANGED techVars PROVE TechInv'
    OBVIOUS
<1>1. Analysis(matches, detected, queue) /\ seen = DOMAIN detected /\ ListedInv
    BY DEF TechInv
<1>2. ASSUME UNCHANGED <<matches, detected, queue, seen>>, ListedInv' PROVE TechInv'
    BY <1>1, <1>2 DEF TechInv
<1>3. ASSUME UNCHANGED <<scanning, stacks, known, signals, phase>> PROVE ListedInv'
    BY <1>1, <1>3 DEF ListedInv, AtWork
<1>4. ASSUME Discover PROVE TechInv'
  <2>1. phase = "idle" /\ phase' = "subdomains" /\ UNCHANGED <<scanning, stacks, known, signals>>
        /\ UNCHANGED <<matches, detected, queue, seen>>
    BY <1>4 DEF Discover, analysisVars
  <2>2. ListedInv'
    BY <1>1, <2>1 DEF ListedInv, AtWork
  <2> QED BY <1>2, <2>1, <2>2
<1>5. ASSUME NEW s, AnalysisFails(s) PROVE TechInv'
  <2>1. UNCHANGED <<scanning, stacks, known, signals, phase>> /\ UNCHANGED <<matches, detected, queue, seen>>
    BY <1>5 DEF AnalysisFails, analysisVars
  <2> QED BY <1>2, <1>3, <2>1
<1>6. ASSUME SubdomainsDone PROVE TechInv'
  <2>1. phase = "subdomains" /\ phase' = "paths" /\ scanning = NoSite
        /\ UNCHANGED <<scanning, stacks, known, signals>> /\ UNCHANGED <<matches, detected, queue, seen>>
    BY <1>6 DEF SubdomainsDone, analysisVars
  <2>2. ListedInv'
    BY <1>1, <2>1 DEF ListedInv, AtWork
  <2> QED BY <1>2, <2>1, <2>2
<1>7. ASSUME SaveTechSignals PROVE TechInv'
  <2> DEFINE SavedRow(k, t) == [site |-> k.site, name |-> t.name,
                                confidence |-> IF t.confidence = 0 THEN 100 ELSE t.confidence]
  <2>1. phase = "paths" /\ phase' = "stored" /\ scanning = NoSite /\ UNCHANGED <<scanning, stacks, known>>
        /\ UNCHANGED <<matches, detected, queue, seen>>
        /\ signals' = UNION {{SavedRow(k, t) : t \in k.techs} : k \in stacks}
    BY <1>7 DEF SaveTechSignals, analysisVars
  <2>2. \A k, t : SavedRow(k, t).name = t.name
    OBVIOUS
  <2> HIDE DEF SavedRow
  <2>3. {r.name : r \in signals'} = NamesIn(stacks)
    BY <2>1, <2>2 DEF NamesIn, NamesOf
  <2>4. ListedInv'
    BY <1>1, <2>1, <2>3 DEF ListedInv, AtWork
  <2> QED BY <1>2, <2>1, <2>4
<1>8. ASSUME NEW s, Analyze(s) PROVE TechInv'
  <2>1. PICK response \in Responses :
          LET names == HitNames({i \in DOMAIN Technologies : Matched(Technologies[i], response) # {}}) IN
          /\ detected' = [n \in ToSet(names) |-> CheckTechnology(Tech(n), response)]
          /\ matches' = [n \in ToSet(names) |-> CheckTechnology(Tech(n), response).confidence]
          /\ queue' = names
          /\ seen' = ToSet(names)
    BY <1>8 DEF Analyze, HitNames
  <2>2. Analysis(matches', detected', queue') /\ DOMAIN detected' = seen'
    BY <2>1, MatchesAreSound
  <2>3. phase \in {"subdomains", "paths"} /\ s \in Turn /\ scanning' = s /\ UNCHANGED <<stacks, known, signals, phase>>
    BY <1>8 DEF Analyze
  <2>4. ListedInv'
    BY <1>1, <2>3 DEF ListedInv, AtWork, Turn
  <2> QED BY <2>2, <2>4 DEF TechInv
<1>9. ASSUME ExpandNext PROVE TechInv'
  <2> DEFINE name == Head(queue)
             parent == detected[name].confidence
             edges == Tech(name).implies
             g == Gains(edges, parent)
             strong == StrongEdges(edges, parent)
             fresh == {i \in strong : /\ edges[i].to \notin seen
                                      /\ \A k \in strong : edges[k].to = edges[i].to => i <= k}
             more == Picked([i \in DOMAIN edges |-> edges[i].to], fresh)
  <2>1. queue # <<>> /\ UNCHANGED <<scanning, matches, stacks, known, signals, phase>>
    BY <1>9 DEF ExpandNext
  <2>2. /\ detected' = [n \in DOMAIN detected \cup DOMAIN g |->
                         CASE n \notin DOMAIN g -> detected[n]
                           [] n \in DOMAIN g \cap DOMAIN detected ->
                                  [detected[n] EXCEPT !.confidence = Greatest(detected[n].confidence, g[n])]
                           [] OTHER -> [confidence |-> g[n], kinds |-> {"implied"}]]
        /\ queue' = Tail(queue) \o more
        /\ seen' = seen \cup DOMAIN g
    BY <1>9 DEF ExpandNext, Gains, GainedBy, StrongEdges
  <2>3. Shape(matches, detected, queue)
    BY <1>1 DEF Analysis
  <2>4. /\ name \in DOMAIN detected /\ Tail(queue) \in Seq(DOMAIN detected)
        /\ ToSet(queue) = {name} \cup ToSet(Tail(queue))
    BY <2>1, <2>3, HeadAndRest DEF Shape
  <2>5. parent \in Nat /\ name \in TechNames
    BY <2>3, <2>4 DEF Shape
  <2>6. EdgeGains(name, parent, g) /\ AllGained(name, parent, g)
    BY <2>5, EdgesGain
  <2>7. edges \in Seq([to : TechNames, confidence : Nat]) /\ strong \subseteq DOMAIN edges
    BY <2>5, TechOfName DEF StrongEdges
  <2>8. DOMAIN g = {edges[i].to : i \in strong}
    BY DEF Gains
  <2> HIDE DEF g, parent, name
  <2>9. RaisedBy(detected, detected', g)
    BY <2>2 DEF RaisedBy
  <2> HIDE DEF edges, strong
  <2>10. more \in Seq(DOMAIN g) /\ \A n \in DOMAIN g \ DOMAIN detected : n \in ToSet(more)
    <3>1. fresh = FreshEdges(edges, strong, DOMAIN detected)
      BY <1>1 DEF FreshEdges
    <3>2. more = FreshNames(edges, strong, DOMAIN detected)
      BY <3>1 DEF FreshNames
    <3> HIDE DEF more
    <3> QED BY <2>7, <2>8, <3>2, FreshAreTold
  <2> HIDE DEF more
  <2>11. EdgeGains(name, detected[name].confidence, g) /\ AllGained(name, detected[name].confidence, g)
    BY <2>6 DEF parent
  <2>12. Analysis(matches, detected', queue')
    BY <1>1, <2>2, <2>4, <2>9, <2>10, <2>11, ExpansionIsSound
  <2>13. seen' = DOMAIN detected'
    BY <1>1, <2>2
  <2> QED BY <1>3, <2>1, <2>12, <2>13 DEF TechInv
<1>10. ASSUME ListStack PROVE TechInv'
  <2> DEFINE kept == IF scanning \in Subdomains THEN DetectArchetypes(NamesOf(ParseTechnologies(detected))) ELSE {}
  <2>1. OnSubdomains = SubdomainNames(stacks)
    BY DEF OnSubdomains, SubdomainNames, NamesIn
  <2>2. /\ scanning # NoSite /\ queue = <<>>
        /\ stacks' = StacksWith(stacks, detected, scanning, kept)
        /\ known' = known \cup DOMAIN detected
        /\ scanning' = NoSite /\ matches' = <<>> /\ detected' = <<>> /\ seen' = {}
        /\ UNCHANGED <<queue, signals, phase>>
    BY <1>10, <2>1 DEF ListStack, StacksWith, ToldOf
  <2> HIDE DEF kept
  <2>3. Subdomains \cap Paths = {} /\ NoSite \notin Subdomains \cup Paths
    BY TechConstants
  <2>4. /\ phase \in {"subdomains", "paths"} /\ scanning \in Subdomains \cup Paths
        /\ phase = "subdomains" <=> scanning \in Subdomains
    BY <1>1, <2>2, <2>3 DEF ListedInv, AtWork
  <2>5. scanning \in Subdomains => \A k \in stacks : k.site \notin Paths
    BY <1>1, <2>4 DEF ListedInv
  <2>6. PathsAreApart(stacks) /\ NamesIn(stacks) = known
    BY <1>1 DEF ListedInv
  <2>7. /\ PathsAreApart(stacks') /\ NamesIn(stacks') = NamesIn(stacks) \cup DOMAIN detected
        /\ \A k \in stacks' \ stacks : k.site = scanning
    BY <2>2, <2>4, <2>5, <2>6, StackIsListed
  <2>8. phase' = "subdomains" => \A k \in stacks' : k.site \notin Paths
    BY <2>2, <2>3, <2>4, <2>5, <2>7
  <2>9. ListedInv'
    BY <2>2, <2>4, <2>6, <2>7, <2>8 DEF ListedInv, AtWork
  <2>10. Analysis(matches', detected', queue') /\ seen' = DOMAIN detected'
    BY <2>2, NothingIsSound
  <2> QED BY <2>9, <2>10 DEF TechInv
<1>11. ASSUME UNCHANGED techVars PROVE TechInv'
  <2>1. UNCHANGED <<scanning, stacks, known, signals, phase>> /\ UNCHANGED <<matches, detected, queue, seen>>
    BY <1>11 DEF techVars
  <2> QED BY <1>2, <1>3, <2>1
<1> QED BY <1>4, <1>5, <1>6, <1>7, <1>8, <1>9, <1>10, <1>11 DEF TechNext

\* An analysis that has ended is what its matches imply, and no technology is lost on its way to the rows.
LEMMA TechStands == TechInv => ImplicationsAreChains /\ StacksAreComplete
<1> SUFFICES ASSUME TechInv PROVE ImplicationsAreChains /\ StacksAreComplete
    OBVIOUS
<1>1. ImplicationsAreChains
    BY AnalysisStands DEF ImplicationsAreChains, TechInv
<1>2. StacksAreComplete
  <2>1. OnSubdomains = SubdomainNames(stacks)
    BY DEF OnSubdomains, SubdomainNames, NamesIn
  <2> QED BY <2>1 DEF StacksAreComplete, TechInv, ListedInv, NamesIn, PathsAreApart
<1> QED BY <1>1, <1>2

-----------------------------------------------------------------------------
(* All grounds.                                                            *)

\* The inductive invariant: what each of the four is known to have done.
GroundsInv == InferInv /\ GenerationInv /\ TechInv /\ ProfileInv

\* Nothing is inferred before a company is looked at.
LEMMA InferStart == InferInit => InferInv
    BY DEF InferInit, InferInv

\* A part that stands still stays as it is known.
LEMMA GroundsStep == GroundsInv /\ [GroundsNext]_groundsVars => GroundsInv'
<1> SUFFICES ASSUME GroundsInv, [GroundsNext]_groundsVars PROVE GroundsInv'
    OBVIOUS
<1>1. /\ InferNext \/ UNCHANGED inferVars
      /\ GenerationNext \/ UNCHANGED generationVars
      /\ TechNext \/ UNCHANGED techVars
      /\ ProfileNext \/ UNCHANGED profileVars
    BY DEF GroundsNext, groundsVars
<1>2. InferInv'
    BY <1>1, InferStep DEF GroundsInv
<1>3. GenerationInv'
    BY <1>1, GenerationStep DEF GroundsInv
<1>4. TechInv'
    BY <1>1, TechStep DEF GroundsInv
<1>5. ProfileInv'
    BY <1>1, ProfileStep DEF GroundsInv
<1> QED BY <1>2, <1>3, <1>4, <1>5 DEF GroundsInv

\* A document stands on what was found, after every step and for whatever is found: compounds on
\* their signals, the prompt on every source, sections and scores on one valid answer, a fact in one
\* place, technologies on chains from a match, none lost on the way to its row, and a profile on
\* pages that were read (evaluate, _build_user_prompt, generate_research_document, format_sections,
\* _resolve_implies, save_tech_signals, select_profile_urls, build_profile).
THEOREM DocumentsStand == GroundsSpec => []DocumentsStandOnFacts
<1>1. GroundsInit => GroundsInv
    BY InferStart, GenerationStart, TechStart, ProfileStart DEF GroundsInit, GroundsInv
<1>2. GroundsInv /\ [GroundsNext]_groundsVars => GroundsInv'
    BY GroundsStep
<1>3. GroundsInv => DocumentsStandOnFacts
    BY InferenceStands, GenerationStands, TechStands, ProfileStands DEF GroundsInv, DocumentsStandOnFacts
<1> QED BY <1>1, <1>2, <1>3, PTL DEF GroundsSpec
=============================================================================

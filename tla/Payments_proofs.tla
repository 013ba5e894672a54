-------------------------- MODULE Payments_proofs ---------------------------
(***************************************************************************)
(* Who pays for what, proved: the account (CreditAccount), for every       *)
(* number of callers, sessions, connections, calls and faults and every    *)
(* price; the recurring research of the watchlist (Watchlist), for every   *)
(* number of companies, schedulers, tasks and attempts and every purchase; *)
(* the analysis of a list (ListAnalysis), for every number of accounts,    *)
(* requests, coroutines, credits, attempts and faults.                     *)
(***************************************************************************)
EXTENDS CreditAccount, Watchlist, ListAnalysis, FiniteSetTheorems, SequenceTheorems, TLAPS

-----------------------------------------------------------------------------
(* CreditAccount.                                                          *)

(* The inductive invariant, part by part. *)

\* A caller's transaction has inserted its session and may have to commit it.
Claiming(c) == kind[c] = "fulfil" /\ pc[c] \in {"topup", "ledger", "book", "commit"}

\* What the place of a caller says of its call.
CallsFit ==
    \A c \in Callers :
        /\ kind[c] = "fulfil" => session[c] \in Sessions
        /\ pc[c] \in {"insert", "topup", "commit"} => kind[c] = "fulfil"

\* The unique constraint: one open transaction has inserted a session, or a committed one.
ClaimsApart ==
    \A c \in Callers : Claiming(c) =>
        /\ session[c] \notin fulfilled
        /\ \A d \in Callers : Claiming(d) /\ session[d] = session[c] => d = c

Counted == \A s \in Sessions : granted[s] = IF s \in fulfilled THEN 1 ELSE 0

\* One refund at a time, of an amount that has been charged.
RefundsCovered ==
    /\ \A c, d \in Refunding : c = d
    /\ \A c \in Refunding : pc[c] \in {"connect", "update"} => amount[c] <= spent

PoolFinite == IsFiniteSet(held)

CreditInv == CreditTypeOK /\ PoolFinite /\ CallsFit /\ ClaimsApart /\ Counted /\ RefundsCovered

USE DEF accountRows, call, totals, limits

-----------------------------------------------------------------------------
(* The pool. *)

LEMMA Amounts ==
    ASSUME CreditTypeOK
    PROVE  amount \in [Callers -> Nat]
  <1>1. Prices \cup {0, PackCents} \subseteq Nat
    BY AccountConstants
  <1>2. amount \in [Callers -> Prices \cup {0, PackCents}]
    BY DEF CreditTypeOK
  <1> QED BY <1>1, <1>2

\* Taking one connection while there is one to take keeps within PoolMax.
LEMMA Taking ==
    ASSUME CreditTypeOK, PoolFinite, NEW c \in Callers, NEW n \in {1, 2}, Take(c, n)
    PROVE  /\ held' \subseteq Callers \X {1, 2}
           /\ IsFiniteSet(held')
           /\ Cardinality(held') <= PoolMax
  <1>1. IsFiniteSet(held) /\ IsFiniteSet(held') /\ Cardinality(held) \in Nat
    BY FS_AddElement, FS_CardinalityType DEF PoolFinite, Take
  <1>2. \/ Cardinality(held') = Cardinality(held)
        \/ Cardinality(held') = Cardinality(held) + 1
    BY <1>1, FS_AddElement DEF Take
  <1>3. Cardinality(held') \in Nat
    BY <1>1, FS_CardinalityType
  <1>4. Cardinality(held') <= PoolMax
    BY <1>1, <1>2, <1>3, AccountConstants DEF Take
  <1> QED BY <1>1, <1>4 DEF CreditTypeOK, Take

\* Giving connections back keeps within PoolMax.
LEMMA Giving ==
    ASSUME CreditTypeOK, PoolFinite, held' \subseteq held
    PROVE  /\ held' \subseteq Callers \X {1, 2}
           /\ IsFiniteSet(held')
           /\ Cardinality(held') <= PoolMax
  <1>1. IsFiniteSet(held') /\ Cardinality(held') <= Cardinality(held)
    BY FS_Subset DEF PoolFinite
  <1>2. Cardinality(held') \in Nat /\ Cardinality(held) \in Nat
    BY <1>1, FS_CardinalityType DEF PoolFinite
  <1> QED BY <1>1, <1>2, AccountConstants DEF CreditTypeOK

\* Every step takes one connection or takes none.
LEMMA PoolStep ==
    ASSUME CreditTypeOK, PoolFinite, [CreditNext]_creditVars
    PROVE  /\ held' \subseteq Callers \X {1, 2}
           /\ IsFiniteSet(held')
           /\ Cardinality(held') <= PoolMax
  <1>1. \/ \E c \in Callers, n \in {1, 2} : Take(c, n)
        \/ held' \subseteq held
    BY DEF CreditNext, creditVars, Begin, Start, Goes, Connect, UseCredit, Reserve, Refuse,
           RefundCredit, AddCredits, InsertSession, TopUp, Commit, StatementTimeout,
           LedgerConnect, Book, BookFails, Release, Die
  <1> QED BY <1>1, Taking, Giving
-----------------------------------------------------------------------------
(* The initial states. *)

LEMMA InitInv == CreditInit => CreditInv
  <1> SUFFICES ASSUME CreditInit PROVE CreditInv
    OBVIOUS
  <1>1. PoolFinite /\ Cardinality(held) = 0
    BY FS_EmptySet DEF CreditInit, PoolFinite
  <1>2. CreditTypeOK
    BY <1>1, AccountConstants DEF CreditInit, CreditTypeOK, Kinds, Steps
  <1>3. CallsFit /\ ClaimsApart /\ Counted /\ RefundsCovered
    BY DEF CreditInit, CallsFit, ClaimsApart, Claiming, Counted, RefundsCovered, Refunding
  <1> QED BY <1>1, <1>2, <1>3 DEF CreditInv
-----------------------------------------------------------------------------
(* The calls. *)

LEMMA TypeStep == CreditInv /\ [CreditNext]_creditVars => CreditTypeOK'
  <1> SUFFICES ASSUME CreditInv, [CreditNext]_creditVars PROVE CreditTypeOK'
    OBVIOUS
  <1> USE AccountConstants DEF CreditInv
  <1>0. held' \subseteq Callers \X {1, 2} /\ Cardinality(held') <= PoolMax
    BY PoolStep
  <1>1. CASE UNCHANGED creditVars
    BY <1>0, <1>1 DEF creditVars, CreditTypeOK
  <1>2. ASSUME NEW c \in Callers, Begin(c) PROVE CreditTypeOK'
    <2>1. PICK k \in Kinds, a \in Prices \cup {PackCents}, s \in Sessions \cup {NoSession} :
             Start(c, k, a, s)
      BY <1>2 DEF Begin, Kinds
    <2>2. ops' \in 0 .. MaxOps
      BY <2>1 DEF Start, CreditTypeOK
    <2> QED BY <1>0, <2>1, <2>2 DEF Start, Goto, CreditTypeOK, Steps
  <1>3. ASSUME NEW c \in Callers, Goes(c) PROVE CreditTypeOK'
    <2> USE DEF Goto, CreditTypeOK, Steps
    <2>0. amount[c] \in Nat /\ balance \in Nat /\ spent \in Nat
      BY Amounts DEF CreditTypeOK
    <2>1. CASE Connect(c)
      BY <1>0, <2>1 DEF Connect
    <2>2. CASE UseCredit(c)
      BY <1>0, <2>0, <2>2 DEF UseCredit, Enough
    <2>3. CASE Reserve(c)
      BY <1>0, <2>0, <2>3 DEF Reserve, Enough
    <2>4. CASE Refuse(c)
      BY <1>0, <2>4 DEF Refuse
    <2>5. CASE RefundCredit(c)
      <3>1. amount[c] <= spent
        BY <2>5 DEF RefundCredit, RowFree, RefundsCovered, Refunding
      <3> QED BY <1>0, <2>0, <2>5, <3>1 DEF RefundCredit
    <2>6. CASE AddCredits(c)
      BY <1>0, <2>0, <2>6 DEF AddCredits
    <2>7. CASE InsertSession(c)
      BY <1>0, <2>7 DEF InsertSession
    <2>8. CASE TopUp(c)
      BY <1>0, <2>8 DEF TopUp
    <2>9. CASE Commit(c)
      <3>1. session[c] \in Sessions
        BY <2>9 DEF Commit, CallsFit
      <3>2. granted' \in [Sessions -> Nat]
        BY <2>9, <3>1 DEF Commit
      <3> QED BY <1>0, <2>0, <2>9, <3>1, <3>2 DEF Commit
    <2>10. CASE StatementTimeout(c)
      BY <1>0, <2>10 DEF StatementTimeout
    <2>11. CASE LedgerConnect(c)
      BY <1>0, <2>11 DEF LedgerConnect
    <2>12. CASE Book(c)
      BY <1>0, <2>0, <2>12 DEF Book, Booked
    <2>13. CASE Release(c)
      BY <1>0, <2>13 DEF Release
    <2> QED BY <1>3, <2>1, <2>2, <2>3, <2>4, <2>5, <2>6, <2>7, <2>8, <2>9, <2>10, <2>11,
               <2>12, <2>13 DEF Goes
  <1>4. ASSUME NEW c \in Callers, BookFails(c) PROVE CreditTypeOK'
    BY <1>0, <1>4 DEF BookFails, Booked, Goto, CreditTypeOK, Steps
  <1>5. ASSUME NEW c \in Callers, Die(c) PROVE CreditTypeOK'
    BY <1>0, <1>5 DEF Die, Goto, CreditTypeOK, Steps
  <1> QED BY <1>1, <1>2, <1>3, <1>4, <1>5 DEF CreditNext

\* A call keeps its kind, amount and session until it ends, and only Connect leads to
\* "insert", only InsertSession to "topup", only Booked to "commit".
LEMMA CallStep == CreditInv /\ [CreditNext]_creditVars => CallsFit'
  <1> SUFFICES ASSUME CreditInv, [CreditNext]_creditVars PROVE CallsFit'
    OBVIOUS
  <1> USE DEF CreditInv, CallsFit, Goto
  <1>1. CASE UNCHANGED creditVars
    BY <1>1 DEF creditVars
  <1>2. ASSUME NEW c \in Callers, Begin(c) PROVE CallsFit'
    BY <1>2 DEF Begin, Start, CreditTypeOK
  <1>3. ASSUME NEW c \in Callers, Goes(c) PROVE CallsFit'
    BY <1>3 DEF Goes, Connect, UseCredit, Reserve, Refuse, RefundCredit, AddCredits,
                InsertSession, TopUp, Commit, StatementTimeout, LedgerConnect, Book, Booked,
                Release, CreditTypeOK
  <1>4. ASSUME NEW c \in Callers, BookFails(c) PROVE CallsFit'
    BY <1>4 DEF BookFails, Booked, CreditTypeOK
  <1>5. ASSUME NEW c \in Callers, Die(c) PROVE CallsFit'
    BY <1>5 DEF Die, CreditTypeOK
  <1> QED BY <1>1, <1>2, <1>3, <1>4, <1>5 DEF CreditNext
-----------------------------------------------------------------------------
(* Purchases. *)

\* Only InsertSession makes a claim, of a session nobody else claims, and only Commit
\* ends one by fulfilling the session.
LEMMA ClaimStep == CreditInv /\ [CreditNext]_creditVars => ClaimsApart' /\ Counted'
  <1> SUFFICES ASSUME CreditInv, [CreditNext]_creditVars PROVE ClaimsApart' /\ Counted'
    OBVIOUS
  <1> USE DEF CreditInv, ClaimsApart, Counted, Claiming, Goto
  <1>1. CASE UNCHANGED creditVars
    BY <1>1 DEF creditVars
  <1>2. ASSUME NEW c \in Callers, InsertSession(c) PROVE ClaimsApart' /\ Counted'
    <2>1. Counted'
      BY <1>2 DEF InsertSession
    <2>2. CASE session[c] \in fulfilled
      BY <1>2, <2>1, <2>2 DEF InsertSession, CreditTypeOK
    <2>3. CASE session[c] \notin fulfilled
      <3>1. \A d \in Callers : Claiming(d) => session[d] # session[c]
        BY <1>2 DEF InsertSession, Inserting
      <3>2. pc' = [pc EXCEPT ![c] = "topup"]
        BY <1>2, <2>3 DEF InsertSession
      <3>3. ClaimsApart'
        BY <1>2, <2>3, <3>1, <3>2 DEF InsertSession, CreditTypeOK
      <3> QED BY <2>1, <3>3
    <2> QED BY <2>2, <2>3
  <1>3. ASSUME NEW c \in Callers, Commit(c) PROVE ClaimsApart' /\ Counted'
    <2>1. Claiming(c) /\ session[c] \in Sessions /\ session[c] \notin fulfilled
      BY <1>3 DEF Commit, CallsFit
    <2>2. granted' = [granted EXCEPT ![session[c]] = 1]
      <3>1. granted[session[c]] + 1 = 1
        BY <2>1
      <3> QED BY <1>3, <3>1 DEF Commit
    <2>3. Counted'
      BY <1>3, <2>1, <2>2 DEF Commit, CreditTypeOK
    <2>4. ClaimsApart'
      BY <1>3, <2>1 DEF Commit, CreditTypeOK
    <2> QED BY <2>3, <2>4
  <1>4. ASSUME NEW c \in Callers, Begin(c) PROVE ClaimsApart' /\ Counted'
    <2>1. PICK k, a, s : Start(c, k, a, s)
      BY <1>4 DEF Begin
    <2> QED BY <2>1 DEF Start, CreditTypeOK
  <1>5. ASSUME NEW c \in Callers, Goes(c), ~InsertSession(c), ~Commit(c)
        PROVE  ClaimsApart' /\ Counted'
    BY <1>5 DEF Goes, Connect, UseCredit, Reserve, Refuse, RefundCredit, AddCredits, RowFree,
                TopUp, StatementTimeout, LedgerConnect, Book, Booked, Release, CreditTypeOK
  <1>6. ASSUME NEW c \in Callers, BookFails(c) PROVE ClaimsApart' /\ Counted'
    BY <1>6 DEF BookFails, Booked, CreditTypeOK
  <1>7. ASSUME NEW c \in Callers, Die(c) PROVE ClaimsApart' /\ Counted'
    BY <1>7 DEF Die, CreditTypeOK
  <1> QED BY <1>1, <1>2, <1>3, <1>4, <1>5, <1>6, <1>7 DEF CreditNext

\* Only RefundCredit lowers what has been charged, and it is the one refund there is.
LEMMA RefundStep == CreditInv /\ [CreditNext]_creditVars => RefundsCovered'
  <1> SUFFICES ASSUME CreditInv, [CreditNext]_creditVars PROVE RefundsCovered'
    OBVIOUS
  <1> USE AccountConstants DEF CreditInv, RefundsCovered, Refunding, Goto
  <1>1. CASE UNCHANGED creditVars
    BY <1>1 DEF creditVars
  <1>2. ASSUME NEW c \in Callers, Begin(c) PROVE RefundsCovered'
    BY <1>2 DEF Begin, Start, CreditTypeOK
  <1>3. ASSUME NEW c \in Callers, Goes(c) PROVE RefundsCovered'
    <2>1. amount \in [Callers -> Nat] /\ spent \in Nat
      BY Amounts DEF CreditTypeOK
    <2>2. CASE UseCredit(c)
      BY <2>1, <2>2 DEF UseCredit, RowFree, CreditTypeOK
    <2>3. CASE Reserve(c)
      BY <2>1, <2>3 DEF Reserve, RowFree, CreditTypeOK
    <2>4. CASE RefundCredit(c)
      BY <2>1, <2>4 DEF RefundCredit, RowFree, CreditTypeOK
    <2>5. ASSUME ~UseCredit(c), ~Reserve(c), ~RefundCredit(c) PROVE RefundsCovered'
      <3> USE <1>3, <2>5 DEF Goes, Connect, Refuse, AddCredits, InsertSession, TopUp, Commit,
              StatementTimeout, LedgerConnect, Book, Booked, Release
      <3>1. UNCHANGED <<spent, kind, amount>>
        OBVIOUS
      <3>2. PICK step \in Steps : pc' = [pc EXCEPT ![c] = step]
        BY DEF Steps
      <3>3. pc[c] # "idle"
        BY DEF RowFree, Blocked
      <3>4. pc'[c] \in {"connect", "update"} => pc[c] \in {"connect", "update"}
        BY DEF CreditTypeOK
      <3>5. Refunding' \subseteq Refunding
        BY <3>1, <3>2, <3>3 DEF CreditTypeOK
      <3> QED BY <3>1, <3>2, <3>4, <3>5 DEF CreditTypeOK
    <2> QED BY <2>2, <2>3, <2>4, <2>5
  <1>4. ASSUME NEW c \in Callers, BookFails(c) PROVE RefundsCovered'
    BY <1>4 DEF BookFails, Booked, CreditTypeOK
  <1>5. ASSUME NEW c \in Callers, Die(c) PROVE RefundsCovered'
    BY <1>5 DEF Die, CreditTypeOK
  <1> QED BY <1>1, <1>2, <1>3, <1>4, <1>5 DEF CreditNext
-----------------------------------------------------------------------------
(* Sums.  The sum of w over a finite set S is told by a list f of its      *)
(* members and the partial sums g: enough to add and to take away members  *)
(* without a recursive definition.                                         *)

Lists(S, f, n) == /\ f \in [1 .. n -> S]
                  /\ \A i, j \in 1 .. n : f[i] = f[j] => i = j
                  /\ \A x \in S : \E i \in 1 .. n : f[i] = x

Partial(w, f, g, n) == /\ g \in [0 .. n -> Int] /\ g[0] = 0
                       /\ \A i \in 1 .. n : g[i] = g[i - 1] + w[f[i]]

SumsTo(S, w, total) == \E n \in Nat : \E f, g : Lists(S, f, n) /\ Partial(w, f, g, n) /\ g[n] = total

LEMMA SumOfNone ==
    ASSUME NEW w
    PROVE  SumsTo({}, w, 0) /\ \A total : SumsTo({}, w, total) => total = 0
  <1>1. SumsTo({}, w, 0)
    <2> DEFINE f == [i \in 1 .. 0 |-> 0]
               g == [i \in 0 .. 0 |-> 0]
    <2>1. Lists({}, f, 0)
      BY DEF Lists
    <2>2. Partial(w, f, g, 0) /\ g[0] = 0
      BY DEF Partial
    <2> HIDE DEF f, g
    <2> QED BY <2>1, <2>2 DEF SumsTo
  <1>2. ASSUME NEW total, SumsTo({}, w, total) PROVE total = 0
    <2>1. PICK n, f, g : n \in Nat /\ Lists({}, f, n) /\ Partial(w, f, g, n) /\ g[n] = total
      BY <1>2 DEF SumsTo
    <2> n \in Nat
      BY <2>1
    <2>2. n = 0
      <3> SUFFICES ASSUME n # 0 PROVE FALSE
        OBVIOUS
      <3>1. 1 \in 1 .. n
        OBVIOUS
      <3>2. f[1] \in {}
        BY <2>1, <3>1 DEF Lists
      <3> QED BY <3>2
    <2> QED BY <2>1, <2>2 DEF Partial
  <1> QED BY <1>1, <1>2

\* Only the values at the members count.
LEMMA SumOfSame ==
    ASSUME NEW S, NEW w, NEW v, NEW total, SumsTo(S, w, total), \A x \in S : v[x] = w[x]
    PROVE  SumsTo(S, v, total)
  <1>1. PICK n, f, g : n \in Nat /\ Lists(S, f, n) /\ Partial(w, f, g, n) /\ g[n] = total
    BY DEF SumsTo
  <1> n \in Nat
    BY <1>1
  <1>2. \A i \in 1 .. n : f[i] \in S
    BY <1>1 DEF Lists
  <1>3. Partial(v, f, g, n)
    BY <1>1, <1>2 DEF Partial
  <1> QED BY <1>1, <1>3 DEF SumsTo

\* A new member is listed last.
LEMMA SumOfMore ==
    ASSUME NEW S, NEW w, NEW v, NEW total, SumsTo(S, w, total), \A y \in S : v[y] = w[y],
           NEW x, x \notin S, v[x] \in Int
    PROVE  SumsTo(S \cup {x}, v, total + v[x])
  <1>1. PICK n, f, g : n \in Nat /\ Lists(S, f, n) /\ Partial(w, f, g, n) /\ g[n] = total
    BY DEF SumsTo
  <1> n \in Nat
    BY <1>1
  <1> DEFINE m == n + 1
             F == [i \in 1 .. m |-> IF i = m THEN x ELSE f[i]]
             G == [i \in 0 .. m |-> IF i = m THEN g[n] + v[x] ELSE g[i]]
  <1>2. m \in Nat /\ \A i \in 1 .. m : i = m \/ i \in 1 .. n
    OBVIOUS
  <1>3. Lists(S \cup {x}, F, m)
    <2>1. F \in [1 .. m -> S \cup {x}]
      BY <1>1, <1>2 DEF Lists
    <2>2. \A i, j \in 1 .. m : F[i] = F[j] => i = j
      BY <1>1, <1>2 DEF Lists
    <2>3. \A y \in S \cup {x} : \E i \in 1 .. m : F[i] = y
      <3>1. F[m] = x /\ m \in 1 .. m
        OBVIOUS
      <3>2. \A i \in 1 .. n : F[i] = f[i] /\ i \in 1 .. m
        OBVIOUS
      <3> HIDE DEF F
      <3> QED BY <1>1, <3>1, <3>2 DEF Lists
    <2> HIDE DEF F, m
    <2> QED BY <2>1, <2>2, <2>3 DEF Lists
  <1>4. Partial(v, F, G, m)
    <2>1. \A i \in 0 .. n : g[i] \in Int
      BY <1>1 DEF Partial
    <2>2. G \in [0 .. m -> Int] /\ G[0] = 0
      BY <1>1, <2>1 DEF Partial
    <2>3. ASSUME NEW i \in 1 .. m PROVE G[i] = G[i - 1] + v[F[i]]
      <3>1. CASE i = m
        BY <3>1
      <3>2. CASE i \in 1 .. n
        <4>1. G[i] = g[i] /\ G[i - 1] = g[i - 1] /\ F[i] = f[i] /\ f[i] \in S
          BY <1>1, <3>2 DEF Lists
        <4>2. g[i] = g[i - 1] + w[f[i]]
          BY <1>1, <3>2 DEF Partial
        <4> HIDE DEF F, G
        <4> QED BY <4>1, <4>2
      <3> QED BY <1>2, <3>1, <3>2
    <2> HIDE DEF F, G, m
    <2> QED BY <2>2, <2>3 DEF Partial
  <1>5. G[m] = total + v[x]
    BY <1>1
  <1> HIDE DEF F, G, m
  <1> QED BY <1>2, <1>3, <1>4, <1>5 DEF SumsTo

\* A member that leaves takes its value from the partial sums behind it.
LEMMA SumOfFewer ==
    ASSUME NEW S, NEW w, NEW v, NEW total, SumsTo(S, w, total), NEW x \in S,
           \A y \in S : w[y] \in Int, \A y \in S \ {x} : v[y] = w[y]
    PROVE  SumsTo(S \ {x}, v, total - w[x])
  <1>1. PICK n, f, g : n \in Nat /\ Lists(S, f, n) /\ Partial(w, f, g, n) /\ g[n] = total
    BY DEF SumsTo
  <1> n \in Nat
    BY <1>1
  <1>2. PICK k \in 1 .. n : f[k] = x
    BY <1>1 DEF Lists
  <1> DEFINE m == n - 1
             F == [i \in 1 .. m |-> IF i < k THEN f[i] ELSE f[i + 1]]
             G == [i \in 0 .. m |-> IF i < k THEN g[i] ELSE g[i + 1] - w[x]]
  <1>3. m \in Nat
    OBVIOUS
  <1>4. /\ \A i \in 1 .. n : f[i] \in S
        /\ \A i, j \in 1 .. n : f[i] = f[j] => i = j
    BY <1>1 DEF Lists
  <1>5. /\ \A i \in 0 .. n : g[i] \in Int
        /\ g[0] = 0
        /\ \A i \in 1 .. n : g[i] = g[i - 1] + w[f[i]]
    BY <1>1 DEF Partial
  <1>6. Lists(S \ {x}, F, m)
    <2>1. \A i \in 1 .. m : F[i] \in S /\ F[i] # x
      BY <1>2, <1>4
    <2>2. \A i, j \in 1 .. m : F[i] = F[j] => i = j
      <3> SUFFICES ASSUME NEW i \in 1 .. m, NEW j \in 1 .. m, F[i] = F[j] PROVE i = j
        OBVIOUS
      <3>1. CASE i < k /\ j < k
        BY <1>4, <3>1
      <3>2. CASE i >= k /\ j >= k
        <4>1. f[i + 1] = f[j + 1] /\ i + 1 \in 1 .. n /\ j + 1 \in 1 .. n
          BY <3>2
        <4> QED BY <1>4, <4>1
      <3>3. CASE i < k /\ j >= k
        <4>1. f[i] = f[j + 1] /\ i \in 1 .. n /\ j + 1 \in 1 .. n /\ i # j + 1
          BY <3>3
        <4> QED BY <1>4, <4>1
      <3>4. CASE i >= k /\ j < k
        <4>1. f[i + 1] = f[j] /\ j \in 1 .. n /\ i + 1 \in 1 .. n /\ j # i + 1
          BY <3>4
        <4> QED BY <1>4, <4>1
      <3> QED BY <3>1, <3>2, <3>3, <3>4
    <2>3. ASSUME NEW y \in S \ {x} PROVE \E i \in 1 .. m : F[i] = y
      <3>1. PICK j \in 1 .. n : f[j] = y
        BY <1>1 DEF Lists
      <3>2. j # k
        BY <1>2, <3>1
      <3>3. CASE j < k
        <4>1. j \in 1 .. m /\ F[j] = y
          BY <3>1, <3>3
        <4> HIDE DEF F
        <4> QED BY <4>1
      <3>4. CASE j > k
        <4>1. j - 1 \in 1 .. m /\ F[j - 1] = f[j - 1 + 1] /\ j - 1 + 1 = j
          BY <3>4
        <4> HIDE DEF F
        <4> QED BY <3>1, <4>1
      <3> QED BY <3>2, <3>3, <3>4
    <2>4. F \in [1 .. m -> S \ {x}]
      BY <2>1
    <2> HIDE DEF F, m
    <2> QED BY <2>2, <2>3, <2>4 DEF Lists
  <1>7. Partial(v, F, G, m)
    <2>1. G \in [0 .. m -> Int] /\ G[0] = 0
      BY <1>5
    <2>2. ASSUME NEW i \in 1 .. m PROVE G[i] = G[i - 1] + v[F[i]]
      <3>0. F[i] \in S \ {x}
        <4> HIDE DEF F, m
        <4> QED BY <1>6 DEF Lists
      <3>1. v[F[i]] = w[F[i]]
        BY <3>0
      <3>2. CASE i < k
        <4>1. F[i] = f[i] /\ G[i] = g[i] /\ G[i - 1] = g[i - 1] /\ i \in 1 .. n
          BY <3>2
        <4> HIDE DEF F, G
        <4> QED BY <1>5, <3>1, <4>1
      <3>3. CASE i = k
        <4>1. F[i] = f[i + 1] /\ G[i] = g[i + 1] - w[x] /\ G[i - 1] = g[i - 1]
          BY <3>3
        <4>2. i - 1 \in 0 .. n /\ i \in 0 .. n /\ i + 1 \in 0 .. n /\ i \in 1 .. n /\ i + 1 \in 1 .. n
          BY <3>3
        <4>3. g[i - 1] \in Int /\ g[i] \in Int /\ g[i + 1] \in Int /\ w[f[i + 1]] \in Int /\ w[x] \in Int
          BY <1>4, <1>5, <4>2
        <4>4. g[i + 1] = g[i + 1 - 1] + w[f[i + 1]] /\ g[i] = g[i - 1] + w[f[i]]
          BY <1>5, <4>2
        <4>5. i + 1 - 1 = i /\ f[i] = x
          BY <1>2, <3>3
        <4> HIDE DEF F, G, m
        <4> QED BY <3>1, <4>1, <4>3, <4>4, <4>5
      <3>4. CASE i > k
        <4>1. F[i] = f[i + 1] /\ G[i] = g[i + 1] - w[x] /\ G[i - 1] = g[i - 1 + 1] - w[x] /\ i - 1 + 1 = i
          BY <3>4
        <4>2. i \in 0 .. n /\ i + 1 \in 0 .. n /\ i + 1 \in 1 .. n /\ i + 1 - 1 = i
          BY <3>4
        <4>3. g[i] \in Int /\ g[i + 1] \in Int /\ w[f[i + 1]] \in Int /\ w[x] \in Int
          BY <1>4, <1>5, <4>2
        <4>4. g[i + 1] = g[i + 1 - 1] + w[f[i + 1]]
          BY <1>5, <4>2
        <4> HIDE DEF F, G, m
        <4> QED BY <3>1, <4>1, <4>2, <4>3, <4>4
      <3> QED BY <3>2, <3>3, <3>4
    <2> HIDE DEF F, G, m
    <2> QED BY <2>1, <2>2 DEF Partial
  <1>8. G[m] = total - w[x]
    <2>1. CASE k = n
      <3>1. G[m] = g[n - 1] /\ n - 1 \in 0 .. n /\ n \in 1 .. n
        BY <2>1
      <3>2. g[n] = g[n - 1] + w[f[n]] /\ g[n - 1] \in Int /\ g[n] \in Int
        BY <1>5, <3>1
      <3>3. f[n] = x /\ w[x] \in Int /\ g[n] = total
        BY <1>1, <1>2, <2>1
      <3> HIDE DEF G
      <3> QED BY <3>1, <3>2, <3>3
    <2>2. CASE k < n
      <3>1. G[m] = g[n] - w[x]
        BY <2>2
      <3> HIDE DEF G
      <3> QED BY <1>1, <3>1
    <2> QED BY <2>1, <2>2
  <1> HIDE DEF F, G, m
  <1> QED BY <1>3, <1>6, <1>7, <1>8 DEF SumsTo
-----------------------------------------------------------------------------
(* The ledger. *)

\* The callers whose entry does not yet agree with the balance: a charge or a refund is
\* committed before its entry is written, a purchase after it.
Owing == {c \in Callers : \/ kind[c] \in {"charge", "refund"} /\ pc[c] \in {"ledger", "book"}
                          \/ kind[c] = "fulfil" /\ pc[c] = "commit"}

Owed(c) == IF kind[c] = "refund" THEN amount[c] ELSE -amount[c]

Due == [c \in Callers |-> Owed(c)]

LedgerCalls == \A c \in Callers : pc[c] \in {"ledger", "book"} => kind[c] \in {"charge", "refund", "fulfil"}

\* What the ledger does not explain is what these callers owe it.
Unexplained == balance - (StartCents + booked + unbooked)

LedgerExplained == faults = 0 => SumsTo(Owing, Due, Unexplained)

LEMMA LedgerInit == CreditInit => LedgerCalls /\ LedgerExplained
  <1> SUFFICES ASSUME CreditInit PROVE LedgerCalls /\ LedgerExplained
    OBVIOUS
  <1>1. LedgerCalls /\ Owing = {}
    BY DEF CreditInit, LedgerCalls, Owing
  <1>2. Unexplained = 0
    BY AccountConstants DEF CreditInit, Unexplained
  <1>3. SumsTo(Owing, Due, Unexplained)
    BY <1>1, <1>2, SumOfNone
  <1> QED BY <1>1, <1>3 DEF LedgerExplained

LEMMA LedgerCallsStep == CreditInv /\ LedgerCalls /\ [CreditNext]_creditVars => LedgerCalls'
  <1> SUFFICES ASSUME CreditInv, LedgerCalls, [CreditNext]_creditVars PROVE LedgerCalls'
    OBVIOUS
  <1> USE DEF CreditInv, CallsFit, LedgerCalls, Goto
  <1>1. CASE UNCHANGED creditVars
    BY <1>1 DEF creditVars
  <1>2. ASSUME NEW c \in Callers, Begin(c) PROVE LedgerCalls'
    BY <1>2 DEF Begin, Start, CreditTypeOK
  <1>3. ASSUME NEW c \in Callers, Goes(c) PROVE LedgerCalls'
    BY <1>3 DEF Goes, Connect, UseCredit, Reserve, Refuse, RefundCredit, AddCredits, RowFree,
                InsertSession, TopUp, Commit, StatementTimeout, LedgerConnect, Book, Booked,
                Release, CreditTypeOK
  <1>4. ASSUME NEW c \in Callers, BookFails(c) PROVE LedgerCalls'
    BY <1>4 DEF BookFails, Booked, CreditTypeOK
  <1>5. ASSUME NEW c \in Callers, Die(c) PROVE LedgerCalls'
    BY <1>5 DEF Die, CreditTypeOK
  <1> QED BY <1>1, <1>2, <1>3, <1>4, <1>5 DEF CreditNext

\* A step that leaves the owing callers, their calls and the difference alone.
LEMMA NothingOwed ==
    ASSUME LedgerExplained, faults' = faults, Owing' = Owing, Unexplained' = Unexplained,
           \A c \in Owing : kind'[c] = kind[c] /\ amount'[c] = amount[c]
    PROVE  LedgerExplained'
  <1> SUFFICES ASSUME faults = 0 PROVE SumsTo(Owing', Due', Unexplained')
    BY DEF LedgerExplained
  <1>1. SumsTo(Owing, Due, Unexplained)
    BY DEF LedgerExplained
  <1>2. \A c \in Owing : Due'[c] = Due[c]
    BY DEF Due, Owed, Owing
  <1>3. SumsTo(Owing, Due', Unexplained)
    BY <1>1, <1>2, SumOfSame
  <1> QED BY <1>3

\* A caller that begins to owe, and one that owes no more.
LEMMA OwesMore ==
    ASSUME CreditInv, LedgerExplained, faults' = faults, UNCHANGED call, NEW c \in Callers,
           c \notin Owing, Owing' = Owing \cup {c}, Unexplained' = Unexplained + Owed(c)
    PROVE  LedgerExplained'
  <1> SUFFICES ASSUME faults = 0 PROVE SumsTo(Owing', Due', Unexplained')
    BY DEF LedgerExplained
  <1>1. SumsTo(Owing, Due, Unexplained)
    BY DEF LedgerExplained
  <1>2. Due' = Due /\ Due[c] = Owed(c)
    BY DEF Due, Owed
  <1>3. Due[c] \in Int
    <2>1. amount[c] \in Nat
      BY Amounts DEF CreditInv
    <2> QED BY <1>2, <2>1 DEF Owed
  <1>4. SumsTo(Owing \cup {c}, Due, Unexplained + Due[c])
    BY <1>1, <1>3, SumOfMore
  <1> QED BY <1>2, <1>4

LEMMA OwesLess ==
    ASSUME CreditInv, LedgerExplained, faults' = faults, UNCHANGED call, NEW c \in Owing,
           Owing' = Owing \ {c}, Unexplained' = Unexplained - Owed(c)
    PROVE  LedgerExplained'
  <1> SUFFICES ASSUME faults = 0 PROVE SumsTo(Owing', Due', Unexplained')
    BY DEF LedgerExplained
  <1>1. SumsTo(Owing, Due, Unexplained)
    BY DEF LedgerExplained
  <1>2. Due' = Due /\ Due[c] = Owed(c)
    BY DEF Due, Owed, Owing
  <1>3. \A d \in Owing : Due[d] \in Int
    <2>1. amount \in [Callers -> Nat]
      BY Amounts DEF CreditInv
    <2> QED BY <2>1 DEF Due, Owed, Owing
  <1>4. SumsTo(Owing \ {c}, Due, Unexplained - Due[c])
    BY <1>1, <1>3, SumOfFewer
  <1> QED BY <1>2, <1>4

LEMMA LedgerStep ==
    CreditInv /\ LedgerCalls /\ LedgerExplained /\ [CreditNext]_creditVars => LedgerExplained'
  <1> SUFFICES ASSUME CreditInv, LedgerCalls, LedgerExplained, [CreditNext]_creditVars
               PROVE  LedgerExplained'
    OBVIOUS
  <1> USE DEF CreditInv
  <1>0. /\ pc \in [Callers -> Steps] /\ faults \in Nat
        /\ balance \in Int /\ booked \in Int /\ unbooked \in Int /\ StartCents \in Int
        /\ amount \in [Callers -> Int]
    BY Amounts, AccountConstants DEF CreditTypeOK
  <1>1. CASE UNCHANGED creditVars
    BY <1>1, NothingOwed DEF creditVars, Owing, Unexplained
  <1>2. ASSUME NEW c \in Callers, Begin(c) PROVE LedgerExplained'
    <2>1. PICK k, a, s : Start(c, k, a, s)
      BY <1>2 DEF Begin
    <2>2. /\ pc[c] = "idle" /\ pc'[c] = "connect"
          /\ \A d \in Callers \ {c} : pc'[d] = pc[d] /\ kind'[d] = kind[d] /\ amount'[d] = amount[d]
          /\ UNCHANGED <<balance, booked, unbooked, faults>>
      BY <2>1 DEF Start, Goto, CreditTypeOK
    <2>3. Owing' = Owing /\ c \notin Owing
      BY <2>2 DEF Owing
    <2> QED BY <2>2, <2>3, NothingOwed DEF Owing, Unexplained
  <1>3. ASSUME NEW c \in Callers, UseCredit(c) \/ RefundCredit(c) PROVE LedgerExplained'
    <2>1. /\ pc[c] = "update" /\ pc' = [pc EXCEPT ![c] = "ledger"]
          /\ kind[c] \in {"charge", "refund"}
          /\ UNCHANGED <<call, booked, unbooked, faults>>
          /\ balance' = balance + Owed(c)
      BY <1>0, <1>3 DEF UseCredit, RefundCredit, RowFree, Goto, Owed
    <2>2. c \notin Owing /\ Owing' = Owing \cup {c}
      BY <1>0, <2>1 DEF Owing
    <2>3. Owed(c) \in Int
      BY <1>0 DEF Owed
    <2>4. Unexplained' = Unexplained + Owed(c)
      BY <1>0, <2>1, <2>3 DEF Unexplained
    <2> QED BY <2>1, <2>2, <2>4, OwesMore
  <1>4. ASSUME NEW c \in Callers, Book(c) PROVE LedgerExplained'
    <2>0. Owed(c) \in Int
      BY <1>0 DEF Owed
    <2>1. CASE kind[c] = "fulfil"
      <3>1. /\ pc[c] = "book" /\ pc' = [pc EXCEPT ![c] = "commit"]
            /\ UNCHANGED <<call, balance, unbooked, faults>>
            /\ booked' = booked - Owed(c)
        BY <1>0, <1>4, <2>1 DEF Book, Booked, Goto, Owed
      <3>2. c \notin Owing /\ Owing' = Owing \cup {c}
        BY <1>0, <2>1, <3>1 DEF Owing
      <3>3. Unexplained' = Unexplained + Owed(c)
        BY <1>0, <2>0, <3>1 DEF Unexplained
      <3> QED BY <3>1, <3>2, <3>3, OwesMore
    <2>2. CASE kind[c] # "fulfil"
      <3>1. kind[c] \in {"charge", "refund"}
        BY <1>4, <2>2 DEF Book, LedgerCalls
      <3>2. /\ pc[c] = "book" /\ pc' = [pc EXCEPT ![c] = "release"]
            /\ UNCHANGED <<call, balance, unbooked, faults>>
            /\ booked' = booked + Owed(c)
        BY <1>0, <1>4, <2>2, <3>1 DEF Book, Booked, Goto, Owed
      <3>3. c \in Owing /\ Owing' = Owing \ {c}
        BY <1>0, <3>1, <3>2 DEF Owing
      <3>4. Unexplained' = Unexplained - Owed(c)
        BY <1>0, <2>0, <3>2 DEF Unexplained
      <3> QED BY <3>2, <3>3, <3>4, OwesLess
    <2> QED BY <2>1, <2>2
  <1>5. ASSUME NEW c \in Callers, Commit(c) PROVE LedgerExplained'
    <2>1. /\ pc[c] = "commit" /\ kind[c] = "fulfil" /\ pc' = [pc EXCEPT ![c] = "release"]
          /\ UNCHANGED <<call, booked, unbooked, faults>>
          /\ balance' = balance - Owed(c)
      BY <1>0, <1>5 DEF Commit, CallsFit, Goto, Owed
    <2>2. c \in Owing /\ Owing' = Owing \ {c}
      BY <1>0, <2>1 DEF Owing
    <2>3. Owed(c) \in Int
      BY <1>0 DEF Owed
    <2>4. Unexplained' = Unexplained - Owed(c)
      BY <1>0, <2>1, <2>3 DEF Unexplained
    <2> QED BY <2>1, <2>2, <2>4, OwesLess
  <1>6. ASSUME NEW c \in Callers, Goes(c), ~UseCredit(c), ~RefundCredit(c), ~Book(c), ~Commit(c)
        PROVE  LedgerExplained'
    <2>1. /\ UNCHANGED <<call, booked, faults>>
          /\ pc'[c] \in {"ledger", "book"} /\ kind[c] # "fulfil" <=> pc[c] \in {"ledger", "book"} /\ kind[c] # "fulfil"
          /\ pc'[c] # "commit" /\ pc[c] # "commit"
          /\ \E step \in Steps : pc' = [pc EXCEPT ![c] = step]
      BY <1>0, <1>6 DEF Goes, Connect, Reserve, Refuse, AddCredits, InsertSession, TopUp,
            StatementTimeout, Blocked, RowFree, LedgerConnect, Release, Goto, CallsFit, Steps
    <2>6. \E d \in Int : balance' = balance + d /\ unbooked' = unbooked + d
      <3>1. CASE Reserve(c)
        <4>1. -amount[c] \in Int /\ balance' = balance + (-amount[c]) /\ unbooked' = unbooked + (-amount[c])
          BY <1>0, <3>1 DEF Reserve
        <4> QED BY <4>1
      <3>2. CASE AddCredits(c)
        <4>1. amount[c] \in Int /\ balance' = balance + amount[c] /\ unbooked' = unbooked + amount[c]
          BY <1>0, <3>2 DEF AddCredits
        <4> QED BY <4>1
      <3>3. CASE ~Reserve(c) /\ ~AddCredits(c)
        <4>1. balance' = balance /\ unbooked' = unbooked
          BY <1>6, <3>3 DEF Goes, Connect, Refuse, InsertSession, TopUp, StatementTimeout, LedgerConnect, Release
        <4> QED BY <1>0, <4>1
      <3> QED BY <3>1, <3>2, <3>3
    <2>2. \A d \in Callers \ {c} : pc'[d] = pc[d]
      BY <1>0, <2>1
    <2>3. Owing' = Owing
      <3>1. c \in Owing' <=> c \in Owing
        BY <2>1 DEF Owing
      <3>2. \A d \in Callers \ {c} : d \in Owing' <=> d \in Owing
        BY <2>1, <2>2 DEF Owing
      <3>3. Owing \subseteq Callers /\ Owing' \subseteq Callers
        BY DEF Owing
      <3> QED BY <3>1, <3>2, <3>3
    <2>4. Unexplained' = Unexplained
      <3>1. PICK d \in Int : balance' = balance + d /\ unbooked' = unbooked + d
        BY <2>6
      <3>2. booked' = booked
        BY <2>1
      <3> QED BY <1>0, <3>1, <3>2 DEF Unexplained
    <2> QED BY <2>1, <2>3, <2>4, NothingOwed
  <1>7. ASSUME NEW c \in Callers, BookFails(c) \/ Die(c) PROVE LedgerExplained'
    <2>1. faults' # 0
      BY <1>0, <1>7 DEF BookFails, Die
    <2> QED BY <2>1 DEF LedgerExplained
  <1> QED BY <1>1, <1>2, <1>3, <1>4, <1>5, <1>6, <1>7 DEF CreditNext
-----------------------------------------------------------------------------
(* The theorems. *)

\* The invariant of the organization's credits and of the calls that move them.
THEOREM CreditInductive == CreditSpec => []CreditInv
  <1>1. CreditInv /\ [CreditNext]_creditVars => PoolFinite'
    BY PoolStep DEF CreditInv, PoolFinite
  <1>2. CreditInv /\ [CreditNext]_creditVars => CreditInv'
    BY <1>1, TypeStep, CallStep, ClaimStep, RefundStep DEF CreditInv
  <1> QED BY <1>2, InitInv, PTL DEF CreditSpec

\* The balance is never overdrawn, and the pool never gives out more than PoolMax
\* connections (CreditTypeOK's parts that the guards of the code must earn).
THEOREM CreditTypeCorrect == CreditSpec => []CreditTypeOK
  <1>1. CreditInv => CreditTypeOK
    BY DEF CreditInv
  <1> QED BY <1>1, CreditInductive, PTL

\* A purchase is credited once, for any number of announcements, processes and deaths:
\* fulfill_session's unique row and its top-up commit together.
THEOREM PurchaseGrantedOnce == CreditSpec => []GrantedOnce
  <1>1. CreditInv => GrantedOnce
    BY DEF CreditInv, Counted, GrantedOnce
  <1> QED BY <1>1, CreditInductive, PTL

\* While nothing fails, what the ledger does not explain of the balance is what the calls
\* under way still owe it; so when none is under way it explains the whole balance, up to
\* the reservations and additions that record_credit_event is never told of.
THEOREM LedgerExplains == CreditSpec => []LedgerExplainsBalance
  <1> DEFINE L == CreditInv /\ LedgerCalls /\ LedgerExplained
  <1>1. CreditInit => L
    BY InitInv, LedgerInit
  <1>2. L /\ CreditInv' /\ [CreditNext]_creditVars => L'
    BY LedgerCallsStep, LedgerStep
  <1>3. L => LedgerExplainsBalance
    <2> SUFFICES ASSUME L, Quiescent, faults = 0 PROVE balance = StartCents + booked + unbooked
      BY DEF LedgerExplainsBalance
    <2>1. Owing = {}
      BY DEF Quiescent, Owing
    <2>2. SumsTo({}, Due, Unexplained)
      BY <2>1 DEF LedgerExplained
    <2>3. Unexplained = 0
      BY <2>2, SumOfNone
    <2> QED BY <2>3, AccountConstants DEF Unexplained, CreditInv, CreditTypeOK
  <1> HIDE DEF L
  <1> QED BY <1>1, <1>2, <1>3, CreditInductive, PTL DEF CreditSpec

-----------------------------------------------------------------------------
(* Watchlist.                                                              *)

(* The inductive invariant, part by part. *)

Statuses == {"absent", "deleted", "active", "paused", "skipped_no_credits"}
WatchPlaces == {"free", "queued", "charge", "research", "record", "recorded"}
Documents == 0 .. 2

ItemRow == [status : Statuses, schedule : Schedules, due : 0 .. Far, doc : Documents]
Payload == [item : Watched, old : Documents, schedule : Schedules]
Slot == [item : Watched \cup {NoItem}, at : WatchPlaces, tries : 0 .. WatchAttempts,
         paid : 0 .. WatchAttempts, old : Documents, schedule : Schedules]

WatchTypes ==
    /\ watch \in [Watched -> ItemRow]
    /\ latest \in [Watched -> Documents]
    /\ wallet \in 0 .. Wallet
    /\ claimed \in [Schedulers -> SUBSET Payload]
    /\ run \in [WatchRuns -> Slot]
    /\ behind \subseteq Watched
    /\ crashed \in BOOLEAN
    /\ putOff \in 0 .. MaxPutOffs

\* A slot is free or has an item, a task in the queue has an attempt left, and an attempt
\* is charged for once at most: one that has yet to be charged for is not counted.
Fits(x) == /\ x.at = "free" <=> x.item = NoItem
           /\ x.at = "queued" => x.tries < WatchAttempts
           /\ x.paid <= x.tries
           /\ x.at = "charge" => x.paid < x.tries

WatchSlotsFit == \A r \in WatchRuns : Fits(run[r])

\* What has been claimed or queued for an item is the only thing that has.
Apart ==
    /\ \A s, u \in Schedulers : \A c \in claimed[s], d \in claimed[u] : c.item = d.item => s = u /\ c = d
    /\ \A q, r \in WatchRuns : run[r].item # NoItem /\ run[q].item = run[r].item => q = r
    /\ \A r \in WatchRuns, s \in Schedulers : \A c \in claimed[s] : c.item # run[r].item

\* Its date lies ahead: thirty days at the claim, a schedule afterwards, and time stands
\* still meanwhile.  It has been on the list.
Ahead(i) == watch[i].due > 0 /\ watch[i].status # "absent"

PutAhead ==
    /\ \A r \in WatchRuns : run[r].item # NoItem => Ahead(run[r].item)
    /\ \A s \in Schedulers : \A c \in claimed[s] : Ahead(c.item)

\* Outside the step that records it, an item refers to the newest document, and so does what
\* was claimed or queued for it until it is recorded, unless the item was left behind.
Remembers(i) ==
    /\ (\A r \in WatchRuns : run[r].item = i => run[r].at # "record") => watch[i].doc = latest[i]
    /\ \A r \in WatchRuns : run[r].item = i /\ run[r].at \notin {"record", "recorded"} => run[r].old = latest[i]
    /\ \A s \in Schedulers : \A c \in claimed[s] : c.item = i => c.old = latest[i]

Remembered == \A i \in Watched \ behind : watch[i].status # "deleted" => Remembers(i)

WatchInv == WatchTypes /\ WatchSlotsFit /\ Apart /\ PutAhead /\ Remembered

-----------------------------------------------------------------------------
(* Records. *)

LEMMA RowFields ==
    /\ \A x \in ItemRow, v \in Statuses : [x EXCEPT !.status = v] \in ItemRow
    /\ \A x \in ItemRow, v \in Schedules : [x EXCEPT !.schedule = v] \in ItemRow
    /\ \A x \in ItemRow, v \in 0 .. Far : [x EXCEPT !.due = v] \in ItemRow
    /\ \A x \in ItemRow, v \in Documents : [x EXCEPT !.doc = v] \in ItemRow
  BY DEF ItemRow

LEMMA SlotFields ==
    /\ \A x \in Slot, v \in WatchPlaces : [x EXCEPT !.at = v] \in Slot
    /\ \A x \in Slot, v \in 0 .. WatchAttempts : [x EXCEPT !.tries = v] \in Slot
    /\ \A x \in Slot, v \in 0 .. WatchAttempts : [x EXCEPT !.paid = v] \in Slot
  BY DEF Slot

LEMMA IdleSlot ==
    IdleRun \in Slot /\ IdleRun.item = NoItem /\ IdleRun.at = "free" /\ Fits(IdleRun)
  BY WatchConstants DEF IdleRun, Slot, WatchPlaces, Documents, Schedules, Fits

LEMMA WatchInitInv ==
    ASSUME WatchInit
    PROVE  WatchInv
  <1> USE WatchConstants DEF WatchInit
  <1>1. WatchTypes
    <2>1. [status |-> "absent", schedule |-> 1, due |-> 1, doc |-> 0] \in ItemRow
      BY DEF ItemRow, Statuses, Schedules, Far, Documents
    <2>2. watch \in [Watched -> ItemRow]
      BY <2>1
    <2>3. run \in [WatchRuns -> Slot]
      BY IdleSlot
    <2>4. latest \in [Watched -> Documents]
      BY DEF Documents
    <2>5. wallet \in 0 .. Wallet /\ putOff \in 0 .. MaxPutOffs
      OBVIOUS
    <2> QED BY <2>2, <2>3, <2>4, <2>5 DEF WatchTypes
  <1>2. WatchSlotsFit /\ Apart /\ PutAhead
    BY IdleSlot DEF WatchSlotsFit, Apart, PutAhead
  <1>3. Remembered
    BY IdleSlot DEF Remembered, Remembers
  <1> QED BY <1>1, <1>2, <1>3 DEF WatchInv
-----------------------------------------------------------------------------
(* The user's steps, and time. *)

(* A step that only moves dates ahead, leaves the list, and changes no     *)
(* document of an item that stays.                                         *)
LEMMA ListKept ==
    ASSUME WatchInv, UNCHANGED <<latest, claimed, run, behind>>,
           \A i \in Watched : Ahead(i) /\ ~Ahead(i)' =>
               /\ \A r \in WatchRuns : run[r].item # i
               /\ \A s \in Schedulers : \A c \in claimed[s] : c.item # i,
           \A i \in Watched : watch'[i].status # "deleted" =>
               watch[i].status # "deleted" /\ watch'[i].doc = watch[i].doc
    PROVE  WatchSlotsFit' /\ Apart' /\ PutAhead' /\ Remembered'
  <1> USE DEF WatchInv
  <1>1. WatchSlotsFit' /\ Apart'
    BY DEF WatchSlotsFit, Fits, Apart
  <1>2. PutAhead'
    <2>1. \A r \in WatchRuns : run[r].item # NoItem => run[r].item \in Watched
      BY DEF WatchTypes, Slot
    <2>2. \A s \in Schedulers : \A c \in claimed[s] : c.item \in Watched
      BY DEF WatchTypes, Payload
    <2> QED BY <2>1, <2>2 DEF PutAhead, Ahead
  <1>3. Remembered'
    BY DEF Remembered, Remembers
  <1> QED BY <1>1, <1>2, <1>3

LEMMA AddItemKeeps ==
    ASSUME WatchInv, NEW i \in Watched, AddItem(i)
    PROVE  WatchInv'
  <1> USE DEF WatchInv
  <1>1. PICK s \in Schedules :
           watch' = [watch EXCEPT ![i].status = "active", ![i].schedule = s, ![i].due = s]
    BY DEF AddItem
  <1>2. s \in 0 .. Far /\ s > 0 /\ "active" \in Statuses
    BY DEF Schedules, Far, Statuses
  <1>3. watch' = [watch EXCEPT ![i] = [watch[i] EXCEPT !.status = "active", !.schedule = s, !.due = s]]
    BY <1>1 DEF WatchTypes
  <1>4. watch' \in [Watched -> ItemRow]
    <2>1. [watch[i] EXCEPT !.status = "active", !.schedule = s, !.due = s] \in ItemRow
      BY <1>2, RowFields DEF WatchTypes
    <2> QED BY <1>3, <2>1 DEF WatchTypes
  <1>5. /\ \A j \in Watched \ {i} : watch'[j] = watch[j]
        /\ watch'[i].status = "active" /\ watch'[i].due = s /\ watch'[i].doc = watch[i].doc
    BY <1>3 DEF WatchTypes, ItemRow
  <1>6. WatchTypes'
    BY <1>4, WatchConstants DEF AddItem, WatchTypes
  <1>7. \A j \in Watched : Ahead(j) => Ahead(j)'
    BY <1>2, <1>5 DEF Ahead
  <1>8. \A j \in Watched : watch'[j].status # "deleted" =>
           watch[j].status # "deleted" /\ watch'[j].doc = watch[j].doc
    BY <1>5 DEF AddItem
  <1> QED BY <1>6, <1>7, <1>8, ListKept DEF AddItem

LEMMA UpdateItemKeeps ==
    ASSUME WatchInv, NEW i \in Watched, UpdateItem(i)
    PROVE  WatchInv'
  <1> USE DEF WatchInv
  <1>1. PICK v \in {"active", "paused"}, s \in Schedules :
           watch' = [watch EXCEPT ![i].status = v, ![i].schedule = s,
                        ![i].due = IF v = "active" /\ watch[i].status # "active" THEN s ELSE @]
    BY DEF UpdateItem
  <1> DEFINE d == IF v = "active" /\ watch[i].status # "active" THEN s ELSE watch[i].due
  <1>2. s \in 0 .. Far /\ s > 0 /\ v \in Statuses /\ d \in 0 .. Far
    BY DEF Schedules, Far, Statuses, WatchTypes, ItemRow
  <1>3. watch' = [watch EXCEPT ![i] = [watch[i] EXCEPT !.status = v, !.schedule = s, !.due = d]]
    BY <1>1 DEF WatchTypes, ItemRow
  <1> HIDE DEF d
  <1>4. watch' \in [Watched -> ItemRow]
    <2>1. [watch[i] EXCEPT !.status = v, !.schedule = s, !.due = d] \in ItemRow
      BY <1>2, RowFields DEF WatchTypes
    <2> QED BY <1>3, <2>1 DEF WatchTypes
  <1>5. /\ \A j \in Watched \ {i} : watch'[j] = watch[j]
        /\ watch'[i].status = v /\ watch'[i].due = d /\ watch'[i].doc = watch[i].doc
    BY <1>3 DEF WatchTypes, ItemRow
  <1>6. WatchTypes'
    BY <1>4 DEF UpdateItem, WatchTypes
  <1>7. \A j \in Watched : Ahead(j) => Ahead(j)'
    BY <1>2, <1>5 DEF Ahead, d
  <1>8. \A j \in Watched : watch'[j].status # "deleted" =>
           watch[j].status # "deleted" /\ watch'[j].doc = watch[j].doc
    BY <1>5 DEF UpdateItem, OnList
  <1> QED BY <1>6, <1>7, <1>8, ListKept DEF UpdateItem

LEMMA DeleteItemKeeps ==
    ASSUME WatchInv, NEW i \in Watched, DeleteItem(i)
    PROVE  WatchInv'
  <1> USE DEF WatchInv
  <1>1. [status |-> "deleted", schedule |-> 1, due |-> 1, doc |-> 0] \in ItemRow
    BY DEF ItemRow, Statuses, Schedules, Far, Documents
  <1>2. WatchTypes'
    BY <1>1 DEF DeleteItem, WatchTypes
  <1>3. /\ \A j \in Watched \ {i} : watch'[j] = watch[j]
        /\ watch'[i].status = "deleted" /\ watch'[i].due = 1
    BY DEF DeleteItem, WatchTypes
  <1>4. \A j \in Watched : Ahead(j) => Ahead(j)'
    BY <1>3 DEF Ahead
  <1>5. \A j \in Watched : watch'[j].status # "deleted" =>
           watch[j].status # "deleted" /\ watch'[j].doc = watch[j].doc
    BY <1>3
  <1> QED BY <1>2, <1>4, <1>5, ListKept DEF DeleteItem

LEMMA TimeKeeps ==
    ASSUME WatchInv, TimePasses
    PROVE  WatchInv'
  <1> USE DEF WatchInv
  <1>1. WatchTypes'
    <2>1. \A i \in Watched : (IF watch[i].due > 0 THEN watch[i].due - 1 ELSE 0) \in 0 .. Far
      BY DEF WatchTypes, ItemRow, Far
    <2>2. \A i \in Watched : [watch[i] EXCEPT !.due = IF @ > 0 THEN @ - 1 ELSE 0] \in ItemRow
      BY <2>1, RowFields DEF WatchTypes
    <2> QED BY <2>2 DEF TimePasses, WatchTypes
  <1>2. \A i \in Watched : watch'[i].status = watch[i].status /\ watch'[i].doc = watch[i].doc
    BY DEF TimePasses, WatchTypes, ItemRow
  <1>3. /\ \A r \in WatchRuns : run[r].at = "free"
        /\ \A s \in Schedulers : claimed[s] = {}
    BY DEF TimePasses, Outstanding
  <1>4. \A r \in WatchRuns, i \in Watched : run[r].item # i
    BY <1>3, WatchConstants DEF WatchSlotsFit, Fits
  <1> QED BY <1>1, <1>2, <1>3, <1>4, ListKept DEF TimePasses

-----------------------------------------------------------------------------
(* The schedulers. *)

(* What is claimed is due, so nothing has been claimed or queued for it.   *)
LEMMA ClaimKeeps ==
    ASSUME WatchInv, NEW s \in Schedulers, ClaimDue(s)
    PROVE  WatchInv'
  <1> USE DEF WatchInv
  <1>1. Payloads \subseteq Payload
    BY DEF Payloads, Payload, DueItems, WatchTypes, ItemRow
  <1>2. WatchTypes'
    <2>1. \A i \in Watched : (IF i \in DueItems THEN Far ELSE watch[i].due) \in 0 .. Far
      BY DEF WatchTypes, ItemRow, Far
    <2>2. \A i \in Watched : [watch[i] EXCEPT !.due = IF i \in DueItems THEN Far ELSE @] \in ItemRow
      BY <2>1, RowFields DEF WatchTypes
    <2>3. watch' \in [Watched -> ItemRow]
      BY <2>2 DEF ClaimDue
    <2>4. claimed' \in [Schedulers -> SUBSET Payload]
      BY <1>1 DEF ClaimDue, WatchTypes
    <2> QED BY <2>3, <2>4 DEF ClaimDue, WatchTypes
  <1>3. /\ claimed[s] = {} /\ claimed'[s] = Payloads
        /\ \A u \in Schedulers \ {s} : claimed'[u] = claimed[u]
    BY DEF ClaimDue, WatchTypes
  <1>4. \A i \in Watched : /\ watch'[i].status = watch[i].status /\ watch'[i].doc = watch[i].doc
                           /\ watch'[i].due = IF i \in DueItems THEN 2 ELSE watch[i].due
    BY DEF ClaimDue, WatchTypes, ItemRow, Far
  <1>5. /\ \A i \in DueItems : i \in Watched /\ ~Ahead(i) /\ watch[i].status = "active"
        /\ \A i \in DueItems : Ahead(i)' /\ i # NoItem
        /\ \A i \in Watched : Ahead(i) => Ahead(i)'
    BY <1>4, WatchConstants DEF DueItems, Ahead
  <1>6. /\ \A c \in Payloads : c.item \in DueItems /\ c.old = watch[c.item].doc
        /\ \A c, d \in Payloads : c.item = d.item => c = d
    BY DEF Payloads
  <1>7. /\ \A i \in DueItems, r \in WatchRuns : run[r].item # i
        /\ \A i \in DueItems, u \in Schedulers : \A c \in claimed[u] : c.item # i
    BY <1>5 DEF PutAhead
  <1>8. WatchSlotsFit' /\ UNCHANGED <<run, latest, behind>>
    BY DEF ClaimDue, WatchSlotsFit, Fits
  <1>9. Apart'
    <2>1. \A t, u \in Schedulers : \A c \in claimed'[t], d \in claimed'[u] :
             c.item = d.item => t = u /\ c = d
      BY <1>3, <1>6, <1>7 DEF Apart
    <2>2. \A r \in WatchRuns, u \in Schedulers : \A c \in claimed'[u] : c.item # run[r].item
      BY <1>3, <1>6, <1>7 DEF Apart
    <2> QED BY <1>8, <2>1, <2>2 DEF Apart
  <1>10. PutAhead'
    <2>1. \A r \in WatchRuns : run[r].item # NoItem => Ahead(run[r].item)'
      BY <1>5, <1>8 DEF PutAhead, WatchTypes, Slot
    <2>2. \A u \in Schedulers : \A c \in claimed'[u] : Ahead(c.item)'
      BY <1>3, <1>5, <1>6 DEF PutAhead, WatchTypes, Payload
    <2> QED BY <1>8, <2>1, <2>2 DEF PutAhead, Ahead
  <1>11. Remembered'
    <2> SUFFICES ASSUME NEW i \in Watched \ behind, watch'[i].status # "deleted" PROVE Remembers(i)'
      BY <1>8 DEF Remembered
    <2>1. Remembers(i)
      BY <1>4 DEF Remembered
    <2>2. i \in DueItems => watch[i].doc = latest[i]
      BY <2>1, <1>7 DEF Remembers
    <2>3. \A u \in Schedulers : \A c \in claimed'[u] : c.item = i => c.old = latest[i]
      BY <1>3, <1>6, <2>1, <2>2 DEF Remembers
    <2> QED BY <1>4, <1>8, <2>1, <2>3 DEF Remembers
  <1> QED BY <1>2, <1>8, <1>9, <1>10, <1>11

LEMMA EnqueueKeeps ==
    ASSUME WatchInv, NEW s \in Schedulers, EnqueueDue(s)
    PROVE  WatchInv'
  <1> USE DEF WatchInv
  <1>1. PICK c \in claimed[s], r \in WatchRuns :
           /\ run[r].at = "free"
           /\ run' = [run EXCEPT ![r] = [item |-> c.item, at |-> "queued", tries |-> 0, paid |-> 0,
                                         old |-> c.old, schedule |-> c.schedule]]
           /\ claimed' = [claimed EXCEPT ![s] = @ \ {c}]
           /\ UNCHANGED <<putOff, watch, latest, wallet, behind, crashed>>
    BY DEF EnqueueDue
  <1> DEFINE x == [item |-> c.item, at |-> "queued", tries |-> 0, paid |-> 0,
                  old |-> c.old, schedule |-> c.schedule]
  <1>2. c \in Payload /\ c.item \in Watched /\ c.item # NoItem
    BY WatchConstants DEF WatchTypes, Payload
  <1>3. x \in Slot /\ Fits(x) /\ x.item = c.item /\ x.old = c.old /\ x.at = "queued"
    BY <1>2, WatchConstants DEF Slot, Payload, WatchPlaces, Fits
  <1>4. run' = [run EXCEPT ![r] = x]
    BY <1>1
  <1> HIDE DEF x
  <1>5. WatchTypes'
    <2>1. run' \in [WatchRuns -> Slot] /\ claimed' \in [Schedulers -> SUBSET Payload]
      BY <1>1, <1>3, <1>4 DEF WatchTypes
    <2> QED BY <1>1, <2>1 DEF WatchTypes
  <1>6. /\ run'[r] = x /\ \A q \in WatchRuns \ {r} : run'[q] = run[q]
        /\ claimed'[s] = claimed[s] \ {c} /\ \A u \in Schedulers \ {s} : claimed'[u] = claimed[u]
        /\ run[r].item = NoItem
    BY <1>1, <1>4 DEF WatchTypes, WatchSlotsFit, Fits
  <1>7. \A u \in Schedulers : claimed'[u] \subseteq claimed[u] /\ c \notin claimed'[u]
    BY <1>2, <1>6 DEF Apart
  <1>8. WatchSlotsFit'
    BY <1>3, <1>6 DEF WatchSlotsFit, Fits
  <1>9. Apart'
    <2>1. \A t, u \in Schedulers : \A d \in claimed'[t], e \in claimed'[u] :
             d.item = e.item => t = u /\ d = e
      BY <1>7 DEF Apart
    <2>2. \A u \in Schedulers : \A d \in claimed'[u] : d.item # c.item
      BY <1>7 DEF Apart
    <2>3. \A q \in WatchRuns, u \in Schedulers : \A d \in claimed'[u] : d.item # run'[q].item
      BY <1>3, <1>6, <1>7, <2>2 DEF Apart
    <2>4. \A p, q \in WatchRuns : run'[q].item # NoItem /\ run'[p].item = run'[q].item => p = q
      BY <1>3, <1>6 DEF Apart
    <2> QED BY <2>1, <2>3, <2>4 DEF Apart
  <1>10. PutAhead'
    BY <1>1, <1>3, <1>6, <1>7 DEF PutAhead, Ahead
  <1>11. Remembered'
    <2> SUFFICES ASSUME NEW i \in Watched \ behind, watch[i].status # "deleted" PROVE Remembers(i)'
      BY <1>1 DEF Remembered
    <2>1. Remembers(i)
      BY DEF Remembered
    <2>2. c.item = i => c.old = latest[i]
      BY <2>1 DEF Remembers
    <2>3. c.item = i => watch[i].doc = latest[i]
      BY <2>1 DEF Remembers, Apart
    <2>4. run[r].item # i
      BY <1>6, WatchConstants
    <2>5. (\A q \in WatchRuns : run'[q].item = i => run'[q].at # "record") => watch[i].doc = latest[i]
      <3> SUFFICES ASSUME \A q \in WatchRuns : run'[q].item = i => run'[q].at # "record"
                   PROVE  watch[i].doc = latest[i]
        OBVIOUS
      <3>1. \A q \in WatchRuns : run[q].item = i => run[q].at # "record"
        BY <1>6, <2>4
      <3> QED BY <2>1, <3>1 DEF Remembers
    <2>6. \A q \in WatchRuns : run'[q].item = i /\ run'[q].at \notin {"record", "recorded"} => run'[q].old = latest[i]
      BY <1>3, <1>6, <2>1, <2>2 DEF Remembers
    <2>7. \A u \in Schedulers : \A d \in claimed'[u] : d.item = i => d.old = latest[i]
      BY <1>7, <2>1 DEF Remembers
    <2> QED BY <1>1, <2>5, <2>6, <2>7 DEF Remembers
  <1> QED BY <1>5, <1>8, <1>9, <1>10, <1>11

LEMMA SchedulerDiesKeeps ==
    ASSUME WatchInv, NEW s \in Schedulers, SchedulerDies(s)
    PROVE  WatchInv'
  <1> USE DEF WatchInv
  <1>1. /\ claimed' \in [Schedulers -> SUBSET Payload]
        /\ \A u \in Schedulers : claimed'[u] \subseteq claimed[u]
    BY DEF SchedulerDies, WatchTypes
  <1>2. WatchTypes'
    BY <1>1 DEF SchedulerDies, WatchTypes
  <1>3. WatchSlotsFit'
    BY DEF SchedulerDies, WatchSlotsFit, Fits
  <1>4. Apart'
    BY <1>1 DEF SchedulerDies, Apart
  <1>5. PutAhead'
    BY <1>1 DEF SchedulerDies, PutAhead, Ahead
  <1>6. Remembered'
    BY <1>1 DEF SchedulerDies, Remembered, Remembers
  <1> QED BY <1>2, <1>3, <1>4, <1>5, <1>6
-----------------------------------------------------------------------------
(* The tasks. *)

(* A task that goes on keeps its item and what it was told, or ends.       *)
LEMMA WatchSlotMoves ==
    ASSUME WatchInv, NEW r \in WatchRuns, NEW x \in Slot, run' = [run EXCEPT ![r] = x],
           Fits(x), x = IdleRun \/ x.item = run[r].item, UNCHANGED claimed,
           \A i \in Watched : Ahead(i) => Ahead(i)'
    PROVE  run' \in [WatchRuns -> Slot] /\ WatchSlotsFit' /\ Apart' /\ PutAhead'
  <1> USE DEF WatchInv
  <1>1. run' \in [WatchRuns -> Slot] /\ run'[r] = x /\ \A q \in WatchRuns \ {r} : run'[q] = run[q]
    BY DEF WatchTypes
  <1>2. \A q \in WatchRuns : run'[q].item = NoItem \/ run'[q].item = run[q].item
    BY <1>1, IdleSlot
  <1>3. WatchSlotsFit'
    BY <1>1 DEF WatchSlotsFit, Fits
  <1>4. Apart'
    <2>1. \A s \in Schedulers : \A c \in claimed[s] : c.item # NoItem
      BY WatchConstants DEF WatchTypes, Payload
    <2> QED BY <1>2, <2>1 DEF Apart
  <1>5. PutAhead'
    <2>1. \A q \in WatchRuns : run'[q].item # NoItem => Ahead(run[q].item)'
      BY <1>2 DEF PutAhead, WatchTypes, Slot
    <2>2. \A s \in Schedulers : \A c \in claimed[s] : Ahead(c.item)'
      BY DEF PutAhead, WatchTypes, Payload
    <2> QED BY <2>1, <2>2 DEF PutAhead, Ahead
  <1> QED BY <1>1, <1>3, <1>4, <1>5

(* ... its item is its own, and is remembered as before, or left behind.   *)
LEMMA TaskKeeps ==
    ASSUME WatchInv, NEW r \in WatchRuns, NEW x \in Slot, run' = [run EXCEPT ![r] = x], Fits(x),
           x = IdleRun \/ x.item = run[r].item, run[r].item # NoItem,
           watch' \in [Watched -> ItemRow], latest' \in [Watched -> Documents],
           wallet' \in 0 .. Wallet, crashed' \in BOOLEAN, UNCHANGED <<claimed, putOff>>,
           \A i \in Watched : Ahead(i) => Ahead(i)',
           \A i \in Watched : i # run[r].item => UNCHANGED <<watch[i], latest[i]>>,
           behind' \subseteq Watched, behind' \ {run[r].item} = behind \ {run[r].item},
           \A i \in Watched \ behind' : i = run[r].item /\ watch'[i].status # "deleted" =>
               /\ (x.item = i /\ x.at = "record") \/ watch'[i].doc = latest'[i]
               /\ x.item = i /\ x.at \notin {"record", "recorded"} => x.old = latest'[i]
    PROVE  WatchInv'
  <1> USE DEF WatchInv
  <1>1. run' \in [WatchRuns -> Slot] /\ WatchSlotsFit' /\ Apart' /\ PutAhead'
    BY WatchSlotMoves
  <1>2. WatchTypes'
    BY <1>1 DEF WatchTypes
  <1>3. run'[r] = x /\ \A q \in WatchRuns \ {r} : run'[q] = run[q]
    BY DEF WatchTypes
  <1>4. ASSUME NEW i \in Watched \ behind', watch'[i].status # "deleted", i # run[r].item
        PROVE  Remembers(i)'
    <2>1. x.item # i /\ i \notin behind
      BY <1>4, IdleSlot, WatchConstants
    <2>2. Remembers(i)
      BY <1>4, <2>1 DEF Remembered
    <2> QED BY <1>3, <1>4, <2>1, <2>2 DEF Remembers
  <1>5. ASSUME NEW i \in Watched \ behind', watch'[i].status # "deleted", i = run[r].item
        PROVE  Remembers(i)'
    <2>1. \A q \in WatchRuns \ {r} : run'[q].item # i
      BY <1>3, <1>5 DEF Apart
    <2>2. \A s \in Schedulers : \A c \in claimed'[s] : c.item # i
      BY <1>5 DEF Apart
    <2> QED BY <1>3, <1>5, <2>1, <2>2 DEF Remembers
  <1>6. Remembered'
    BY <1>4, <1>5 DEF Remembered
  <1> QED BY <1>1, <1>2, <1>6

(* What is known of the item of a task.                                    *)
LEMMA OwnItem ==
    ASSUME WatchInv, NEW r \in WatchRuns, run[r].at # "free"
    PROVE  /\ run[r] \in Slot /\ run[r].item \in Watched /\ run[r].item # NoItem
           /\ run[r].item \notin behind /\ watch[run[r].item].status # "deleted" =>
               /\ run[r].at = "record" \/ watch[run[r].item].doc = latest[run[r].item]
               /\ run[r].at \notin {"record", "recorded"} => run[r].old = latest[run[r].item]
  <1> DEFINE i == run[r].item
  <1>1. run[r] \in Slot /\ i \in Watched /\ i # NoItem
    BY DEF WatchInv, WatchTypes, WatchSlotsFit, Fits, Slot
  <1>2. \A q \in WatchRuns \ {r} : run[q].item # i
    BY <1>1 DEF WatchInv, Apart
  <1>3. i \notin behind /\ watch[i].status # "deleted" => Remembers(i)
    BY <1>1 DEF WatchInv, Remembered
  <1> QED BY <1>1, <1>2, <1>3 DEF Remembers

(* The steps that leave the item and the document alone: a task is taken,  *)
(* charged for, retried before it has a document, or done.                 *)
LEMMA SlotKeeps ==
    ASSUME WatchInv, NEW r \in WatchRuns, NEW x \in Slot, run' = [run EXCEPT ![r] = x], Fits(x),
           \/ x = IdleRun /\ run[r].at # "record"
           \/ /\ x.item = run[r].item /\ x.old = run[r].old /\ x.at # "record"
              /\ run[r].at \notin {"record", "recorded"},
           run[r].at # "free", UNCHANGED <<watch, latest, claimed, behind, crashed, putOff>>,
           wallet' \in 0 .. Wallet
    PROVE  WatchInv'
  <1>1. /\ run[r].item # NoItem
        /\ run[r].item \notin behind /\ watch[run[r].item].status # "deleted" =>
               /\ run[r].at = "record" \/ watch[run[r].item].doc = latest[run[r].item]
               /\ run[r].at \notin {"record", "recorded"} => run[r].old = latest[run[r].item]
    BY OwnItem
  <1>2. /\ watch' \in [Watched -> ItemRow] /\ latest' \in [Watched -> Documents]
        /\ behind' \subseteq Watched /\ crashed' \in BOOLEAN
    BY DEF WatchInv, WatchTypes
  <1>3. \A i \in Watched : Ahead(i) => Ahead(i)'
    BY DEF Ahead
  <1>4. \A i \in Watched \ behind' : i = run[r].item /\ watch'[i].status # "deleted" =>
           /\ watch'[i].doc = latest'[i]
           /\ x.item = i /\ x.at \notin {"record", "recorded"} => x.old = latest'[i]
    BY <1>1, IdleSlot
  <1> QED BY <1>1, <1>2, <1>3, <1>4, TaskKeeps

(* The slot a task is moved to.                                            *)
Moved(s, p, t, n) == [[[s EXCEPT !.at = p] EXCEPT !.tries = t] EXCEPT !.paid = n]

(* It is one, with the item and the document the task was told of.         *)
LEMMA MovedSlot ==
    ASSUME WatchInv, NEW r \in WatchRuns, NEW p \in WatchPlaces, NEW t \in 0 .. WatchAttempts,
           NEW n \in 0 .. WatchAttempts, run[r].at # "free",
           p # "free", p = "queued" => t < WatchAttempts, n <= t, p = "charge" => n < t
    PROVE  /\ Moved(run[r], p, t, n) \in Slot /\ Fits(Moved(run[r], p, t, n))
           /\ Moved(run[r], p, t, n).item = run[r].item
           /\ Moved(run[r], p, t, n).old = run[r].old
           /\ Moved(run[r], p, t, n).at = p
  <1> DEFINE x == Moved(run[r], p, t, n)
  <1>1. run[r] \in Slot /\ run[r].item # NoItem
    BY OwnItem
  <1>2. x \in Slot
    BY <1>1, SlotFields DEF Moved
  <1>3. x.item = run[r].item /\ x.old = run[r].old /\ x.at = p /\ x.tries = t /\ x.paid = n
    BY <1>1 DEF Slot, Moved
  <1> HIDE DEF x
  <1>4. Fits(x)
    BY <1>1, <1>3 DEF Fits
  <1> QED BY <1>2, <1>3, <1>4 DEF x

(* A task that is retried: it waits with what it was told, or its attempts *)
(* are used up and it is over.                                             *)
LEMMA AgainSlot ==
    ASSUME WatchInv, NEW r \in WatchRuns, run[r].at # "free", NEW n \in 0 .. WatchAttempts,
           n <= run[r].tries, RunAgain(r, n)
    PROVE  \E x \in Slot :
               /\ run' = [run EXCEPT ![r] = x] /\ Fits(x)
               /\ x = IdleRun \/ (x.item = run[r].item /\ x.old = run[r].old /\ x.at = "queued")
  <1>1. run[r] \in Slot /\ run[r].tries \in 0 .. WatchAttempts
    BY OwnItem DEF Slot
  <1>2. CASE run[r].tries < WatchAttempts
    <2> DEFINE x == Moved(run[r], "queued", run[r].tries, n)
    <2>1. x \in Slot /\ Fits(x) /\ x.item = run[r].item /\ x.old = run[r].old /\ x.at = "queued"
      BY <1>1, <1>2, MovedSlot DEF WatchPlaces
    <2>2. x = [run[r] EXCEPT !.at = "queued", !.paid = n]
      BY <1>1 DEF Slot, Moved
    <2>3. run' = [run EXCEPT ![r] = x]
      BY <1>2, <2>2 DEF RunAgain, WatchInv, WatchTypes
    <2> HIDE DEF x
    <2> QED BY <2>1, <2>3
  <1>3. CASE ~(run[r].tries < WatchAttempts)
    BY <1>3, IdleSlot DEF RunAgain, RunEnds
  <1> QED BY <1>2, <1>3

(* The steps of a task before it has a document leave its item as it is.   *)
LEMMA GoesOnKeeps ==
    ASSUME WatchInv, NEW r \in WatchRuns, TakeRun(r) \/ ChargeRun(r) \/ ChargeRaises(r) \/ EndRun(r)
    PROVE  WatchInv'
  <1> USE DEF WatchInv
  <1>1. run[r].at # "free" /\ run[r] \in Slot /\ Fits(run[r])
    BY OwnItem DEF TakeRun, ChargeRun, ChargeRaises, EndRun, RunAt, WatchTypes, WatchSlotsFit
  <1>2. run[r].tries \in 0 .. WatchAttempts /\ run[r].paid \in 0 .. WatchAttempts /\ WatchAttempts \in Nat
    BY <1>1, WatchConstants DEF Slot
  <1>3. UNCHANGED <<watch, latest, claimed, behind, crashed, putOff>> /\ wallet' \in 0 .. Wallet
    BY WatchConstants DEF TakeRun, ChargeRun, ChargeRaises, EndRun, WatchTypes
  <1>4. CASE TakeRun(r)
    <2> DEFINE x == Moved(run[r], "charge", run[r].tries + 1, run[r].paid)
    <2>1. run[r].at = "queued" /\ run[r].tries < WatchAttempts /\ run[r].paid <= run[r].tries
      BY <1>1, <1>4 DEF TakeRun, RunAt, Fits
    <2>2. run[r].tries + 1 \in 0 .. WatchAttempts /\ run[r].paid < run[r].tries + 1
      BY <1>2, <2>1
    <2>3. x \in Slot /\ Fits(x) /\ x.item = run[r].item /\ x.old = run[r].old /\ x.at = "charge"
      BY <1>1, <1>2, <2>2, MovedSlot DEF WatchPlaces
    <2>4. x = [run[r] EXCEPT !.at = "charge", !.tries = run[r].tries + 1]
      BY <1>1 DEF Slot, Moved
    <2>5. run' = [run EXCEPT ![r] = x]
      BY <1>4, <2>4 DEF TakeRun, WatchTypes
    <2> HIDE DEF x
    <2> QED BY <1>1, <1>3, <2>1, <2>3, <2>5, SlotKeeps
  <1>5. CASE ChargeRun(r)
    <2> DEFINE x == Moved(run[r], "research", run[r].tries, run[r].paid + 1)
    <2>1. run[r].at = "charge" /\ run[r].paid < run[r].tries
      BY <1>1, <1>5 DEF ChargeRun, RunAt, Fits
    <2>2. run[r].paid + 1 \in 0 .. WatchAttempts /\ run[r].paid + 1 <= run[r].tries
      BY <1>2, <2>1
    <2>3. x \in Slot /\ Fits(x) /\ x.item = run[r].item /\ x.old = run[r].old /\ x.at = "research"
      BY <1>1, <1>2, <2>2, MovedSlot DEF WatchPlaces
    <2>4. x = [run[r] EXCEPT !.at = "research", !.paid = run[r].paid + 1]
      BY <1>1 DEF Slot, Moved
    <2>5. run' = [run EXCEPT ![r] = x]
      BY <1>5, <2>4 DEF ChargeRun, WatchTypes
    <2> HIDE DEF x
    <2> QED BY <1>1, <1>3, <2>1, <2>3, <2>5, SlotKeeps
  <1>6. CASE ChargeRaises(r)
    <2>1. run[r].at = "charge" /\ run[r].paid < run[r].tries
      BY <1>1, <1>6 DEF ChargeRaises, RunAt, Fits
    <2>2. PICK n \in {run[r].paid, run[r].paid + 1} : RunAgain(r, n)
      BY <1>6 DEF ChargeRaises
    <2>3. n \in 0 .. WatchAttempts /\ n <= run[r].tries
      BY <1>2, <2>1
    <2>4. PICK x \in Slot :
             /\ run' = [run EXCEPT ![r] = x] /\ Fits(x)
             /\ x = IdleRun \/ (x.item = run[r].item /\ x.old = run[r].old /\ x.at = "queued")
      BY <1>1, <2>2, <2>3, AgainSlot
    <2> QED BY <1>1, <1>3, <2>1, <2>4, SlotKeeps
  <1>7. CASE EndRun(r)
    <2>1. run' = [run EXCEPT ![r] = IdleRun] /\ run[r].at = "recorded"
      BY <1>7 DEF EndRun, RunEnds, RunAt
    <2> QED BY <1>1, <1>3, <2>1, IdleSlot, SlotKeeps
  <1> QED BY <1>4, <1>5, <1>6, <1>7

(* A run that is skipped changes no document.                              *)
LEMMA SkipKeeps ==
    ASSUME WatchInv, NEW r \in WatchRuns, SkipRun(r)
    PROVE  WatchInv'
  <1> USE DEF WatchInv
  <1>1. /\ run[r].at = "charge"
        /\ UNCHANGED <<latest, claimed, behind, crashed, putOff, wallet>>
    BY DEF SkipRun, RunAt
  <1>2. /\ run[r] \in Slot /\ run[r].item \in Watched /\ run[r].item # NoItem
        /\ run[r].item \notin behind /\ watch[run[r].item].status # "deleted" =>
               watch[run[r].item].doc = latest[run[r].item] /\ run[r].old = latest[run[r].item]
    BY <1>1, OwnItem
  <1>3. /\ watch' \in [Watched -> ItemRow]
        /\ \A i \in Watched : /\ i # run[r].item => watch'[i] = watch[i]
                              /\ watch'[i].doc = watch[i].doc /\ watch'[i].due = watch[i].due
                              /\ watch'[i].status = "deleted" <=> watch[i].status = "deleted"
                              /\ watch'[i].status = "absent" <=> watch[i].status = "absent"
    <2>1. CASE watch' # watch
      <3> DEFINE i == run[r].item
      <3>1. watch' = [watch EXCEPT ![i].status = "skipped_no_credits"] /\ OnList(i)
        BY <2>1 DEF SkipRun
      <3>2. watch' = [watch EXCEPT ![i] = [watch[i] EXCEPT !.status = "skipped_no_credits"]]
        BY <1>2, <3>1 DEF WatchTypes
      <3>3. [watch[i] EXCEPT !.status = "skipped_no_credits"] \in ItemRow
        BY <1>2, RowFields DEF WatchTypes, Statuses
      <3>4. /\ watch'[i].status = "skipped_no_credits" /\ watch'[i].doc = watch[i].doc
            /\ watch'[i].due = watch[i].due
        BY <1>2, <3>2 DEF WatchTypes, ItemRow
      <3>5. watch' \in [Watched -> ItemRow] /\ \A j \in Watched : j # i => watch'[j] = watch[j]
        BY <3>2, <3>3 DEF WatchTypes
      <3>6. watch[i].status \notin {"absent", "deleted"}
        BY <3>1 DEF OnList
      <3> HIDE DEF i
      <3>7. \A j \in Watched : j # i => watch'[j].status = watch[j].status /\ watch'[j].doc = watch[j].doc
                                          /\ watch'[j].due = watch[j].due
        BY <3>5
      <3> QED BY <3>4, <3>5, <3>6, <3>7 DEF i
    <2>2. CASE watch' = watch
      BY <2>2 DEF WatchTypes
    <2> QED BY <2>1, <2>2
  <1>4. PICK x \in Slot :
           /\ run' = [run EXCEPT ![r] = x] /\ Fits(x)
           /\ x = IdleRun \/ (x.item = run[r].item /\ x.old = run[r].old /\ x.at = "queued")
    <2>1. CASE RunEnds(r)
      BY <2>1, IdleSlot DEF RunEnds
    <2>2. CASE RunAgain(r, run[r].paid)
      <3>1. run[r].paid \in 0 .. WatchAttempts /\ run[r].paid <= run[r].tries
        BY <1>2 DEF Slot, WatchSlotsFit, Fits
      <3> QED BY <1>1, <2>2, <3>1, AgainSlot
    <2> QED BY <2>1, <2>2 DEF SkipRun
  <1>5. \A i \in Watched : Ahead(i) => Ahead(i)'
    BY <1>3 DEF Ahead
  <1>6. /\ latest' \in [Watched -> Documents] /\ wallet' \in 0 .. Wallet /\ crashed' \in BOOLEAN
        /\ behind' \subseteq Watched
    BY <1>1 DEF WatchTypes
  <1>7. \A i \in Watched \ behind' : i = run[r].item /\ watch'[i].status # "deleted" =>
           /\ watch'[i].doc = latest'[i]
           /\ x.item = i /\ x.at \notin {"record", "recorded"} => x.old = latest'[i]
    BY <1>1, <1>2, <1>3, <1>4, IdleSlot
  <1> QED BY <1>1, <1>2, <1>3, <1>4, <1>5, <1>6, <1>7, TaskKeeps

(* A new document waits for the task that made it to record it.            *)
LEMMA NewDocumentKeeps ==
    ASSUME WatchInv, NEW r \in WatchRuns, NewDocument(r)
    PROVE  WatchInv'
  <1> USE DEF WatchInv
  <1>1. /\ run' = [run EXCEPT ![r].at = "record"] /\ run[r].at = "research"
        /\ UNCHANGED <<watch, claimed, behind, crashed, putOff, wallet>>
    BY DEF NewDocument, RunTo, RunAt
  <1> DEFINE x == Moved(run[r], "record", run[r].tries, run[r].paid)
  <1>2. run[r] \in Slot /\ run[r].item \in Watched /\ run[r].item # NoItem /\ run[r].paid <= run[r].tries
    BY <1>1, OwnItem DEF WatchSlotsFit, Fits
  <1>3. x \in Slot /\ Fits(x) /\ x.item = run[r].item /\ x.at = "record"
    BY <1>1, <1>2, MovedSlot DEF WatchPlaces, Slot
  <1>4. x = [run[r] EXCEPT !.at = "record"]
    BY <1>2 DEF Slot, Moved
  <1>5. run' = [run EXCEPT ![r] = x]
    BY <1>1, <1>4 DEF WatchTypes
  <1> HIDE DEF x
  <1>6. latest' \in [Watched -> Documents] /\ \A i \in Watched : i # run[r].item => latest'[i] = latest[i]
    <2>1. \A n \in Documents : (n + 1) % 3 \in Documents
      BY DEF Documents
    <2> QED BY <2>1 DEF NewDocument, WatchTypes
  <1>7. /\ watch' \in [Watched -> ItemRow] /\ wallet' \in 0 .. Wallet /\ crashed' \in BOOLEAN
        /\ behind' \subseteq Watched
    BY <1>1 DEF WatchTypes
  <1>8. \A i \in Watched : Ahead(i) => Ahead(i)'
    BY <1>1 DEF Ahead
  <1> QED BY <1>1, <1>2, <1>3, <1>5, <1>6, <1>7, <1>8, TaskKeeps

(* complete_watchlist_run puts the item a schedule ahead, with a document. *)
LEMMA RescheduleEffect ==
    ASSUME WatchTypes, NEW i \in Watched, NEW doc \in Documents, NEW schedule \in Schedules,
           Reschedule(i, doc, schedule)
    PROVE  /\ watch' \in [Watched -> ItemRow]
           /\ \A j \in Watched : j # i => watch'[j] = watch[j]
           /\ OnList(i) => watch'[i].doc = doc
           /\ ~OnList(i) => watch'[i] = watch[i]
           /\ \A j \in Watched : Ahead(j) => Ahead(j)'
           /\ \A j \in Watched : watch'[j].status = "deleted" <=> watch[j].status = "deleted"
  <1>1. CASE OnList(i)
    <2> DEFINE x == [watch[i] EXCEPT !.status = "active", !.due = schedule, !.doc = doc]
    <2>1. watch' = [watch EXCEPT ![i] = x]
      BY <1>1 DEF Reschedule, WatchTypes
    <2>2. schedule \in 0 .. Far /\ schedule > 0 /\ "active" \in Statuses
      BY DEF Schedules, Far, Statuses
    <2>3. x \in ItemRow
      BY <2>2, RowFields DEF WatchTypes
    <2>4. x.status = "active" /\ x.due = schedule /\ x.doc = doc
      BY DEF WatchTypes, ItemRow
    <2> HIDE DEF x
    <2>5. watch' \in [Watched -> ItemRow] /\ watch'[i] = x /\ \A j \in Watched : j # i => watch'[j] = watch[j]
      BY <2>1, <2>3 DEF WatchTypes
    <2>6. watch[i].status \notin {"absent", "deleted"}
      BY <1>1 DEF OnList
    <2>7. \A j \in Watched : Ahead(j) => Ahead(j)'
      BY <2>2, <2>4, <2>5 DEF Ahead
    <2> QED BY <1>1, <2>4, <2>5, <2>6, <2>7
  <1>2. CASE ~OnList(i)
    BY <1>2 DEF Reschedule, WatchTypes, Ahead
  <1> QED BY <1>1, <1>2

(* The task that stored the newest document records it.                    *)
LEMMA RecordKeeps ==
    ASSUME WatchInv, NEW r \in WatchRuns, RecordRun(r)
    PROVE  WatchInv'
  <1> USE DEF WatchInv
  <1>1. /\ run' = [run EXCEPT ![r].at = "recorded"] /\ run[r].at = "record"
        /\ behind' = behind \ {run[r].item}
        /\ UNCHANGED <<latest, claimed, crashed, putOff, wallet>>
    BY DEF RecordRun, RunTo, RunAt
  <1> DEFINE x == Moved(run[r], "recorded", run[r].tries, run[r].paid)
  <1>2. run[r] \in Slot /\ run[r].item \in Watched /\ run[r].item # NoItem /\ run[r].paid <= run[r].tries
    BY <1>1, OwnItem DEF WatchSlotsFit, Fits
  <1>3. x \in Slot /\ Fits(x) /\ x.item = run[r].item /\ x.at = "recorded"
    BY <1>1, <1>2, MovedSlot DEF WatchPlaces, Slot
  <1>4. x = [run[r] EXCEPT !.at = "recorded"]
    BY <1>2 DEF Slot, Moved
  <1>5. run' = [run EXCEPT ![r] = x]
    BY <1>1, <1>4 DEF WatchTypes
  <1> HIDE DEF x
  <1>6. latest[run[r].item] \in Documents /\ run[r].schedule \in Schedules
    BY <1>2 DEF WatchTypes, Slot
  <1>7. /\ watch' \in [Watched -> ItemRow]
        /\ \A j \in Watched : j # run[r].item => watch'[j] = watch[j]
        /\ watch'[run[r].item].doc = latest[run[r].item]
        /\ \A j \in Watched : Ahead(j) => Ahead(j)'
    BY <1>2, <1>6, RescheduleEffect DEF RecordRun
  <1>8. /\ latest' \in [Watched -> Documents] /\ wallet' \in 0 .. Wallet /\ crashed' \in BOOLEAN
        /\ behind' \subseteq Watched /\ behind' \ {run[r].item} = behind \ {run[r].item}
    BY <1>1 DEF WatchTypes
  <1> QED BY <1>1, <1>2, <1>3, <1>5, <1>7, <1>8, TaskKeeps

(* A failure puts the item back to the document the task was told of, or   *)
(* leaves it; with a document stored, the item is left behind.             *)
LEMMA FailKeeps ==
    ASSUME WatchInv, NEW r \in WatchRuns, FailRun(r)
    PROVE  WatchInv'
  <1> USE DEF WatchInv
  <1>1. /\ run[r].at \in {"research", "record", "recorded"}
        /\ behind' = behind \cup LeftBehind(r)
        /\ UNCHANGED <<latest, claimed, crashed, putOff, wallet>>
    BY DEF FailRun
  <1>2. /\ run[r] \in Slot /\ run[r].item \in Watched /\ run[r].item # NoItem
        /\ run[r].at = "research" /\ run[r].item \notin behind /\ watch[run[r].item].status # "deleted" =>
               watch[run[r].item].doc = latest[run[r].item] /\ run[r].old = latest[run[r].item]
    BY <1>1, OwnItem
  <1>3. PICK x \in Slot :
           /\ run' = [run EXCEPT ![r] = x] /\ Fits(x)
           /\ x = IdleRun \/ (x.item = run[r].item /\ x.old = run[r].old /\ x.at = "queued")
    <2>1. run[r].paid \in 0 .. WatchAttempts /\ run[r].paid <= run[r].tries
      BY <1>2 DEF Slot, WatchSlotsFit, Fits
    <2> QED BY <1>1, <2>1, AgainSlot DEF FailRun
  <1>4. /\ watch' \in [Watched -> ItemRow]
        /\ \A j \in Watched : j # run[r].item => watch'[j] = watch[j]
        /\ watch'[run[r].item].doc \in {run[r].old, watch[run[r].item].doc}
        /\ \A j \in Watched : Ahead(j) => Ahead(j)'
        /\ watch'[run[r].item].status = "deleted" <=> watch[run[r].item].status = "deleted"
    <2>1. CASE Reschedule(run[r].item, run[r].old, run[r].schedule)
      <3>1. run[r].schedule \in Schedules /\ run[r].old \in Documents
        BY <1>2 DEF Slot
      <3> QED BY <1>2, <2>1, <3>1, RescheduleEffect
    <2>2. CASE UNCHANGED watch
      BY <1>2, <2>2 DEF WatchTypes, Ahead
    <2> QED BY <2>1, <2>2 DEF FailRun
  <1>5. /\ latest' \in [Watched -> Documents] /\ wallet' \in 0 .. Wallet /\ crashed' \in BOOLEAN
        /\ behind' \subseteq Watched /\ behind' \ {run[r].item} = behind \ {run[r].item}
    BY <1>1, <1>2 DEF WatchTypes, LeftBehind
  <1>6. \A i \in Watched \ behind' : i = run[r].item /\ watch'[i].status # "deleted" =>
           /\ watch'[i].doc = latest'[i]
           /\ x.item = i /\ x.at \notin {"record", "recorded"} => x.old = latest'[i]
    <2>1. run[r].item \notin behind' => run[r].at = "research" /\ run[r].item \notin behind
      BY <1>1 DEF LeftBehind
    <2> QED BY <1>1, <1>2, <1>3, <1>4, <2>1, IdleSlot
  <1> QED BY <1>1, <1>2, <1>3, <1>4, <1>5, <1>6, TaskKeeps

LEMMA RunDiesKeeps ==
    ASSUME WatchInv, NEW r \in WatchRuns, RunDies(r)
    PROVE  WatchInv'
  <1> USE DEF WatchInv
  <1>1. /\ run[r].at \notin {"free", "queued"} /\ behind' = behind \cup LeftBehind(r) /\ crashed' = TRUE
        /\ UNCHANGED <<watch, latest, claimed, putOff, wallet>>
    BY DEF RunDies
  <1>2. /\ run[r] \in Slot /\ run[r].item \in Watched /\ run[r].item # NoItem
        /\ run[r].item \notin behind /\ watch[run[r].item].status # "deleted" =>
               /\ run[r].at = "record" \/ watch[run[r].item].doc = latest[run[r].item]
               /\ run[r].at \notin {"record", "recorded"} => run[r].old = latest[run[r].item]
    BY <1>1, OwnItem
  <1>3. PICK x \in Slot :
           /\ run' = [run EXCEPT ![r] = x] /\ Fits(x)
           /\ x = IdleRun \/ (x.item = run[r].item /\ x.old = run[r].old /\ x.at = "queued")
    <2>1. CASE run[r].tries + 1 < WatchAttempts
      <3> DEFINE x == Moved(run[r], "queued", run[r].tries + 1, run[r].paid)
      <3>1. /\ run[r].tries + 1 \in 0 .. WatchAttempts /\ run[r].paid \in 0 .. WatchAttempts
            /\ run[r].paid <= run[r].tries + 1
        BY <1>2, <2>1, WatchConstants DEF Slot, WatchSlotsFit, Fits
      <3>2. x \in Slot /\ Fits(x) /\ x.item = run[r].item /\ x.old = run[r].old /\ x.at = "queued"
        BY <1>1, <2>1, <3>1, MovedSlot DEF WatchPlaces
      <3>3. x = [run[r] EXCEPT !.at = "queued", !.tries = run[r].tries + 1]
        BY <1>2 DEF Slot, Moved
      <3>4. run' = [run EXCEPT ![r] = x]
        <4>1. run' = [run EXCEPT ![r] = IF run[r].tries + 1 < WatchAttempts
                                        THEN [run[r] EXCEPT !.at = "queued", !.tries = run[r].tries + 1]
                                        ELSE IdleRun]
          BY DEF RunDies, WatchTypes
        <4> HIDE DEF x
        <4> QED BY <2>1, <3>3, <4>1
      <3> HIDE DEF x
      <3> QED BY <3>2, <3>4
    <2>2. CASE ~(run[r].tries + 1 < WatchAttempts)
      BY <2>2, IdleSlot DEF RunDies, WatchTypes
    <2> QED BY <2>1, <2>2
  <1>4. /\ watch' \in [Watched -> ItemRow] /\ latest' \in [Watched -> Documents]
        /\ wallet' \in 0 .. Wallet /\ crashed' \in BOOLEAN
        /\ behind' \subseteq Watched /\ behind' \ {run[r].item} = behind \ {run[r].item}
    BY <1>1, <1>2 DEF WatchTypes, LeftBehind
  <1>5. \A i \in Watched : Ahead(i) => Ahead(i)'
    BY <1>1 DEF Ahead
  <1>6. \A i \in Watched \ behind' : i = run[r].item /\ watch'[i].status # "deleted" =>
           /\ watch'[i].doc = latest'[i]
           /\ x.item = i /\ x.at \notin {"record", "recorded"} => x.old = latest'[i]
    <2>1. run[r].item \notin behind' => run[r].at \notin {"record", "recorded"} /\ run[r].item \notin behind
      BY <1>1 DEF LeftBehind
    <2> QED BY <1>1, <1>2, <1>3, <2>1, IdleSlot
  <1> QED BY <1>1, <1>2, <1>3, <1>4, <1>5, <1>6, TaskKeeps
-----------------------------------------------------------------------------
(* The theorems. *)

LEMMA WatchStep ==
    ASSUME WatchInv, [WatchNext]_watchVars
    PROVE  WatchInv'
  <1>1. ASSUME NEW i \in Watched, AddItem(i) \/ UpdateItem(i) \/ DeleteItem(i) PROVE WatchInv'
    BY <1>1, AddItemKeeps, UpdateItemKeeps, DeleteItemKeeps
  <1>2. CASE Purchase
    <2>1. WatchSlotsFit' /\ Apart' /\ PutAhead' /\ Remembered'
      BY <1>2, ListKept DEF Purchase, Ahead
    <2>2. WatchTypes'
      BY <1>2, WatchConstants DEF Purchase, WatchInv, WatchTypes
    <2> QED BY <2>1, <2>2 DEF WatchInv
  <1>3. CASE TimePasses
    BY <1>3, TimeKeeps
  <1>4. ASSUME NEW s \in Schedulers, Schedule(s) \/ SchedulerDies(s) PROVE WatchInv'
    BY <1>4, ClaimKeeps, EnqueueKeeps, SchedulerDiesKeeps DEF Schedule
  <1>5. ASSUME NEW r \in WatchRuns, RunGoesOn(r) \/ RunDies(r) PROVE WatchInv'
    BY <1>5, GoesOnKeeps, SkipKeeps, NewDocumentKeeps, RecordKeeps, FailKeeps, RunDiesKeeps DEF RunGoesOn
  <1>6. CASE UNCHANGED watchVars
    <2>1. WatchSlotsFit' /\ Apart' /\ PutAhead' /\ Remembered'
      BY <1>6, ListKept DEF watchVars, Ahead
    <2>2. WatchTypes'
      BY <1>6 DEF watchVars, WatchInv, WatchTypes
    <2> QED BY <2>1, <2>2 DEF WatchInv
  <1> QED BY <1>1, <1>2, <1>3, <1>4, <1>5, <1>6 DEF WatchNext

\* The inductive invariant holds in every reachable state.
THEOREM WatchInvariant ==
    WatchSpec => []WatchInv
  <1>1. WatchInit => WatchInv
    BY WatchInitInv
  <1>2. WatchInv /\ [WatchNext]_watchVars => WatchInv'
    BY WatchStep
  <1> QED BY <1>1, <1>2, PTL DEF WatchSpec

\* The watchlist keeps its types, an item has one task or claim at most, however many
\* loops poll, a task is charged for once an attempt at most, and between runs an item refers
\* to the newest document, unless the run that stored it failed or died before its end.
THEOREM WatchIsKept ==
    WatchSpec => []WatchKeepsItsItems
  <1>1. WatchInv => WatchTypeOK
    BY DEF WatchInv, WatchTypes, WatchTypeOK, ItemRow, Slot, Statuses, Documents
  <1>2. ASSUME WatchInv, NEW i \in Watched
        PROVE  Cardinality({r \in WatchRuns : run[r].item = i})
                   + Cardinality({s \in Schedulers : \E c \in claimed[s] : c.item = i}) <= 1
    <2> DEFINE R == {r \in WatchRuns : run[r].item = i}
               S == {s \in Schedulers : \E c \in claimed[s] : c.item = i}
    <2>1. \A q, r \in R : q = r
      BY <1>2, WatchConstants DEF WatchInv, Apart
    <2>2. \A s, u \in S : s = u
      BY <1>2 DEF WatchInv, Apart
    <2>3. R = {} \/ S = {}
      BY <1>2 DEF WatchInv, Apart
    <2> HIDE DEF R, S
    <2>4. R = {} \/ \E r : R = {r}
      BY <2>1
    <2>5. S = {} \/ \E s : S = {s}
      BY <2>2
    <2>6. Cardinality(R) = IF R = {} THEN 0 ELSE 1
      BY <2>4, FS_EmptySet, FS_Singleton
    <2>7. Cardinality(S) = IF S = {} THEN 0 ELSE 1
      BY <2>5, FS_EmptySet, FS_Singleton
    <2>8. Cardinality(R) + Cardinality(S) <= 1
      BY <2>3, <2>6, <2>7
    <2> QED BY <2>8 DEF R, S
  <1>3. WatchInv => DocumentIsLatest
    BY DEF WatchInv, Remembered, Remembers, DocumentIsLatest, OnList
  <1>4. WatchInv => ChargesBounded
    BY DEF WatchInv, WatchSlotsFit, Fits, ChargesBounded
  <1>5. WatchInv => WatchKeepsItsItems
    BY <1>1, <1>2, <1>3, <1>4 DEF OneTaskPerItem, WatchKeepsItsItems
  <1> QED BY <1>5, WatchInvariant, PTL

-----------------------------------------------------------------------------
(* ListAnalysis.                                                           *)

(* The inductive invariant, part by part. *)

TaskKinds == {"list_analysis", "list_item", "retry"}
Row == [kind : TaskKinds, account : 0 .. NAccounts,
        status : {"pending", "running", "completed", "failed"}, tries : Nat]
Places == {"idle", "upload", "create", "enqueue", "started", "counted", "reset", "mark", "retry", "finalize"}
ChildStages == {"start", "research", "bad", "check", "finalize", "refund"}
RetryStages == {"retrying", "retry_bad", "retry_mark"}
Stages == {"idle", "fanout", "return"} \cup ChildStages \cup RetryStages

ListTypes ==
    /\ list \in {"none", "created", "analyzing", "deleted"} \cup ListFinal
    /\ account \in [Accounts -> {"pending", "processing", "completed", "failed"}]
    /\ analyzed \in Nat /\ failedCount \in Nat /\ credits \in Nat
    /\ paid \in Nat /\ back \in Nat /\ lost \in Nat /\ upsets \in Nat
    /\ rows \in Seq(Row)
    /\ req \in [ListRequests -> [at : Places, n : Nat]]
    /\ slot \in [Slots -> [at : Stages, task : Nat, n : Nat]]

\* What the place of a request and the stage of a coroutine say of the account and the row.
PlacesFit ==
    /\ \A q \in ListRequests : req[q].at \in {"reset", "mark", "retry"} => req[q].n \in Accounts
    /\ \A t \in DOMAIN rows : rows[t].kind # "list_analysis" => rows[t].account \in Accounts
    /\ \A s \in Slots :
        /\ slot[s].at = "idle" <=> slot[s].task = 0
        /\ slot[s].at # "idle" => slot[s].task \in DOMAIN rows
        /\ slot[s].at = "fanout" => rows[slot[s].task].kind = "list_analysis"
        /\ slot[s].at \in ChildStages => rows[slot[s].task].kind = "list_item"
        /\ slot[s].at \in RetryStages => rows[slot[s].task].kind = "retry"

\* An account is retried, or is anything but pending, only after an analysis has taken it.
HasItem(a) == \E t \in DOMAIN rows : rows[t].kind = "list_item" /\ rows[t].account = a

TakenFirst ==
    /\ \A a \in Accounts : account[a] # "pending" => HasItem(a)
    /\ \A q \in ListRequests : req[q].at \in {"reset", "mark", "retry"} => HasItem(req[q].n)
    /\ \A t \in DOMAIN rows : rows[t].kind = "retry" => HasItem(rows[t].account)

\* Nothing is retried before the list exists.
NothingYet == list = "none" => \A q \in ListRequests : req[q].at \in {"idle", "upload", "create"}

\* While nothing fails, a running row is held by one coroutine, and no coroutine comes to
\* finalize: the row of the child that checks is still running, so that it is its own
\* pending sibling.
Held(r, sl) ==
    /\ \A t \in DOMAIN r : r[t].status = "running" <=> \E s \in Slots : sl[s].task = t
    /\ \A s, u \in Slots : sl[s].task = sl[u].task /\ sl[s].task # 0 => s = u

Steadily ==
    upsets = 0 =>
        /\ Held(rows, slot)
        /\ \A s \in Slots : slot[s].at \notin {"bad", "retry_bad", "finalize", "refund"}

\* Where a row is, by its status and the coroutine that holds it.
Phase(r, sl, t) ==
    IF r[t].status = "pending" THEN "pending"
    ELSE IF \E s \in Slots : sl[s].task = t THEN sl[CHOOSE s \in Slots : sl[s].task = t].at
    ELSE "over"

\* Retries that have been paid for and have not refunded yet.
Unrepaid == {t \in DOMAIN rows : rows[t].kind = "retry" /\ Phase(rows, slot, t) \in {"pending", "retrying"}}
Retrying == {q \in ListRequests : req[q].at \in {"reset", "mark", "retry"}}

RefundsPaid == upsets = 0 => back + Cardinality(Unrepaid) + Cardinality(Retrying) <= paid

\* Accounts that no analysis and no retry has begun with, and analyses paid for that have
\* not taken their accounts.
Fresh == IF list = "deleted" THEN {}
         ELSE {a \in Accounts : account[a] = "pending" /\ \A q \in ListRequests : ~(req[q].at = "mark" /\ req[q].n = a)}
Unfanned == {t \in DOMAIN rows : rows[t].kind = "list_analysis" /\ Phase(rows, slot, t) \in {"pending", "fanout"}}
Waiting == {q \in ListRequests : req[q].at \in {"upload", "create", "enqueue"}}

\* What was paid covers the accounts that have been taken and those that can still be.
AnalysesPaid ==
    upsets = 0 =>
        /\ \A q \in ListRequests : req[q].at = "counted" => Cardinality(Fresh) <= req[q].n
        /\ "fanout" \notin crossed =>
              Cardinality(RowsOf("list_item"))
                + (Cardinality(Unfanned) + Cardinality(Waiting)) * Cardinality(Fresh) <= paid - lost

\* While each account has one item, no retry crosses another and the list exists: one
\* thing at a time works on an account, and nothing works on a failed one.
OneItemEach == \A t, u \in RowsOf("list_item") : rows[t].account = rows[u].account => t = u
Calm == upsets = 0 /\ "reset" \notin crossed /\ OneItemEach /\ list # "deleted"

RowWorks(t) == /\ rows[t].kind # "list_analysis"
               /\ Phase(rows, slot, t) \in {"pending", "start", "research", "retrying", "retry_mark"}
RequestWorks(q) == req[q].at \in {"mark", "retry"}

Alone ==
    /\ \A t, u \in DOMAIN rows : RowWorks(t) /\ RowWorks(u) /\ rows[t].account = rows[u].account => t = u
    /\ \A q, p \in ListRequests : RequestWorks(q) /\ RequestWorks(p) /\ req[q].n = req[p].n => q = p
    /\ \A t \in DOMAIN rows, q \in ListRequests : RowWorks(t) /\ RequestWorks(q) => rows[t].account # req[q].n
    /\ \A t \in DOMAIN rows : RowWorks(t) => account[rows[t].account] # "failed"
    /\ \A q \in ListRequests : RequestWorks(q) => account[req[q].n] # "failed"

OneAtATime == Calm => Alone

ListInv == /\ ListTypes /\ PlacesFit /\ TakenFirst /\ NothingYet /\ Steadily
           /\ RefundsPaid /\ AnalysesPaid /\ OneAtATime /\ FailuresCounted
-----------------------------------------------------------------------------
(* The rows of the queue. *)

RowStatus == {"pending", "running", "completed", "failed"}

\* Rows that keep the kind and the account of all rows, and all of the others.
Settles(r, new, t, st) ==
    /\ new \in Seq(Row) /\ DOMAIN new = DOMAIN r
    /\ \A u \in DOMAIN r : new[u].kind = r[u].kind /\ new[u].account = r[u].account
    /\ new[t].status = st
    /\ \A u \in DOMAIN r \ {t} : new[u].status = r[u].status

LEMMA RowPut ==
    ASSUME NEW r \in Seq(Row), NEW t \in DOMAIN r, NEW v, v \in Row, v.kind = r[t].kind,
           v.account = r[t].account
    PROVE  Settles(r, [r EXCEPT ![t] = v], t, v.status)
  <1> DEFINE new == [r EXCEPT ![t] = v]
  <1>1. /\ DOMAIN new = DOMAIN r /\ new[t] = v
        /\ \A u \in DOMAIN r \ {t} : new[u] = r[u]
    OBVIOUS
  <1>2. new \in Seq(Row)
    OBVIOUS
  <1> HIDE DEF new
  <1> QED BY <1>1, <1>2 DEF Settles

LEMMA RowSet ==
    ASSUME NEW r \in Seq(Row), NEW t \in DOMAIN r, NEW st \in RowStatus, NEW k \in Nat
    PROVE  /\ Settles(r, [r EXCEPT ![t] = [r[t] EXCEPT !.status = st]], t, st)
           /\ Settles(r, [r EXCEPT ![t] = [r[t] EXCEPT !.status = st, !.tries = k]], t, st)
  <1> DEFINE v1 == [r[t] EXCEPT !.status = st]
             v2 == [r[t] EXCEPT !.status = st, !.tries = k]
  <1>1. r[t] \in Row
    OBVIOUS
  <1>2. v1 \in Row /\ v2 \in Row
    BY <1>1 DEF Row, RowStatus
  <1>3. /\ v1.kind = r[t].kind /\ v1.account = r[t].account /\ v1.status = st
        /\ v2.kind = r[t].kind /\ v2.account = r[t].account /\ v2.status = st
    BY <1>1 DEF Row
  <1> HIDE DEF v1, v2
  <1>4. /\ Settles(r, [r EXCEPT ![t] = v1], t, st)
        /\ Settles(r, [r EXCEPT ![t] = v2], t, st)
    BY <1>2, <1>3, RowPut
  <1> QED BY <1>4 DEF v1, v2

\* Rows behind the others, all of them pending.
Grows(r, new, n) ==
    /\ new \in Seq(Row) /\ DOMAIN r = 1 .. Len(r) /\ DOMAIN new = 1 .. Len(r) + n
    /\ DOMAIN r \subseteq DOMAIN new /\ 0 \notin DOMAIN new
    /\ \A u \in DOMAIN r : new[u] = r[u]
    /\ \A u \in DOMAIN new \ DOMAIN r : new[u].status = "pending"

LEMMA RowAdd ==
    ASSUME NEW r \in Seq(Row), NEW of \in TaskKinds, NEW a \in 0 .. NAccounts
    PROVE  /\ Grows(r, Append(r, Queued(of, a)), 1)
           /\ Append(r, Queued(of, a))[Len(r) + 1] = Queued(of, a)
  <1> DEFINE x == Queued(of, a)
  <1>1. x \in Row /\ x.status = "pending"
    BY DEF Queued, Row
  <1> HIDE DEF x
  <1>2. /\ Append(r, x) \in Seq(Row) /\ Len(Append(r, x)) = Len(r) + 1
        /\ \A i \in 1 .. Len(r) : Append(r, x)[i] = r[i]
        /\ Append(r, x)[Len(r) + 1] = x
    BY <1>1, AppendProperties
  <1>3. DOMAIN r = 1 .. Len(r) /\ DOMAIN Append(r, x) = 1 .. Len(r) + 1 /\ Len(r) \in Nat
    BY <1>2
  <1>4. /\ DOMAIN r \subseteq DOMAIN Append(r, x) /\ 0 \notin DOMAIN Append(r, x)
        /\ \A u \in DOMAIN Append(r, x) \ DOMAIN r : u = Len(r) + 1
    BY <1>3
  <1> QED BY <1>1, <1>2, <1>3, <1>4 DEF Grows, x

LEMMA RowsAdd ==
    ASSUME NEW r \in Seq(Row), NEW n \in Nat, NEW x \in Seq(Row), Len(x) = n,
           \A i \in 1 .. n : x[i].status = "pending"
    PROVE  /\ Grows(r, r \o x, n)
           /\ \A i \in 1 .. n : (r \o x)[Len(r) + i] = x[i]
  <1> DEFINE new == r \o x
  <1>3. /\ new \in Seq(Row) /\ Len(new) = Len(r) + n
        /\ \A i \in 1 .. Len(r) + n : new[i] = IF i <= Len(r) THEN r[i] ELSE x[i - Len(r)]
    BY ConcatProperties
  <1> HIDE DEF new
  <1>4. DOMAIN r = 1 .. Len(r) /\ DOMAIN new = 1 .. Len(r) + n /\ Len(r) \in Nat
    BY <1>3
  <1>5. ASSUME NEW i \in 1 .. n PROVE new[Len(r) + i] = x[i]
    <2>0. Len(r) \in Nat
      BY <1>4
    <2>1. Len(r) + i \in 1 .. Len(r) + n /\ ~(Len(r) + i <= Len(r)) /\ Len(r) + i - Len(r) = i
      BY <2>0
    <2> DEFINE k == Len(r) + i
    <2>2. k \in 1 .. Len(r) + n /\ ~(k <= Len(r)) /\ k - Len(r) = i
      BY <2>1
    <2> HIDE DEF k
    <2>3. new[k] = x[i]
      BY <1>3, <2>2
    <2> QED BY <2>3 DEF k
  <1>6. /\ DOMAIN r \subseteq DOMAIN new /\ 0 \notin DOMAIN new
        /\ \A u \in DOMAIN r : new[u] = r[u]
    BY <1>3, <1>4
  <1>7. \A u \in DOMAIN new \ DOMAIN r : new[u].status = "pending"
    <2> SUFFICES ASSUME NEW u \in DOMAIN new \ DOMAIN r PROVE new[u].status = "pending"
      OBVIOUS
    <2>1. u - Len(r) \in 1 .. n /\ u = Len(r) + (u - Len(r))
      BY <1>4
    <2> QED BY <1>5, <2>1
  <1> QED BY <1>3, <1>4, <1>5, <1>6, <1>7 DEF Grows, new
-----------------------------------------------------------------------------
(* The phases of the rows. *)

\* One coroutine holds a row, and the tasks of the coroutines are rows.
Holding(r, sl) == \A s \in Slots : sl[s].task # 0 => sl[s].task \in DOMAIN r

LEMMA PhaseHeld ==
    ASSUME NEW r, NEW sl, NEW s \in Slots, Held(r, sl), Holding(r, sl), sl[s].task # 0
    PROVE  Phase(r, sl, sl[s].task) = sl[s].at
  <1> DEFINE t == sl[s].task
  <1>1. t \in DOMAIN r /\ r[t].status = "running"
    BY DEF Held, Holding
  <1>2. \A u \in Slots : sl[u].task = t => u = s
    BY DEF Held
  <1>3. (CHOOSE u \in Slots : sl[u].task = t) = s
    BY <1>2
  <1> HIDE DEF t
  <1>4. Phase(r, sl, t) = sl[s].at
    <2>1. \E u \in Slots : sl[u].task = t
      BY DEF t
    <2>2. r[t].status # "pending"
      BY <1>1
    <2> QED BY <1>3, <2>1, <2>2 DEF Phase
  <1> QED BY <1>4 DEF t

LEMMA PhaseNotHeld ==
    ASSUME NEW r, NEW sl, NEW t, \A s \in Slots : sl[s].task # t
    PROVE  Phase(r, sl, t) = IF r[t].status = "pending" THEN "pending" ELSE "over"
  <1>1. ~\E s \in Slots : sl[s].task = t
    OBVIOUS
  <1> QED BY <1>1 DEF Phase

\* A row that is not touched stays in its phase.
LEMMA PhaseStays ==
    ASSUME NEW r, NEW sl, NEW nr, NEW ns, NEW t \in DOMAIN r \cap DOMAIN nr, Held(r, sl), Holding(r, sl),
           Held(nr, ns), Holding(nr, ns), 0 \notin DOMAIN r, nr[t].status = r[t].status,
           \A s \in Slots : sl[s].task = t \/ ns[s].task = t => ns[s] = sl[s]
    PROVE  Phase(nr, ns, t) = Phase(r, sl, t)
  <1>1. CASE \E s \in Slots : sl[s].task = t
    <2>1. PICK s \in Slots : sl[s].task = t
      BY <1>1
    <2>2. ns[s] = sl[s] /\ t # 0
      BY <2>1
    <2>3. Phase(r, sl, t) = sl[s].at
      BY <2>1, <2>2, PhaseHeld
    <2>4. ns[s].task = t /\ ns[s].at = sl[s].at
      BY <2>1, <2>2
    <2>5. Phase(nr, ns, t) = ns[s].at
      BY <2>2, <2>4, PhaseHeld
    <2> QED BY <2>3, <2>4, <2>5
  <1>2. CASE \A s \in Slots : sl[s].task # t
    <2>1. \A s \in Slots : ns[s].task # t
      BY <1>2
    <2> QED BY <1>2, <2>1, PhaseNotHeld
  <1> QED BY <1>1, <1>2

\* Nobody touches a row, and rows may be added.
LEMMA RowsRest ==
    ASSUME NEW r, NEW sl, NEW nr, NEW n, Held(r, sl), Holding(r, sl), 0 \notin DOMAIN r, Grows(r, nr, n)
    PROVE  /\ Held(nr, sl) /\ Holding(nr, sl)
           /\ \A t \in DOMAIN r : Phase(nr, sl, t) = Phase(r, sl, t)
           /\ \A t \in DOMAIN nr \ DOMAIN r : Phase(nr, sl, t) = "pending"
  <1>1. /\ DOMAIN r \subseteq DOMAIN nr /\ 0 \notin DOMAIN nr
        /\ \A t \in DOMAIN r : nr[t] = r[t]
        /\ \A t \in DOMAIN nr \ DOMAIN r : nr[t].status = "pending"
    BY DEF Grows
  <1>0. \A t \in DOMAIN nr \ DOMAIN r : \A s \in Slots : sl[s].task # t
    BY <1>1 DEF Holding
  <1>2. Holding(nr, sl)
    BY <1>1 DEF Holding
  <1>3. Held(nr, sl)
    BY <1>0, <1>1 DEF Held
  <1>4. ASSUME NEW t \in DOMAIN r PROVE Phase(nr, sl, t) = Phase(r, sl, t)
    BY <1>1, <1>2, <1>3, PhaseStays
  <1>5. ASSUME NEW t \in DOMAIN nr \ DOMAIN r PROVE Phase(nr, sl, t) = "pending"
    BY <1>0, <1>1, PhaseNotHeld
  <1> QED BY <1>2, <1>3, <1>4, <1>5

\* A coroutine goes to the next stage of its task, and may add rows.
Stays(r, sl, nr, n, s, p, ns) ==
    /\ Held(r, sl) /\ Holding(r, sl) /\ 0 \notin DOMAIN r /\ (Grows(r, nr, n) \/ nr = r)
    /\ sl[s].task # 0 /\ ns[s].at = p /\ ns[s].task = sl[s].task
    /\ \A u \in Slots \ {s} : ns[u] = sl[u]

LEMMA TurnStays ==
    ASSUME NEW r, NEW sl, NEW nr, NEW n, NEW s \in Slots, NEW p,
           NEW ns, Stays(r, sl, nr, n, s, p, ns)
    PROVE  /\ Held(nr, ns) /\ Holding(nr, ns)
           /\ Phase(r, sl, sl[s].task) = sl[s].at /\ Phase(nr, ns, sl[s].task) = p
           /\ \A t \in DOMAIN r \ {sl[s].task} : Phase(nr, ns, t) = Phase(r, sl, t)
           /\ \A t \in DOMAIN nr \ DOMAIN r : Phase(nr, ns, t) = "pending"
  <1> USE DEF Stays
  <1>1. \A u \in Slots : ns[u].task = sl[u].task
    OBVIOUS
  <1>2. /\ DOMAIN r \subseteq DOMAIN nr /\ 0 \notin DOMAIN nr
        /\ \A t \in DOMAIN r : nr[t] = r[t]
        /\ \A t \in DOMAIN nr \ DOMAIN r : nr[t].status = "pending"
    BY DEF Grows
  <1>3. Holding(nr, ns)
    BY <1>1, <1>2 DEF Holding
  <1>4. Held(nr, ns)
    <2>1. \A t \in DOMAIN nr : nr[t].status = "running" <=> \E u \in Slots : ns[u].task = t
      <3>1. ASSUME NEW t \in DOMAIN r PROVE nr[t].status = "running" <=> \E u \in Slots : ns[u].task = t
        BY <1>1, <1>2 DEF Held
      <3>2. ASSUME NEW t \in DOMAIN nr \ DOMAIN r
            PROVE  nr[t].status = "running" <=> \E u \in Slots : ns[u].task = t
        <4>1. \A u \in Slots : ns[u].task # t
          BY <1>1, <1>2 DEF Holding
        <4> QED BY <1>2, <4>1
      <3> QED BY <3>1, <3>2
    <2>2. \A u, v \in Slots : ns[u].task = ns[v].task /\ ns[u].task # 0 => u = v
      BY <1>1 DEF Held
    <2> QED BY <2>1, <2>2 DEF Held
  <1>5. Phase(r, sl, sl[s].task) = sl[s].at
    BY PhaseHeld
  <1>6. Phase(nr, ns, ns[s].task) = ns[s].at
    <2>1. ns[s].task # 0
      BY <1>1
    <2> QED BY <1>3, <1>4, <2>1, PhaseHeld
  <1>7. ASSUME NEW t \in DOMAIN r \ {sl[s].task} PROVE Phase(nr, ns, t) = Phase(r, sl, t)
    <2>1. \A u \in Slots : sl[u].task = t \/ ns[u].task = t => ns[u] = sl[u]
      BY <1>1
    <2>2. t \in DOMAIN r \cap DOMAIN nr /\ nr[t].status = r[t].status
      BY <1>2
    <2> QED BY <1>3, <1>4, <2>1, <2>2, PhaseStays
  <1>8. ASSUME NEW t \in DOMAIN nr \ DOMAIN r PROVE Phase(nr, ns, t) = "pending"
    <2>1. \A u \in Slots : ns[u].task # t
      BY <1>1, <1>2 DEF Holding
    <2> QED BY <1>2, <2>1, PhaseNotHeld
  <1> QED BY <1>1, <1>3, <1>4, <1>5, <1>6, <1>7, <1>8

\* A coroutine takes a pending row.
Begins(r, sl, nr, s, k, p, ns) ==
    /\ Held(r, sl) /\ Holding(r, sl) /\ 0 \notin DOMAIN r /\ k \in DOMAIN r
    /\ r[k].status = "pending" /\ Settles(r, nr, k, "running")
    /\ sl[s].task = 0 /\ ns[s].at = p /\ ns[s].task = k
    /\ \A u \in Slots \ {s} : ns[u] = sl[u]

LEMMA TurnTakes ==
    ASSUME NEW r, NEW sl, NEW nr, NEW s \in Slots, NEW k, NEW p,
           NEW ns, Begins(r, sl, nr, s, k, p, ns)
    PROVE  /\ Held(nr, ns) /\ Holding(nr, ns)
           /\ Phase(r, sl, k) = "pending" /\ Phase(nr, ns, k) = p
           /\ \A t \in DOMAIN r \ {k} : Phase(nr, ns, t) = Phase(r, sl, t)
  <1> USE DEF Begins
  <1>1. k # 0
    OBVIOUS
  <1>2. \A u \in Slots : sl[u].task # k
    BY DEF Held
  <1>3. Holding(nr, ns)
    BY <1>1 DEF Holding, Settles
  <1>4. Held(nr, ns)
    <2>1. ASSUME NEW t \in DOMAIN nr PROVE nr[t].status = "running" <=> \E u \in Slots : ns[u].task = t
      <3>1. CASE t = k
        BY <1>1, <3>1 DEF Settles
      <3>2. CASE t # k
        <4>1. nr[t].status = r[t].status /\ t \in DOMAIN r /\ t # 0
          BY <3>2 DEF Settles
        <4>2. \A u \in Slots : ns[u].task = t <=> sl[u].task = t
          BY <1>1, <3>2, <4>1
        <4> QED BY <4>1, <4>2 DEF Held
      <3> QED BY <3>1, <3>2
    <2>2. \A u, v \in Slots : ns[u].task = ns[v].task /\ ns[u].task # 0 => u = v
      BY <1>1, <1>2 DEF Held
    <2> QED BY <2>1, <2>2 DEF Held
  <1>5. Phase(r, sl, k) = "pending"
    BY DEF Phase
  <1>6. Phase(nr, ns, ns[s].task) = ns[s].at
    <2>1. ns[s].task # 0
      BY <1>1
    <2> QED BY <1>3, <1>4, <2>1, PhaseHeld
  <1>7. ASSUME NEW t \in DOMAIN r \ {k} PROVE Phase(nr, ns, t) = Phase(r, sl, t)
    <2>1. \A u \in Slots : sl[u].task = t \/ ns[u].task = t => ns[u] = sl[u]
      BY <1>1
    <2>2. t \in DOMAIN r \cap DOMAIN nr /\ nr[t].status = r[t].status
      BY DEF Settles
    <2> QED BY <1>3, <1>4, <2>1, <2>2, PhaseStays
  <1> QED BY <1>1, <1>3, <1>4, <1>5, <1>6, <1>7

\* A task is over.
LEMMA TurnEnds ==
    ASSUME NEW r, NEW sl, NEW nr, NEW s \in Slots, NEW k,
           Held(r, sl), Holding(r, sl), 0 \notin DOMAIN r, k = sl[s].task, k # 0,
           Settles(r, nr, k, "completed"),
           NEW ns, ns[s].task = 0, \A u \in Slots \ {s} : ns[u] = sl[u]
    PROVE  /\ Held(nr, ns) /\ Holding(nr, ns)
           /\ Phase(r, sl, k) = sl[s].at /\ Phase(nr, ns, k) = "over"
           /\ \A t \in DOMAIN r \ {k} : Phase(nr, ns, t) = Phase(r, sl, t)
  <1>1. k \in DOMAIN r
    BY DEF Holding
  <1>2. \A u \in Slots \ {s} : sl[u].task # k
    BY DEF Held
  <1>3. Holding(nr, ns)
    BY <1>1 DEF Holding, Settles
  <1>4. Held(nr, ns)
    <2>1. ASSUME NEW t \in DOMAIN nr PROVE nr[t].status = "running" <=> \E u \in Slots : ns[u].task = t
      <3>1. CASE t = k
        BY <1>1, <1>2, <3>1 DEF Settles
      <3>2. CASE t # k
        <4>1. nr[t].status = r[t].status /\ t \in DOMAIN r /\ t # 0
          BY <3>2 DEF Settles
        <4>2. \A u \in Slots : ns[u].task = t <=> sl[u].task = t
          BY <1>1, <3>2, <4>1
        <4> QED BY <4>1, <4>2 DEF Held
      <3> QED BY <3>1, <3>2
    <2>2. \A u, v \in Slots : ns[u].task = ns[v].task /\ ns[u].task # 0 => u = v
      BY <1>1 DEF Held
    <2> QED BY <2>1, <2>2 DEF Held
  <1>5. Phase(r, sl, k) = sl[s].at
    BY PhaseHeld
  <1>6. Phase(nr, ns, k) = "over"
    <2>1. \A u \in Slots : ns[u].task # k
      BY <1>1, <1>2
    <2> QED BY <2>1, PhaseNotHeld DEF Settles
  <1>7. ASSUME NEW t \in DOMAIN r \ {k} PROVE Phase(nr, ns, t) = Phase(r, sl, t)
    <2>1. \A u \in Slots : sl[u].task = t \/ ns[u].task = t => ns[u] = sl[u]
      BY <1>1
    <2>2. t \in DOMAIN r \cap DOMAIN nr /\ nr[t].status = r[t].status
      BY DEF Settles
    <2> QED BY <1>3, <1>4, <2>1, <2>2, PhaseStays
  <1> QED BY <1>1, <1>3, <1>4, <1>5, <1>6, <1>7
-----------------------------------------------------------------------------
(* The order of the pending accounts. *)

\* Every place in the order of a finite set of integers is somebody's: the ranks are as
\* many as the members, and no two members have the same.
LEMMA Ranks ==
    ASSUME NEW S, IsFiniteSet(S), S \subseteq Int, NEW i \in 1 .. Cardinality(S)
    PROVE  \E a \in S : Cardinality({b \in S : b <= a}) = i
  <1> DEFINE Below(a) == {b \in S : b <= a}
             n == Cardinality(S)
             f == [a \in S |-> Cardinality(Below(a))]
  <1>1. n \in Nat
    BY FS_CardinalityType
  <1>2. \A a \in S : Below(a) \subseteq S /\ a \in Below(a)
    OBVIOUS
  <1>3. ASSUME NEW a \in S
        PROVE  IsFiniteSet(Below(a)) /\ Cardinality(Below(a)) \in 1 .. n
    <2>1. IsFiniteSet(Below(a)) /\ Cardinality(Below(a)) <= n
      BY <1>2, FS_Subset
    <2>2. Cardinality(Below(a)) \in Nat /\ Cardinality(Below(a)) # 0
      BY <1>2, <2>1, FS_CardinalityType, FS_EmptySet
    <2> HIDE DEF Below, n
    <2> QED BY <1>1, <2>1, <2>2
  <1>4. ASSUME NEW a \in S, NEW b \in S, a < b PROVE Cardinality(Below(a)) # Cardinality(Below(b))
    <2>0. a \in Int /\ b \in Int
      OBVIOUS
    <2>1. Below(a) \subseteq Below(b) /\ Below(a) # Below(b)
      <3>1. b \in Below(b) /\ b \notin Below(a)
        <4>1. ~(b <= a)
          BY <1>4, <2>0
        <4> QED BY <1>2, <4>1
      <3>2. Below(a) \subseteq Below(b)
        <4>1. \A c \in S : c <= a => c <= b
          BY <1>4, <2>0
        <4> QED BY <4>1
      <3> HIDE DEF Below
      <3> QED BY <3>1, <3>2
    <2> HIDE DEF Below
    <2> QED BY <1>3, <2>1, FS_Subset
  <1>5. \A a, b \in S : a = b \/ a < b \/ b < a
    OBVIOUS
  <1> HIDE DEF Below, n
  <1>6. f \in Injection(S, 1 .. n)
    <2>1. f \in [S -> 1 .. n]
      BY <1>3
    <2>2. \A a, b \in S : f[a] = f[b] => a = b
      BY <1>4, <1>5
    <2> HIDE DEF f
    <2> QED BY <2>1, <2>2 DEF Injection, IsInjective
  <1>7. IsFiniteSet(1 .. n) /\ Cardinality(1 .. n) = Cardinality(S)
    BY <1>1, FS_Interval DEF n
  <1>8. f \in Surjection(S, 1 .. n)
    <2> HIDE DEF f
    <2> QED BY <1>6, <1>7, FS_Injection
  <1>9. PICK a \in S : f[a] = i
    <2> HIDE DEF f
    <2> QED BY <1>8 DEF Surjection, n
  <1> QED BY <1>9 DEF Below

LEMMA PendingFinite ==
    IsFiniteSet(Accounts) /\ Cardinality(Accounts) = NAccounts /\ IsFiniteSet(Pending)
           /\ Pending \subseteq Accounts /\ Cardinality(Pending) \in Nat
  <1>1. IsFiniteSet(Accounts) /\ Cardinality(Accounts) = NAccounts
    BY FS_Interval, ListConstants DEF Accounts
  <1>2. Pending \subseteq Accounts
    BY DEF Pending
  <1> QED BY <1>1, <1>2, FS_Subset, FS_CardinalityType
-----------------------------------------------------------------------------
(* What the helpers of the actions do. *)

ReqSet == [at : Places, n : Nat]
SlotSet == [at : Stages, task : Nat, n : Nat]

KeepsRows ==
    /\ rows' \in Seq(Row) /\ DOMAIN rows \subseteq DOMAIN rows'
    /\ \A t \in DOMAIN rows : rows'[t].kind = rows[t].kind /\ rows'[t].account = rows[t].account

LEMMA ReqEffect ==
    ASSUME ListTypes, NEW q \in ListRequests, NEW p \in Places, NEW m \in Nat, ReqTo(q, p, m)
    PROVE  /\ req' \in [ListRequests -> ReqSet]
           /\ req'[q].at = p /\ req'[q].n = m
           /\ \A x \in ListRequests \ {q} : req'[x] = req[x]
  <1>1. [at |-> p, n |-> m] \in ReqSet
    BY DEF ReqSet
  <1>2. req \in [ListRequests -> ReqSet]
    BY DEF ListTypes, ReqSet
  <1> QED BY <1>1, <1>2 DEF ReqTo

LEMMA SlotEffect ==
    ASSUME ListTypes, NEW s \in Slots, NEW p \in Stages, NEW k \in Nat, NEW m \in Nat,
           slot' = [slot EXCEPT ![s] = [at |-> p, task |-> k, n |-> m]]
    PROVE  /\ slot' \in [Slots -> SlotSet]
           /\ slot'[s].at = p /\ slot'[s].task = k /\ slot'[s].n = m
           /\ \A x \in Slots \ {s} : slot'[x] = slot[x]
  <1>1. [at |-> p, task |-> k, n |-> m] \in SlotSet
    BY DEF SlotSet
  <1>2. slot \in [Slots -> SlotSet]
    BY DEF ListTypes, SlotSet
  <1> QED BY <1>1, <1>2

LEMMA SlotToEffect ==
    ASSUME ListTypes, NEW s \in Slots, NEW p \in Stages, NEW m \in Nat, SlotTo(s, p, m)
    PROVE  /\ slot' \in [Slots -> SlotSet]
           /\ slot'[s].at = p /\ slot'[s].task = slot[s].task /\ slot'[s].n = m
           /\ \A x \in Slots \ {s} : slot'[x] = slot[x]
  <1>1. slot[s].task \in Nat
    BY DEF ListTypes
  <1> QED BY <1>1, SlotEffect DEF SlotTo

LEMMA AccountEffect ==
    ASSUME ListTypes, NEW a, NEW st \in {"processing", "completed", "failed"}, SetAccount(a, st)
    PROVE  /\ list' = list
           /\ account' \in [Accounts -> {"pending", "processing", "completed", "failed"}]
           /\ analyzed' \in Nat /\ failedCount' \in Nat
           /\ \A b \in Accounts \ {a} : account'[b] = account[b]
           /\ Exists /\ a \in Accounts => account'[a] = st
           /\ ~Exists => account' = account
           /\ failedCount' = failedCount + IF Exists /\ st = "failed" THEN 1 ELSE 0
  <1>0. /\ account \in [Accounts -> {"pending", "processing", "completed", "failed"}]
        /\ analyzed \in Nat /\ failedCount \in Nat
    BY DEF ListTypes
  <1>1. CASE Exists
    <2>1. /\ account' = [account EXCEPT ![a] = st]
          /\ analyzed' = analyzed + IF st = "completed" THEN 1 ELSE 0
          /\ failedCount' = failedCount + IF st = "failed" THEN 1 ELSE 0
          /\ list' = list
      BY <1>1 DEF SetAccount
    <2>2. /\ account' \in [Accounts -> {"pending", "processing", "completed", "failed"}]
          /\ \A b \in Accounts \ {a} : account'[b] = account[b]
          /\ a \in Accounts => account'[a] = st
      BY <1>0, <2>1
    <2>3. analyzed' \in Nat /\ failedCount' \in Nat
      BY <1>0, <2>1
    <2> QED BY <1>1, <2>1, <2>2, <2>3
  <1>2. CASE ~Exists
    <2>1. account' = account /\ analyzed' = analyzed /\ failedCount' = failedCount /\ list' = list
      BY <1>2 DEF SetAccount, listTable
    <2> QED BY <1>0, <1>2, <2>1
  <1> QED BY <1>1, <1>2

LEMMA EnqueueEffect ==
    ASSUME ListTypes, NEW of \in TaskKinds, NEW a \in 0 .. NAccounts, Enqueue(of, a)
    PROVE  /\ Grows(rows, rows', 1) /\ KeepsRows
           /\ DOMAIN rows' \ DOMAIN rows = {Len(rows) + 1}
           /\ rows'[Len(rows) + 1] = Queued(of, a)
  <1>1. rows \in Seq(Row) /\ rows' = Append(rows, Queued(of, a))
    BY DEF ListTypes, Enqueue
  <1>2. Grows(rows, rows', 1) /\ rows'[Len(rows) + 1] = Queued(of, a)
    BY <1>1, RowAdd
  <1>3. Len(rows) \in Nat
    BY <1>1
  <1>4. DOMAIN rows' \ DOMAIN rows = {Len(rows) + 1}
    BY <1>2, <1>3 DEF Grows
  <1> QED BY <1>2, <1>4 DEF Grows, KeepsRows

LEMMA FanOutRows ==
    ASSUME ListTypes, NEW s \in Slots, FanOutList(s)
    PROVE  /\ Grows(rows, rows', Cardinality(Pending)) /\ KeepsRows
           /\ \A t \in DOMAIN rows' \ DOMAIN rows : rows'[t].kind = "list_item" /\ rows'[t].account \in Pending
  <1> DEFINE n == Cardinality(Pending)
             nth(i) == CHOOSE a \in Pending : Cardinality({b \in Pending : b <= a}) = i
             x == [i \in 1 .. n |-> Queued("list_item", nth(i))]
  <1>1. n \in Nat /\ IsFiniteSet(Pending) /\ Pending \subseteq Accounts /\ Pending \subseteq Int
    BY PendingFinite DEF Accounts
  <1>2. \A i \in 1 .. n : nth(i) \in Pending
    BY <1>1, Ranks
  <1>3. rows' = rows \o x
    BY DEF FanOutList
  <1> HIDE DEF nth, n
  <1>4. \A i \in 1 .. n : x[i].kind = "list_item" /\ x[i].account \in Pending
    BY <1>2 DEF Queued
  <1>5. \A i \in 1 .. n : x[i] \in Row /\ x[i].status = "pending"
    <2>1. \A a \in Accounts : Queued("list_item", a) \in Row /\ Queued("list_item", a).status = "pending"
      BY ListConstants DEF Queued, Row, TaskKinds, Accounts
    <2> QED BY <1>1, <1>2, <2>1
  <1>6. x \in Seq(Row) /\ Len(x) = n /\ rows \in Seq(Row)
    BY <1>1, <1>5 DEF ListTypes
  <1> HIDE DEF x
  <1>7. /\ Grows(rows, rows', n)
        /\ \A i \in 1 .. n : rows'[Len(rows) + i] = x[i]
    BY <1>1, <1>3, <1>5, <1>6, RowsAdd
  <1>8. ASSUME NEW t \in DOMAIN rows' \ DOMAIN rows
        PROVE  rows'[t].kind = "list_item" /\ rows'[t].account \in Pending
    <2>1. Len(rows) \in Nat
      BY <1>6
    <2>2. t - Len(rows) \in 1 .. n /\ t = Len(rows) + (t - Len(rows))
      BY <1>1, <1>7, <2>1 DEF Grows
    <2>3. PICK i \in 1 .. n : t = Len(rows) + i
      BY <2>2
    <2> QED BY <1>4, <1>7, <2>3
  <1>9. KeepsRows
    BY <1>7 DEF Grows, KeepsRows
  <1> QED BY <1>7, <1>8, <1>9 DEF n

LEMMA LeaveEffect ==
    ASSUME ListTypes, PlacesFit, NEW s \in Slots, NEW st \in RowStatus, slot[s].at # "idle", Leave(s, st)
    PROVE  /\ Settles(rows, rows', slot[s].task, st) /\ KeepsRows
           /\ slot' \in [Slots -> SlotSet]
           /\ slot'[s].at = "idle" /\ slot'[s].task = 0
           /\ \A x \in Slots \ {s} : slot'[x] = slot[x]
  <1>1. slot[s].task \in DOMAIN rows /\ rows \in Seq(Row)
    BY DEF PlacesFit, ListTypes
  <1>2. Settles(rows, rows', slot[s].task, st)
    BY <1>1, RowSet DEF Leave
  <1>3. KeepsRows
    BY <1>2 DEF Settles, KeepsRows
  <1>4. "idle" \in Stages
    BY DEF Stages
  <1>5. slot' = [slot EXCEPT ![s] = [at |-> "idle", task |-> 0, n |-> 0]]
    BY DEF Leave
  <1> QED BY <1>2, <1>3, <1>4, <1>5, SlotEffect
-----------------------------------------------------------------------------
(* Types and places, whatever fails. *)

Base == ListTypes /\ PlacesFit /\ TakenFirst /\ NothingYet

TableTypes ==
    /\ list \in {"none", "created", "analyzing", "deleted"} \cup ListFinal
    /\ account \in [Accounts -> {"pending", "processing", "completed", "failed"}]
    /\ analyzed \in Nat /\ failedCount \in Nat
MoneyTypes == credits \in Nat /\ paid \in Nat /\ back \in Nat /\ lost \in Nat

StageFits(p, k) ==
    /\ p \in Stages /\ p # "idle" /\ k # 0 /\ k \in DOMAIN rows
    /\ p = "fanout" => rows[k].kind = "list_analysis"
    /\ p \in ChildStages => rows[k].kind = "list_item"
    /\ p \in RetryStages => rows[k].kind = "retry"

\* What a step may do to the rows, the requests, the accounts and the coroutines.
NewRowsFit ==
    \A t \in DOMAIN rows' \ DOMAIN rows :
        /\ rows'[t].kind # "list_analysis" => rows'[t].account \in Accounts
        /\ rows'[t].kind = "retry" => HasItem(rows'[t].account)

RequestsFit ==
    /\ req' \in [ListRequests -> ReqSet]
    /\ \A q \in ListRequests : req'[q].at \in {"reset", "mark", "retry"} =>
          req'[q].n \in Accounts /\ HasItem(req'[q].n)
    /\ list' = "none" => \A q \in ListRequests : req'[q].at \in {"idle", "upload", "create"}

AccountsFit == \A a \in Accounts : account'[a] # "pending" => account[a] # "pending" \/ HasItem(a)

SlotsFit ==
    /\ slot' \in [Slots -> SlotSet]
    /\ \A s \in Slots : \/ slot'[s] = slot[s]
                        \/ slot'[s].at = "idle" /\ slot'[s].task = 0
                        \/ StageFits(slot'[s].at, slot'[s].task)

LEMMA BaseFrom ==
    ASSUME Base, TableTypes', MoneyTypes', upsets' \in Nat, KeepsRows, NewRowsFit, RequestsFit,
           AccountsFit, SlotsFit
    PROVE  Base'
  <1>1. ListTypes'
    BY DEF ListTypes, TableTypes, MoneyTypes, KeepsRows, RequestsFit, SlotsFit, ReqSet, SlotSet
  <1>2. \A a : HasItem(a) => HasItem(a)'
    BY DEF HasItem, KeepsRows
  <1>3. \A t \in DOMAIN rows' : rows'[t].kind # "list_analysis" => rows'[t].account \in Accounts
    BY DEF Base, PlacesFit, KeepsRows, NewRowsFit
  <1>4. ASSUME NEW s \in Slots
        PROVE  /\ slot'[s].at = "idle" <=> slot'[s].task = 0
               /\ slot'[s].at # "idle" => slot'[s].task \in DOMAIN rows'
               /\ slot'[s].at = "fanout" => rows'[slot'[s].task].kind = "list_analysis"
               /\ slot'[s].at \in ChildStages => rows'[slot'[s].task].kind = "list_item"
               /\ slot'[s].at \in RetryStages => rows'[slot'[s].task].kind = "retry"
    <2>0. "idle" \notin ChildStages /\ "idle" \notin RetryStages
      BY DEF ChildStages, RetryStages
    <2>1. CASE slot'[s] = slot[s]
      <3>1. /\ slot[s].at = "idle" <=> slot[s].task = 0
            /\ slot[s].at # "idle" => slot[s].task \in DOMAIN rows
            /\ slot[s].at = "fanout" => rows[slot[s].task].kind = "list_analysis"
            /\ slot[s].at \in ChildStages => rows[slot[s].task].kind = "list_item"
            /\ slot[s].at \in RetryStages => rows[slot[s].task].kind = "retry"
        BY DEF Base, PlacesFit
      <3> QED BY <2>0, <2>1, <3>1 DEF KeepsRows
    <2>2. CASE slot'[s].at = "idle" /\ slot'[s].task = 0
      BY <2>0, <2>2
    <2>3. CASE StageFits(slot'[s].at, slot'[s].task)
      BY <2>3 DEF StageFits, KeepsRows
    <2> QED BY <2>1, <2>2, <2>3 DEF SlotsFit
  <1>5. PlacesFit'
    BY <1>3, <1>4 DEF PlacesFit, RequestsFit
  <1>6. TakenFirst'
    <2>1. \A a \in Accounts : account'[a] # "pending" => HasItem(a)'
      BY <1>2 DEF Base, TakenFirst, AccountsFit
    <2>2. \A q \in ListRequests : req'[q].at \in {"reset", "mark", "retry"} => \E a : a = req'[q].n /\ HasItem(a)'
      BY <1>2 DEF RequestsFit
    <2>3. \A t \in DOMAIN rows' : rows'[t].kind = "retry" => \E a : a = rows'[t].account /\ HasItem(a)'
      BY <1>2 DEF Base, TakenFirst, KeepsRows, NewRowsFit
    <2> QED BY <2>1, <2>2, <2>3 DEF TakenFirst, HasItem
  <1>7. NothingYet'
    BY DEF NothingYet, RequestsFit
  <1> QED BY <1>1, <1>5, <1>6, <1>7 DEF Base

LEMMA RowsUnchanged ==
    ASSUME Base, rows' = rows
    PROVE  KeepsRows /\ NewRowsFit
  BY DEF Base, ListTypes, KeepsRows, NewRowsFit

LEMMA SlotsUnchanged ==
    ASSUME Base, slot' = slot
    PROVE  SlotsFit
  BY DEF Base, ListTypes, SlotsFit, SlotSet

LEMMA RequestsUnchanged ==
    ASSUME Base, req' = req, list' = "none" => list = "none"
    PROVE  RequestsFit
  BY DEF Base, ListTypes, PlacesFit, TakenFirst, NothingYet, RequestsFit, ReqSet

\* A request goes to a place, with an account that an analysis has taken if it retries one.
LEMMA RequestMoves ==
    ASSUME Base, NEW q \in ListRequests, NEW p \in Places, NEW m \in Nat, ReqTo(q, p, m),
           p \in {"reset", "mark", "retry"} => m \in Accounts /\ HasItem(m),
           list' = "none" => list = "none" /\ p \in {"idle", "upload", "create"}
    PROVE  RequestsFit
  <1>1. /\ req' \in [ListRequests -> ReqSet]
        /\ req'[q].at = p /\ req'[q].n = m
        /\ \A x \in ListRequests \ {q} : req'[x] = req[x]
    BY ReqEffect DEF Base
  <1>2. \A x \in ListRequests : req'[x].at \in {"reset", "mark", "retry"} =>
          req'[x].n \in Accounts /\ HasItem(req'[x].n)
    BY <1>1 DEF Base, PlacesFit, TakenFirst
  <1>3. list' = "none" => \A x \in ListRequests : req'[x].at \in {"idle", "upload", "create"}
    BY <1>1 DEF Base, NothingYet
  <1> QED BY <1>1, <1>2, <1>3 DEF RequestsFit

LEMMA SlotMoves ==
    ASSUME Base, NEW s \in Slots, slot' \in [Slots -> SlotSet],
           \A x \in Slots \ {s} : slot'[x] = slot[x],
           \/ slot'[s].at = "idle" /\ slot'[s].task = 0
           \/ StageFits(slot'[s].at, slot'[s].task)
    PROVE  SlotsFit
  BY DEF SlotsFit

LEMMA TableUnchanged ==
    ASSUME Base, account' = account, analyzed' = analyzed, failedCount' = failedCount,
           list' \in {"none", "created", "analyzing", "deleted"} \cup ListFinal
    PROVE  TableTypes' /\ AccountsFit
  BY DEF Base, ListTypes, TableTypes, AccountsFit

LEMMA MoneyUnchanged ==
    ASSUME Base, UNCHANGED money
    PROVE  MoneyTypes'
  BY DEF Base, ListTypes, MoneyTypes, money

LEMMA Charged ==
    ASSUME Base, NEW n \in Nat, Charge(n), lost' \in Nat
    PROVE  MoneyTypes' /\ credits' = credits - n /\ paid' = paid + n /\ back' = back
  BY DEF Base, ListTypes, MoneyTypes, Charge

LEMMA RequestBase ==
    ASSUME Base, NEW q \in ListRequests, RequestStep(q)
    PROVE  Base'
  <1> USE DEF Elsewhere, listTable, ReqAt
  <1>0. /\ TableTypes /\ MoneyTypes /\ upsets \in Nat /\ req[q].n \in Nat
        /\ req[q].at \in {"reset", "mark", "retry"} => req[q].n \in Accounts /\ HasItem(req[q].n)
        /\ list = "none" => req[q].at \in {"idle", "upload", "create"}
        /\ "idle" \in Places /\ "upload" \in Places /\ "create" \in Places /\ "enqueue" \in Places
        /\ "started" \in Places /\ "counted" \in Places /\ "reset" \in Places /\ "mark" \in Places
        /\ "retry" \in Places /\ "finalize" \in Places
    BY DEF Base, ListTypes, PlacesFit, TakenFirst, NothingYet, TableTypes, MoneyTypes, Places
  <1>1. CASE PayForList(q)
    <2>1. list = "none" /\ NAccounts \in Nat
      BY <1>1, ListConstants DEF PayForList
    <2>2. MoneyTypes'
      BY <1>0, <1>1, <2>1, Charged DEF PayForList, MoneyTypes
    <2>3. RequestsFit
      BY <1>0, <1>1, <2>1, RequestMoves DEF PayForList
    <2>4. TableTypes' /\ AccountsFit
      BY <1>0, <1>1, TableUnchanged DEF PayForList, TableTypes
    <2> QED BY <1>0, <1>1, <2>2, <2>3, <2>4, RowsUnchanged, SlotsUnchanged, BaseFrom DEF PayForList
  <1>2. CASE MakeList(q)
    <2>1. list' \in {"created", "analyzing"}
      BY <1>2 DEF MakeList
    <2>2. TableTypes' /\ AccountsFit /\ MoneyTypes'
      BY <1>2, <2>1, TableUnchanged, MoneyUnchanged DEF MakeList
    <2>3. RequestsFit
      <3>1. CASE UNCHANGED req
        BY <2>1, <3>1, RequestsUnchanged
      <3>2. CASE ReqTo(q, "enqueue", 0)
        BY <1>0, <2>1, <3>2, RequestMoves
      <3> QED BY <1>2, <3>1, <3>2 DEF MakeList
    <2> QED BY <1>0, <1>2, <2>2, <2>3, RowsUnchanged, SlotsUnchanged, BaseFrom DEF MakeList
  <1>3. CASE EnqueueAnalysis(q)
    <2>1. KeepsRows /\ DOMAIN rows' \ DOMAIN rows = {Len(rows) + 1}
          /\ rows'[Len(rows) + 1] = Queued("list_analysis", 0)
      BY <1>3, EnqueueEffect, ListConstants DEF EnqueueAnalysis, Base, TaskKinds
    <2>2. NewRowsFit
      BY <2>1 DEF NewRowsFit, Queued
    <2>3. TableTypes' /\ AccountsFit /\ MoneyTypes'
      BY <1>0, <1>3, TableUnchanged, MoneyUnchanged DEF EnqueueAnalysis, TableTypes
    <2>4. RequestsFit
      BY <1>0, <1>3, RequestMoves DEF EnqueueAnalysis
    <2> QED BY <1>0, <1>3, <2>1, <2>2, <2>3, <2>4, SlotsUnchanged, BaseFrom DEF EnqueueAnalysis
  <1>4. CASE StartAnalysis(q)
    <2>1. list' = "analyzing"
      BY <1>4 DEF StartAnalysis
    <2>2. TableTypes' /\ AccountsFit /\ MoneyTypes'
      BY <1>4, <2>1, TableUnchanged, MoneyUnchanged DEF StartAnalysis
    <2>3. RequestsFit
      BY <1>0, <1>4, <2>1, RequestMoves DEF StartAnalysis
    <2> QED BY <1>0, <1>4, <2>2, <2>3, RowsUnchanged, SlotsUnchanged, BaseFrom DEF StartAnalysis
  <1>5. CASE CountPending(q)
    <2>1. Cardinality(Pending) \in Nat
      BY PendingFinite
    <2>2. TableTypes' /\ AccountsFit /\ MoneyTypes'
      BY <1>0, <1>5, TableUnchanged, MoneyUnchanged DEF CountPending, TableTypes
    <2>3. RequestsFit
      BY <1>0, <1>5, <2>1, RequestMoves DEF CountPending
    <2> QED BY <1>0, <1>5, <2>2, <2>3, RowsUnchanged, SlotsUnchanged, BaseFrom DEF CountPending
  <1>6. CASE PayForPending(q)
    <2>1. MoneyTypes'
      <3>1. CASE Charge(req[q].n)
        BY <1>0, <1>6, <3>1, Charged DEF PayForPending, MoneyTypes
      <3>2. CASE UNCHANGED <<credits, paid, back>>
        BY <1>0, <1>6, <3>2 DEF PayForPending, MoneyTypes
      <3> QED BY <1>6, <3>1, <3>2 DEF PayForPending
    <2>2. TableTypes' /\ AccountsFit
      BY <1>0, <1>6, TableUnchanged DEF PayForPending, TableTypes
    <2>3. RequestsFit
      <3>1. ReqTo(q, "enqueue", 0) \/ ReqTo(q, "idle", 0)
        BY <1>6 DEF PayForPending
      <3> QED BY <1>0, <1>6, <3>1, RequestMoves DEF PayForPending
    <2> QED BY <1>0, <1>6, <2>1, <2>2, <2>3, RowsUnchanged, SlotsUnchanged, BaseFrom DEF PayForPending
  <1>7. CASE RetryPays(q)
    <2>1. PICK a \in Accounts : account[a] = "failed" /\ Charge(1) /\ ReqTo(q, "reset", a)
      BY <1>7 DEF RetryPays
    <2>2. MoneyTypes'
      BY <1>0, <1>7, <2>1, Charged DEF RetryPays, MoneyTypes
    <2>3. HasItem(a) /\ a \in Nat
      BY <2>1 DEF Base, TakenFirst, Accounts
    <2>4. list' # "none"
      BY <1>7 DEF RetryPays, Exists
    <2>5. RequestsFit
      BY <1>0, <2>1, <2>3, <2>4, RequestMoves
    <2>6. TableTypes' /\ AccountsFit
      BY <1>0, <1>7, TableUnchanged DEF RetryPays, TableTypes
    <2> QED BY <1>0, <1>7, <2>2, <2>5, <2>6, RowsUnchanged, SlotsUnchanged, BaseFrom DEF RetryPays
  <1>8. CASE ResetAccount(q)
    <2>1. list' = list /\ list # "none"
      BY <1>0, <1>8 DEF ResetAccount
    <2>2. MoneyTypes'
      BY <1>8, MoneyUnchanged DEF ResetAccount
    <2>3. RequestsFit
      BY <1>0, <1>8, <2>1, RequestMoves DEF ResetAccount
    <2>4. TableTypes' /\ AccountsFit
      <3>1. account' = account \/ account' = [account EXCEPT ![req[q].n] = "pending"]
        BY <1>8 DEF ResetAccount
      <3>2. failedCount' \in Nat /\ analyzed' \in Nat
        BY <1>0, <1>8 DEF ResetAccount, TableTypes
      <3> QED BY <1>0, <2>1, <3>1, <3>2 DEF TableTypes, AccountsFit
    <2> QED BY <1>0, <1>8, <2>2, <2>3, <2>4, RowsUnchanged, SlotsUnchanged, BaseFrom DEF ResetAccount
  <1>9. CASE MarkAccount(q)
    <2>1. /\ list' = list /\ list # "none" /\ req[q].n \in Accounts /\ HasItem(req[q].n)
          /\ TableTypes' /\ \A b \in Accounts \ {req[q].n} : account'[b] = account[b]
      BY <1>0, <1>9, AccountEffect DEF MarkAccount, Base, TableTypes
    <2>2. MoneyTypes'
      BY <1>9, MoneyUnchanged DEF MarkAccount
    <2>3. RequestsFit
      BY <1>0, <1>9, <2>1, RequestMoves DEF MarkAccount
    <2>4. AccountsFit
      BY <2>1 DEF AccountsFit
    <2> QED BY <1>0, <1>9, <2>1, <2>2, <2>3, <2>4, RowsUnchanged, SlotsUnchanged, BaseFrom DEF MarkAccount
  <1>10. CASE EnqueueRetry(q)
    <2>1. /\ req[q].n \in Accounts /\ HasItem(req[q].n) /\ list # "none" /\ list' = list
          /\ req[q].n \in 0 .. NAccounts
      BY <1>0, <1>10, ListConstants DEF EnqueueRetry, Accounts
    <2>2. KeepsRows /\ DOMAIN rows' \ DOMAIN rows = {Len(rows) + 1}
          /\ rows'[Len(rows) + 1] = Queued("retry", req[q].n)
      BY <1>10, <2>1, EnqueueEffect DEF EnqueueRetry, Base, TaskKinds
    <2>3. NewRowsFit
      <3>1. \A t \in DOMAIN rows' \ DOMAIN rows : rows'[t].account = req[q].n
        BY <2>2 DEF Queued
      <3> QED BY <2>1, <3>1 DEF NewRowsFit
    <2>4. TableTypes' /\ AccountsFit /\ MoneyTypes'
      BY <1>0, <1>10, TableUnchanged, MoneyUnchanged DEF EnqueueRetry, TableTypes
    <2>5. RequestsFit
      BY <1>0, <1>10, <2>1, RequestMoves DEF EnqueueRetry
    <2> QED BY <1>0, <1>10, <2>2, <2>3, <2>4, <2>5, SlotsUnchanged, BaseFrom DEF EnqueueRetry
  <1>11. CASE RetrySelected(q)
    <2>1. Len(PairFetched) = 2
      BY DEF PairFetched
    <2>2. MoneyTypes'
      BY <1>0, <1>11, <2>1, Charged DEF RetrySelected, MoneyTypes
    <2>3. TableTypes' /\ AccountsFit /\ RequestsFit
      BY <1>0, <1>11, TableUnchanged, RequestsUnchanged DEF RetrySelected, TableTypes
    <2> QED BY <1>0, <1>11, <2>2, <2>3, RowsUnchanged, SlotsUnchanged, BaseFrom DEF RetrySelected
  <1>12. CASE PollCounts(q)
    <2>1. TableTypes' /\ AccountsFit /\ MoneyTypes'
      BY <1>0, <1>12, TableUnchanged, MoneyUnchanged DEF PollCounts, TableTypes
    <2>2. RequestsFit
      BY <1>0, <1>12, RequestMoves DEF PollCounts
    <2> QED BY <1>0, <1>12, <2>1, <2>2, RowsUnchanged, SlotsUnchanged, BaseFrom DEF PollCounts
  <1>13. CASE PollFinalizes(q)
    <2>1. list' # "none" /\ list' \in {"created", "analyzing", "deleted"} \cup ListFinal
      BY <1>0, <1>13 DEF PollFinalizes, TableTypes, FinalStatus, ListFinal
    <2>2. TableTypes' /\ AccountsFit /\ MoneyTypes'
      BY <1>13, <2>1, TableUnchanged, MoneyUnchanged DEF PollFinalizes
    <2>3. RequestsFit
      BY <1>0, <1>13, <2>1, RequestMoves DEF PollFinalizes
    <2> QED BY <1>0, <1>13, <2>2, <2>3, RowsUnchanged, SlotsUnchanged, BaseFrom DEF PollFinalizes
  <1>14. CASE DeleteList(q)
    <2>1. TableTypes' /\ AccountsFit /\ MoneyTypes' /\ RequestsFit
      BY <1>14, TableUnchanged, MoneyUnchanged, RequestsUnchanged DEF DeleteList
    <2> QED BY <1>0, <1>14, <2>1, RowsUnchanged, SlotsUnchanged, BaseFrom DEF DeleteList
  <1>15. CASE RequestDies(q)
    <2>1. TableTypes' /\ AccountsFit /\ MoneyTypes'
      BY <1>0, <1>15, TableUnchanged, MoneyUnchanged DEF RequestDies, TableTypes
    <2>2. RequestsFit /\ upsets' \in Nat
      BY <1>0, <1>15, RequestMoves DEF RequestDies, Upset
    <2> QED BY <1>15, <2>1, <2>2, RowsUnchanged, SlotsUnchanged, BaseFrom DEF RequestDies
  <1> QED BY <1>1, <1>2, <1>3, <1>4, <1>5, <1>6, <1>7, <1>8, <1>9, <1>10, <1>11, <1>12, <1>13,
             <1>14, <1>15 DEF RequestStep, RequestGoesOn

\* What the stage of a coroutine says of its row.
LEMMA SlotFacts ==
    ASSUME Base, NEW s \in Slots, slot[s].at # "idle"
    PROVE  /\ slot[s].task \in DOMAIN rows /\ slot[s].task # 0 /\ slot[s].task \in Nat
           /\ slot[s].at = "fanout" => rows[slot[s].task].kind = "list_analysis"
           /\ slot[s].at \in ChildStages => rows[slot[s].task].kind = "list_item"
           /\ slot[s].at \in RetryStages => rows[slot[s].task].kind = "retry"
           /\ slot[s].at \in ChildStages \cup RetryStages => Mine(s) \in Accounts /\ HasItem(Mine(s))
  <1>1. /\ slot[s].task \in DOMAIN rows /\ slot[s].task # 0 /\ slot[s].task \in Nat
        /\ slot[s].at = "fanout" => rows[slot[s].task].kind = "list_analysis"
        /\ slot[s].at \in ChildStages => rows[slot[s].task].kind = "list_item"
        /\ slot[s].at \in RetryStages => rows[slot[s].task].kind = "retry"
    BY DEF Base, ListTypes, PlacesFit
  <1>2. ASSUME slot[s].at \in ChildStages \cup RetryStages
        PROVE  Mine(s) \in Accounts /\ HasItem(Mine(s))
    <2> DEFINE t == slot[s].task
    <2>1. t \in DOMAIN rows /\ rows[t].kind \in {"list_item", "retry"}
      BY <1>1, <1>2
    <2>2. rows[t].account \in Accounts
      BY <2>1 DEF Base, PlacesFit
    <2>3. HasItem(rows[t].account)
      BY <2>1 DEF Base, TakenFirst, HasItem
    <2> QED BY <2>2, <2>3 DEF Mine
  <1> QED BY <1>1, <1>2

\* A coroutine goes to a stage that fits its row.
LEMMA StageMoves ==
    ASSUME Base, NEW s \in Slots, NEW p, NEW m \in Nat, slot[s].at # "idle",
           \/ p = "return"
           \/ p \in ChildStages /\ slot[s].at \in ChildStages
           \/ p \in RetryStages /\ slot[s].at \in RetryStages,
           SlotTo(s, p, m)
    PROVE  SlotsFit
  <1>1. p \in Stages /\ p # "idle" /\ p # "fanout"
    BY DEF Stages, ChildStages, RetryStages
  <1>2. /\ slot' \in [Slots -> SlotSet] /\ slot'[s].at = p /\ slot'[s].task = slot[s].task
        /\ \A x \in Slots \ {s} : slot'[x] = slot[x]
    BY <1>1, SlotToEffect DEF Base
  <1>3. "return" \notin ChildStages /\ "return" \notin RetryStages /\ ChildStages \cap RetryStages = {}
    BY DEF ChildStages, RetryStages
  <1>4. StageFits(p, slot[s].task)
    BY <1>1, <1>3, SlotFacts DEF StageFits
  <1> QED BY <1>2, <1>4, SlotMoves

\* The account of a task is set.
LEMMA AccountSet ==
    ASSUME Base, NEW s \in Slots, slot[s].at \in ChildStages \cup RetryStages,
           NEW st \in {"processing", "completed", "failed"}, SetAccount(Mine(s), st)
    PROVE  TableTypes' /\ AccountsFit /\ list' = list
  <1>0. slot[s].at # "idle"
    BY DEF ChildStages, RetryStages
  <1>1. Mine(s) \in Accounts /\ HasItem(Mine(s))
    BY <1>0, SlotFacts
  <1>2. /\ list' = list /\ TableTypes'
        /\ \A b \in Accounts \ {Mine(s)} : account'[b] = account[b]
    BY AccountEffect DEF Base, TableTypes, ListTypes
  <1> QED BY <1>1, <1>2 DEF AccountsFit

LEMMA TaskBase ==
    ASSUME Base, NEW s \in Slots, TaskStep(s)
    PROVE  Base'
  <1> USE DEF SlotAt, Steady
  <1>0. TableTypes /\ MoneyTypes /\ upsets \in Nat
    BY DEF Base, ListTypes, TableTypes, MoneyTypes
  <1>a. ASSUME UNCHANGED listTable PROVE TableTypes' /\ AccountsFit /\ list' = list
    BY <1>0, <1>a, TableUnchanged DEF listTable, TableTypes
  <1>b. /\ {"start", "research", "bad", "check", "finalize", "refund"} = ChildStages
        /\ {"retrying", "retry_bad", "retry_mark"} = RetryStages
    BY DEF ChildStages, RetryStages
  <1>1. CASE TakeTask(s)
    <2>1. PICK t \in DOMAIN rows :
             /\ rows[t].status = "pending"
             /\ rows' = [rows EXCEPT ![t] = [rows[t] EXCEPT !.status = "running", !.tries = rows[t].tries + 1]]
             /\ slot' = [slot EXCEPT ![s] = [at |-> StageOf(rows[t].kind), task |-> t, n |-> 0]]
      BY <1>1 DEF TakeTask
    <2>2. rows \in Seq(Row) /\ rows[t] \in Row /\ rows[t].tries + 1 \in Nat /\ t \in Nat /\ t # 0
      <3>1. rows \in Seq(Row)
        BY DEF Base, ListTypes
      <3>2. rows[t] \in Row /\ t \in Nat /\ t # 0
        BY <3>1
      <3> QED BY <3>1, <3>2 DEF Row
    <2>3. Settles(rows, rows', t, "running")
      BY <2>1, <2>2, RowSet DEF RowStatus
    <2>4. KeepsRows /\ NewRowsFit
      BY <2>3 DEF Settles, KeepsRows, NewRowsFit
    <2>5. /\ rows[t].kind \in TaskKinds
          /\ StageOf(rows[t].kind) = IF rows[t].kind = "list_analysis" THEN "fanout"
                ELSE IF rows[t].kind = "list_item" THEN "start" ELSE "retrying"
      BY <2>2 DEF Row, TaskKinds, StageOf
    <2>6. StageFits(StageOf(rows[t].kind), t)
      BY <2>2, <2>5 DEF StageFits, Stages, ChildStages, RetryStages, TaskKinds
    <2>7. SlotsFit
      <3>1. StageOf(rows[t].kind) \in Stages
        BY <2>6 DEF StageFits
      <3> QED BY <2>1, <2>2, <2>6, <3>1, SlotEffect, SlotMoves DEF Base
    <2>8. TableTypes' /\ AccountsFit /\ MoneyTypes' /\ RequestsFit
      BY <1>1, <1>a, MoneyUnchanged, RequestsUnchanged DEF TakeTask
    <2> QED BY <1>0, <1>1, <2>4, <2>7, <2>8, BaseFrom DEF TakeTask
  <1>2. CASE FanOutList(s)
    <2>1. KeepsRows /\ \A t \in DOMAIN rows' \ DOMAIN rows : rows'[t].kind = "list_item" /\ rows'[t].account \in Pending
      BY <1>2, FanOutRows DEF Base
    <2>2. NewRowsFit
      BY <2>1, PendingFinite DEF NewRowsFit
    <2>3. SlotsFit
      BY <1>2, StageMoves DEF FanOutList
    <2>4. TableTypes' /\ AccountsFit /\ MoneyTypes' /\ RequestsFit
      BY <1>2, <1>a, MoneyUnchanged, RequestsUnchanged DEF FanOutList
    <2> QED BY <1>0, <1>2, <2>1, <2>2, <2>3, <2>4, BaseFrom DEF FanOutList
  <1>3. CASE StartAccount(s)
    <2>1. SlotsFit /\ TableTypes' /\ AccountsFit /\ list' = list
      BY <1>3, <1>b, StageMoves, AccountSet DEF StartAccount
    <2>2. MoneyTypes' /\ RequestsFit
      BY <1>3, <2>1, MoneyUnchanged, RequestsUnchanged DEF StartAccount
    <2> QED BY <1>0, <1>3, <2>1, <2>2, RowsUnchanged, BaseFrom DEF StartAccount
  <1>4. CASE AccountDone(s)
    <2>1. SlotsFit
      BY <1>4, <1>b, StageMoves DEF AccountDone
    <2>2. TableTypes' /\ AccountsFit /\ list' = list
      BY <1>4, <1>b, AccountSet DEF AccountDone
    <2>3. MoneyTypes' /\ RequestsFit
      BY <1>4, <2>2, MoneyUnchanged, RequestsUnchanged DEF AccountDone
    <2> QED BY <1>0, <1>4, <2>1, <2>2, <2>3, RowsUnchanged, BaseFrom DEF AccountDone
  <1>5. CASE DoneRaises(s)
    <2>1. SlotsFit
      BY <1>5, <1>b, StageMoves DEF DoneRaises
    <2>2. TableTypes' /\ AccountsFit /\ list' = list
      BY <1>5, <1>b, AccountSet DEF DoneRaises
    <2>3. MoneyTypes' /\ RequestsFit /\ upsets' \in Nat
      BY <1>0, <1>5, <2>2, MoneyUnchanged, RequestsUnchanged DEF DoneRaises, Upset
    <2> QED BY <1>5, <2>1, <2>2, <2>3, RowsUnchanged, BaseFrom DEF DoneRaises
  <1>6. CASE AccountFails(s)
    <2>1. SlotsFit
      BY <1>6, <1>b, StageMoves DEF AccountFails
    <2>2. TableTypes' /\ AccountsFit /\ list' = list
      BY <1>6, <1>b, AccountSet DEF AccountFails
    <2>3. MoneyTypes' /\ RequestsFit
      BY <1>6, <2>2, MoneyUnchanged, RequestsUnchanged DEF AccountFails
    <2> QED BY <1>0, <1>6, <2>1, <2>2, <2>3, RowsUnchanged, BaseFrom DEF AccountFails
  <1>7. CASE RetryRefunds(s)
    <2>1. SlotsFit
      BY <1>7, <1>b, StageMoves DEF RetryRefunds
    <2>2. TableTypes' /\ AccountsFit /\ RequestsFit
      BY <1>7, <1>a, RequestsUnchanged DEF RetryRefunds
    <2>3. MoneyTypes'
      BY <1>0, <1>7 DEF RetryRefunds, Refunds, MoneyTypes
    <2> QED BY <1>0, <1>7, <2>1, <2>2, <2>3, RowsUnchanged, BaseFrom DEF RetryRefunds
  <1>8. CASE CheckSiblings(s)
    <2>1. SlotsFit
      BY <1>8, <1>b, StageMoves DEF CheckSiblings
    <2>2. TableTypes' /\ AccountsFit /\ MoneyTypes' /\ RequestsFit
      BY <1>8, <1>a, MoneyUnchanged, RequestsUnchanged DEF CheckSiblings
    <2> QED BY <1>0, <1>8, <2>1, <2>2, RowsUnchanged, BaseFrom DEF CheckSiblings
  <1>9. CASE FinalizeList(s)
    <2>1. list' \in ListFinal
      BY <1>9 DEF FinalizeList, FinalStatus, ListFinal
    <2>2. TableTypes' /\ AccountsFit /\ MoneyTypes' /\ RequestsFit
      BY <1>9, <2>1, TableUnchanged, MoneyUnchanged, RequestsUnchanged DEF FinalizeList, ListFinal
    <2>3. SlotsFit
      BY <1>0, <1>9, <1>b, StageMoves DEF FinalizeList, TableTypes
    <2> QED BY <1>0, <1>9, <2>2, <2>3, RowsUnchanged, BaseFrom DEF FinalizeList
  <1>10. CASE RefundFailed(s)
    <2>1. SlotsFit
      BY <1>10, <1>b, StageMoves DEF RefundFailed
    <2>2. TableTypes' /\ AccountsFit /\ RequestsFit
      BY <1>10, <1>a, RequestsUnchanged DEF RefundFailed
    <2>3. slot[s].n \in Nat
      BY DEF Base, ListTypes
    <2>4. MoneyTypes'
      BY <1>0, <1>10, <2>3 DEF RefundFailed, Refunds, MoneyTypes
    <2> QED BY <1>0, <1>10, <2>1, <2>2, <2>4, RowsUnchanged, BaseFrom DEF RefundFailed
  <1>11. ASSUME NEW st \in RowStatus, slot[s].at # "idle", Leave(s, st),
                UNCHANGED <<listTable, money, req>>, upsets' \in Nat
         PROVE  Base'
    <2>1. KeepsRows /\ SlotsFit /\ Settles(rows, rows', slot[s].task, st)
      BY <1>11, LeaveEffect, SlotMoves DEF Base
    <2>2. NewRowsFit
      BY <2>1 DEF Settles, NewRowsFit
    <2>3. TableTypes' /\ AccountsFit /\ MoneyTypes' /\ RequestsFit
      BY <1>11, <1>a, MoneyUnchanged, RequestsUnchanged
    <2> QED BY <1>11, <2>1, <2>2, <2>3, BaseFrom
  <1>12. CASE TaskReturns(s)
    BY <1>0, <1>11, <1>12 DEF TaskReturns, RowStatus
  <1>13. CASE TaskRaises(s)
    <2>1. Again(slot[s].task) \in RowStatus /\ slot[s].at # "idle" /\ upsets' \in Nat
      BY <1>0, <1>13 DEF TaskRaises, Again, RowStatus, Upset
    <2> QED BY <1>11, <1>13, <2>1 DEF TaskRaises
  <1>14. CASE TaskDies(s)
    <2>1. SlotsFit
      BY <1>14, SlotEffect, SlotMoves DEF TaskDies, Base, Stages
    <2>2. TableTypes' /\ AccountsFit /\ MoneyTypes' /\ RequestsFit /\ upsets' \in Nat
      BY <1>0, <1>14, <1>a, MoneyUnchanged, RequestsUnchanged DEF TaskDies, Upset
    <2> QED BY <1>14, <2>1, <2>2, RowsUnchanged, BaseFrom DEF TaskDies
  <1> QED BY <1>1, <1>2, <1>3, <1>4, <1>5, <1>6, <1>7, <1>8, <1>9, <1>10, <1>12, <1>13, <1>14
          DEF TaskStep, TaskGoesOn

LEMMA BaseStep ==
    ASSUME Base, [ListNext]_listVars
    PROVE  Base'
  <1>1. CASE UNCHANGED listVars
    BY <1>1 DEF listVars, listTable, money, Base, ListTypes, PlacesFit, TakenFirst, NothingYet, HasItem
  <1>2. ASSUME NEW q \in ListRequests, RequestStep(q) PROVE Base'
    BY <1>2, RequestBase
  <1>3. ASSUME NEW s \in Slots, TaskStep(s) PROVE Base'
    BY <1>3, TaskBase
  <1>4. ASSUME NEW t \in DOMAIN rows, RequeueStale(t) PROVE Base'
    <2>1. rows \in Seq(Row) /\ rows[t] \in Row
      <3>1. rows \in Seq(Row)
        BY DEF Base, ListTypes
      <3> QED BY <3>1
    <2>2. rows[t].tries + 1 \in Nat /\ upsets' \in Nat
      <3>1. rows[t].tries \in Nat
        BY <2>1 DEF Row
      <3>2. upsets \in Nat
        BY DEF Base, ListTypes
      <3>3. upsets' = upsets + 1 \/ upsets' = upsets
        BY <1>4 DEF RequeueStale, Upset
      <3> QED BY <3>1, <3>2, <3>3
    <2>3. PICK st \in RowStatus : Settles(rows, rows', t, st)
      BY <1>4, <2>1, <2>2, RowSet DEF RequeueStale, RowStatus
    <2>4. KeepsRows /\ NewRowsFit
      BY <2>3 DEF Settles, KeepsRows, NewRowsFit
    <2>5. TableTypes' /\ AccountsFit /\ MoneyTypes'
      BY <1>4, TableUnchanged, MoneyUnchanged DEF RequeueStale, listTable, Base, ListTypes
    <2>6. RequestsFit /\ SlotsFit
      BY <1>4, RequestsUnchanged, SlotsUnchanged DEF RequeueStale, listTable
    <2> QED BY <2>2, <2>4, <2>5, <2>6, BaseFrom
  <1>5. CASE ClaimExpires
    BY <1>5 DEF ClaimExpires, listTable, money, Base, ListTypes, PlacesFit, TakenFirst, NothingYet, HasItem
  <1> QED BY <1>1, <1>2, <1>3, <1>4, <1>5 DEF ListNext
-----------------------------------------------------------------------------
(* The steps in which nothing fails: how the phases of the rows go. *)

Moves(k, p, np) ==
    /\ k \in DOMAIN rows /\ Phase(rows, slot, k) = p /\ Phase(rows', slot', k) = np
    /\ \A t \in DOMAIN rows \ {k} : Phase(rows', slot', t) = Phase(rows, slot, t)
SameRows == KeepsRows /\ DOMAIN rows' = DOMAIN rows

Takes(k) == /\ Moves(k, "pending", StageOf(rows[k].kind)) /\ SameRows
            /\ UNCHANGED <<listTable, money, req, crossed>>
Fans(k) ==
    /\ rows[k].kind = "list_analysis" /\ Moves(k, "fanout", "return")
    /\ Grows(rows, rows', Cardinality(Pending)) /\ KeepsRows
    /\ \A t \in DOMAIN rows' \ DOMAIN rows :
          rows'[t].kind = "list_item" /\ rows'[t].account \in Pending /\ Phase(rows', slot', t) = "pending"
    /\ crossed' = crossed \cup IF \E q \in ListRequests : BetweenResetAndMark(q) THEN {"fanout"} ELSE {}
    /\ UNCHANGED <<listTable, money, req>>
Sets(k, p, np, st) ==
    /\ Moves(k, p, np) /\ SameRows
    /\ SetAccount(rows[k].account, st)
    /\ UNCHANGED <<money, req, crossed>>
Works(k) ==
    \/ /\ rows[k].kind = "list_item"
       /\ \/ Sets(k, "start", "research", "processing")
          \/ Sets(k, "research", "check", "completed") \/ Sets(k, "research", "check", "failed")
    \/ /\ rows[k].kind = "retry"
       /\ Sets(k, "retrying", "return", "completed") \/ Sets(k, "retry_mark", "return", "failed")
Repays(k) == /\ rows[k].kind = "retry" /\ Moves(k, "retrying", "retry_mark") /\ SameRows
             /\ Refunds(1) /\ UNCHANGED <<listTable, req, crossed>>
Ends(k) == /\ Moves(k, "check", "return") \/ Moves(k, "return", "over")
           /\ SameRows /\ UNCHANGED <<listTable, money, req, crossed>>
CalmTurn(k) == Takes(k) \/ Fans(k) \/ Works(k) \/ Repays(k) \/ Ends(k)

CalmStages == Stages \ {"bad", "retry_bad", "finalize", "refund"}
SteadySlots == Held(rows, slot) /\ \A s \in Slots : slot[s].at \in CalmStages

LEMMA RowsAndSlots ==
    ASSUME Base
    PROVE  /\ Holding(rows, slot) /\ 0 \notin DOMAIN rows /\ rows \in Seq(Row)
           /\ \A s \in Slots : slot[s].at \in Stages /\ (slot[s].at = "idle" <=> slot[s].task = 0)
  <1>1. rows \in Seq(Row) /\ \A s \in Slots : slot[s].at \in Stages
    BY DEF Base, ListTypes
  <1>2. 0 \notin DOMAIN rows
    BY <1>1
  <1> QED BY <1>1, <1>2 DEF Base, PlacesFit, Holding

\* A task goes on within its coroutine.
LEMMA SlotTurn ==
    ASSUME Base, SteadySlots, NEW s \in Slots, slot[s].at # "idle", NEW p \in CalmStages, p # "idle",
           NEW m \in Nat, SlotTo(s, p, m), NEW n, rows' = rows \/ Grows(rows, rows', n)
    PROVE  /\ SteadySlots' /\ Moves(slot[s].task, slot[s].at, p)
           /\ \A t \in DOMAIN rows' \ DOMAIN rows : Phase(rows', slot', t) = "pending"
  <1>1. /\ slot'[s].at = p /\ slot'[s].task = slot[s].task
        /\ \A x \in Slots \ {s} : slot'[x] = slot[x]
    BY SlotToEffect DEF Base, CalmStages
  <1>2. Holding(rows, slot) /\ 0 \notin DOMAIN rows /\ Held(rows, slot) /\ slot[s].task # 0
    BY RowsAndSlots DEF SteadySlots
  <1>3. /\ Held(rows', slot') /\ Moves(slot[s].task, slot[s].at, p)
        /\ \A t \in DOMAIN rows' \ DOMAIN rows : Phase(rows', slot', t) = "pending"
    <2>1. Stays(rows, slot, rows', n, s, p, slot')
      BY <1>1, <1>2 DEF Stays
    <2>2. slot[s].task \in DOMAIN rows
      BY <1>2 DEF Holding
    <2> QED BY <2>1, <2>2, TurnStays DEF Moves
  <1>4. \A x \in Slots : slot'[x].at \in CalmStages
    BY <1>1 DEF SteadySlots
  <1> QED BY <1>3, <1>4 DEF SteadySlots

LEMMA CalmTask ==
    ASSUME Base, SteadySlots, NEW s \in Slots, TaskStep(s), upsets' = 0
    PROVE  SteadySlots' /\ \E k \in DOMAIN rows : CalmTurn(k)
  <1> USE DEF SlotAt, Steady
  <1>0. /\ Holding(rows, slot) /\ 0 \notin DOMAIN rows /\ rows \in Seq(Row) /\ slot[s].at \in CalmStages
        /\ slot[s].at # "idle" => slot[s].task \in DOMAIN rows /\ slot[s].task # 0
        /\ slot[s].at = "idle" => slot[s].task = 0
    BY RowsAndSlots DEF SteadySlots, Holding
  <1>u. ~Upset
    BY DEF Upset, Base, ListTypes
  <1>s. /\ \A p \in {"research", "check", "return", "retry_mark"} : p \in CalmStages /\ p # "idle"
        /\ \A p \in {"bad", "retry_bad", "finalize", "refund"} : p \notin CalmStages
    BY DEF CalmStages, Stages, ChildStages, RetryStages
  <1>k. ASSUME rows' = rows PROVE SameRows
    BY <1>k, RowsUnchanged DEF SameRows
  <1>1. CASE TakeTask(s)
    <2>1. PICK k \in DOMAIN rows :
             /\ rows[k].status = "pending"
             /\ rows' = [rows EXCEPT ![k] = [rows[k] EXCEPT !.status = "running", !.tries = rows[k].tries + 1]]
             /\ slot' = [slot EXCEPT ![s] = [at |-> StageOf(rows[k].kind), task |-> k, n |-> 0]]
      BY <1>1 DEF TakeTask
    <2>2. rows[k] \in Row /\ k \in Nat /\ k # 0
      BY <1>0
    <2>3. Settles(rows, rows', k, "running")
      <3>1. rows[k].tries + 1 \in Nat
        BY <2>2 DEF Row
      <3> QED BY <1>0, <2>1, <3>1, RowSet DEF RowStatus
    <2>4. StageOf(rows[k].kind) \in CalmStages
      BY <2>2 DEF Row, TaskKinds, StageOf, CalmStages, Stages, ChildStages, RetryStages
    <2>5. /\ slot'[s].at = StageOf(rows[k].kind) /\ slot'[s].task = k
          /\ \A x \in Slots \ {s} : slot'[x] = slot[x]
      <3>1. StageOf(rows[k].kind) \in Stages
        BY <2>4 DEF CalmStages
      <3> QED BY <2>1, <2>2, <3>1, SlotEffect DEF Base
    <2>6. slot[s].task = 0
      BY <1>0, <1>1 DEF TakeTask
    <2>7. /\ Held(rows', slot')
          /\ Moves(k, "pending", StageOf(rows[k].kind))
      <3>1. Begins(rows, slot, rows', s, k, StageOf(rows[k].kind), slot')
        BY <1>0, <2>1, <2>3, <2>5, <2>6 DEF SteadySlots, Begins
      <3> QED BY <3>1, TurnTakes DEF Moves
    <2>8. SteadySlots'
      BY <2>4, <2>5, <2>7 DEF SteadySlots
    <2>9. SameRows
      BY <2>3 DEF Settles, SameRows, KeepsRows
    <2>10. Takes(k)
      BY <1>1, <2>7, <2>9 DEF Takes, TakeTask
    <2> QED BY <2>8, <2>10 DEF CalmTurn
  <1> DEFINE k == slot[s].task
  <1>2. CASE FanOutList(s)
    <2>1. /\ Grows(rows, rows', Cardinality(Pending)) /\ KeepsRows
          /\ \A t \in DOMAIN rows' \ DOMAIN rows : rows'[t].kind = "list_item" /\ rows'[t].account \in Pending
      BY <1>2, FanOutRows DEF Base
    <2>2. rows[k].kind = "list_analysis" /\ k \in DOMAIN rows
      BY <1>2, SlotFacts DEF FanOutList
    <2>3. /\ SteadySlots' /\ Moves(k, "fanout", "return")
          /\ \A t \in DOMAIN rows' \ DOMAIN rows : Phase(rows', slot', t) = "pending"
      BY <1>2, <1>s, <2>1, SlotTurn DEF FanOutList
    <2> HIDE DEF k
    <2>4. Fans(k)
      BY <1>2, <2>1, <2>2, <2>3 DEF Fans, FanOutList
    <2> QED BY <2>2, <2>3, <2>4 DEF CalmTurn
  <1>3. CASE StartAccount(s)
    <2>1. rows[k].kind = "list_item" /\ k \in DOMAIN rows
      BY <1>3, SlotFacts DEF StartAccount, ChildStages
    <2>2. SteadySlots' /\ Moves(k, "start", "research") /\ SameRows
      BY <1>3, <1>s, <1>k, SlotTurn DEF StartAccount
    <2>3. SetAccount(rows[k].account, "processing") /\ UNCHANGED <<money, req, crossed>>
      BY <1>3 DEF StartAccount, Mine
    <2> HIDE DEF k
    <2>4. Works(k)
      BY <2>1, <2>2, <2>3 DEF Works, Sets
    <2> QED BY <2>1, <2>2, <2>4 DEF CalmTurn
  <1>4. CASE AccountDone(s)
    <2>1. /\ k \in DOMAIN rows
          /\ SlotAt(s, "research") => rows[k].kind = "list_item"
          /\ SlotAt(s, "retrying") => rows[k].kind = "retry"
      BY <1>4, SlotFacts DEF AccountDone, ChildStages, RetryStages
    <2>2. SameRows
      BY <1>4, <1>k DEF AccountDone
    <2>4. SteadySlots' /\ Moves(k, slot[s].at, IF SlotAt(s, "research") THEN "check" ELSE "return")
      BY <1>4, <1>s, SlotTurn DEF AccountDone
    <2>5. SetAccount(rows[k].account, "completed") /\ UNCHANGED <<money, req, crossed>>
      BY <1>4 DEF AccountDone, Mine
    <2>6. slot[s].at = "research" \/ slot[s].at = "retrying"
      BY <1>4 DEF AccountDone
    <2> HIDE DEF k
    <2>7. Works(k)
      BY <2>1, <2>2, <2>4, <2>5, <2>6 DEF Works, Sets
    <2> QED BY <2>1, <2>4, <2>7 DEF CalmTurn
  <1>5. CASE AccountFails(s)
    <2>6. slot[s].at = "research" \/ slot[s].at = "retry_mark"
      BY <1>0, <1>5, <1>s DEF AccountFails
    <2>1. /\ k \in DOMAIN rows
          /\ slot[s].at = "research" => rows[k].kind = "list_item"
          /\ slot[s].at = "retry_mark" => rows[k].kind = "retry"
      BY <2>6, SlotFacts DEF ChildStages, RetryStages
    <2>2. SameRows
      BY <1>5, <1>k DEF AccountFails
    <2>4. SteadySlots' /\ Moves(k, slot[s].at, IF SlotAt(s, "retry_mark") THEN "return" ELSE "check")
      BY <1>5, <1>s, <2>6, SlotTurn DEF AccountFails
    <2>5. SetAccount(rows[k].account, "failed") /\ UNCHANGED <<money, req, crossed>>
      BY <1>5 DEF AccountFails, Mine
    <2> HIDE DEF k
    <2>7. Works(k)
      BY <2>1, <2>2, <2>4, <2>5, <2>6 DEF Works, Sets
    <2> QED BY <2>1, <2>4, <2>7 DEF CalmTurn
  <1>6. CASE RetryRefunds(s)
    <2>1. slot[s].at = "retrying"
      BY <1>0, <1>6, <1>s DEF RetryRefunds
    <2>2. k \in DOMAIN rows /\ rows[k].kind = "retry"
      BY <2>1, SlotFacts DEF RetryStages
    <2>3. SteadySlots' /\ Moves(k, "retrying", "retry_mark") /\ SameRows
      BY <1>6, <1>s, <1>k, <2>1, SlotTurn DEF RetryRefunds
    <2> HIDE DEF k
    <2>4. Repays(k)
      BY <1>6, <2>2, <2>3 DEF Repays, RetryRefunds
    <2> QED BY <2>2, <2>3, <2>4 DEF CalmTurn
  <1>7. CASE CheckSiblings(s)
    <2>1. k \in DOMAIN rows /\ rows[k].kind = "list_item" /\ slot[s].at = "check"
      BY <1>7, SlotFacts DEF CheckSiblings, ChildStages
    <2>2. rows[k].status = "running"
      BY <2>1 DEF SteadySlots, Held
    <2>3. k \in OpenRows
      BY <2>1, <2>2 DEF OpenRows
    <2>4. SlotTo(s, "return", 0) /\ rows' = rows
      BY <1>7, <2>3 DEF CheckSiblings
    <2>5. SteadySlots' /\ Moves(k, "check", "return") /\ SameRows
      BY <1>s, <1>k, <2>1, <2>4, SlotTurn
    <2> HIDE DEF k
    <2>6. Ends(k)
      BY <1>7, <2>5 DEF Ends, CheckSiblings
    <2> QED BY <2>1, <2>5, <2>6 DEF CalmTurn
  <1>8. CASE TaskReturns(s)
    <2>1. k \in DOMAIN rows /\ k # 0 /\ slot[s].at = "return"
      BY <1>0, <1>8 DEF TaskReturns
    <2>2. /\ Settles(rows, rows', k, "completed")
          /\ slot'[s].at = "idle" /\ slot'[s].task = 0
          /\ \A x \in Slots \ {s} : slot'[x] = slot[x]
      BY <1>8, <2>1, LeaveEffect DEF TaskReturns, RowStatus, Base
    <2> DEFINE r == rows
               sl == slot
               nr == rows'
               ns == slot'
    <2>3. k = sl[s].task
      OBVIOUS
    <2> HIDE DEF k
    <2>4. /\ Held(nr, ns)
          /\ Phase(r, sl, k) = "return" /\ Phase(nr, ns, k) = "over"
          /\ \A t \in DOMAIN r \ {k} : Phase(nr, ns, t) = Phase(r, sl, t)
      <3>1. /\ Held(r, sl) /\ Holding(r, sl) /\ 0 \notin DOMAIN r /\ k = sl[s].task /\ k # 0
            /\ Settles(r, nr, k, "completed") /\ sl[s].at = "return"
            /\ ns[s].task = 0 /\ \A u \in Slots \ {s} : ns[u] = sl[u]
        BY <1>0, <2>1, <2>2, <2>3 DEF SteadySlots
      <3> HIDE DEF r, sl, nr, ns
      <3> QED BY <3>1, TurnEnds
    <2>5. SteadySlots'
      <3>1. "idle" \in CalmStages
        BY DEF CalmStages, Stages
      <3> QED BY <2>2, <2>4, <3>1 DEF SteadySlots
    <2>6. SameRows
      BY <2>2 DEF Settles, SameRows, KeepsRows
    <2>7. Ends(k)
      BY <1>8, <2>1, <2>4, <2>6 DEF Ends, Moves, TaskReturns
    <2> QED BY <2>1, <2>5, <2>7 DEF CalmTurn
  <1>9. ~FinalizeList(s) /\ ~RefundFailed(s) /\ ~TaskRaises(s)
    BY <1>0, <1>s, <1>u DEF FinalizeList, RefundFailed, TaskRaises
  <1>10. ~DoneRaises(s) /\ ~TaskDies(s)
    BY <1>u DEF DoneRaises, TaskDies
  <1> QED BY <1>1, <1>2, <1>3, <1>4, <1>5, <1>6, <1>7, <1>8, <1>9, <1>10 DEF TaskStep, TaskGoesOn

PhasesKept == \A t \in DOMAIN rows : Phase(rows', slot', t) = Phase(rows, slot, t)

\* A request puts a row on the queue.
LEMMA EnqueueTurn ==
    ASSUME Base, SteadySlots, slot' = slot, NEW of \in TaskKinds, NEW a \in 0 .. NAccounts, Enqueue(of, a)
    PROVE  /\ SteadySlots' /\ PhasesKept /\ KeepsRows
           /\ DOMAIN rows' \ DOMAIN rows = {Len(rows) + 1}
           /\ rows'[Len(rows) + 1] = Queued(of, a)
           /\ Phase(rows', slot', Len(rows) + 1) = "pending"
  <1>1. /\ Grows(rows, rows', 1) /\ KeepsRows
        /\ DOMAIN rows' \ DOMAIN rows = {Len(rows) + 1} /\ rows'[Len(rows) + 1] = Queued(of, a)
    BY EnqueueEffect DEF Base
  <1>2. Holding(rows, slot) /\ 0 \notin DOMAIN rows /\ Held(rows, slot)
    BY RowsAndSlots DEF SteadySlots
  <1>3. /\ Held(rows', slot)
        /\ \A t \in DOMAIN rows : Phase(rows', slot, t) = Phase(rows, slot, t)
        /\ \A t \in DOMAIN rows' \ DOMAIN rows : Phase(rows', slot, t) = "pending"
    BY <1>1, <1>2, RowsRest
  <1>4. Len(rows) + 1 \in DOMAIN rows' \ DOMAIN rows
    BY <1>1
  <1> QED BY <1>1, <1>3, <1>4 DEF SteadySlots, PhasesKept

LEMMA RequestTurn ==
    ASSUME Base, SteadySlots, NEW q \in ListRequests, RequestStep(q)
    PROVE  SteadySlots' /\ PhasesKept /\ upsets' \in {upsets, upsets + 1}
  <1> USE DEF Elsewhere
  <1>1. slot' = slot /\ upsets' \in {upsets, upsets + 1}
    <2>1. CASE RequestGoesOn(q)
      BY <2>1 DEF RequestGoesOn, MakeList, EnqueueAnalysis, CountPending, PayForPending, ResetAccount,
         MarkAccount, EnqueueRetry, PollFinalizes
    <2>2. CASE ~RequestGoesOn(q)
      BY <2>2 DEF RequestStep, PollCounts, PayForList, StartAnalysis, RetryPays, RetrySelected, DeleteList,
         RequestDies, Upset
    <2> QED BY <2>1, <2>2
  <1>2. CASE EnqueueAnalysis(q)
    <2>1. Enqueue("list_analysis", 0) /\ 0 \in 0 .. NAccounts /\ "list_analysis" \in TaskKinds
      BY <1>2, ListConstants DEF EnqueueAnalysis, TaskKinds
    <2> QED BY <1>1, <2>1, EnqueueTurn
  <1>3. CASE EnqueueRetry(q)
    <2>1. Enqueue("retry", req[q].n) /\ req[q].at = "retry"
      BY <1>3 DEF EnqueueRetry, ReqAt
    <2>2. req[q].n \in 0 .. NAccounts /\ "retry" \in TaskKinds
      BY <2>1, ListConstants DEF Base, PlacesFit, Accounts, TaskKinds
    <2> QED BY <1>1, <2>1, <2>2, EnqueueTurn
  <1>4. CASE ~EnqueueAnalysis(q) /\ ~EnqueueRetry(q)
    <2>1. rows' = rows
      <3>1. CASE RequestGoesOn(q)
        BY <1>4, <3>1 DEF RequestGoesOn, MakeList, CountPending, PayForPending, ResetAccount,
           MarkAccount, PollFinalizes
      <3>2. CASE ~RequestGoesOn(q)
        BY <3>2 DEF RequestStep, PollCounts, PayForList, StartAnalysis, RetryPays, RetrySelected, DeleteList,
           RequestDies
      <3> QED BY <3>1, <3>2
    <2> QED BY <1>1, <2>1 DEF SteadySlots, PhasesKept
  <1> QED BY <1>1, <1>2, <1>3, <1>4

NothingMoves == UNCHANGED <<listTable, money, rows, req, slot, crossed>>

LEMMA CalmStep ==
    ASSUME Base, Steadily, [ListNext]_listVars, upsets' = 0
    PROVE  /\ upsets = 0 /\ SteadySlots /\ SteadySlots'
           /\ \/ \E k \in DOMAIN rows : CalmTurn(k)
              \/ \E q \in ListRequests : RequestStep(q) /\ PhasesKept
              \/ NothingMoves
  <1>0. upsets \in Nat
    BY DEF Base, ListTypes
  <1>1. upsets = 0
    <2>1. ASSUME NEW q \in ListRequests, RequestStep(q) PROVE upsets' \in {upsets, upsets + 1}
      <3>1. CASE RequestGoesOn(q)
        BY <3>1 DEF RequestGoesOn, MakeList, EnqueueAnalysis, CountPending, PayForPending, ResetAccount,
           MarkAccount, EnqueueRetry, PollFinalizes
      <3>2. CASE ~RequestGoesOn(q)
        BY <2>1, <3>2 DEF RequestStep, PollCounts, PayForList, StartAnalysis, RetryPays, RetrySelected,
           DeleteList, RequestDies, Upset
      <3> QED BY <3>1, <3>2
    <2>2. ASSUME NEW s \in Slots, TaskStep(s) PROVE upsets' \in {upsets, upsets + 1}
      <3>1. CASE TaskGoesOn(s)
        BY <3>1 DEF TaskGoesOn, TakeTask, FanOutList, StartAccount, AccountDone, AccountFails, RetryRefunds,
           CheckSiblings, FinalizeList, RefundFailed, TaskReturns, Steady
      <3>2. CASE ~TaskGoesOn(s)
        BY <2>2, <3>2 DEF TaskStep, DoneRaises, TaskRaises, TaskDies, Upset
      <3> QED BY <3>1, <3>2
    <2>3. ASSUME NEW t \in DOMAIN rows, RequeueStale(t) PROVE upsets' \in {upsets, upsets + 1}
      BY <2>3 DEF RequeueStale, Upset
    <2>4. ClaimExpires \/ UNCHANGED listVars => upsets' = upsets
      BY DEF ClaimExpires, listVars
    <2>5. upsets' \in {upsets, upsets + 1}
      BY <2>1, <2>2, <2>3, <2>4 DEF ListNext
    <2> QED BY <1>0, <2>5
  <1>2. SteadySlots
    BY <1>1 DEF Steadily, SteadySlots, Base, ListTypes, CalmStages
  <1>3. ASSUME NEW s \in Slots, TaskStep(s) PROVE SteadySlots' /\ \E k \in DOMAIN rows : CalmTurn(k)
    BY <1>2, <1>3, CalmTask
  <1>4. ASSUME NEW q \in ListRequests, RequestStep(q) PROVE SteadySlots' /\ PhasesKept
    BY <1>2, <1>4, RequestTurn
  <1>5. ASSUME NEW t \in DOMAIN rows, RequeueStale(t) PROVE FALSE
    <2>1. rows[t].status = "running" /\ (~\E s \in Slots : slot[s].task = t)
      BY <1>0, <1>5 DEF RequeueStale, Upset
    <2> QED BY <1>2, <2>1 DEF SteadySlots, Held
  <1>6. CASE ClaimExpires \/ UNCHANGED listVars
    BY <1>2, <1>6 DEF ClaimExpires, listVars, SteadySlots, NothingMoves
  <1> QED BY <1>1, <1>2, <1>3, <1>4, <1>5, <1>6 DEF ListNext

LEMMA SteadilyStep ==
    ASSUME Base, Steadily, [ListNext]_listVars
    PROVE  Steadily'
  <1>1. CASE upsets' = 0
    <2>1. SteadySlots'
      BY <1>1, CalmStep
    <2>2. \A p \in CalmStages : p \notin {"bad", "retry_bad", "finalize", "refund"}
      BY DEF CalmStages
    <2> QED BY <2>1, <2>2 DEF SteadySlots, Steadily
  <1>2. CASE upsets' # 0
    BY <1>2 DEF Steadily
  <1> QED BY <1>1, <1>2
-----------------------------------------------------------------------------
(* The refunds of the retries. *)

LEMMA RowsFinite ==
    ASSUME NEW r \in Seq(Row), NEW S, S \subseteq DOMAIN r
    PROVE  IsFiniteSet(S) /\ Cardinality(S) \in Nat
  <1>1. DOMAIN r = 1 .. Len(r) /\ Len(r) \in Nat
    OBVIOUS
  <1>2. IsFiniteSet(1 .. Len(r))
    BY <1>1, FS_Interval
  <1> QED BY <1>1, <1>2, FS_Subset, FS_CardinalityType

LEMMA SmallerSet ==
    ASSUME NEW S, IsFiniteSet(S), NEW T, T \subseteq S
    PROVE  Cardinality(T) \in Nat /\ Cardinality(S) \in Nat /\ Cardinality(T) <= Cardinality(S) /\ IsFiniteSet(T)
  BY FS_Subset, FS_CardinalityType

LEMMA OneMore ==
    ASSUME NEW S, IsFiniteSet(S), NEW T, NEW x, T \subseteq S \cup {x}
    PROVE  Cardinality(T) \in Nat /\ Cardinality(S) \in Nat /\ Cardinality(T) <= Cardinality(S) + 1
  <1>1. IsFiniteSet(S \cup {x}) /\ Cardinality(S \cup {x}) \in {Cardinality(S), Cardinality(S) + 1}
    BY FS_AddElement
  <1>2. Cardinality(S) \in Nat
    BY FS_CardinalityType
  <1>3. Cardinality(T) \in Nat /\ Cardinality(T) <= Cardinality(S \cup {x})
    BY <1>1, SmallerSet
  <1> QED BY <1>1, <1>2, <1>3

LEMMA OneLess ==
    ASSUME NEW S, IsFiniteSet(S), NEW T, NEW x \in S, T \subseteq S \ {x}
    PROVE  Cardinality(T) \in Nat /\ Cardinality(S) \in Nat /\ Cardinality(T) + 1 <= Cardinality(S)
  <1>1. IsFiniteSet(S \ {x}) /\ Cardinality(S \ {x}) = Cardinality(S) - 1
    BY FS_RemoveElement
  <1>2. Cardinality(S) \in Nat
    BY FS_CardinalityType
  <1>3. Cardinality(T) \in Nat /\ Cardinality(T) <= Cardinality(S \ {x})
    BY <1>1, SmallerSet
  <1> QED BY <1>1, <1>2, <1>3

LEMMA SetsFinite ==
    ASSUME Base
    PROVE  /\ IsFiniteSet(Unrepaid) /\ IsFiniteSet(Retrying) /\ IsFiniteSet(Unfanned) /\ IsFiniteSet(Waiting)
           /\ IsFiniteSet(RowsOf("list_item")) /\ IsFiniteSet(Fresh)
  <1>1. rows \in Seq(Row)
    BY DEF Base, ListTypes
  <1>2. Unrepaid \subseteq DOMAIN rows /\ Unfanned \subseteq DOMAIN rows /\ RowsOf("list_item") \subseteq DOMAIN rows
    BY DEF Unrepaid, Unfanned, RowsOf
  <1>3. IsFiniteSet(Unrepaid) /\ IsFiniteSet(Unfanned) /\ IsFiniteSet(RowsOf("list_item"))
    BY <1>1, <1>2, RowsFinite
  <1>4. Retrying \subseteq ListRequests /\ Waiting \subseteq ListRequests /\ Fresh \subseteq Accounts
    BY DEF Retrying, Waiting, Fresh
  <1>5. IsFiniteSet(Retrying) /\ IsFiniteSet(Waiting) /\ IsFiniteSet(Fresh)
    <2>1. IsFiniteSet(ListRequests) /\ IsFiniteSet(Accounts)
      BY PendingFinite, ListConstants
    <2> QED BY <1>4, <2>1, FS_Subset
  <1> QED BY <1>3, <1>5

\* What each request does to the money, the rows and its place.
LEMMA RetriesOfRequests ==
    ASSUME Base, SteadySlots, NEW q \in ListRequests, RequestStep(q), PhasesKept
    PROVE  \/ /\ Unrepaid' \subseteq Unrepaid /\ Retrying' \subseteq Retrying
              /\ paid' >= paid /\ back' = back
           \/ /\ Unrepaid' \subseteq Unrepaid /\ Retrying' \subseteq Retrying \cup {q}
              /\ paid' = paid + 1 /\ back' = back
           \/ /\ Unrepaid' \subseteq Unrepaid \cup {Len(rows) + 1} /\ q \in Retrying
              /\ Retrying' \subseteq Retrying \ {q} /\ paid' = paid /\ back' = back
  <1> USE DEF Elsewhere, ReqAt
  <1>0. /\ paid \in Nat /\ back \in Nat /\ credits \in Nat /\ req[q].n \in Nat /\ req[q].at \in Places
        /\ {"idle", "upload", "create", "enqueue", "started", "counted", "reset", "mark", "retry", "finalize"} = Places
        /\ NAccounts \in Nat
    BY ListConstants DEF Base, ListTypes, Places
  <1>1. ASSUME NEW p \in Places, NEW m \in Nat, ReqTo(q, p, m)
        PROVE  /\ p \notin {"reset", "mark", "retry"} \/ req[q].at \in {"reset", "mark", "retry"} => Retrying' \subseteq Retrying
               /\ p \notin {"reset", "mark", "retry"} => Retrying' \subseteq Retrying \ {q}
               /\ Retrying' \subseteq Retrying \cup {q}
    <2>1. req'[q].at = p /\ \A x \in ListRequests \ {q} : req'[x] = req[x]
      BY <1>1, ReqEffect DEF Base
    <2> QED BY <2>1 DEF Retrying
  <1>2. ASSUME rows' = rows PROVE Unrepaid' \subseteq Unrepaid
    BY <1>2 DEF Unrepaid, PhasesKept
  <1>3. ASSUME NEW n \in Nat, Charge(n) PROVE paid' = paid + n /\ paid' >= paid /\ back' = back
    BY <1>0, <1>3 DEF Charge
  <1>m. UNCHANGED money => paid' >= paid /\ paid' = paid /\ back' = back
    BY <1>0 DEF money
  <1>4. CASE RetryPays(q)
    <2>1. PICK a \in Accounts : Charge(1) /\ ReqTo(q, "reset", a)
      BY <1>4 DEF RetryPays
    <2>2. a \in Nat /\ rows' = rows
      BY <1>4 DEF Accounts, RetryPays
    <2>3. Retrying' \subseteq Retrying \cup {q}
      BY <1>0, <1>1, <2>1, <2>2
    <2> QED BY <1>2, <1>3, <2>1, <2>2, <2>3
  <1>5. CASE EnqueueRetry(q)
    <2>1. Retrying' \subseteq Retrying \ {q}
      BY <1>0, <1>1, <1>5 DEF EnqueueRetry
    <2>2. q \in Retrying
      BY <1>5 DEF EnqueueRetry, Retrying
    <2>3. KeepsRows /\ DOMAIN rows' \ DOMAIN rows = {Len(rows) + 1}
      <3>1. req[q].n \in 0 .. NAccounts /\ "retry" \in TaskKinds
        BY <1>0, <1>5 DEF EnqueueRetry, Base, PlacesFit, Accounts, TaskKinds
      <3> QED BY <1>5, <3>1, EnqueueTurn DEF EnqueueRetry
    <2>4. Unrepaid' \subseteq Unrepaid \cup {Len(rows) + 1}
      BY <2>3 DEF Unrepaid, PhasesKept, KeepsRows
    <2> QED BY <1>5, <1>m, <2>1, <2>2, <2>4 DEF EnqueueRetry
  <1>6. CASE EnqueueAnalysis(q)
    <2>1. /\ KeepsRows /\ DOMAIN rows' \ DOMAIN rows = {Len(rows) + 1}
          /\ rows'[Len(rows) + 1] = Queued("list_analysis", 0)
      <3>1. 0 \in 0 .. NAccounts /\ "list_analysis" \in TaskKinds
        BY <1>0 DEF TaskKinds
      <3> QED BY <1>6, <3>1, EnqueueTurn DEF EnqueueAnalysis
    <2>2. \A t \in DOMAIN rows' \ DOMAIN rows : rows'[t].kind # "retry"
      BY <2>1 DEF Queued
    <2>3. Unrepaid' \subseteq Unrepaid
      BY <2>1, <2>2 DEF Unrepaid, PhasesKept, KeepsRows
    <2>4. Retrying' \subseteq Retrying
      BY <1>0, <1>1, <1>6 DEF EnqueueAnalysis
    <2> QED BY <1>6, <1>m, <2>3, <2>4 DEF EnqueueAnalysis
  <1>7. ASSUME rows' = rows, Retrying' \subseteq Retrying, paid' >= paid, back' = back
        PROVE  Unrepaid' \subseteq Unrepaid /\ Retrying' \subseteq Retrying /\ paid' >= paid /\ back' = back
    BY <1>2, <1>7
  <1>8. CASE UNCHANGED <<rows, req>> /\ paid' >= paid /\ back' = back
    <2>1. Retrying' \subseteq Retrying
      BY <1>8 DEF Retrying
    <2> QED BY <1>7, <1>8, <2>1
  <1>10. ASSUME NEW p \in Places, NEW m \in Nat, ReqTo(q, p, m),
                p \notin {"reset", "mark", "retry"} \/ req[q].at \in {"reset", "mark", "retry"},
                rows' = rows, paid' >= paid, back' = back
         PROVE  Unrepaid' \subseteq Unrepaid /\ Retrying' \subseteq Retrying /\ paid' >= paid /\ back' = back
    BY <1>1, <1>7, <1>10
  <1>11. CASE PayForList(q)
    BY <1>0, <1>3, <1>10, <1>11 DEF PayForList
  <1>12. CASE MakeList(q)
    BY <1>0, <1>8, <1>10, <1>12, <1>m DEF MakeList
  <1>13. CASE StartAnalysis(q)
    BY <1>0, <1>10, <1>13, <1>m DEF StartAnalysis
  <1>14. CASE CountPending(q)
    <2>1. Cardinality(Pending) \in Nat
      BY PendingFinite
    <2> QED BY <1>0, <1>10, <1>14, <1>m, <2>1 DEF CountPending
  <1>15. CASE PayForPending(q)
    <2>1. paid' >= paid /\ back' = back
      BY <1>0, <1>3, <1>15 DEF PayForPending
    <2> QED BY <1>0, <1>10, <1>15, <2>1 DEF PayForPending
  <1>16. CASE ResetAccount(q)
    BY <1>0, <1>10, <1>16, <1>m DEF ResetAccount
  <1>17. CASE MarkAccount(q)
    BY <1>0, <1>10, <1>17, <1>m DEF MarkAccount
  <1>18. CASE RetrySelected(q)
    <2>1. Len(PairFetched) \in Nat
      BY DEF PairFetched
    <2> QED BY <1>3, <1>8, <1>18, <2>1 DEF RetrySelected
  <1>19. CASE PollCounts(q)
    BY <1>0, <1>10, <1>19, <1>m DEF PollCounts
  <1>20. CASE PollFinalizes(q)
    BY <1>0, <1>10, <1>20, <1>m DEF PollFinalizes
  <1>21. CASE DeleteList(q)
    BY <1>8, <1>21, <1>m DEF DeleteList
  <1>22. CASE RequestDies(q)
    BY <1>0, <1>10, <1>22, <1>m DEF RequestDies
  <1> QED BY <1>4, <1>5, <1>6, <1>11, <1>12, <1>13, <1>14, <1>15, <1>16, <1>17, <1>18, <1>19, <1>20,
             <1>21, <1>22 DEF RequestStep, RequestGoesOn

LEMMA RetriesOfTasks ==
    ASSUME Base, NEW k \in DOMAIN rows, CalmTurn(k)
    PROVE  /\ Retrying' = Retrying /\ paid' = paid
           /\ \/ Unrepaid' \subseteq Unrepaid /\ back' = back
              \/ k \in Unrepaid /\ Unrepaid' \subseteq Unrepaid \ {k} /\ back' = back + 1
  <1>1. ASSUME req' = req PROVE Retrying' = Retrying
    BY <1>1 DEF Retrying
  <1>2. CASE Takes(k)
    <2>1. rows[k].kind = "retry" => StageOf(rows[k].kind) = "retrying"
      BY DEF StageOf
    <2>2. Unrepaid' \subseteq Unrepaid
      BY <1>2, <2>1 DEF Takes, Moves, SameRows, KeepsRows, Unrepaid
    <2> QED BY <1>1, <1>2, <2>2 DEF Takes, money
  <1>3. CASE Fans(k)
    <2>1. Unrepaid' \subseteq Unrepaid
      BY <1>3 DEF Fans, Moves, KeepsRows, Unrepaid
    <2> QED BY <1>1, <1>3, <2>1 DEF Fans, money
  <1>4. ASSUME NEW p, NEW np, NEW st, Sets(k, p, np, st), rows[k].kind = "retry" => np \notin {"pending", "retrying"}
        PROVE  Unrepaid' \subseteq Unrepaid /\ req' = req /\ paid' = paid /\ back' = back
    <2>1. Unrepaid' \subseteq Unrepaid
      BY <1>4 DEF Sets, Moves, SameRows, KeepsRows, Unrepaid
    <2> QED BY <1>4, <2>1 DEF Sets, money
  <1>5. CASE Works(k)
    BY <1>1, <1>4, <1>5 DEF Works
  <1>6. CASE Repays(k)
    <2>1. k \in Unrepaid /\ Unrepaid' \subseteq Unrepaid \ {k}
      BY <1>6 DEF Repays, Moves, SameRows, KeepsRows, Unrepaid
    <2> QED BY <1>1, <1>6, <2>1 DEF Repays, Refunds
  <1>7. CASE Ends(k)
    <2>1. Unrepaid' \subseteq Unrepaid
      BY <1>7 DEF Ends, Moves, SameRows, KeepsRows, Unrepaid
    <2> QED BY <1>1, <1>7, <2>1 DEF Ends, money
  <1> QED BY <1>2, <1>3, <1>5, <1>6, <1>7 DEF CalmTurn

LEMMA RefundsStep ==
    ASSUME Base, Steadily, RefundsPaid, [ListNext]_listVars
    PROVE  RefundsPaid'
  <1> SUFFICES ASSUME upsets' = 0
               PROVE  back' + Cardinality(Unrepaid') + Cardinality(Retrying') <= paid'
    BY DEF RefundsPaid
  <1> DEFINE u == Cardinality(Unrepaid)
             w == Cardinality(Retrying)
             nu == Cardinality(Unrepaid')
             nw == Cardinality(Retrying')
  <1>1. /\ upsets = 0 /\ SteadySlots
        /\ \/ \E k \in DOMAIN rows : CalmTurn(k)
           \/ \E q \in ListRequests : RequestStep(q) /\ PhasesKept
           \/ NothingMoves
    BY CalmStep
  <1>2. back + u + w <= paid /\ u \in Nat /\ w \in Nat /\ back \in Nat /\ paid \in Nat
    <2>1. u \in Nat /\ w \in Nat
      BY SetsFinite, FS_CardinalityType
    <2> QED BY <1>1, <2>1 DEF RefundsPaid, Base, ListTypes
  <1>3. IsFiniteSet(Unrepaid) /\ IsFiniteSet(Retrying)
    BY SetsFinite
  <1>4. ASSUME Unrepaid' \subseteq Unrepaid, Retrying' \subseteq Retrying, paid' \in Nat, paid' >= paid, back' = back
        PROVE  back' + nu + nw <= paid'
    <2>1. nu \in Nat /\ nu <= u /\ nw \in Nat /\ nw <= w
      BY <1>3, <1>4, SmallerSet
    <2> HIDE DEF u, w, nu, nw
    <2> QED BY <1>2, <1>4, <2>1
  <1>5. ASSUME NEW k \in Unrepaid, Unrepaid' \subseteq Unrepaid \ {k}, Retrying' = Retrying, paid' = paid,
               back' = back + 1
        PROVE  back' + nu + nw <= paid'
    <2>1. nu \in Nat /\ nu + 1 <= u /\ nw = w
      BY <1>3, <1>5, OneLess
    <2> HIDE DEF u, w, nu, nw
    <2> QED BY <1>2, <1>5, <2>1
  <1>6. ASSUME NEW q, Unrepaid' \subseteq Unrepaid, Retrying' \subseteq Retrying \cup {q}, paid' = paid + 1, back' = back
        PROVE  back' + nu + nw <= paid'
    <2>1. nu \in Nat /\ nu <= u /\ nw \in Nat /\ nw <= w + 1
      BY <1>3, <1>6, SmallerSet, OneMore
    <2> HIDE DEF u, w, nu, nw
    <2> QED BY <1>2, <1>6, <2>1
  <1>7. ASSUME NEW k, NEW q \in Retrying, Unrepaid' \subseteq Unrepaid \cup {k}, Retrying' \subseteq Retrying \ {q},
               paid' = paid, back' = back
        PROVE  back' + nu + nw <= paid'
    <2>1. nu \in Nat /\ nu <= u + 1 /\ nw \in Nat /\ nw + 1 <= w
      BY <1>3, <1>7, OneLess, OneMore
    <2> HIDE DEF u, w, nu, nw
    <2> QED BY <1>2, <1>7, <2>1
  <1>8. paid' \in Nat
    BY BaseStep DEF Base, ListTypes
  <1>9. ASSUME NEW k \in DOMAIN rows, CalmTurn(k) PROVE back' + nu + nw <= paid'
    <2>1. paid' = paid => paid' >= paid
      BY <1>2
    <2> HIDE DEF u, w, nu, nw
    <2> QED BY <1>4, <1>5, <1>8, <1>9, <2>1, RetriesOfTasks
  <1>10. ASSUME NEW q \in ListRequests, RequestStep(q), PhasesKept PROVE back' + nu + nw <= paid'
    <2> HIDE DEF u, w, nu, nw
    <2> QED BY <1>1, <1>4, <1>6, <1>7, <1>8, <1>10, RetriesOfRequests
  <1>11. ASSUME NothingMoves PROVE back' + nu + nw <= paid'
    BY <1>2, <1>11 DEF NothingMoves, money, Unrepaid, Retrying
  <1> HIDE DEF u, w, nu, nw
  <1>12. back' + nu + nw <= paid'
    <2>1. CASE \E k \in DOMAIN rows : CalmTurn(k)
      BY <1>9, <2>1
    <2>2. CASE \E q \in ListRequests : RequestStep(q) /\ PhasesKept
      BY <1>10, <2>2
    <2> QED BY <1>1, <1>11, <2>1, <2>2
  <1> QED BY <1>12 DEF nu, nw
-----------------------------------------------------------------------------
(* The analyses that were paid for. *)

LEMMA Products ==
    ASSUME NEW x \in Nat, NEW y \in Nat, NEW f \in Nat, NEW g \in Nat, x <= y, f <= g
    PROVE  /\ x * f \in Nat /\ y * g \in Nat /\ x * f <= y * g
           /\ x * g \in Nat /\ (x + 1) * g = x * g + g
  <1>1. PICK d \in Nat : y = x + d
    <2>1. y - x \in Nat /\ y = x + (y - x)
      OBVIOUS
    <2> QED BY <2>1
  <1>2. PICK e \in Nat : g = f + e
    <2>1. g - f \in Nat /\ g = f + (g - f)
      OBVIOUS
    <2> QED BY <2>1
  <1>3. y * g = x * f + x * e + d * f + d * e
    BY <1>1, <1>2
  <1>4. x * f \in Nat /\ x * e \in Nat /\ d * f \in Nat /\ d * e \in Nat /\ x * g \in Nat
    OBVIOUS
  <1>5. x * f <= y * g
    BY <1>3, <1>4
  <1>6. y * g \in Nat /\ (x + 1) * g = x * g + g
    OBVIOUS
  <1> QED BY <1>4, <1>5, <1>6

ReqCounts == \A x \in ListRequests :
    req'[x].at = "counted" => req'[x] = req[x] \/ Cardinality(Fresh) <= req'[x].n

LEMMA AnalysesOfTasks ==
    ASSUME Base, NEW k \in DOMAIN rows, CalmTurn(k)
    PROVE  /\ Waiting' = Waiting /\ req' = req /\ paid' = paid /\ lost' = lost
           /\ Fresh' \subseteq Fresh /\ crossed \subseteq crossed'
           /\ \/ Unfanned' \subseteq Unfanned /\ RowsOf("list_item")' \subseteq RowsOf("list_item")
              \/ /\ k \in Unfanned /\ Unfanned' \subseteq Unfanned \ {k}
                 /\ Cardinality(RowsOf("list_item")') \in Nat
                 /\ Cardinality(RowsOf("list_item")') <= Cardinality(RowsOf("list_item")) + Cardinality(Pending)
                 /\ "fanout" \notin crossed' => Pending \subseteq Fresh
  <1>1. ASSUME req' = req PROVE Waiting' = Waiting
    BY <1>1 DEF Waiting
  <1>2. ASSUME req' = req, listTable' = listTable PROVE Fresh' = Fresh
    BY <1>2 DEF Fresh, listTable
  <1>3. CASE Takes(k)
    <2>1. rows[k].kind = "list_analysis" => StageOf(rows[k].kind) = "fanout"
      BY DEF StageOf
    <2>2. Unfanned' \subseteq Unfanned /\ RowsOf("list_item")' \subseteq RowsOf("list_item")
      BY <1>3, <2>1 DEF Takes, Moves, SameRows, KeepsRows, Unfanned, RowsOf
    <2> QED BY <1>1, <1>2, <1>3, <2>2 DEF Takes, money
  <1>4. CASE Fans(k)
    <2>1. k \in Unfanned /\ Unfanned' \subseteq Unfanned \ {k}
      BY <1>4 DEF Fans, Moves, KeepsRows, Unfanned
    <2> DEFINE n == Cardinality(Pending)
               I == RowsOf("list_item")
               J == RowsOf("list_item")'
               N == Len(rows) + 1 .. Len(rows) + n
    <2>2. n \in Nat /\ Len(rows) \in Nat
      BY PendingFinite DEF Base, ListTypes
    <2>3. IsFiniteSet(N) /\ Cardinality(N) = n
      <3> DEFINE a == Len(rows) + 1
                 b == Len(rows) + n
      <3>1. a \in Int /\ b \in Int /\ (IF a > b THEN 0 ELSE b - a + 1) = n
        <4> HIDE DEF n
        <4> QED BY <2>2
      <3> HIDE DEF a, b
      <3>2. IsFiniteSet(a .. b) /\ Cardinality(a .. b) = n
        BY <3>1, FS_Interval
      <3> QED BY <3>2 DEF a, b
    <2>4. J \subseteq I \cup N
      <3>1. DOMAIN rows' \ DOMAIN rows \subseteq N
        BY <1>4, <2>2 DEF Fans, Grows
      <3> QED BY <1>4, <3>1 DEF Fans, KeepsRows, RowsOf
    <2>5. IsFiniteSet(I)
      BY SetsFinite
    <2>6. Cardinality(J) \in Nat /\ Cardinality(J) <= Cardinality(I) + n
      <3> HIDE DEF I, J, N
      <3>1. /\ IsFiniteSet(I \cup N)
            /\ Cardinality(I \cup N) = Cardinality(I) + Cardinality(N) - Cardinality(I \cap N)
        BY <2>3, <2>5, FS_Union
      <3>2. Cardinality(I \cap N) \in Nat /\ Cardinality(I) \in Nat
        BY <2>3, <2>5, FS_Intersection, FS_CardinalityType
      <3>3. Cardinality(J) \in Nat /\ Cardinality(J) <= Cardinality(I \cup N)
        BY <2>4, <3>1, SmallerSet
      <3> HIDE DEF n
      <3> QED BY <2>2, <2>3, <3>1, <3>2, <3>3
    <2>7. ASSUME "fanout" \notin crossed' PROVE Pending \subseteq Fresh
      <3>1. \A q \in ListRequests : ~BetweenResetAndMark(q)
        BY <1>4, <2>7 DEF Fans
      <3> QED BY <3>1 DEF BetweenResetAndMark, ReqAt, Pending, Fresh, Exists
    <2>8. Waiting' = Waiting /\ Fresh' = Fresh /\ req' = req /\ paid' = paid /\ lost' = lost /\ crossed \subseteq crossed'
      BY <1>1, <1>2, <1>4 DEF Fans, money
    <2> QED BY <2>1, <2>6, <2>7, <2>8
  <1>5. ASSUME NEW p, NEW np, NEW st \in {"processing", "completed", "failed"}, Sets(k, p, np, st),
               rows[k].kind # "list_analysis"
        PROVE  /\ Waiting' = Waiting /\ req' = req /\ paid' = paid /\ lost' = lost
               /\ Fresh' \subseteq Fresh /\ crossed \subseteq crossed'
               /\ Unfanned' \subseteq Unfanned /\ RowsOf("list_item")' \subseteq RowsOf("list_item")
    <2>1. Unfanned' \subseteq Unfanned /\ RowsOf("list_item")' \subseteq RowsOf("list_item")
      BY <1>5 DEF Sets, Moves, SameRows, KeepsRows, Unfanned, RowsOf
    <2> DEFINE a == rows[k].account
    <2>2. a \in Accounts
      BY <1>5 DEF Base, PlacesFit
    <2>3. /\ list' = list
          /\ \A b \in Accounts \ {a} : account'[b] = account[b]
          /\ account'[a] = st \/ account' = account
      <3>1. SetAccount(a, st)
        BY <1>5 DEF Sets
      <3> HIDE DEF a
      <3> QED BY <2>2, <3>1, AccountEffect DEF Base
    <2>4. \A b \in Accounts : account'[b] = "pending" => account[b] = "pending"
      <3> HIDE DEF a
      <3> QED BY <2>2, <2>3
    <2>5. req' = req
      BY <1>5 DEF Sets
    <2>6. Fresh' \subseteq Fresh
      BY <2>3, <2>4, <2>5 DEF Fresh
    <2> QED BY <1>1, <1>5, <2>1, <2>5, <2>6 DEF Sets, money
  <1>6. CASE Works(k)
    BY <1>5, <1>6 DEF Works
  <1>7. CASE Repays(k)
    <2>1. Unfanned' \subseteq Unfanned /\ RowsOf("list_item")' \subseteq RowsOf("list_item")
      BY <1>7 DEF Repays, Moves, SameRows, KeepsRows, Unfanned, RowsOf
    <2> QED BY <1>1, <1>2, <1>7, <2>1 DEF Repays, Refunds
  <1>8. CASE Ends(k)
    <2>1. Unfanned' \subseteq Unfanned /\ RowsOf("list_item")' \subseteq RowsOf("list_item")
      BY <1>8 DEF Ends, Moves, SameRows, KeepsRows, Unfanned, RowsOf
    <2> QED BY <1>1, <1>2, <1>8, <2>1 DEF Ends, money
  <1> QED BY <1>3, <1>4, <1>6, <1>7, <1>8 DEF CalmTurn

\* A request that goes on without moving an account of the list leaves what is fresh.
LEMMA FreshStays ==
    ASSUME Base, NEW q \in ListRequests, account' = account, list = "deleted" => list' = "deleted",
           \/ req' = req
           \/ (\A x \in ListRequests \ {q} : req'[x] = req[x]) /\ req[q].at # "mark"
    PROVE  Fresh' \subseteq Fresh
  <1> SUFFICES ASSUME NEW a \in Fresh' PROVE a \in Fresh
    OBVIOUS
  <1>1. /\ list' # "deleted" /\ a \in Accounts /\ account'[a] = "pending"
        /\ \A x \in ListRequests : ~(req'[x].at = "mark" /\ req'[x].n = a)
    BY DEF Fresh
  <1>2. ASSUME NEW x \in ListRequests PROVE ~(req[x].at = "mark" /\ req[x].n = a)
    BY <1>1
  <1> QED BY <1>1, <1>2 DEF Fresh

LEMMA AnalysesOfRequests ==
    ASSUME Base, SteadySlots, AnalysesPaid, upsets = 0, upsets' = 0,
           NEW q \in ListRequests, RequestStep(q), PhasesKept
    PROVE  /\ Fresh' \subseteq Fresh /\ ReqCounts /\ crossed \subseteq crossed'
           /\ RowsOf("list_item")' \subseteq RowsOf("list_item")
           /\ paid' \in Nat /\ lost' \in Nat
           /\ \/ Unfanned' \subseteq Unfanned /\ Waiting' \subseteq Waiting /\ paid' - lost' >= paid - lost
              \/ /\ Unfanned' \subseteq Unfanned \cup {Len(rows) + 1} /\ q \in Waiting
                 /\ Waiting' \subseteq Waiting \ {q} /\ paid' = paid /\ lost' = lost
              \/ /\ Unfanned' \subseteq Unfanned /\ Waiting' \subseteq Waiting \cup {q}
                 /\ \E n \in Nat : Cardinality(Fresh) <= n /\ paid' = paid + n /\ lost' = lost
  <1> USE DEF Elsewhere, ReqAt
  <1> DEFINE W == {"upload", "create", "enqueue"}
  <1>0. /\ paid \in Nat /\ lost \in Nat /\ credits \in Nat /\ req[q].n \in Nat /\ req[q].at \in Places
        /\ {"idle", "upload", "create", "enqueue", "started", "counted", "reset", "mark", "retry", "finalize"} = Places
        /\ NAccounts \in Nat /\ paid - lost >= paid - lost
        /\ list = "none" => req[q].at \in {"idle", "upload", "create"}
        /\ ~Upset
    BY ListConstants DEF Base, ListTypes, Places, NothingYet, Upset
  <1>n. ~RequestDies(q)
    BY <1>0 DEF RequestDies
  <1>1. ASSUME NEW p \in Places, NEW m \in Nat, ReqTo(q, p, m)
        PROVE  /\ p \notin W \/ req[q].at \in W => Waiting' \subseteq Waiting
               /\ p \notin W => Waiting' \subseteq Waiting \ {q}
               /\ Waiting' \subseteq Waiting \cup {q}
               /\ p # "counted" => ReqCounts
               /\ Cardinality(Fresh) <= m => ReqCounts
               /\ \A x \in ListRequests \ {q} : req'[x] = req[x]
               /\ req'[q].at = p /\ req'[q].n = m
    <2>1. req'[q].at = p /\ req'[q].n = m /\ \A x \in ListRequests \ {q} : req'[x] = req[x]
      BY <1>1, ReqEffect DEF Base
    <2> QED BY <2>1 DEF Waiting, ReqCounts
  <1>2. ASSUME rows' = rows
        PROVE  Unfanned' \subseteq Unfanned /\ RowsOf("list_item")' \subseteq RowsOf("list_item")
    BY <1>2 DEF Unfanned, RowsOf, PhasesKept
  <1>3. ASSUME NEW n \in Nat, Charge(n), lost' = lost
        PROVE  paid' = paid + n /\ paid' \in Nat /\ lost' \in Nat /\ paid' - lost' >= paid - lost
    BY <1>0, <1>3 DEF Charge
  <1>m. UNCHANGED money => paid' = paid /\ lost' = lost /\ paid' \in Nat /\ lost' \in Nat /\ paid' - lost' >= paid - lost
    BY <1>0 DEF money
  <1>c. crossed' = crossed => crossed \subseteq crossed'
    OBVIOUS
  <1>f. ASSUME account' = account, list = "deleted" => list' = "deleted",
               NEW p \in Places, NEW m \in Nat, ReqTo(q, p, m), req[q].at # "mark"
        PROVE  Fresh' \subseteq Fresh
    BY <1>1, <1>f, FreshStays
  <1>g. ASSUME account' = account, list = "deleted" => list' = "deleted", req' = req
        PROVE  Fresh' \subseteq Fresh /\ Waiting' \subseteq Waiting /\ ReqCounts
    <2>1. Fresh' \subseteq Fresh
      BY <1>g DEF Fresh
    <2> QED BY <1>g, <2>1 DEF Waiting, ReqCounts
  <1>4. CASE PayForList(q)
    <2>1. ReqTo(q, "upload", 0) \/ ReqTo(q, "create", 0)
      BY <1>4 DEF PayForList
    <2>2. Fresh' \subseteq Fresh
      BY <1>0, <1>4, <1>f, <2>1 DEF PayForList, listTable
    <2>3. Waiting' \subseteq Waiting \cup {q} /\ ReqCounts
      BY <1>0, <1>1, <2>1
    <2>4. Cardinality(Fresh) <= NAccounts
      <3>1. Fresh \subseteq Accounts
        BY DEF Fresh
      <3> QED BY <3>1, PendingFinite, FS_Subset
    <2>5. paid' = paid + NAccounts /\ paid' \in Nat /\ lost' = lost /\ lost' \in Nat
      BY <1>0, <1>3, <1>4 DEF PayForList
    <2> QED BY <1>0, <1>2, <1>4, <1>c, <2>2, <2>3, <2>4, <2>5 DEF PayForList
  <1>5. CASE MakeList(q)
    <2>1. /\ account' = account /\ list = "none" /\ rows' = rows /\ crossed' = crossed /\ UNCHANGED money
          /\ \/ ReqTo(q, "enqueue", 0) /\ req[q].at \in {"upload", "create"}
             \/ req' = req
      BY <1>5 DEF MakeList
    <2>2. Fresh' \subseteq Fresh /\ Waiting' \subseteq Waiting /\ ReqCounts
      BY <1>0, <1>1, <1>f, <1>g, <2>1
    <2> QED BY <1>2, <1>m, <1>c, <2>1, <2>2
  <1>6. CASE EnqueueAnalysis(q)
    <2>1. /\ KeepsRows /\ DOMAIN rows' \ DOMAIN rows = {Len(rows) + 1}
          /\ rows'[Len(rows) + 1] = Queued("list_analysis", 0)
      <3>1. 0 \in 0 .. NAccounts /\ "list_analysis" \in TaskKinds
        BY <1>0 DEF TaskKinds
      <3> QED BY <1>6, <3>1, EnqueueTurn DEF EnqueueAnalysis
    <2>2. Unfanned' \subseteq Unfanned \cup {Len(rows) + 1}
      BY <2>1 DEF Unfanned, PhasesKept, KeepsRows
    <2>3. RowsOf("list_item")' \subseteq RowsOf("list_item")
      <3>1. \A t \in DOMAIN rows' \ DOMAIN rows : rows'[t].kind # "list_item"
        BY <2>1 DEF Queued
      <3> QED BY <2>1, <3>1 DEF RowsOf, KeepsRows
    <2>4. q \in Waiting /\ Waiting' \subseteq Waiting \ {q} /\ ReqCounts
      BY <1>0, <1>1, <1>6 DEF EnqueueAnalysis, Waiting
    <2>5. Fresh' \subseteq Fresh
      BY <1>0, <1>6, <1>f DEF EnqueueAnalysis, listTable
    <2> QED BY <1>6, <1>m, <1>c, <2>2, <2>3, <2>4, <2>5 DEF EnqueueAnalysis
  <1>7. CASE StartAnalysis(q)
    <2>1. Fresh' \subseteq Fresh
      BY <1>0, <1>7, <1>f DEF StartAnalysis, Exists
    <2>2. Waiting' \subseteq Waiting /\ ReqCounts
      BY <1>0, <1>1, <1>7 DEF StartAnalysis
    <2> QED BY <1>2, <1>7, <1>m, <1>c, <2>1, <2>2 DEF StartAnalysis
  <1>8. CASE CountPending(q)
    <2>1. Cardinality(Pending) \in Nat /\ IsFiniteSet(Pending)
      BY PendingFinite
    <2>2. Cardinality(Fresh) <= Cardinality(Pending)
      <3>1. Fresh \subseteq Pending
        BY <1>0, <1>8 DEF CountPending, Fresh, Pending, Exists
      <3> QED BY <2>1, <3>1, FS_Subset
    <2>3. \/ ReqTo(q, "idle", 0)
          \/ ReqTo(q, "counted", Cardinality(Pending))
      BY <1>8 DEF CountPending
    <2>4. Waiting' \subseteq Waiting /\ ReqCounts
      BY <1>0, <1>1, <2>1, <2>2, <2>3
    <2>5. Fresh' \subseteq Fresh
      BY <1>0, <1>8, <1>f, <2>1, <2>3 DEF CountPending, listTable
    <2> QED BY <1>2, <1>8, <1>m, <1>c, <2>4, <2>5 DEF CountPending
  <1>9. CASE PayForPending(q)
    <2>1. Cardinality(Fresh) <= req[q].n
      BY <1>9 DEF PayForPending, AnalysesPaid
    <2>2. ReqTo(q, "enqueue", 0) \/ ReqTo(q, "idle", 0)
      BY <1>9 DEF PayForPending
    <2>3. Fresh' \subseteq Fresh
      BY <1>0, <1>9, <1>f, <2>2 DEF PayForPending, listTable
    <2>4. ReqCounts /\ Waiting' \subseteq Waiting \cup {q}
      BY <1>0, <1>1, <2>2
    <2>5. CASE Charge(req[q].n)
      <3>1. paid' = paid + req[q].n /\ paid' \in Nat /\ lost' = lost /\ lost' \in Nat
        BY <1>0, <1>3, <1>9, <2>5 DEF PayForPending
      <3> QED BY <1>0, <1>2, <1>9, <1>c, <2>1, <2>3, <2>4, <3>1 DEF PayForPending
    <2>6. CASE UNCHANGED <<credits, paid, back>> /\ ReqTo(q, "idle", 0)
      <3>1. Waiting' \subseteq Waiting
        BY <1>0, <1>1, <2>6
      <3>2. UNCHANGED money
        BY <1>9, <2>6 DEF PayForPending, money
      <3> QED BY <1>2, <1>9, <1>c, <1>m, <2>3, <2>4, <3>1, <3>2 DEF PayForPending
    <2> QED BY <1>9, <2>5, <2>6 DEF PayForPending
  <1>10. CASE RetryPays(q)
    <2>1. PICK a \in Accounts : Charge(1) /\ ReqTo(q, "reset", a)
      BY <1>10 DEF RetryPays
    <2>2. a \in Nat
      BY DEF Accounts
    <2>3. Fresh' \subseteq Fresh
      BY <1>0, <1>10, <1>f, <2>1, <2>2 DEF RetryPays, listTable
    <2>4. Waiting' \subseteq Waiting /\ ReqCounts
      BY <1>0, <1>1, <2>1, <2>2
    <2>5. paid' \in Nat /\ lost' \in Nat /\ paid' - lost' >= paid - lost
      BY <1>3, <1>10, <2>1 DEF RetryPays
    <2> QED BY <1>2, <1>10, <1>c, <2>3, <2>4, <2>5 DEF RetryPays
  <1>11. CASE ResetAccount(q)
    <2>1. ReqTo(q, "mark", req[q].n) /\ list' = list /\ rows' = rows
      BY <1>11 DEF ResetAccount
    <2>2. req'[q].at = "mark" /\ req'[q].n = req[q].n /\ \A x \in ListRequests \ {q} : req'[x] = req[x]
      BY <1>0, <1>1, <2>1
    <2>3. \A b \in Accounts \ {req[q].n} : account'[b] = account[b]
      BY <1>11 DEF ResetAccount, Base, ListTypes
    <2>4. Fresh' \subseteq Fresh
      <3> SUFFICES ASSUME NEW a \in Fresh' PROVE a \in Fresh
        OBVIOUS
      <3>1. /\ list' # "deleted" /\ a \in Accounts /\ account'[a] = "pending"
            /\ \A x \in ListRequests : ~(req'[x].at = "mark" /\ req'[x].n = a)
        BY DEF Fresh
      <3>2. a # req[q].n
        BY <2>2, <3>1
      <3>3. \A x \in ListRequests : ~(req[x].at = "mark" /\ req[x].n = a)
        BY <2>2, <3>1, <3>2
      <3> QED BY <2>1, <2>3, <3>1, <3>2, <3>3 DEF Fresh
    <2>5. Waiting' \subseteq Waiting /\ ReqCounts
      BY <1>0, <1>1, <2>1
    <2>6. crossed \subseteq crossed' /\ UNCHANGED money
      BY <1>11 DEF ResetAccount
    <2> QED BY <1>2, <1>m, <2>1, <2>4, <2>5, <2>6
  <1>12. CASE MarkAccount(q)
    <2>1. ReqTo(q, "retry", req[q].n) /\ rows' = rows /\ crossed' = crossed /\ UNCHANGED money /\ req[q].at = "mark"
      BY <1>12 DEF MarkAccount
    <2>2. req'[q].at = "retry" /\ \A x \in ListRequests \ {q} : req'[x] = req[x]
      BY <1>0, <1>1, <2>1
    <2>3. /\ list' = list /\ \A b \in Accounts \ {req[q].n} : account'[b] = account[b]
          /\ Exists /\ req[q].n \in Accounts => account'[req[q].n] = "processing"
      BY <1>12, AccountEffect DEF MarkAccount, Base
    <2>4. Fresh' \subseteq Fresh
      <3> SUFFICES ASSUME NEW a \in Fresh' PROVE a \in Fresh
        OBVIOUS
      <3>1. /\ list' # "deleted" /\ a \in Accounts /\ account'[a] = "pending"
            /\ \A x \in ListRequests : ~(req'[x].at = "mark" /\ req'[x].n = a)
        BY DEF Fresh
      <3>2. a # req[q].n
        BY <1>0, <2>1, <2>3, <3>1 DEF Exists
      <3>3. \A x \in ListRequests : ~(req[x].at = "mark" /\ req[x].n = a)
        BY <2>2, <3>1, <3>2
      <3> QED BY <2>3, <3>1, <3>2, <3>3 DEF Fresh
    <2>5. Waiting' \subseteq Waiting /\ ReqCounts
      BY <1>0, <1>1, <2>1
    <2> QED BY <1>2, <1>m, <1>c, <2>1, <2>4, <2>5
  <1>13. CASE EnqueueRetry(q)
    <2>1. /\ KeepsRows /\ DOMAIN rows' \ DOMAIN rows = {Len(rows) + 1}
          /\ rows'[Len(rows) + 1] = Queued("retry", req[q].n)
      <3>1. req[q].n \in 0 .. NAccounts /\ "retry" \in TaskKinds
        BY <1>0, <1>13 DEF EnqueueRetry, Base, PlacesFit, Accounts, TaskKinds
      <3> QED BY <1>13, <3>1, EnqueueTurn DEF EnqueueRetry
    <2>2. Unfanned' \subseteq Unfanned /\ RowsOf("list_item")' \subseteq RowsOf("list_item")
      <3>1. \A t \in DOMAIN rows' \ DOMAIN rows : rows'[t].kind = "retry"
        BY <2>1 DEF Queued
      <3> QED BY <2>1, <3>1 DEF Unfanned, RowsOf, KeepsRows, PhasesKept
    <2>3. Waiting' \subseteq Waiting /\ ReqCounts
      BY <1>0, <1>1, <1>13 DEF EnqueueRetry
    <2>4. Fresh' \subseteq Fresh
      BY <1>0, <1>13, <1>f DEF EnqueueRetry, listTable
    <2> QED BY <1>13, <1>m, <1>c, <2>2, <2>3, <2>4 DEF EnqueueRetry
  <1>14. CASE RetrySelected(q)
    <2>1. Len(PairFetched) = 2
      BY DEF PairFetched
    <2>2. paid' = paid + 2 /\ lost' = lost + 2
      BY <1>14, <2>1 DEF RetrySelected, Charge
    <2>3. paid' \in Nat /\ lost' \in Nat /\ paid' - lost' >= paid - lost
      BY <1>0, <2>2
    <2>4. Fresh' \subseteq Fresh /\ Waiting' \subseteq Waiting /\ ReqCounts
      BY <1>14, <1>g DEF RetrySelected, listTable
    <2> QED BY <1>2, <1>14, <1>c, <2>3, <2>4 DEF RetrySelected
  <1>15. CASE PollCounts(q)
    <2>1. Fresh' \subseteq Fresh
      BY <1>0, <1>15, <1>f DEF PollCounts, listTable
    <2>2. Waiting' \subseteq Waiting /\ ReqCounts
      BY <1>0, <1>1, <1>15 DEF PollCounts
    <2> QED BY <1>2, <1>15, <1>m, <1>c, <2>1, <2>2 DEF PollCounts
  <1>16. CASE PollFinalizes(q)
    <2>1. list = "deleted" => list' = "deleted"
      BY <1>16 DEF PollFinalizes, Exists
    <2>2. Fresh' \subseteq Fresh
      BY <1>0, <1>16, <1>f, <2>1 DEF PollFinalizes
    <2>3. Waiting' \subseteq Waiting /\ ReqCounts
      BY <1>0, <1>1, <1>16 DEF PollFinalizes
    <2> QED BY <1>2, <1>16, <1>m, <1>c, <2>2, <2>3 DEF PollFinalizes
  <1>17. CASE DeleteList(q)
    <2>1. Fresh' \subseteq Fresh /\ Waiting' \subseteq Waiting /\ ReqCounts
      BY <1>17, <1>g DEF DeleteList
    <2> QED BY <1>2, <1>17, <1>m, <1>c, <2>1 DEF DeleteList
  <1> QED BY <1>n, <1>4, <1>5, <1>6, <1>7, <1>8, <1>9, <1>10, <1>11, <1>12, <1>13, <1>14, <1>15, <1>16,
             <1>17 DEF RequestStep, RequestGoesOn

LEMMA AnalysesStep ==
    ASSUME Base, Steadily, AnalysesPaid, [ListNext]_listVars
    PROVE  AnalysesPaid'
  <1> SUFFICES ASSUME upsets' = 0
               PROVE  /\ \A x \in ListRequests : req'[x].at = "counted" => Cardinality(Fresh') <= req'[x].n
                      /\ "fanout" \notin crossed' =>
                            Cardinality(RowsOf("list_item")')
                              + (Cardinality(Unfanned') + Cardinality(Waiting')) * Cardinality(Fresh') <= paid' - lost'
    BY DEF AnalysesPaid
  <1> DEFINE i == Cardinality(RowsOf("list_item"))
             u == Cardinality(Unfanned)
             w == Cardinality(Waiting)
             f == Cardinality(Fresh)
             ni == Cardinality(RowsOf("list_item")')
             nu == Cardinality(Unfanned')
             nw == Cardinality(Waiting')
             nf == Cardinality(Fresh')
             Good == /\ \A x \in ListRequests : req'[x].at = "counted" => nf <= req'[x].n
                     /\ "fanout" \notin crossed' => ni + (nu + nw) * nf <= paid' - lost'
  <1>1. /\ upsets = 0 /\ SteadySlots
        /\ \/ \E k \in DOMAIN rows : CalmTurn(k)
           \/ \E q \in ListRequests : RequestStep(q) /\ PhasesKept
           \/ NothingMoves
    BY CalmStep
  <1>2. /\ IsFiniteSet(Unfanned) /\ IsFiniteSet(Waiting) /\ IsFiniteSet(RowsOf("list_item")) /\ IsFiniteSet(Fresh)
        /\ i \in Nat /\ u \in Nat /\ w \in Nat /\ f \in Nat /\ paid \in Nat /\ lost \in Nat
    BY SetsFinite, FS_CardinalityType DEF Base, ListTypes
  <1>3. /\ \A x \in ListRequests : req[x].at = "counted" => f <= req[x].n
        /\ "fanout" \notin crossed => i + (u + w) * f <= paid - lost
    BY <1>1 DEF AnalysesPaid
  <1>4. paid' \in Nat /\ lost' \in Nat
    BY BaseStep DEF Base, ListTypes
  <1>r. \A x \in ListRequests : req'[x].n \in Nat
    BY BaseStep DEF Base, ListTypes
  <1>5. ASSUME Fresh' \subseteq Fresh, ReqCounts
        PROVE  /\ nf \in Nat /\ nf <= f
               /\ \A x \in ListRequests : req'[x].at = "counted" => nf <= req'[x].n
    <2>1. nf \in Nat /\ nf <= f
      BY <1>2, <1>5, SmallerSet
    <2>2. ASSUME NEW x \in ListRequests, req'[x].at = "counted" PROVE f <= req'[x].n
      BY <1>3, <1>5, <2>2 DEF ReqCounts
    <2> HIDE DEF f, nf
    <2> QED BY <1>2, <1>r, <2>1, <2>2
  \* Nothing new is taken and nothing more is waited for.
  <1>6. ASSUME ni \in Nat, ni <= i, nu \in Nat, nw \in Nat, nf \in Nat, nf <= f, nu + nw <= u + w,
               paid' - lost' >= paid - lost, "fanout" \notin crossed
        PROVE  ni + (nu + nw) * nf <= paid' - lost'
    <2> HIDE DEF i, u, w, f, ni, nu, nw, nf
    <2> DEFINE x == u + w
               y == nu + nw
    <2>1. x \in Nat /\ y \in Nat /\ y <= x
      BY <1>2, <1>6
    <2>2. i + x * f <= paid - lost
      BY <1>3, <1>6
    <2> HIDE DEF x, y
    <2>3. y * nf <= x * f /\ y * nf \in Nat /\ x * f \in Nat
      BY <1>2, <1>6, <2>1, Products
    <2> DEFINE m == paid - lost
               m2 == paid' - lost'
               a == y * nf
               b == x * f
    <2>a. a <= b /\ a \in Nat /\ b \in Nat /\ i + b <= m
      BY <2>2, <2>3
    <2>c. /\ m \in Int /\ m2 \in Int /\ i \in Nat /\ ni \in Nat /\ f \in Nat
          /\ ni <= i /\ m2 >= m
      <3>1. m \in Int /\ m2 \in Int
        BY <1>2, <1>4
      <3> QED BY <1>2, <1>6, <3>1
    <2> HIDE DEF a, b, m, m2
    <2>b. ni + a <= m2
      BY <2>a, <2>c
    <2>4. ni + y * nf <= paid' - lost'
      BY <2>b DEF a, m2
    <2> QED BY <2>4 DEF y
  \* One more is waited for, and paid for.
  <1>7. ASSUME NEW n \in Nat, ni \in Nat, ni <= i, nu \in Nat, nw \in Nat, nf \in Nat, nf <= f,
               nu + nw <= u + w + 1, f <= n, paid' - lost' = paid - lost + n, "fanout" \notin crossed
        PROVE  ni + (nu + nw) * nf <= paid' - lost'
    <2> HIDE DEF i, u, w, f, ni, nu, nw, nf
    <2> DEFINE x == u + w
               y == nu + nw
    <2>1. x \in Nat /\ x + 1 \in Nat /\ y \in Nat /\ y <= x + 1
      BY <1>2, <1>7
    <2>2. i + x * f <= paid - lost
      BY <1>3, <1>7
    <2> HIDE DEF x, y
    <2>3. y * nf <= (x + 1) * f /\ y * nf \in Nat
      BY <1>2, <1>7, <2>1, Products
    <2>4. (x + 1) * f = x * f + f /\ x * f \in Nat
      BY <1>2, <2>1, Products
    <2> DEFINE m == paid - lost
               m2 == paid' - lost'
               a == y * nf
               b == x * f
    <2>a. a <= b + f /\ a \in Nat /\ b \in Nat /\ i + b <= m
      BY <2>2, <2>3, <2>4
    <2>c. /\ m \in Int /\ m2 \in Int /\ i \in Nat /\ ni \in Nat /\ f \in Nat
          /\ ni <= i /\ f <= n /\ m2 = m + n
      <3>1. m \in Int /\ m2 \in Int
        BY <1>2, <1>4
      <3> QED BY <1>2, <1>7, <3>1
    <2> HIDE DEF a, b, m, m2
    <2>b. ni + a <= m2
      BY <2>a, <2>c
    <2>5. ni + y * nf <= paid' - lost'
      BY <2>b DEF a, m2
    <2> QED BY <2>5 DEF y
  \* The accounts of one are taken.
  <1>8. ASSUME ni \in Nat, NEW p \in Nat, p <= f, ni <= i + p, nu \in Nat, nw \in Nat, nf \in Nat, nf <= f,
               nu + nw + 1 <= u + w, paid' - lost' = paid - lost, "fanout" \notin crossed
        PROVE  ni + (nu + nw) * nf <= paid' - lost'
    <2> HIDE DEF i, u, w, f, ni, nu, nw, nf
    <2> DEFINE x == u + w
               y == nu + nw
    <2>1. x \in Nat /\ y \in Nat /\ y + 1 \in Nat /\ y + 1 <= x
      BY <1>2, <1>8
    <2>2. i + x * f <= paid - lost
      BY <1>3, <1>8
    <2> HIDE DEF x, y
    <2>3. (y + 1) * f <= x * f /\ x * f \in Nat
      BY <1>2, <2>1, Products
    <2>4. (y + 1) * f = y * f + f /\ y * f \in Nat /\ y * nf <= y * f /\ y * nf \in Nat
      BY <1>2, <1>8, <2>1, Products
    <2> DEFINE m == paid - lost
               m2 == paid' - lost'
               a == y * nf
               b == x * f
               c == y * f
               d == (y + 1) * f
    <2>a. a <= c /\ d <= b /\ d = c + f /\ a \in Nat /\ b \in Nat /\ c \in Nat /\ i + b <= m
      BY <2>2, <2>3, <2>4
    <2>c. /\ m \in Int /\ m2 \in Int /\ i \in Nat /\ ni \in Nat /\ f \in Nat
          /\ ni <= i + p /\ p <= f /\ m2 = m
      <3>1. m \in Int /\ m2 \in Int
        BY <1>2, <1>4
      <3> QED BY <1>2, <1>8, <3>1
    <2> HIDE DEF a, b, c, d, m, m2
    <2>b. ni + a <= m2
      BY <2>a, <2>c
    <2>5. ni + y * nf <= paid' - lost'
      BY <2>b DEF a, m2
    <2> QED BY <2>5 DEF y
  <1>9. ASSUME NEW k \in DOMAIN rows, CalmTurn(k) PROVE Good
    <2>1. /\ Waiting' = Waiting /\ req' = req /\ paid' = paid /\ lost' = lost
          /\ Fresh' \subseteq Fresh /\ crossed \subseteq crossed'
          /\ \/ Unfanned' \subseteq Unfanned /\ RowsOf("list_item")' \subseteq RowsOf("list_item")
             \/ /\ k \in Unfanned /\ Unfanned' \subseteq Unfanned \ {k}
                /\ ni \in Nat /\ ni <= i + Cardinality(Pending)
                /\ "fanout" \notin crossed' => Pending \subseteq Fresh
      BY <1>9, AnalysesOfTasks
    <2>2. nf \in Nat /\ nf <= f /\ \A x \in ListRequests : req'[x].at = "counted" => nf <= req'[x].n
      <3>1. ReqCounts
        BY <2>1 DEF ReqCounts
      <3> QED BY <1>5, <2>1, <3>1
    <2>3. nw = w
      BY <2>1
    <2>4. ASSUME "fanout" \notin crossed' PROVE ni + (nu + nw) * nf <= paid' - lost'
      <3>0. "fanout" \notin crossed
        BY <2>1, <2>4
      <3>1. CASE Unfanned' \subseteq Unfanned /\ RowsOf("list_item")' \subseteq RowsOf("list_item")
        <4>1. nu \in Nat /\ nu <= u /\ ni \in Nat /\ ni <= i
          BY <1>2, <3>1, SmallerSet
        <4>2. nw \in Nat /\ nu + nw <= u + w /\ paid' - lost' >= paid - lost
          <5> HIDE DEF i, u, w, f, ni, nu, nw, nf
          <5> QED BY <1>2, <2>1, <2>3, <4>1
        <4> QED BY <1>6, <2>2, <3>0, <4>1, <4>2
      <3>2. CASE k \in Unfanned /\ Unfanned' \subseteq Unfanned \ {k} /\ ni \in Nat /\ ni <= i + Cardinality(Pending)
                 /\ Pending \subseteq Fresh
        <4>1. nu \in Nat /\ nu + 1 <= u /\ Cardinality(Pending) \in Nat /\ Cardinality(Pending) <= f
          BY <1>2, <3>2, OneLess, SmallerSet
        <4>2. nw \in Nat /\ nu + nw + 1 <= u + w /\ paid' - lost' = paid - lost
          <5> HIDE DEF i, u, w, f, ni, nu, nw, nf
          <5> QED BY <1>2, <2>1, <2>3, <4>1
        <4> QED BY <1>8, <2>2, <3>0, <3>2, <4>1, <4>2
      <3> HIDE DEF i, u, w, f, ni, nu, nw, nf
      <3> QED BY <2>1, <2>4, <3>1, <3>2
    <2> QED BY <2>2, <2>4
  <1>10. ASSUME NEW q \in ListRequests, RequestStep(q), PhasesKept PROVE Good
    <2>1. /\ Fresh' \subseteq Fresh /\ ReqCounts /\ crossed \subseteq crossed'
          /\ RowsOf("list_item")' \subseteq RowsOf("list_item")
          /\ \/ Unfanned' \subseteq Unfanned /\ Waiting' \subseteq Waiting /\ paid' - lost' >= paid - lost
             \/ /\ Unfanned' \subseteq Unfanned \cup {Len(rows) + 1} /\ q \in Waiting
                /\ Waiting' \subseteq Waiting \ {q} /\ paid' = paid /\ lost' = lost
             \/ /\ Unfanned' \subseteq Unfanned /\ Waiting' \subseteq Waiting \cup {q}
                /\ \E n \in Nat : Cardinality(Fresh) <= n /\ paid' = paid + n /\ lost' = lost
      BY <1>1, <1>10, AnalysesOfRequests
    <2>2. nf \in Nat /\ nf <= f /\ \A x \in ListRequests : req'[x].at = "counted" => nf <= req'[x].n
      BY <1>5, <2>1
    <2>3. ni \in Nat /\ ni <= i
      BY <1>2, <2>1, SmallerSet
    <2>4. ASSUME "fanout" \notin crossed' PROVE ni + (nu + nw) * nf <= paid' - lost'
      <3>0. "fanout" \notin crossed
        BY <2>1, <2>4
      <3>1. CASE Unfanned' \subseteq Unfanned /\ Waiting' \subseteq Waiting /\ paid' - lost' >= paid - lost
        <4>1. nu \in Nat /\ nu <= u /\ nw \in Nat /\ nw <= w
          BY <1>2, <3>1, SmallerSet
        <4>2. nu + nw <= u + w
          <5> HIDE DEF i, u, w, f, ni, nu, nw, nf
          <5> QED BY <1>2, <4>1
        <4> QED BY <1>6, <2>2, <2>3, <3>0, <3>1, <4>1, <4>2
      <3>2. CASE /\ Unfanned' \subseteq Unfanned \cup {Len(rows) + 1} /\ q \in Waiting
                 /\ Waiting' \subseteq Waiting \ {q} /\ paid' = paid /\ lost' = lost
        <4>1. nu \in Nat /\ nu <= u + 1 /\ nw \in Nat /\ nw + 1 <= w
          <5>1. nu \in Nat /\ nu <= u + 1
            BY <1>2, <3>2, OneMore
          <5>2. nw \in Nat /\ nw + 1 <= w
            BY <1>2, <3>2, OneLess
          <5> QED BY <5>1, <5>2
        <4>2. nu + nw <= u + w /\ paid' - lost' >= paid - lost
          <5> HIDE DEF i, u, w, f, ni, nu, nw, nf
          <5> QED BY <1>2, <3>2, <4>1
        <4> QED BY <1>6, <2>2, <2>3, <3>0, <4>1, <4>2
      <3>3. ASSUME Unfanned' \subseteq Unfanned, Waiting' \subseteq Waiting \cup {q},
                   NEW n \in Nat, f <= n, paid' = paid + n, lost' = lost
            PROVE  ni + (nu + nw) * nf <= paid' - lost'
        <4>1. nu \in Nat /\ nu <= u /\ nw \in Nat /\ nw <= w + 1
          BY <1>2, <3>3, OneMore, SmallerSet
        <4>2. nu + nw <= u + w + 1 /\ paid' - lost' = paid - lost + n
          <5> HIDE DEF i, u, w, f, ni, nu, nw, nf
          <5> QED BY <1>2, <3>3, <4>1
        <4> QED BY <1>7, <2>2, <2>3, <3>0, <3>3, <4>1, <4>2
      <3>4. ASSUME Unfanned' \subseteq Unfanned, Waiting' \subseteq Waiting \cup {q},
                   \E n \in Nat : Cardinality(Fresh) <= n /\ paid' = paid + n /\ lost' = lost
            PROVE  ni + (nu + nw) * nf <= paid' - lost'
        <4>1. PICK n \in Nat : f <= n /\ paid' = paid + n /\ lost' = lost
          BY <3>4
        <4> QED BY <3>3, <3>4, <4>1
      <3> HIDE DEF i, u, w, f, ni, nu, nw, nf
      <3> QED BY <2>1, <3>1, <3>2, <3>4
    <2> QED BY <2>2, <2>4
  <1>11. ASSUME NothingMoves PROVE Good
    <2>1. /\ Fresh' = Fresh /\ RowsOf("list_item")' = RowsOf("list_item") /\ Unfanned' = Unfanned
          /\ Waiting' = Waiting /\ paid' = paid /\ lost' = lost /\ req' = req /\ crossed' = crossed
      BY <1>11 DEF NothingMoves, listTable, money, Fresh, RowsOf, Unfanned, Waiting
    <2> QED BY <1>3, <2>1
  <1> HIDE DEF Good
  <1>12. Good
    <2>1. CASE \E k \in DOMAIN rows : CalmTurn(k)
      BY <1>9, <2>1
    <2>2. CASE \E q \in ListRequests : RequestStep(q) /\ PhasesKept
      BY <1>10, <2>2
    <2> QED BY <1>1, <1>11, <2>1, <2>2
  <1> QED BY <1>12 DEF Good
-----------------------------------------------------------------------------
(* One thing at a time works on an account. *)

Failed == {a \in Accounts : account[a] = "failed"}

\* What holds after a step for the calm to last held before it.
LEMMA CalmBefore ==
    ASSUME KeepsRows, crossed \subseteq crossed', upsets = 0, "reset" \notin crossed', OneItemEach'
    PROVE  "reset" \notin crossed /\ OneItemEach
  <1> SUFFICES ASSUME NEW t \in RowsOf("list_item"), NEW u \in RowsOf("list_item"), rows[t].account = rows[u].account
               PROVE  t = u
    BY DEF OneItemEach
  <1>1. /\ t \in RowsOf("list_item")' /\ u \in RowsOf("list_item")'
        /\ rows'[t].account = rows'[u].account
    BY DEF RowsOf, KeepsRows
  <1> QED BY <1>1 DEF OneItemEach

\* A step that gives no account a new worker, and fails none that is worked on after it.
LEMMA AloneFrom ==
    ASSUME Base, Alone,
           \A t \in DOMAIN rows' : RowWorks(t)' => t \in DOMAIN rows /\ RowWorks(t) /\ rows'[t].account = rows[t].account,
           \A q \in ListRequests : RequestWorks(q)' => RequestWorks(q) /\ req'[q].n = req[q].n,
           \A a \in Accounts : account'[a] = "failed" =>
              \/ account[a] = "failed"
              \/ /\ \A t \in DOMAIN rows' : RowWorks(t)' => rows'[t].account # a
                 /\ \A q \in ListRequests : RequestWorks(q)' => req'[q].n # a
    PROVE  Alone'
  <1>1. \A t, u \in DOMAIN rows' : RowWorks(t)' /\ RowWorks(u)' /\ rows'[t].account = rows'[u].account => t = u
    BY DEF Alone
  <1>2. \A q, p \in ListRequests : RequestWorks(q)' /\ RequestWorks(p)' /\ req'[q].n = req'[p].n => q = p
    BY DEF Alone
  <1>3. \A t \in DOMAIN rows', q \in ListRequests : RowWorks(t)' /\ RequestWorks(q)' => rows'[t].account # req'[q].n
    BY DEF Alone
  <1>4. ASSUME NEW t \in DOMAIN rows', RowWorks(t)' PROVE account'[rows'[t].account] # "failed"
    <2> DEFINE a == rows[t].account
    <2>1. /\ t \in DOMAIN rows /\ RowWorks(t) /\ rows'[t].account = a
      BY <1>4
    <2>2. a \in Accounts /\ account[a] # "failed"
      BY <2>1 DEF Alone, RowWorks, Base, PlacesFit
    <2> HIDE DEF a
    <2> QED BY <1>4, <2>1, <2>2
  <1>5. ASSUME NEW q \in ListRequests, RequestWorks(q)' PROVE account'[req'[q].n] # "failed"
    <2> DEFINE a == req[q].n
    <2>1. RequestWorks(q) /\ req'[q].n = a
      BY <1>5
    <2>2. a \in Accounts /\ account[a] # "failed"
      BY <2>1 DEF Alone, RequestWorks, Base, PlacesFit
    <2> HIDE DEF a
    <2> QED BY <1>5, <2>1, <2>2
  <1> QED BY <1>1, <1>2, <1>3, <1>4, <1>5 DEF Alone

LEMMA FailedFinite ==
    IsFiniteSet(Failed) /\ Cardinality(Failed) \in Nat
  <1>1. Failed \subseteq Accounts
    BY DEF Failed
  <1> QED BY <1>1, PendingFinite, FS_Subset, FS_CardinalityType

\* An account that was not failed is set: the counter follows.
LEMMA SetsCount ==
    ASSUME Base, NEW a \in Accounts, NEW st \in {"processing", "completed", "failed"}, SetAccount(a, st),
           Exists => account[a] # "failed", failedCount = Cardinality(Failed)
    PROVE  failedCount' = Cardinality(Failed')
  <1>1. /\ \A b \in Accounts \ {a} : account'[b] = account[b]
        /\ Exists => account'[a] = st
        /\ ~Exists => account' = account
        /\ failedCount' = failedCount + IF Exists /\ st = "failed" THEN 1 ELSE 0
    BY AccountEffect DEF Base
  <1>2. IsFiniteSet(Failed) /\ Cardinality(Failed) \in Nat
    BY FailedFinite
  <1>3. CASE Exists /\ st = "failed"
    <2>1. Failed' = Failed \cup {a} /\ a \notin Failed
      BY <1>1, <1>3 DEF Failed
    <2>2. Cardinality(Failed \cup {a}) = Cardinality(Failed) + 1
      BY <1>2, <2>1, FS_AddElement
    <2> QED BY <1>1, <1>3, <2>1, <2>2
  <1>4. CASE ~(Exists /\ st = "failed")
    <2>1. Failed' = Failed
      BY <1>1, <1>4 DEF Failed
    <2>2. failedCount' = failedCount
      BY <1>1, <1>4 DEF Base, ListTypes
    <2> QED BY <2>1, <2>2
  <1> QED BY <1>3, <1>4

\* The parts of a step of a task.
LEMMA AloneOfTasks ==
    ASSUME Base, NEW k \in DOMAIN rows, CalmTurn(k), OneItemEach',
           list # "deleted" => Alone, failedCount = Cardinality(Failed)
    PROVE  /\ list' # "deleted" => Alone'
           /\ failedCount' = Cardinality(Failed')
  <1>0. 0 \notin DOMAIN rows /\ rows \in Seq(Row) /\ rows[k] \in Row
    <2>1. 0 \notin DOMAIN rows /\ rows \in Seq(Row)
      BY RowsAndSlots
    <2> QED BY <2>1
  <1>1. ASSUME listTable' = listTable PROVE failedCount' = Cardinality(Failed') /\ list' = list /\ account' = account
    BY <1>1 DEF listTable, Failed
  <1>2. ASSUME req' = req
        PROVE  \A q \in ListRequests : RequestWorks(q)' => RequestWorks(q) /\ req'[q].n = req[q].n
    BY <1>2 DEF RequestWorks
  <1>3. ASSUME SameRows, NEW p, NEW np, Moves(k, p, np),
               np \in {"pending", "start", "research", "retrying", "retry_mark"} => RowWorks(k) \/ rows[k].kind = "list_analysis"
        PROVE  \A t \in DOMAIN rows' : RowWorks(t)' => t \in DOMAIN rows /\ RowWorks(t) /\ rows'[t].account = rows[t].account
    BY <1>3 DEF SameRows, KeepsRows, Moves, RowWorks
  <1>4. ASSUME SameRows, NEW p, NEW np, Moves(k, p, np),
               np \in {"pending", "start", "research", "retrying", "retry_mark"} => RowWorks(k) \/ rows[k].kind = "list_analysis",
               listTable' = listTable, req' = req
        PROVE  /\ list' # "deleted" => Alone'
               /\ failedCount' = Cardinality(Failed')
    <2>1. list' = list /\ account' = account /\ failedCount' = Cardinality(Failed')
      BY <1>1, <1>4
    <2>2. ASSUME list' # "deleted" PROVE Alone'
      BY <1>2, <1>3, <1>4, <2>1, <2>2, AloneFrom
    <2> QED BY <2>1, <2>2
  <1>5. CASE Takes(k)
    <2>1. RowWorks(k) \/ rows[k].kind = "list_analysis"
      BY <1>0, <1>5 DEF Takes, Moves, RowWorks, Row, TaskKinds
    <2> QED BY <1>4, <1>5, <2>1 DEF Takes
  <1>6. CASE Repays(k)
    <2>1. RowWorks(k)
      BY <1>6 DEF Repays, Moves, RowWorks
    <2> QED BY <1>4, <1>6, <2>1 DEF Repays
  <1>7. CASE Ends(k)
    <2>1. "return" \notin {"pending", "start", "research", "retrying", "retry_mark"}
          /\ "over" \notin {"pending", "start", "research", "retrying", "retry_mark"}
      OBVIOUS
    <2> QED BY <1>4, <1>7, <2>1 DEF Ends
  <1>8. ASSUME NEW p \in {"start", "research", "retrying", "retry_mark"}, NEW np \in {"research", "check", "return"},
               NEW st \in {"processing", "completed", "failed"},
               Sets(k, p, np, st), rows[k].kind # "list_analysis", st = "failed" => np # "research"
        PROVE  /\ list' # "deleted" => Alone'
               /\ failedCount' = Cardinality(Failed')
    <2> DEFINE a == rows[k].account
    <2>1. /\ SameRows /\ Moves(k, p, np) /\ SetAccount(a, st) /\ req' = req /\ a \in Accounts
      BY <1>8 DEF Sets, Base, PlacesFit
    <2>2. RowWorks(k)
      BY <1>8, <2>1 DEF Moves, RowWorks
    <2> HIDE DEF a
    <2>3. /\ list' = list
          /\ \A b \in Accounts \ {a} : account'[b] = account[b]
          /\ Exists => account'[a] = st
          /\ ~Exists => account' = account
      BY <2>1, AccountEffect DEF Base
    <2>4. ASSUME list # "deleted" PROVE account[a] # "failed"
      BY <2>2, <2>4 DEF Alone, a
    <2>5. failedCount' = Cardinality(Failed')
      BY <2>1, <2>4, SetsCount DEF Exists
    <2>6. ASSUME list' # "deleted" PROVE Alone'
      <3>1. Alone
        BY <2>3, <2>6
      <3>2. \A t \in DOMAIN rows' : RowWorks(t)' => t \in DOMAIN rows /\ RowWorks(t) /\ rows'[t].account = rows[t].account
        BY <1>3, <2>1, <2>2
      <3>3. \A q \in ListRequests : RequestWorks(q)' => RequestWorks(q) /\ req'[q].n = req[q].n
        BY <1>2, <2>1
      <3>4. ASSUME NEW b \in Accounts, account'[b] = "failed", account[b] # "failed"
            PROVE  /\ \A t \in DOMAIN rows' : RowWorks(t)' => rows'[t].account # b
                   /\ \A q \in ListRequests : RequestWorks(q)' => req'[q].n # b
        <4>1. b = a /\ np # "research"
          BY <1>8, <2>3, <3>4
        <4>2. ~RowWorks(k)'
          BY <1>8, <2>1, <4>1 DEF Moves, RowWorks
        <4>3. \A t \in DOMAIN rows' : RowWorks(t)' => rows'[t].account # b
          BY <2>2, <3>1, <3>2, <4>1, <4>2 DEF Alone, a
        <4>4. \A q \in ListRequests : RequestWorks(q)' => req'[q].n # b
          BY <2>2, <3>1, <3>3, <4>1 DEF Alone, a
        <4> QED BY <4>3, <4>4
      <3> QED BY <3>1, <3>2, <3>3, <3>4, AloneFrom
    <2> QED BY <2>5, <2>6
  <1>9. CASE Works(k)
    BY <1>8, <1>9 DEF Works
  <1>10. CASE Fans(k)
    <2>1. /\ list' = list /\ account' = account /\ failedCount' = Cardinality(Failed') /\ req' = req
      BY <1>1, <1>10 DEF Fans
    <2>2. ASSUME list' # "deleted" PROVE Alone'
      <3>1. Alone
        BY <2>1, <2>2
      <3>2. ASSUME NEW t \in DOMAIN rows, RowWorks(t)'
            PROVE  RowWorks(t) /\ rows'[t].account = rows[t].account /\ HasItem(rows[t].account)
        <4>1. rows'[t].account = rows[t].account /\ rows'[t].kind = rows[t].kind
          BY <1>10 DEF Fans, KeepsRows
        <4>2. RowWorks(t)
          BY <1>10, <3>2, <4>1 DEF Fans, Moves, RowWorks
        <4>3. rows[t].kind \in {"list_item", "retry"}
          <5>1. rows[t] \in Row
            BY <1>0
          <5> QED BY <4>2, <5>1 DEF RowWorks, Row, TaskKinds
        <4>4. HasItem(rows[t].account)
          BY <4>3 DEF HasItem, Base, TakenFirst
        <4> QED BY <4>1, <4>2, <4>4
      <3>3. ASSUME NEW q \in ListRequests, RequestWorks(q)'
            PROVE  RequestWorks(q) /\ req'[q].n = req[q].n /\ HasItem(req[q].n)
        BY <2>1, <3>3 DEF RequestWorks, Base, TakenFirst
      <3>4. ASSUME NEW t \in DOMAIN rows' \ DOMAIN rows
            PROVE  /\ rows'[t].account \in Accounts /\ account[rows'[t].account] = "pending"
                   /\ ~HasItem(rows'[t].account) /\ t \in RowsOf("list_item")'
        <4>1. rows'[t].kind = "list_item" /\ rows'[t].account \in Pending
          BY <1>10 DEF Fans
        <4>2. rows'[t].account \in Accounts /\ account[rows'[t].account] = "pending"
          BY <4>1 DEF Pending
        <4>3. t \in RowsOf("list_item")'
          BY <4>1 DEF RowsOf
        <4>4. ASSUME NEW u \in DOMAIN rows, rows[u].kind = "list_item", rows[u].account = rows'[t].account
              PROVE  FALSE
          <5>1. u \in RowsOf("list_item")' /\ rows'[u].account = rows'[t].account
            BY <1>10, <4>4 DEF Fans, KeepsRows, RowsOf
          <5> QED BY <4>3, <5>1 DEF OneItemEach
        <4> QED BY <4>2, <4>3, <4>4 DEF HasItem
      <3>5. ASSUME NEW t \in DOMAIN rows', NEW u \in DOMAIN rows', RowWorks(t)', RowWorks(u)',
                   rows'[t].account = rows'[u].account
            PROVE  t = u
        <4>1. CASE t \in DOMAIN rows /\ u \in DOMAIN rows
          BY <3>1, <3>2, <3>5, <4>1 DEF Alone
        <4>2. CASE t \in DOMAIN rows /\ u \notin DOMAIN rows
          BY <3>2, <3>4, <3>5, <4>2
        <4>3. CASE t \notin DOMAIN rows /\ u \in DOMAIN rows
          BY <3>2, <3>4, <3>5, <4>3
        <4>4. CASE t \notin DOMAIN rows /\ u \notin DOMAIN rows
          BY <3>4, <3>5, <4>4 DEF OneItemEach
        <4> QED BY <4>1, <4>2, <4>3, <4>4
      <3>6. \A q, p \in ListRequests : RequestWorks(q)' /\ RequestWorks(p)' /\ req'[q].n = req'[p].n => q = p
        BY <3>1, <3>3 DEF Alone
      <3>7. ASSUME NEW t \in DOMAIN rows', NEW q \in ListRequests, RowWorks(t)', RequestWorks(q)'
            PROVE  rows'[t].account # req'[q].n
        <4>1. CASE t \in DOMAIN rows
          BY <3>1, <3>2, <3>3, <3>7, <4>1 DEF Alone
        <4>2. CASE t \notin DOMAIN rows
          BY <3>3, <3>4, <3>7, <4>2
        <4> QED BY <4>1, <4>2
      <3>8. ASSUME NEW t \in DOMAIN rows', RowWorks(t)' PROVE account'[rows'[t].account] # "failed"
        <4>1. CASE t \in DOMAIN rows
          BY <2>1, <3>1, <3>2, <3>8, <4>1 DEF Alone
        <4>2. CASE t \notin DOMAIN rows
          BY <2>1, <3>4, <4>2
        <4> QED BY <4>1, <4>2
      <3>9. \A q \in ListRequests : RequestWorks(q)' => account'[req'[q].n] # "failed"
        BY <2>1, <3>1, <3>3 DEF Alone
      <3> QED BY <3>5, <3>6, <3>7, <3>8, <3>9 DEF Alone
    <2> QED BY <2>1, <2>2
  <1> QED BY <1>5, <1>6, <1>7, <1>9, <1>10 DEF CalmTurn

LEMMA AloneOfRequests ==
    ASSUME Base, SteadySlots, upsets = 0, upsets' = 0, NEW q \in ListRequests, RequestStep(q), PhasesKept,
           "reset" \notin crossed', list # "deleted" => Alone, failedCount = Cardinality(Failed)
    PROVE  /\ list' # "deleted" => Alone'
           /\ failedCount' = Cardinality(Failed')
  <1> USE DEF Elsewhere, ReqAt
  <1>0. /\ req[q].n \in Nat /\ req[q].at \in Places /\ NAccounts \in Nat
        /\ {"idle", "upload", "create", "enqueue", "started", "counted", "reset", "mark", "retry", "finalize"} = Places
        /\ req[q].at \in {"reset", "mark", "retry"} => req[q].n \in Accounts
        /\ list = "none" => req[q].at \in {"idle", "upload", "create"}
        /\ ~Upset
    BY ListConstants DEF Base, ListTypes, PlacesFit, Places, NothingYet, Upset
  <1>n. ~RequestDies(q)
    BY <1>0 DEF RequestDies
  <1>1. ASSUME NEW p \in Places, NEW m \in Nat, ReqTo(q, p, m)
        PROVE  /\ \A x \in ListRequests \ {q} : req'[x] = req[x]
               /\ req'[q].at = p /\ req'[q].n = m
    BY <1>1, ReqEffect DEF Base
  <1>2. ASSUME rows' = rows
        PROVE  \A t \in DOMAIN rows' : (RowWorks(t)' <=> RowWorks(t)) /\ t \in DOMAIN rows /\ rows'[t].account = rows[t].account
    BY <1>2 DEF RowWorks, PhasesKept
  \* Most requests neither touch an account nor begin to work on one.
  <1>3. ASSUME account' = account, failedCount' = failedCount, list' # "deleted" => list # "deleted",
               rows' = rows,
               \/ req' = req
               \/ \E p \in Places, m \in Nat : p \notin {"mark", "retry"} /\ ReqTo(q, p, m)
        PROVE  /\ list' # "deleted" => Alone'
               /\ failedCount' = Cardinality(Failed')
    <2>1. \A x \in ListRequests : RequestWorks(x)' => RequestWorks(x) /\ req'[x].n = req[x].n
      <3>1. CASE req' = req
        BY <3>1 DEF RequestWorks
      <3>2. ASSUME NEW p \in Places, NEW m \in Nat, p \notin {"mark", "retry"}, ReqTo(q, p, m)
            PROVE  \A x \in ListRequests : RequestWorks(x)' => RequestWorks(x) /\ req'[x].n = req[x].n
        BY <1>1, <3>2 DEF RequestWorks
      <3> QED BY <1>3, <3>1, <3>2
    <2>2. Failed' = Failed
      BY <1>3 DEF Failed
    <2>3. ASSUME list' # "deleted" PROVE Alone'
      BY <1>2, <1>3, <2>1, <2>3, AloneFrom
    <2> QED BY <1>3, <2>2, <2>3
  <1>4. ASSUME NEW p \in Places \ {"mark", "retry"}, NEW m \in Nat, ReqTo(q, p, m), account' = account,
               failedCount' = failedCount, list' # "deleted" => list # "deleted", rows' = rows
        PROVE  /\ list' # "deleted" => Alone'
               /\ failedCount' = Cardinality(Failed')
    BY <1>3, <1>4
  <1>5. CASE PayForList(q)
    BY <1>0, <1>4, <1>5 DEF PayForList, listTable
  <1>6. CASE MakeList(q)
    <2>1. /\ account' = account /\ failedCount' = failedCount /\ list # "deleted" /\ rows' = rows
          /\ req' = req \/ ReqTo(q, "enqueue", 0)
      BY <1>6 DEF MakeList
    <2> QED BY <1>0, <1>3, <1>4, <2>1
  <1>7. CASE StartAnalysis(q)
    BY <1>0, <1>4, <1>7 DEF StartAnalysis, Exists
  <1>8. CASE CountPending(q)
    <2>1. Cardinality(Pending) \in Nat
      BY PendingFinite
    <2>2. ReqTo(q, "idle", 0) \/ ReqTo(q, "counted", Cardinality(Pending))
      BY <1>8 DEF CountPending
    <2> QED BY <1>0, <1>4, <1>8, <2>1, <2>2 DEF CountPending, listTable
  <1>9. CASE PayForPending(q)
    <2>1. ReqTo(q, "enqueue", 0) \/ ReqTo(q, "idle", 0)
      BY <1>9 DEF PayForPending
    <2> QED BY <1>0, <1>4, <1>9, <2>1 DEF PayForPending, listTable
  <1>10. CASE RetryPays(q)
    <2>1. PICK a \in Accounts : ReqTo(q, "reset", a)
      BY <1>10 DEF RetryPays
    <2>2. a \in Nat
      BY DEF Accounts
    <2> QED BY <1>0, <1>4, <1>10, <2>1, <2>2 DEF RetryPays, listTable
  <1>11. CASE RetrySelected(q)
    BY <1>3, <1>11 DEF RetrySelected, listTable
  <1>12. CASE PollCounts(q)
    BY <1>0, <1>4, <1>12 DEF PollCounts, listTable
  <1>13. CASE PollFinalizes(q)
    <2>1. list' # "deleted" => list # "deleted"
      BY <1>13 DEF PollFinalizes, Exists
    <2> QED BY <1>0, <1>4, <1>13, <2>1 DEF PollFinalizes
  <1>14. CASE DeleteList(q)
    BY <1>3, <1>14 DEF DeleteList, Exists
  <1>15. CASE EnqueueAnalysis(q)
    <2>1. /\ KeepsRows /\ DOMAIN rows' \ DOMAIN rows = {Len(rows) + 1}
          /\ rows'[Len(rows) + 1] = Queued("list_analysis", 0)
      <3>1. 0 \in 0 .. NAccounts /\ "list_analysis" \in TaskKinds
        BY <1>0 DEF TaskKinds
      <3> QED BY <1>15, <3>1, EnqueueTurn DEF EnqueueAnalysis
    <2>2. \A t \in DOMAIN rows' : RowWorks(t)' => t \in DOMAIN rows /\ RowWorks(t) /\ rows'[t].account = rows[t].account
      <3>1. \A t \in DOMAIN rows' \ DOMAIN rows : rows'[t].kind = "list_analysis"
        BY <2>1 DEF Queued
      <3> QED BY <2>1, <3>1 DEF RowWorks, KeepsRows, PhasesKept
    <2>3. \A x \in ListRequests : RequestWorks(x)' => RequestWorks(x) /\ req'[x].n = req[x].n
      BY <1>0, <1>1, <1>15 DEF EnqueueAnalysis, RequestWorks
    <2>4. list' = list /\ account' = account /\ failedCount' = failedCount /\ Failed' = Failed
      BY <1>15 DEF EnqueueAnalysis, listTable, Failed
    <2>5. ASSUME list' # "deleted" PROVE Alone'
      BY <2>2, <2>3, <2>4, <2>5, AloneFrom
    <2> QED BY <2>4, <2>5
  <1>16. CASE MarkAccount(q)
    <2> DEFINE a == req[q].n
    <2>1. /\ req[q].at = "mark" /\ ReqTo(q, "retry", a) /\ SetAccount(a, "processing") /\ rows' = rows
      BY <1>16 DEF MarkAccount
    <2>2. a \in Accounts /\ list # "none"
      BY <1>0, <2>1
    <2>3. req'[q].at = "retry" /\ req'[q].n = a /\ \A x \in ListRequests \ {q} : req'[x] = req[x]
      BY <1>0, <1>1, <2>1
    <2>4. RequestWorks(q) /\ \A x \in ListRequests : RequestWorks(x)' => RequestWorks(x) /\ req'[x].n = req[x].n
      BY <2>1, <2>3 DEF RequestWorks
    <2>5. list # "deleted" => account[a] # "failed"
      BY <2>4 DEF Alone
    <2> HIDE DEF a
    <2>6. /\ list' = list
          /\ \A b \in Accounts \ {a} : account'[b] = account[b]
          /\ account'[a] = "processing" \/ account' = account
      BY <2>1, <2>2, AccountEffect DEF Base
    <2>7. failedCount' = Cardinality(Failed')
      BY <2>1, <2>2, <2>5, SetsCount DEF Exists
    <2>8. \A b \in Accounts : account'[b] = "failed" => account[b] = "failed"
      BY <2>2, <2>6
    <2>9. ASSUME list' # "deleted" PROVE Alone'
      BY <1>2, <2>1, <2>4, <2>6, <2>8, <2>9, AloneFrom
    <2> QED BY <2>7, <2>9
  <1>17. CASE EnqueueRetry(q)
    <2> DEFINE a == req[q].n
               z == Len(rows) + 1
    <2>1. req[q].at = "retry" /\ a \in Accounts /\ ReqTo(q, "idle", 0) /\ Enqueue("retry", a) /\ UNCHANGED listTable
          /\ slot' = slot
      BY <1>0, <1>17 DEF EnqueueRetry
    <2>2. /\ KeepsRows /\ DOMAIN rows' \ DOMAIN rows = {z}
          /\ rows'[z].account = a /\ rows'[z].kind = "retry"
      <3>1. a \in 0 .. NAccounts /\ "retry" \in TaskKinds
        BY <1>0, <2>1 DEF Accounts, TaskKinds
      <3>2. /\ KeepsRows /\ DOMAIN rows' \ DOMAIN rows = {z} /\ rows'[z] = Queued("retry", a)
        BY <2>1, <3>1, EnqueueTurn
      <3> QED BY <3>2 DEF Queued
    <2>3. \A t \in DOMAIN rows : RowWorks(t)' => RowWorks(t) /\ rows'[t].account = rows[t].account
      BY <2>2 DEF RowWorks, KeepsRows, PhasesKept
    <2>4. /\ RequestWorks(q) /\ ~RequestWorks(q)'
          /\ \A x \in ListRequests : RequestWorks(x)' => x # q /\ RequestWorks(x) /\ req'[x].n = req[x].n
      <3>1. req'[q].at = "idle" /\ \A x \in ListRequests \ {q} : req'[x] = req[x]
        BY <1>0, <1>1, <2>1
      <3> QED BY <2>1, <3>1 DEF RequestWorks
    <2>5. list' = list /\ account' = account /\ failedCount' = failedCount /\ Failed' = Failed
      BY <2>1 DEF listTable, Failed
    <2>6. ASSUME list' # "deleted" PROVE Alone'
      <3>0. Alone
        BY <2>5, <2>6
      <3>a. /\ \A t \in DOMAIN rows : RowWorks(t) => rows[t].account # a
            /\ \A x \in ListRequests \ {q} : RequestWorks(x) => req[x].n # a
            /\ account[a] # "failed"
        BY <2>4, <3>0 DEF Alone
      <3>d. \A t \in DOMAIN rows' : t \in DOMAIN rows \/ t = z
        BY <2>2
      <3> HIDE DEF a, z
      <3>1. ASSUME NEW t \in DOMAIN rows', NEW u \in DOMAIN rows', RowWorks(t)', RowWorks(u)',
                   rows'[t].account = rows'[u].account
            PROVE  t = u
        <4>1. CASE t \in DOMAIN rows /\ u \in DOMAIN rows
          BY <2>3, <3>0, <3>1, <4>1 DEF Alone
        <4>2. CASE t \in DOMAIN rows /\ u = z
          BY <2>2, <2>3, <3>a, <3>1, <4>2
        <4>3. CASE t = z /\ u \in DOMAIN rows
          BY <2>2, <2>3, <3>a, <3>1, <4>3
        <4> QED BY <3>d, <4>1, <4>2, <4>3
      <3>2. \A x, p \in ListRequests : RequestWorks(x)' /\ RequestWorks(p)' /\ req'[x].n = req'[p].n => x = p
        BY <2>4, <3>0 DEF Alone
      <3>3. ASSUME NEW t \in DOMAIN rows', NEW x \in ListRequests, RowWorks(t)', RequestWorks(x)'
            PROVE  rows'[t].account # req'[x].n
        <4>1. CASE t \in DOMAIN rows
          BY <2>3, <2>4, <3>0, <3>3, <4>1 DEF Alone
        <4>2. CASE t = z
          BY <2>2, <2>4, <3>a, <3>3, <4>2
        <4> QED BY <3>d, <4>1, <4>2
      <3>4. ASSUME NEW t \in DOMAIN rows', RowWorks(t)' PROVE account'[rows'[t].account] # "failed"
        <4>1. CASE t \in DOMAIN rows
          BY <2>3, <2>5, <3>0, <3>4, <4>1 DEF Alone
        <4>2. CASE t = z
          BY <2>2, <2>5, <3>a, <4>2
        <4> QED BY <3>d, <4>1, <4>2
      <3>5. \A x \in ListRequests : RequestWorks(x)' => account'[req'[x].n] # "failed"
        BY <2>4, <2>5, <3>0 DEF Alone
      <3> QED BY <3>1, <3>2, <3>3, <3>4, <3>5 DEF Alone
    <2> QED BY <2>5, <2>6
  <1>18. CASE ResetAccount(q)
    <2> DEFINE a == req[q].n
    <2>1. req[q].at = "reset" /\ a \in Accounts /\ list # "none" /\ ReqTo(q, "mark", a) /\ rows' = rows /\ list' = list
      BY <1>0, <1>18 DEF ResetAccount
    <2>2. req'[q].at = "mark" /\ req'[q].n = a /\ \A x \in ListRequests \ {q} : req'[x] = req[x]
      BY <1>0, <1>1, <2>1
    <2>3. CASE ~Exists
      <3>1. account' = account /\ failedCount' = failedCount /\ list = "deleted"
        BY <1>18, <2>1, <2>3 DEF ResetAccount, Exists
      <3>2. Failed' = Failed
        BY <3>1 DEF Failed
      <3> QED BY <2>1, <3>1, <3>2
    <2>4. CASE Exists
      <3>1. account[a] = "failed"
        BY <1>18, <2>4 DEF ResetAccount
      <3>2. /\ account' = [account EXCEPT ![a] = "pending"]
            /\ failedCount' = IF failedCount > 0 THEN failedCount - 1 ELSE 0
        BY <1>18, <2>4 DEF ResetAccount
      <3> HIDE DEF a
      <3>3. /\ account'[a] = "pending" /\ \A b \in Accounts \ {a} : account'[b] = account[b]
        BY <2>1, <3>2 DEF Base, ListTypes
      <3>4. a \in Failed /\ Failed' = Failed \ {a}
        BY <2>1, <3>1, <3>3 DEF Failed
      <3>5. failedCount' = Cardinality(Failed')
        <4>1. IsFiniteSet(Failed) /\ Cardinality(Failed) \in Nat
          BY FailedFinite
        <4>2. Cardinality(Failed \ {a}) = Cardinality(Failed) - 1 /\ Cardinality(Failed \ {a}) \in Nat
          BY <3>4, <4>1, FS_RemoveElement, FS_CardinalityType
        <4>3. failedCount > 0
          BY <4>1, <4>2
        <4> QED BY <3>2, <3>4, <4>2, <4>3
      <3>6. Alone
        BY <2>4 DEF Exists
      <3>7. /\ \A t \in DOMAIN rows : RowWorks(t) => rows[t].account # a
            /\ \A x \in ListRequests : RequestWorks(x) => req[x].n # a
        BY <3>1, <3>6 DEF Alone
      <3>8. \A x \in ListRequests : RequestWorks(x)' =>
               (x = q /\ req'[x].n = a) \/ (x # q /\ RequestWorks(x) /\ req'[x].n = req[x].n)
        BY <2>2 DEF RequestWorks
      <3>9. \A t \in DOMAIN rows' : RowWorks(t)' => t \in DOMAIN rows /\ RowWorks(t) /\ rows'[t].account = rows[t].account
        BY <1>2, <2>1
      <3>10. \A b \in Accounts : account'[b] = "failed" => account[b] = "failed"
        BY <3>3
      <3>11. Alone'
        <4>1. \A t, u \in DOMAIN rows' : RowWorks(t)' /\ RowWorks(u)' /\ rows'[t].account = rows'[u].account => t = u
          BY <3>6, <3>9 DEF Alone
        <4>2. ASSUME NEW x \in ListRequests, NEW p \in ListRequests, RequestWorks(x)', RequestWorks(p)',
                     req'[x].n = req'[p].n
              PROVE  x = p
          BY <3>6, <3>7, <3>8, <4>2 DEF Alone
        <4>3. ASSUME NEW t \in DOMAIN rows', NEW x \in ListRequests, RowWorks(t)', RequestWorks(x)'
              PROVE  rows'[t].account # req'[x].n
          BY <3>6, <3>7, <3>8, <3>9, <4>3 DEF Alone
        <4>4. ASSUME NEW t \in DOMAIN rows', RowWorks(t)' PROVE account'[rows'[t].account] # "failed"
          <5>1. t \in DOMAIN rows /\ RowWorks(t) /\ rows'[t].account = rows[t].account
            BY <3>9, <4>4
          <5>2. rows[t].account \in Accounts
            BY <5>1 DEF RowWorks, Base, PlacesFit
          <5>3. account[rows[t].account] # "failed"
            BY <3>6, <5>1 DEF Alone
          <5> QED BY <3>10, <5>1, <5>2, <5>3
        <4>5. ASSUME NEW x \in ListRequests, RequestWorks(x)' PROVE account'[req'[x].n] # "failed"
          <5>1. CASE req'[x].n = a
            BY <3>3, <5>1
          <5>2. CASE RequestWorks(x) /\ req'[x].n = req[x].n
            <6>1. req[x].n \in Accounts /\ account[req[x].n] # "failed"
              BY <3>6, <5>2 DEF Alone, RequestWorks, Base, PlacesFit
            <6> QED BY <3>10, <5>2, <6>1
          <5> QED BY <3>8, <4>5, <5>1, <5>2
        <4> QED BY <4>1, <4>2, <4>3, <4>4, <4>5 DEF Alone
      <3> QED BY <3>5, <3>11
    <2> QED BY <2>3, <2>4
  <1> QED BY <1>n, <1>5, <1>6, <1>7, <1>8, <1>9, <1>10, <1>11, <1>12, <1>13, <1>14, <1>15, <1>16,
             <1>17, <1>18 DEF RequestStep, RequestGoesOn

\* What every step without a fault keeps.
LEMMA CalmKeeps ==
    ASSUME Base, Steadily, AnalysesPaid, [ListNext]_listVars, upsets' = 0
    PROVE  KeepsRows /\ crossed \subseteq crossed'
  <1>1. /\ upsets = 0 /\ SteadySlots
        /\ \/ \E k \in DOMAIN rows : CalmTurn(k)
           \/ \E q \in ListRequests : RequestStep(q) /\ PhasesKept
           \/ NothingMoves
    BY CalmStep
  <1>2. ASSUME NEW k \in DOMAIN rows, CalmTurn(k) PROVE KeepsRows /\ crossed \subseteq crossed'
    <2>1. crossed \subseteq crossed'
      BY <1>2, AnalysesOfTasks
    <2>2. KeepsRows
      BY <1>2 DEF CalmTurn, Takes, Fans, Works, Sets, Repays, Ends, SameRows
    <2> QED BY <2>1, <2>2
  <1>3. ASSUME NEW q \in ListRequests, RequestStep(q), PhasesKept PROVE KeepsRows /\ crossed \subseteq crossed'
    <2>1. crossed \subseteq crossed'
      BY <1>1, <1>3, AnalysesOfRequests
    <2>2. CASE EnqueueAnalysis(q)
      <3>1. Enqueue("list_analysis", 0) /\ 0 \in 0 .. NAccounts /\ "list_analysis" \in TaskKinds
        BY <2>2, ListConstants DEF EnqueueAnalysis, TaskKinds
      <3> QED BY <2>1, <3>1, EnqueueEffect DEF Base
    <2>3. CASE EnqueueRetry(q)
      <3>1. req[q].n \in 0 .. NAccounts /\ "retry" \in TaskKinds /\ Enqueue("retry", req[q].n)
        BY <2>3, ListConstants DEF EnqueueRetry, ReqAt, Base, PlacesFit, Accounts, TaskKinds
      <3> QED BY <2>1, <3>1, EnqueueEffect DEF Base
    <2>4. CASE ~EnqueueAnalysis(q) /\ ~EnqueueRetry(q)
      <3>1. rows' = rows
        <4>1. CASE RequestGoesOn(q)
          BY <2>4, <4>1 DEF RequestGoesOn, MakeList, CountPending, PayForPending, ResetAccount,
             MarkAccount, PollFinalizes
        <4>2. CASE ~RequestGoesOn(q)
          BY <1>3, <4>2 DEF RequestStep, PollCounts, PayForList, StartAnalysis, RetryPays, RetrySelected,
             DeleteList, RequestDies
        <4> QED BY <4>1, <4>2
      <3> QED BY <2>1, <3>1, RowsUnchanged
    <2> QED BY <2>2, <2>3, <2>4
  <1>4. ASSUME NothingMoves PROVE KeepsRows /\ crossed \subseteq crossed'
    BY <1>4, RowsUnchanged DEF NothingMoves
  <1>5. CASE \E k \in DOMAIN rows : CalmTurn(k)
    BY <1>2, <1>5
  <1>6. CASE \E q \in ListRequests : RequestStep(q) /\ PhasesKept
    BY <1>3, <1>6
  <1> QED BY <1>1, <1>4, <1>5, <1>6

\* A deleted list stays deleted.
LEMMA DeletedStays ==
    ASSUME Base, Steadily, [ListNext]_listVars, upsets' = 0, list = "deleted"
    PROVE  list' = "deleted"
  <1> USE DEF listTable
  <1>1. ASSUME NEW k \in DOMAIN rows, CalmTurn(k) PROVE list' = list
    <2>1. ASSUME NEW p, NEW np, NEW st \in {"processing", "completed", "failed"}, Sets(k, p, np, st) PROVE list' = list
      BY <2>1, AccountEffect DEF Sets, Base
    <2> QED BY <1>1, <2>1 DEF CalmTurn, Takes, Fans, Works, Repays, Ends
  <1>2. ASSUME NEW q \in ListRequests, RequestStep(q) PROVE list' = "deleted"
    <2>1. MarkAccount(q) => list' = list
      BY AccountEffect DEF MarkAccount, Base
    <2>2. CASE RequestGoesOn(q)
      BY <2>1, <2>2 DEF RequestGoesOn, MakeList, EnqueueAnalysis, CountPending, PayForPending, ResetAccount,
         EnqueueRetry, PollFinalizes, Exists
    <2>3. CASE ~RequestGoesOn(q)
      BY <1>2, <2>3 DEF RequestStep, PollCounts, PayForList, StartAnalysis, RetryPays, RetrySelected,
         DeleteList, RequestDies, Exists
    <2> QED BY <2>2, <2>3
  <1>3. \/ \E k \in DOMAIN rows : CalmTurn(k)
        \/ \E q \in ListRequests : RequestStep(q)
        \/ NothingMoves
    BY CalmStep
  <1> QED BY <1>1, <1>2, <1>3 DEF NothingMoves

LEMMA CountedStep ==
    ASSUME Base, Steadily, AnalysesPaid, OneAtATime, FailuresCounted, [ListNext]_listVars
    PROVE  OneAtATime' /\ FailuresCounted'
  <1> DEFINE Good == /\ list' # "deleted" => Alone'
                     /\ failedCount' = Cardinality(Failed')
  <1>1. SUFFICES ASSUME upsets' = 0, "reset" \notin crossed', OneItemEach'
                 PROVE  Good
    <2>1. Calm' => upsets' = 0 /\ "reset" \notin crossed' /\ OneItemEach' /\ list' # "deleted"
      BY DEF Calm
    <2>2. upsets' = 0 /\ "reset" \notin crossed' /\ OneItemEach' => Good
      OBVIOUS
    <2>3. OneAtATime'
      BY <2>1, <2>2 DEF OneAtATime
    <2>4. FailuresCounted'
      BY <2>2 DEF FailuresCounted, OneItemEach, Failed
    <2> QED BY <2>3, <2>4
  <1>2. /\ upsets = 0 /\ SteadySlots
        /\ \/ \E k \in DOMAIN rows : CalmTurn(k)
           \/ \E q \in ListRequests : RequestStep(q) /\ PhasesKept
           \/ NothingMoves
    BY <1>1, CalmStep
  <1>3. KeepsRows /\ crossed \subseteq crossed'
    BY <1>1, CalmKeeps
  <1>4. "reset" \notin crossed /\ OneItemEach
    BY <1>1, <1>2, <1>3, CalmBefore
  <1>5. /\ list # "deleted" => Alone
        /\ failedCount = Cardinality(Failed)
    BY <1>2, <1>4 DEF OneAtATime, Calm, FailuresCounted, OneItemEach, Failed
  <1>6. ASSUME NEW k \in DOMAIN rows, CalmTurn(k) PROVE Good
    BY <1>1, <1>5, <1>6, AloneOfTasks
  <1>7. ASSUME NEW q \in ListRequests, RequestStep(q), PhasesKept PROVE Good
    BY <1>1, <1>2, <1>5, <1>7, AloneOfRequests
  <1>8. ASSUME NothingMoves PROVE Good
    <2>1. /\ list' = list /\ account' = account /\ failedCount' = failedCount /\ rows' = rows /\ req' = req /\ slot' = slot
      BY <1>8 DEF NothingMoves, listTable
    <2>2. Failed' = Failed /\ (Alone => Alone')
      BY <2>1 DEF Failed, Alone, RowWorks, RequestWorks
    <2> QED BY <1>5, <2>1, <2>2
  <1> HIDE DEF Good
  <1>9. CASE \E k \in DOMAIN rows : CalmTurn(k)
    BY <1>6, <1>9
  <1>10. CASE \E q \in ListRequests : RequestStep(q) /\ PhasesKept
    BY <1>7, <1>10
  <1> QED BY <1>2, <1>8, <1>9, <1>10
-----------------------------------------------------------------------------
(* The invariant. *)

LEMMA ListStarts ==
    ASSUME ListInit
    PROVE  ListInv
  <1> USE DEF ListInit
  <1>1. ListTypes
    BY ListConstants DEF ListTypes, Free, Places, Stages, ListFinal
  <1>2. DOMAIN rows = {} /\ \A q \in ListRequests : req[q].at = "idle"
    BY DEF Free
  <1>3. \A s \in Slots : slot[s].at = "idle" /\ slot[s].task = 0
    OBVIOUS
  <1>4. PlacesFit /\ TakenFirst /\ NothingYet
    BY <1>2, <1>3 DEF PlacesFit, TakenFirst, NothingYet, ChildStages, RetryStages
  <1>5. Steadily
    BY <1>2, <1>3 DEF Steadily, Held
  <1>6. /\ Unrepaid = {} /\ Retrying = {} /\ Unfanned = {} /\ Waiting = {} /\ RowsOf("list_item") = {}
        /\ {a \in Accounts : account[a] = "failed"} = {}
    BY <1>2 DEF Unrepaid, Retrying, Unfanned, Waiting, RowsOf
  <1>7. Cardinality({}) = 0
    BY FS_EmptySet
  <1>8. RefundsPaid
    BY <1>6, <1>7 DEF RefundsPaid
  <1>9. AnalysesPaid
    <2>1. Cardinality(Fresh) \in Nat
      <3>1. Fresh \subseteq Accounts
        BY DEF Fresh
      <3> QED BY <3>1, PendingFinite, FS_Subset, FS_CardinalityType
    <2>2. 0 + (0 + 0) * Cardinality(Fresh) <= paid - lost
      BY <2>1
    <2> QED BY <1>2, <1>6, <1>7, <2>2 DEF AnalysesPaid
  <1>10. OneAtATime
    BY <1>2 DEF OneAtATime, Alone, RequestWorks
  <1>11. FailuresCounted
    BY <1>6, <1>7 DEF FailuresCounted
  <1> QED BY <1>1, <1>4, <1>5, <1>8, <1>9, <1>10, <1>11 DEF ListInv

\* The inductive invariant: where every request, row and coroutine of a list is, and, while
\* nothing fails, what is paid for and still to be run or refunded, and who works on which
\* account.
THEOREM ListInvariant == ListSpec => []ListInv
  <1>1. ListInit => ListInv
    BY ListStarts
  <1>2. ListInv /\ [ListNext]_listVars => ListInv'
    <2> SUFFICES ASSUME ListInv, [ListNext]_listVars PROVE ListInv'
      OBVIOUS
    <2>1. Base /\ Steadily /\ RefundsPaid /\ AnalysesPaid /\ OneAtATime /\ FailuresCounted
      BY DEF ListInv, Base
    <2>2. Base'
      BY <2>1, BaseStep
    <2>3. Steadily' /\ RefundsPaid' /\ AnalysesPaid' /\ OneAtATime' /\ FailuresCounted'
      BY <2>1, SteadilyStep, RefundsStep, AnalysesStep, CountedStep
    <2> QED BY <2>2, <2>3 DEF ListInv, Base
  <1> QED BY <1>1, <1>2, PTL DEF ListSpec

\* The books of a list, for any number of accounts, requests, coroutines and faults: no
\* analysis runs more accounts than were charged, refunds of retries never exceed the
\* charges, and the counter of failed accounts is exact, however the requests and the tasks
\* of routes/lists.py and api/jobs.py interleave.
THEOREM ListBooksKept == ListSpec => []ListKeepsItsBooks
  <1>1. ListInv => ListKeepsItsBooks
    <2> SUFFICES ASSUME ListInv PROVE ListKeepsItsBooks
      OBVIOUS
    <2>0. Base
      BY DEF ListInv, Base
    <2>1. ListTypeOK
      <3>1. \A t \in DOMAIN rows : rows[t].status \in {"pending", "running", "completed", "failed"}
        <4>1. rows \in Seq(Row)
          BY DEF ListInv, ListTypes
        <4>2. \A t \in DOMAIN rows : rows[t] \in Row
          BY <4>1
        <4> QED BY <4>2 DEF Row
      <3> QED BY <3>1 DEF ListInv, ListTypes, PlacesFit, ListTypeOK
    <2>2. RunsArePaid
      <3> SUFFICES ASSUME upsets = 0, "fanout" \notin crossed
                   PROVE  Cardinality(RowsOf("list_item")) <= paid - lost
        BY DEF RunsArePaid
      <3> DEFINE i == Cardinality(RowsOf("list_item"))
                 x == Cardinality(Unfanned) + Cardinality(Waiting)
                 f == Cardinality(Fresh)
      <3>1. i \in Nat /\ x \in Nat /\ f \in Nat /\ paid - lost \in Int
        <4>1. Cardinality(Unfanned) \in Nat /\ Cardinality(Waiting) \in Nat /\ i \in Nat /\ f \in Nat
          BY <2>0, SetsFinite, FS_CardinalityType
        <4>2. paid \in Nat /\ lost \in Nat
          BY DEF ListInv, ListTypes
        <4> QED BY <4>1, <4>2
      <3>2. i + x * f <= paid - lost
        BY DEF ListInv, AnalysesPaid
      <3> HIDE DEF i, x, f
      <3> DEFINE b == x * f
      <3>3. b \in Nat /\ i + b <= paid - lost
        BY <3>1, <3>2, Products
      <3> HIDE DEF b
      <3>4. i <= paid - lost
        BY <3>1, <3>3
      <3> QED BY <3>4 DEF i
    <2>3. RefundsWithinCharges
      <3> SUFFICES ASSUME upsets = 0 PROVE back <= paid
        BY DEF RefundsWithinCharges
      <3> DEFINE u == Cardinality(Unrepaid)
                 w == Cardinality(Retrying)
      <3>1. u \in Nat /\ w \in Nat
        BY <2>0, SetsFinite, FS_CardinalityType
      <3>2. back + u + w <= paid /\ back \in Nat /\ paid \in Nat
        BY DEF ListInv, RefundsPaid, ListTypes
      <3> HIDE DEF u, w
      <3> QED BY <3>1, <3>2
    <2>4. FailuresCounted
      BY DEF ListInv
    <2> QED BY <2>1, <2>2, <2>3, <2>4 DEF ListKeepsItsBooks
  <1> QED BY <1>1, ListInvariant, PTL

=============================================================================

--------------------------- MODULE CreditAccount ---------------------------
(***************************************************************************)
(* The credits of one organization: charges and refunds (db/users.py),     *)
(* reservations (db/jobs.py, db/bulk.py), purchases announced by Stripe    *)
(* (billing.py, fulfill_session), the ledger (db/credit_ledger.py), and    *)
(* the connection pool they all share (db/_pool.py).                       *)
(*                                                                         *)
(* A caller is a coroutine in one of these functions.  The statements of   *)
(* PostgreSQL are atomic; a transaction holds its row locks until it       *)
(* commits.  The usage cache is left out: it only feeds what is displayed. *)
(***************************************************************************)
EXTENDS Integers, FiniteSets

CONSTANTS
    Callers,      \* coroutines
    Sessions,     \* Stripe checkout sessions
    Nobody,       \* the holder of a row lock nobody holds
    NoSession,    \* the session of a call that is not about one
    PoolMax,      \* db_pool_max
    StartCents,   \* the balance at the beginning
    Prices,       \* the amounts charged
    PackCents,    \* what one session buys
    MaxOps,       \* bound: calls
    MaxFaults     \* bound: calls that die, ledger entries that are not written

ASSUME AccountConstants ==
    /\ Nobody \notin Callers
    /\ NoSession \notin Sessions
    /\ PoolMax \in Nat \ {0}
    /\ StartCents \in Nat
    /\ Prices \subseteq Nat \ {0}
    /\ PackCents \in Nat \ {0}
    /\ MaxOps \in Nat
    /\ MaxFaults \in Nat

VARIABLES
    balance,      \* organizations.bonus_credits, committed
    rowLock,      \* the transaction that has updated that row and not committed
    fulfilled,    \* fulfilled_sessions, committed
    booked,       \* the sum of the ledger's entries
    held,         \* the connections taken from the pool: <<caller, 1>> and <<caller, 2>>
    pc, kind, amount, session,          \* where a caller is, in which call
    spent, unbooked, granted,           \* history: charges less refunds, what the
                                        \* ledger does not show, top-ups by session
    ops, faults

accountRows == <<balance, rowLock, fulfilled, booked>>
call == <<kind, amount, session>>
totals == <<spent, unbooked, granted>>
limits == <<ops, faults>>
creditVars == <<accountRows, held, pc, call, totals, limits>>

Kinds == {"charge", "refund", "reserve", "add", "fulfil"}
Steps == {"idle", "connect", "update", "insert", "topup", "ledger", "book", "commit", "release"}

CreditInit ==
    /\ balance = StartCents
    /\ rowLock = Nobody
    /\ fulfilled = {}
    /\ booked = 0
    /\ held = {}
    /\ pc = [c \in Callers |-> "idle"]
    /\ kind = [c \in Callers |-> "charge"]
    /\ amount = [c \in Callers |-> 0]
    /\ session = [c \in Callers |-> NoSession]
    /\ spent = 0 /\ unbooked = 0
    /\ granted = [s \in Sessions |-> 0]
    /\ ops = 0 /\ faults = 0
-----------------------------------------------------------------------------
Goto(c, step) == pc' = [pc EXCEPT ![c] = step]

Start(c, k, a, s) ==
    /\ pc[c] = "idle"
    /\ ops < MaxOps
    /\ ops' = ops + 1
    /\ Goto(c, "connect")
    /\ kind' = [kind EXCEPT ![c] = k]
    /\ amount' = [amount EXCEPT ![c] = a]
    /\ session' = [session EXCEPT ![c] = s]
    /\ UNCHANGED <<accountRows, held, totals, faults>>

Refunding == {c \in Callers : pc[c] # "idle" /\ kind[c] = "refund"}

\* A refund gives back what was charged (one at a time, so that amounts need no sum);
\* Stripe announces a session any number of times.
Begin(c) ==
    \/ \E k \in {"charge", "reserve"}, a \in Prices : Start(c, k, a, NoSession)
    \/ \E a \in Prices : /\ Refunding = {} /\ a <= spent
                         /\ Start(c, "refund", a, NoSession)
    \/ Start(c, "add", PackCents, NoSession)
    \/ \E s \in Sessions : Start(c, "fulfil", PackCents, s)

\* _pool.acquire() waits for a connection without a limit of time: settings.
\* db_pool_acquire_timeout is the one of create_pool, which limits connecting.
Take(c, n) ==
    /\ Cardinality(held) < PoolMax
    /\ held' = held \cup {<<c, n>>}

Connect(c) ==
    /\ pc[c] = "connect"
    /\ Take(c, 1)
    /\ Goto(c, IF kind[c] = "fulfil" THEN "insert" ELSE "update")
    /\ UNCHANGED <<accountRows, call, totals, limits>>

\* Another transaction has inserted the session and not committed yet.
Inserting(s) == \E c \in Callers : session[c] = s /\ pc[c] \in {"topup", "ledger", "book", "commit"}

\* Waiting for a row or a unique key ends: another transaction commits, or the
\* statement_timeout of the connection cancels the statement and the call.
Blocked(c) == \/ pc[c] \in {"update", "topup"} /\ rowLock # Nobody
              \/ pc[c] = "insert" /\ Inserting(session[c])

StatementTimeout(c) ==
    /\ Blocked(c)
    /\ Goto(c, "release")
    /\ UNCHANGED <<accountRows, held, call, totals, limits>>

\* Mutant: the balance is not tested in the UPDATE.
EnoughAnyway(c) == amount[c] > 0

Enough(c) == balance >= amount[c]

RowFree(c) == pc[c] = "update" /\ rowLock = Nobody

\* Mutant: no ledger entry.
UseCreditUnbooked(c) ==
    /\ RowFree(c) /\ kind[c] = "charge" /\ Enough(c)
    /\ balance' = balance - amount[c]
    /\ spent' = spent + amount[c]
    /\ Goto(c, "release")
    /\ UNCHANGED <<rowLock, fulfilled, booked, held, call, unbooked, granted, limits>>

UseCredit(c) ==
    /\ RowFree(c) /\ kind[c] = "charge" /\ Enough(c)
    /\ balance' = balance - amount[c]
    /\ spent' = spent + amount[c]
    /\ Goto(c, "ledger")
    /\ UNCHANGED <<rowLock, fulfilled, booked, held, call, unbooked, granted, limits>>

\* create_job_with_credit and create_bulk_job_with_credit write no ledger entry.
Reserve(c) ==
    /\ RowFree(c) /\ kind[c] = "reserve" /\ Enough(c)
    /\ balance' = balance - amount[c]
    /\ spent' = spent + amount[c]
    /\ unbooked' = unbooked - amount[c]
    /\ Goto(c, "release")
    /\ UNCHANGED <<rowLock, fulfilled, booked, held, call, granted, limits>>

\* The administrator's add_credits writes none either.
AddCredits(c) ==
    /\ RowFree(c) /\ kind[c] = "add"
    /\ balance' = balance + amount[c]
    /\ unbooked' = unbooked + amount[c]
    /\ Goto(c, "release")
    /\ UNCHANGED <<rowLock, fulfilled, booked, held, call, spent, granted, limits>>

\* Insufficient credits: the call returns False or raises ValueError.
Refuse(c) ==
    /\ RowFree(c) /\ kind[c] \in {"charge", "reserve"} /\ ~Enough(c)
    /\ Goto(c, "release")
    /\ UNCHANGED <<accountRows, held, call, totals, limits>>

RefundCredit(c) ==
    /\ RowFree(c) /\ kind[c] = "refund"
    /\ balance' = balance + amount[c]
    /\ spent' = spent - amount[c]
    /\ Goto(c, "ledger")
    /\ UNCHANGED <<rowLock, fulfilled, booked, held, call, unbooked, granted, limits>>
-----------------------------------------------------------------------------
(* fulfill_session, one transaction. *)

\* Mutant: a SELECT instead of the unique constraint.
InsertUnchecked(c) ==
    /\ pc[c] = "insert"
    /\ Goto(c, IF session[c] \in fulfilled THEN "release" ELSE "topup")
    /\ UNCHANGED <<accountRows, held, call, totals, limits>>

\* The unique constraint waits for it, then decides.
InsertSession(c) ==
    /\ pc[c] = "insert"
    /\ ~Inserting(session[c])
    /\ Goto(c, IF session[c] \in fulfilled THEN "release" ELSE "topup")
    /\ UNCHANGED <<accountRows, held, call, totals, limits>>

TopUp(c) ==
    /\ pc[c] = "topup"
    /\ rowLock = Nobody
    /\ rowLock' = c
    /\ Goto(c, "ledger")
    /\ UNCHANGED <<balance, fulfilled, booked, held, call, totals, limits>>

Commit(c) ==
    /\ pc[c] = "commit"
    /\ balance' = balance + amount[c]
    /\ fulfilled' = fulfilled \cup {session[c]}
    /\ granted' = [granted EXCEPT ![session[c]] = @ + 1]
    /\ rowLock' = Nobody
    /\ Goto(c, "release")
    /\ UNCHANGED <<booked, held, call, spent, unbooked, limits>>
-----------------------------------------------------------------------------
(* record_credit_event, on a connection of its own while the caller keeps  *)
(* the first, and outside the caller's transaction.                        *)

LedgerConnect(c) ==
    /\ pc[c] = "ledger"
    /\ Take(c, 2)
    /\ Goto(c, "book")
    /\ UNCHANGED <<accountRows, call, totals, limits>>

Booked(c) == Goto(c, IF kind[c] = "fulfil" THEN "commit" ELSE "release")

\* Mutant: the second connection is not given back.
BookLeaking(c) ==
    /\ pc[c] = "book"
    /\ booked' = booked + IF kind[c] = "charge" THEN -amount[c] ELSE amount[c]
    /\ Booked(c)
    /\ UNCHANGED <<balance, rowLock, fulfilled, held, call, totals, limits>>

Book(c) ==
    /\ pc[c] = "book"
    /\ booked' = booked + IF kind[c] = "charge" THEN -amount[c] ELSE amount[c]
    /\ held' = held \ {<<c, 2>>}
    /\ Booked(c)
    /\ UNCHANGED <<balance, rowLock, fulfilled, call, totals, limits>>

\* "Ledger is non-fatal": the exception is swallowed.
BookFails(c) ==
    /\ pc[c] \in {"ledger", "book"}
    /\ faults < MaxFaults /\ faults' = faults + 1
    /\ held' = held \ {<<c, 2>>}
    /\ Booked(c)
    /\ UNCHANGED <<accountRows, call, totals, ops>>

Release(c) ==
    /\ pc[c] = "release"
    /\ held' = held \ {<<c, 1>>}
    /\ Goto(c, "idle")
    /\ UNCHANGED <<accountRows, call, totals, limits>>

\* A statement raises, or the request is cancelled: an open transaction rolls back, what
\* was committed before stays.
Die(c) ==
    /\ pc[c] # "idle"
    /\ faults < MaxFaults /\ faults' = faults + 1
    /\ held' = held \ ({c} \X {1, 2})
    /\ rowLock' = IF rowLock = c THEN Nobody ELSE rowLock
    /\ Goto(c, "idle")
    /\ UNCHANGED <<balance, fulfilled, booked, call, totals, ops>>
-----------------------------------------------------------------------------
Goes(c) == \/ Connect(c) \/ UseCredit(c) \/ Reserve(c) \/ Refuse(c) \/ RefundCredit(c) \/ AddCredits(c)
           \/ InsertSession(c) \/ TopUp(c) \/ Commit(c)
           \/ StatementTimeout(c) \/ LedgerConnect(c) \/ Book(c) \/ Release(c)

CreditNext == \E c \in Callers : Begin(c) \/ Goes(c) \/ BookFails(c) \/ Die(c)

CreditSpec == CreditInit /\ [][CreditNext]_creditVars

\* A call that can go on does.  (A waiting call is served: waiters for a connection and
\* for a row lock queue up, and there are MaxOps calls in all.)
CreditFairSpec == CreditSpec /\ \A c \in Callers : WF_creditVars(Goes(c))
-----------------------------------------------------------------------------
(* Properties. *)

CreditTypeOK ==
    /\ balance \in Nat
    /\ rowLock \in Callers \cup {Nobody}
    /\ fulfilled \subseteq Sessions
    /\ booked \in Int
    /\ held \subseteq Callers \X {1, 2} /\ Cardinality(held) <= PoolMax
    /\ pc \in [Callers -> Steps]
    /\ kind \in [Callers -> Kinds]
    /\ amount \in [Callers -> Prices \cup {0, PackCents}]
    /\ session \in [Callers -> Sessions \cup {NoSession}]
    /\ spent \in Nat /\ unbooked \in Int
    /\ granted \in [Sessions -> Nat]
    /\ ops \in 0 .. MaxOps /\ faults \in 0 .. MaxFaults

\* A purchase is credited once, however often Stripe announces it, to however many
\* processes at once, and wherever one of them dies.
GrantedOnce == \A s \in Sessions : granted[s] <= 1 /\ (granted[s] = 1 <=> s \in fulfilled)

\* When no call is under way and none has failed, the ledger explains the balance, up to
\* the reservations and the administrator's additions, which are not written to it.
Quiescent == \A c \in Callers : pc[c] = "idle"

LedgerExplainsBalance ==
    Quiescent /\ faults = 0 => balance = StartCents + booked + unbooked

\* With a connection to spare for every caller but one, every call comes to its end.
CallsEnd == \A c \in Callers : pc[c] # "idle" ~> pc[c] = "idle"

\* "Ledger is non-fatal - never block the main operation": once the charge is made, the
\* call gets past its ledger entry.
LedgerNeverBlocks == \A c \in Callers : pc[c] = "ledger" ~> pc[c] # "ledger"
=============================================================================

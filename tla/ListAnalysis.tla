---------------------------- MODULE ListAnalysis ----------------------------
(***************************************************************************)
(* A list of company accounts: created and paid for by a request           *)
(* (routes/lists.py, api/routes.py), analysed by one child task per        *)
(* account, retried account by account, finalized by a child or by the     *)
(* page that polls it (api/jobs.py, db/lists.py).                          *)
(*                                                                         *)
(* The queue is reduced to its rows: claimed, completed, failed, requeued  *)
(* when stale; TaskQueue is its detailed model.  Credits are counted in    *)
(* whole credits of one paying user.                                       *)
(***************************************************************************)
EXTENDS Integers, FiniteSets, Sequences

CONSTANTS
    NAccounts,      \* accounts of the list
    ListRequests,   \* names for HTTP requests in progress
    Slots,          \* names for the coroutines of the workers
    ListBudget,     \* credits of the organization at the start
    MaxPaid,        \* bound on the credits charged, and so on the rows of the queue
    ListAttempts,   \* max_attempts of a task
    MaxListFaults   \* bound on crashes, lost requests and failing statements

Accounts == 1 .. NAccounts
ListFinal == {"completed", "partial_failure", "failed"}

\* The numbers are numbers, and finitely many requests are in progress.
ASSUME ListConstants ==
    /\ NAccounts \in Nat
    /\ IsFiniteSet(ListRequests)
    /\ ListBudget \in Nat
    /\ ListAttempts \in Nat
    /\ MaxListFaults \in Nat

VARIABLES
    list,           \* lists.status; "none" before, "deleted" after
    account,        \* list_accounts.status
    analyzed, failedCount,   \* lists.analyzed_accounts, lists.failed_accounts
    credits,        \* organizations.bonus_credits
    rows,           \* task_queue, in order of id
    claim,          \* the _finalize_list_id_ row exists
    req,            \* a request: where it is and what it read
    slot,           \* a coroutine: its task, where it is and what it read
    upsets,         \* faults so far
    paid, back, lost,  \* history: charged, refunded, taken for nothing by retry-selected
    crossed            \* history: "reset", a retry reset an account that was not failed any
                       \* more; "fanout", an analysis took an account that a retry had reset

listTable == <<list, account, analyzed, failedCount>>
money == <<credits, paid, back, lost>>
listVars == <<listTable, money, rows, claim, req, slot, upsets, crossed>>

Free == [at |-> "idle", n |-> 0]

ListInit ==
    /\ list = "none"
    /\ account = [a \in Accounts |-> "pending"]
    /\ analyzed = 0 /\ failedCount = 0
    /\ credits = ListBudget
    /\ rows = << >>
    /\ claim = FALSE
    /\ req = [q \in ListRequests |-> Free]
    /\ slot = [s \in Slots |-> [at |-> "idle", task |-> 0, n |-> 0]]
    /\ upsets = 0
    /\ paid = 0 /\ back = 0 /\ lost = 0
    /\ crossed = {}

Exists == list \notin {"none", "deleted"}
Pending == IF Exists THEN {a \in Accounts : account[a] = "pending"} ELSE {}
Upset == upsets < MaxListFaults /\ upsets' = upsets + 1

\* use_credit: one conditional UPDATE.
Charge(n) ==
    /\ paid + n <= MaxPaid
    /\ credits >= n
    /\ credits' = credits - n
    /\ paid' = paid + n
    /\ UNCHANGED back

Refunds(n) ==
    /\ credits' = credits + n
    /\ back' = back + n
    /\ UNCHANGED <<paid, lost>>

Queued(kind, a) == [kind |-> kind, account |-> a, status |-> "pending", tries |-> 0]

Enqueue(kind, a) == rows' = Append(rows, Queued(kind, a))

\* update_list_account: the row, and the counter of its list whatever the row was before.
SetAccount(a, s) ==
    IF Exists
    THEN /\ account' = [account EXCEPT ![a] = s]
         /\ analyzed' = analyzed + IF s = "completed" THEN 1 ELSE 0
         /\ failedCount' = failedCount + IF s = "failed" THEN 1 ELSE 0
         /\ UNCHANGED list
    ELSE UNCHANGED listTable

FinalStatus == IF failedCount = NAccounts THEN "failed"
               ELSE IF failedCount > 0 THEN "partial_failure" ELSE "completed"
-----------------------------------------------------------------------------
(* Requests. *)

ReqAt(q, p) == req[q].at = p
ReqTo(q, p, n) == req' = [req EXCEPT ![q] = [at |-> p, n |-> n]]
Elsewhere == UNCHANGED <<claim, slot, crossed>>

\* upload_list_csv, import_google_sheet and create_list_endpoint with analyze: the charge.
PayForList(q) ==
    /\ ReqAt(q, "idle") /\ list = "none"
    /\ Charge(NAccounts)
    /\ ReqTo(q, "upload", 0) \/ ReqTo(q, "create", 0)
    /\ UNCHANGED <<listTable, rows, lost, upsets>> /\ Elsewhere

\* create_list, add_list_accounts: an upload leaves the status at its default.
MakeList(q) ==
    /\ list = "none"
    /\ \/ ReqAt(q, "upload") /\ list' = "created" /\ ReqTo(q, "enqueue", 0)
       \/ ReqAt(q, "create") /\ list' = "analyzing" /\ ReqTo(q, "enqueue", 0)
       \/ ReqAt(q, "idle") /\ list' = "created" /\ UNCHANGED req
    /\ UNCHANGED <<account, analyzed, failedCount, money, rows, upsets>> /\ Elsewhere

EnqueueAnalysis(q) ==
    /\ ReqAt(q, "enqueue")
    /\ Enqueue("list_analysis", 0)
    /\ ReqTo(q, "idle", 0)
    /\ UNCHANGED <<listTable, money, upsets>> /\ Elsewhere

\* analyze_list_endpoint: try_start_list_analysis ...
StartAnalysis(q) ==
    /\ ReqAt(q, "idle") /\ Exists
    /\ list # "analyzing"
    /\ list' = "analyzing"
    /\ ReqTo(q, "started", 0)
    /\ UNCHANGED <<account, analyzed, failedCount, money, rows, upsets>> /\ Elsewhere

\* ... get_pending_list_accounts: with none, a 422 that leaves the status ...
CountPending(q) ==
    /\ ReqAt(q, "started")
    /\ IF Pending = {} THEN ReqTo(q, "idle", 0) ELSE ReqTo(q, "counted", Cardinality(Pending))
    /\ UNCHANGED <<listTable, money, rows, upsets>> /\ Elsewhere

\* Mutant: the analysis is started before it is paid for.
AnalyzeUnpaid(q) ==
    /\ ReqAt(q, "counted")
    /\ ReqTo(q, "enqueue", 0)
    /\ UNCHANGED <<listTable, money, rows, upsets>> /\ Elsewhere

\* ... and the charge for what was pending then: a 402 leaves the status too.
PayForPending(q) ==
    /\ ReqAt(q, "counted")
    /\ \/ Charge(req[q].n) /\ ReqTo(q, "enqueue", 0)
       \/ (credits < req[q].n \/ paid + req[q].n > MaxPaid) /\ UNCHANGED <<credits, paid, back>> /\ ReqTo(q, "idle", 0)
    /\ UNCHANGED <<listTable, rows, lost, upsets>> /\ Elsewhere

\* retry_list_account: the account was failed when it was read ...
RetryPays(q) ==
    /\ ReqAt(q, "idle") /\ Exists
    /\ \E a \in Accounts : account[a] = "failed" /\ Charge(1) /\ ReqTo(q, "reset", a)
    /\ UNCHANGED <<listTable, rows, lost, upsets>> /\ Elsewhere

\* ... reset_list_account: pending for a moment, and out of the failed ones, whatever it
\* has become since it was read ...
ResetAccount(q) ==
    /\ ReqAt(q, "reset")
    /\ IF Exists
       THEN /\ account' = [account EXCEPT ![req[q].n] = "pending"]
            /\ failedCount' = IF failedCount > 0 THEN failedCount - 1 ELSE 0
       ELSE UNCHANGED <<account, failedCount>>
    /\ ReqTo(q, "mark", req[q].n)
    /\ crossed' = crossed \cup IF Exists /\ account[req[q].n] # "failed" THEN {"reset"} ELSE {}
    /\ UNCHANGED <<list, analyzed, money, rows, upsets, claim, slot>>

MarkAccount(q) ==
    /\ ReqAt(q, "mark")
    /\ SetAccount(req[q].n, "processing")
    /\ ReqTo(q, "retry", req[q].n)
    /\ UNCHANGED <<money, rows, upsets>> /\ Elsewhere

EnqueueRetry(q) ==
    /\ ReqAt(q, "retry")
    /\ Enqueue("retry", req[q].n)
    /\ ReqTo(q, "idle", 0)
    /\ UNCHANGED <<listTable, money, upsets>> /\ Elsewhere

\* retry_selected_accounts takes the pair that get_list_accounts returns, its rows and
\* has_more, for the rows: never empty, charged for its two members, and the loop raises
\* on the first of them.
PairFetched == <<"rows", "has_more">>
RetrySelected(q) ==
    /\ ReqAt(q, "idle") /\ Exists
    /\ Charge(Len(PairFetched))
    /\ lost' = lost + Len(PairFetched)
    /\ UNCHANGED <<listTable, rows, req, upsets>> /\ Elsewhere

\* Mutant: only a list that is being analyzed is looked at.
PollAnalyzing(q) ==
    /\ ReqAt(q, "idle")
    /\ list = "analyzing"
    /\ \A a \in Accounts : account[a] \in {"completed", "failed"}
    /\ ReqTo(q, "finalize", 0)
    /\ UNCHANGED <<listTable, money, rows, upsets>> /\ Elsewhere

\* pipeline_status counts the accounts ...
PollCounts(q) ==
    /\ ReqAt(q, "idle")
    /\ list \in {"created", "analyzing"}
    /\ \A a \in Accounts : account[a] \in {"completed", "failed"}
    /\ ReqTo(q, "finalize", 0)
    /\ UNCHANGED <<listTable, money, rows, upsets>> /\ Elsewhere

\* ... and finalizes on what it counted, without a refund.
PollFinalizes(q) ==
    /\ ReqAt(q, "finalize")
    /\ list' = IF Exists THEN FinalStatus ELSE list
    /\ ReqTo(q, "idle", 0)
    /\ UNCHANGED <<account, analyzed, failedCount, money, rows, upsets>> /\ Elsewhere

DeleteList(q) ==
    /\ ReqAt(q, "idle") /\ Exists
    /\ list' = "deleted"
    /\ UNCHANGED <<account, analyzed, failedCount, money, rows, req, upsets>> /\ Elsewhere

RequestDies(q) ==
    /\ ~ReqAt(q, "idle") /\ Upset
    /\ ReqTo(q, "idle", 0)
    /\ UNCHANGED <<listTable, money, rows>> /\ Elsewhere
-----------------------------------------------------------------------------
(* Tasks: run_list_analysis, run_list_item, run_retry_account. *)

SlotAt(s, p) == slot[s].at = p
SlotTo(s, p, n) == slot' = [slot EXCEPT ![s] = [at |-> p, task |-> slot[s].task, n |-> n]]
Mine(s) == rows[slot[s].task].account
Steady == UNCHANGED <<req, upsets, crossed>>

StageOf(kind) == CASE kind = "list_analysis" -> "fanout"
                   [] kind = "list_item" -> "start"
                   [] kind = "retry" -> "retrying"

TakeTask(s) ==
    /\ SlotAt(s, "idle")
    /\ \E t \in DOMAIN rows :
        /\ rows[t].status = "pending"
        /\ rows' = [rows EXCEPT ![t] = [rows[t] EXCEPT !.status = "running", !.tries = rows[t].tries + 1]]
        /\ slot' = [slot EXCEPT ![s] = [at |-> StageOf(rows[t].kind), task |-> t, n |-> 0]]
    /\ UNCHANGED <<listTable, money, claim>> /\ Steady

BetweenResetAndMark(q) == ReqAt(q, "mark") /\ req[q].n \in Pending

FanOutList(s) ==
    /\ SlotAt(s, "fanout")
    /\ LET nth(i) == CHOOSE a \in Pending : Cardinality({b \in Pending : b <= a}) = i
       IN  rows' = rows \o [i \in 1 .. Cardinality(Pending) |-> Queued("list_item", nth(i))]
    /\ SlotTo(s, "return", 0)
    /\ crossed' = crossed \cup IF \E q \in ListRequests : BetweenResetAndMark(q) THEN {"fanout"} ELSE {}
    /\ UNCHANGED <<listTable, money, claim, req, upsets>>

StartAccount(s) ==
    /\ SlotAt(s, "start")
    /\ SetAccount(Mine(s), "processing")
    /\ SlotTo(s, "research", 0)
    /\ UNCHANGED <<money, rows, claim>> /\ Steady

\* _run_research_pipeline returns, and the account is completed with its scores.
AccountDone(s) ==
    /\ SlotAt(s, "research") \/ SlotAt(s, "retrying")
    /\ SetAccount(Mine(s), "completed")
    /\ SlotTo(s, IF SlotAt(s, "research") THEN "check" ELSE "return", 0)
    /\ UNCHANGED <<money, rows, claim>> /\ Steady

\* A statement of the try block fails after the update: the except branch
\* marks the account failed, and counts it again.
DoneRaises(s) ==
    /\ SlotAt(s, "research") \/ SlotAt(s, "retrying")
    /\ Upset
    /\ SetAccount(Mine(s), "completed")
    /\ SlotTo(s, IF SlotAt(s, "research") THEN "bad" ELSE "retry_bad", 0)
    /\ UNCHANGED <<money, rows, claim, req, crossed>>

AccountFails(s) ==
    /\ slot[s].at \in {"research", "bad", "retry_mark"}
    /\ SetAccount(Mine(s), "failed")
    /\ SlotTo(s, IF SlotAt(s, "retry_mark") THEN "return" ELSE "check", 0)
    /\ UNCHANGED <<money, rows, claim>> /\ Steady

\* run_retry_account refunds first.
RetryRefunds(s) ==
    /\ SlotAt(s, "retrying") \/ SlotAt(s, "retry_bad")
    /\ Refunds(1)
    /\ SlotTo(s, "retry_mark", 0)
    /\ UNCHANGED <<listTable, rows, claim>> /\ Steady

\* check_no_pending_siblings: the child's own row is still running, unless it was requeued.
OpenRows == {t \in DOMAIN rows : rows[t].kind \in {"list_analysis", "list_item"}
                                  /\ rows[t].status \notin {"completed", "failed"}}
CheckSiblings(s) ==
    /\ SlotAt(s, "check")
    /\ IF claim \/ OpenRows # {}
       THEN SlotTo(s, "return", 0) /\ UNCHANGED claim
       ELSE SlotTo(s, "finalize", 0) /\ claim' = TRUE
    /\ UNCHANGED <<listTable, money, rows>> /\ Steady

\* _finalize_list_parent; of a deleted list finalize_list reads no row, and raises.
FinalizeList(s) ==
    /\ SlotAt(s, "finalize") /\ Exists
    /\ list' = FinalStatus
    /\ SlotTo(s, "refund", failedCount)
    /\ UNCHANGED <<account, analyzed, failedCount, money, rows, claim>> /\ Steady

RefundFailed(s) ==
    /\ SlotAt(s, "refund")
    /\ Refunds(slot[s].n)
    /\ SlotTo(s, "return", 0)
    /\ UNCHANGED <<listTable, rows, claim>> /\ Steady

Leave(s, status) ==
    /\ slot' = [slot EXCEPT ![s] = [at |-> "idle", task |-> 0, n |-> 0]]
    /\ rows' = [rows EXCEPT ![slot[s].task] = [rows[slot[s].task] EXCEPT !.status = status]]

Again(t) == IF rows[t].tries < ListAttempts THEN "pending" ELSE "failed"

TaskReturns(s) ==
    /\ SlotAt(s, "return")
    /\ Leave(s, "completed")
    /\ UNCHANGED <<listTable, money, claim>> /\ Steady

TaskRaises(s) ==
    /\ \/ SlotAt(s, "finalize") /\ ~Exists /\ UNCHANGED upsets
       \/ slot[s].at \in {"fanout", "start", "bad", "retry_bad", "retry_mark", "check", "finalize", "refund"} /\ Upset
    /\ Leave(s, Again(slot[s].task))
    /\ UNCHANGED <<listTable, money, claim, req, crossed>>

\* The process dies: the row stays running until it is requeued as stale ...
TaskDies(s) ==
    /\ ~SlotAt(s, "idle") /\ Upset
    /\ slot' = [slot EXCEPT ![s] = [at |-> "idle", task |-> 0, n |-> 0]]
    /\ UNCHANGED <<listTable, money, rows, claim, req, crossed>>

\* ... which also happens to a task that is only slow.
RequeueStale(t) ==
    /\ rows[t].status = "running"
    /\ IF \E s \in Slots : slot[s].task = t THEN Upset ELSE UNCHANGED upsets
    /\ LET tries == rows[t].tries + 1
           status == IF tries < ListAttempts THEN "pending" ELSE "failed"
       IN  rows' = [rows EXCEPT ![t] = [rows[t] EXCEPT !.status = status, !.tries = tries]]
    /\ UNCHANGED <<listTable, money, claim, req, slot, crossed>>

\* A day later the marker is deleted.
ClaimExpires ==
    /\ claim
    /\ claim' = FALSE
    /\ UNCHANGED <<listTable, money, rows, req, slot, upsets, crossed>>

RequestGoesOn(q) ==
    \/ MakeList(q) \/ EnqueueAnalysis(q) \/ CountPending(q) \/ PayForPending(q)
    \/ ResetAccount(q) \/ MarkAccount(q) \/ EnqueueRetry(q) \/ PollFinalizes(q)

RequestStep(q) ==
    \/ RequestGoesOn(q) \/ PollCounts(q)
    \/ PayForList(q) \/ StartAnalysis(q) \/ RetryPays(q) \/ RetrySelected(q)
    \/ DeleteList(q) \/ RequestDies(q)

TaskGoesOn(s) ==
    \/ TakeTask(s) \/ FanOutList(s) \/ StartAccount(s) \/ AccountDone(s)
    \/ AccountFails(s) \/ RetryRefunds(s) \/ CheckSiblings(s) \/ FinalizeList(s)
    \/ RefundFailed(s) \/ TaskReturns(s)

TaskStep(s) == TaskGoesOn(s) \/ DoneRaises(s) \/ TaskRaises(s) \/ TaskDies(s)

ListNext ==
    \/ \E q \in ListRequests : RequestStep(q)
    \/ \E s \in Slots : TaskStep(s)
    \/ \E t \in DOMAIN rows : RequeueStale(t)
    \/ ClaimExpires

ListSpec == ListInit /\ [][ListNext]_listVars

\* Workers and requests go on; the page polls; stale rows are requeued.
ListFair ==
    /\ \A q \in ListRequests : WF_listVars(RequestGoesOn(q)) /\ WF_listVars(PollCounts(q))
    /\ \A s \in Slots : WF_listVars(TaskGoesOn(s))
-----------------------------------------------------------------------------
(* Properties. *)

ListTypeOK ==
    /\ list \in {"none", "created", "analyzing", "deleted"} \cup ListFinal
    /\ account \in [Accounts -> {"pending", "processing", "completed", "failed"}]
    /\ analyzed \in Nat /\ failedCount \in Nat /\ credits \in Nat
    /\ \A t \in DOMAIN rows : rows[t].status \in {"pending", "running", "completed", "failed"}
    /\ \A s \in Slots : slot[s].at = "idle" <=> slot[s].task = 0

RowsOf(kind) == {t \in DOMAIN rows : rows[t].kind = kind}

\* No analysis runs more accounts than credits were charged, however analyses of one list
\* overlap and retries put accounts back to pending, while nothing fails and no analysis
\* takes an account that a retry has reset and not marked yet: that one is run for the
\* credit of the retry, and once more for nobody's.
RunsArePaid == upsets = 0 /\ "fanout" \notin crossed => Cardinality(RowsOf("list_item")) <= paid - lost

\* Refunds never exceed what was charged, while nothing fails.
RefundsWithinCharges == upsets = 0 => back <= paid

\* The failed accounts of the counter are the failed accounts of the list, however retries
\* take accounts out of the count and runs put them back, while an analysis takes each
\* account once and no retry resets one that another retry has taken out of the count.
FailuresCounted ==
    upsets = 0 /\ "reset" \notin crossed /\ (\A t, u \in RowsOf("list_item") : rows[t].account = rows[u].account => t = u)
    => failedCount = Cardinality({a \in Accounts : account[a] = "failed"})

\* The books of a list.
ListKeepsItsBooks == ListTypeOK /\ RunsArePaid /\ RefundsWithinCharges /\ FailuresCounted

\* A list whose analysis was paid for and queued is finalized in the end, though no child
\* ever finds itself the last one: the page that polls it does it.
AnalysisQueued == \E t \in DOMAIN rows : rows[t].kind = "list_analysis"
ListSettles == AnalysisQueued ~> list \in ListFinal \cup {"deleted"} \/ upsets > 0
=============================================================================

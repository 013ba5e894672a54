----------------------------- MODULE Watchlist ------------------------------
(***************************************************************************)
(* Companies researched again and again (db/watchlist.py, api/jobs.py):    *)
(* schedulers claim the items that are due (worker.py), each run is paid   *)
(* for and reschedules its item, the user pauses, resumes and deletes      *)
(* items meanwhile (routes/watchlist.py, api/routes.py).                   *)
(*                                                                         *)
(* Time is counted in steps of a week or more.  A task of the queue is     *)
(* done with long before that: time passes when no task is outstanding.    *)
(***************************************************************************)
EXTENDS Integers, FiniteSets

CONSTANTS
    Watched,        \* names of companies on the list
    Schedulers,     \* the poll loops: the web process and worker.py
    WatchRuns,      \* slots for tasks of type watchlist_item
    WatchAttempts,  \* max_attempts of a task
    Wallet,         \* credits a purchase brings
    MaxPutOffs      \* bound: times an active item is added once more

NoItem == "none"

\* What the code gives: a task has an attempt (task_queue.max_attempts), and "none" is
\* the name of no company.
ASSUME WatchConstants ==
    /\ NoItem \notin Watched
    /\ WatchAttempts \in Nat \ {0}
    /\ Wallet \in Nat
    /\ MaxPutOffs \in Nat

VARIABLES
    watch,      \* watchlist_items: status, schedule, due (next_run_at), doc (last_document_id)
    latest,     \* the newest document of a company, a version number modulo 3
    wallet,     \* bonus_credits
    claimed,    \* what a scheduler has claimed and not yet enqueued
    run,        \* the tasks: item, where it is, attempts, payload; history: charges so far
    behind,     \* history: items a run of which stored a document and then failed or died,
                \* until a later run is recorded
    crashed,    \* some process has died: one death is the bound
    putOff      \* times an active item was added once more

watchVars == <<watch, latest, wallet, claimed, run, behind, crashed, putOff>>

Schedules == 1 .. 2     \* weekly, monthly
Far == 2                \* thirty days
OnList(i) == watch[i].status \notin {"absent", "deleted"}
IdleRun == [item |-> NoItem, at |-> "free", tries |-> 0, paid |-> 0, old |-> 0, schedule |-> 1]

WatchInit ==
    /\ watch = [i \in Watched |-> [status |-> "absent", schedule |-> 1, due |-> 1, doc |-> 0]]
    /\ latest = [i \in Watched |-> 0]
    /\ wallet = Wallet
    /\ claimed = [s \in Schedulers |-> {}]
    /\ run = [r \in WatchRuns |-> IdleRun]
    /\ behind = {}
    /\ crashed = FALSE
    /\ putOff = 0
-----------------------------------------------------------------------------
(* The user. *)

\* create_watchlist_item: an insert, or an item that is made active again.
\* An item that is active is put off again: MaxPutOffs times is the bound.
AddItem(i) ==
    /\ watch[i].status # "deleted"
    /\ IF watch[i].status = "active"
       THEN putOff < MaxPutOffs /\ putOff' = putOff + 1
       ELSE UNCHANGED putOff
    /\ \E s \in Schedules :
        watch' = [watch EXCEPT ![i].status = "active", ![i].schedule = s, ![i].due = s]
    /\ UNCHANGED <<latest, wallet, claimed, run, behind, crashed>>

\* update_watchlist_item: only what was paused or skipped gets a new date.
UpdateItem(i) ==
    /\ OnList(i)
    /\ \E status \in {"active", "paused"}, s \in Schedules :
        watch' = [watch EXCEPT ![i].status = status, ![i].schedule = s,
                               ![i].due = IF status = "active" /\ watch[i].status # "active" THEN s ELSE @]
    /\ UNCHANGED <<putOff, latest, wallet, claimed, run, behind, crashed>>

\* delete_watchlist_item, and the history with it; added again, the company is another row.
DeleteItem(i) ==
    /\ OnList(i)
    /\ watch' = [watch EXCEPT ![i] = [status |-> "deleted", schedule |-> 1, due |-> 1, doc |-> 0]]
    /\ UNCHANGED <<putOff, latest, wallet, claimed, run, behind, crashed>>

Purchase ==
    /\ wallet = 0
    /\ wallet' = Wallet
    /\ UNCHANGED <<putOff, watch, latest, claimed, run, behind, crashed>>

Outstanding == {r \in WatchRuns : run[r].at # "free"}

TimePasses ==
    /\ Outstanding = {} /\ \A s \in Schedulers : claimed[s] = {}
    /\ \E i \in Watched : watch[i].due > 0
    /\ watch' = [i \in Watched |-> [watch[i] EXCEPT !.due = IF @ > 0 THEN @ - 1 ELSE 0]]
    /\ UNCHANGED <<putOff, latest, wallet, claimed, run, behind, crashed>>
-----------------------------------------------------------------------------
(* The schedulers and the tasks. *)

DueItems == {i \in Watched : watch[i].status = "active" /\ watch[i].due = 0}
Payloads == {[item |-> i, old |-> watch[i].doc, schedule |-> watch[i].schedule] : i \in DueItems}

\* Mutant: the claim only reads, and the date moves when the run completes.
ClaimByReading(s) ==
    /\ claimed[s] = {} /\ DueItems # {}
    /\ claimed' = [claimed EXCEPT ![s] = Payloads]
    /\ UNCHANGED <<putOff, watch, latest, wallet, run, behind, crashed>>

\* claim_due_items: one UPDATE ... SKIP LOCKED that moves what it returns thirty days ahead.
ClaimDue(s) ==
    /\ claimed[s] = {} /\ DueItems # {}
    /\ claimed' = [claimed EXCEPT ![s] = Payloads]
    /\ watch' = [i \in Watched |-> [watch[i] EXCEPT !.due = IF i \in DueItems THEN Far ELSE @]]
    /\ UNCHANGED <<putOff, latest, wallet, run, behind, crashed>>

\* _enqueue_due_watchlist_items: the payload is what the claim returned.
EnqueueDue(s) ==
    \E c \in claimed[s], r \in WatchRuns :
        /\ run[r].at = "free"
        /\ run' = [run EXCEPT ![r] = [item |-> c.item, at |-> "queued", tries |-> 0, paid |-> 0,
                                      old |-> c.old, schedule |-> c.schedule]]
        /\ claimed' = [claimed EXCEPT ![s] = @ \ {c}]
        /\ UNCHANGED <<putOff, watch, latest, wallet, behind, crashed>>

RunAt(r, p) == run[r].at = p
RunTo(r, p) == run' = [run EXCEPT ![r].at = p]
RunEnds(r) == run' = [run EXCEPT ![r] = IdleRun]
RunAgain(r, paid) ==
    IF run[r].tries < WatchAttempts THEN run' = [run EXCEPT ![r].at = "queued", ![r].paid = paid]
    ELSE RunEnds(r)

TakeRun(r) ==
    /\ RunAt(r, "queued")
    /\ run' = [run EXCEPT ![r].at = "charge", ![r].tries = @ + 1]
    /\ UNCHANGED <<putOff, watch, latest, wallet, claimed, behind, crashed>>

\* create_job_with_credit, at every attempt.
ChargeRun(r) ==
    /\ RunAt(r, "charge") /\ wallet > 0
    /\ wallet' = wallet - 1
    /\ run' = [run EXCEPT ![r].at = "research", ![r].paid = @ + 1]
    /\ UNCHANGED <<putOff, watch, latest, claimed, behind, crashed>>

\* It raises, before its commit or after it: the task is retried, the item is left alone.
ChargeRaises(r) ==
    /\ RunAt(r, "charge")
    /\ \/ RunAgain(r, run[r].paid) /\ UNCHANGED wallet
       \/ wallet > 0 /\ wallet' = wallet - 1 /\ RunAgain(r, run[r].paid + 1)
    /\ UNCHANGED <<putOff, watch, latest, claimed, behind, crashed>>

\* ValueError: mark_skipped_no_credits, and the task is done, or retried when a statement raises.
SkipRun(r) ==
    LET i == run[r].item
        marked == IF OnList(i) THEN [watch EXCEPT ![i].status = "skipped_no_credits"] ELSE watch
    IN  /\ RunAt(r, "charge") /\ wallet = 0
        /\ \/ watch' = marked /\ RunEnds(r)
           \/ watch' \in {marked, watch} /\ RunAgain(r, run[r].paid)
        /\ UNCHANGED <<putOff, latest, wallet, claimed, behind, crashed>>

\* complete_watchlist_run, with the schedule of the payload.
Reschedule(i, doc, schedule) ==
    watch' = IF OnList(i)
             THEN [watch EXCEPT ![i].status = "active", ![i].due = schedule, ![i].doc = doc]
             ELSE watch

\* The pipeline stores the document.
NewDocument(r) ==
    /\ RunAt(r, "research")
    /\ latest' = IF OnList(run[r].item) THEN [latest EXCEPT ![run[r].item] = (@ + 1) % 3] ELSE latest
    /\ RunTo(r, "record")
    /\ UNCHANGED <<putOff, watch, wallet, claimed, behind, crashed>>

\* record_score_change, which needs the item, and complete_watchlist_run.
RecordRun(r) ==
    /\ RunAt(r, "record") /\ OnList(run[r].item)
    /\ Reschedule(run[r].item, latest[run[r].item], run[r].schedule)
    /\ behind' = behind \ {run[r].item}
    /\ RunTo(r, "recorded")
    /\ UNCHANGED <<putOff, latest, wallet, claimed, crashed>>

\* The task is completed.
EndRun(r) ==
    /\ RunAt(r, "recorded")
    /\ RunEnds(r)
    /\ UNCHANGED <<putOff, watch, latest, wallet, claimed, behind, crashed>>

\* What fails, or dies, with a document stored.
LeftBehind(r) == IF run[r].at \in {"record", "recorded"} THEN {run[r].item} ELSE {}

\* Something raises between the charge and the end of the task: the research, the score change
\* of an item that is gone, any statement, the last one even when it was applied.  The except
\* branch puts back the document the payload names, unless a statement of its own raises or
\* only the completion of the task did.
FailRun(r) ==
    /\ run[r].at \in {"research", "record", "recorded"}
    /\ Reschedule(run[r].item, run[r].old, run[r].schedule) \/ UNCHANGED watch
    /\ behind' = behind \cup LeftBehind(r)
    /\ RunAgain(r, run[r].paid)
    /\ UNCHANGED <<putOff, latest, wallet, claimed, crashed>>

\* A process dies: what its scheduler claimed is forgotten (as when an enqueue raises), its
\* tasks are requeued as stale.  One death is the bound.
SchedulerDies(s) ==
    /\ claimed[s] # {} /\ ~crashed
    /\ claimed' = [claimed EXCEPT ![s] = {}]
    /\ crashed' = TRUE
    /\ UNCHANGED <<putOff, watch, latest, wallet, run, behind>>

RunDies(r) ==
    /\ run[r].at \notin {"free", "queued"} /\ ~crashed
    /\ LET tries == run[r].tries + 1
       IN  run' = [run EXCEPT ![r] = IF tries < WatchAttempts
                                     THEN [@ EXCEPT !.at = "queued", !.tries = tries] ELSE IdleRun]
    /\ behind' = behind \cup LeftBehind(r)
    /\ crashed' = TRUE
    /\ UNCHANGED <<putOff, watch, latest, wallet, claimed>>

RunGoesOn(r) ==
    \/ TakeRun(r) \/ ChargeRun(r) \/ ChargeRaises(r) \/ SkipRun(r)
    \/ NewDocument(r) \/ RecordRun(r) \/ EndRun(r) \/ FailRun(r)
Schedule(s) == ClaimDue(s) \/ EnqueueDue(s)

WatchNext ==
    \/ \E i \in Watched : AddItem(i) \/ UpdateItem(i) \/ DeleteItem(i)
    \/ Purchase \/ TimePasses
    \/ \E s \in Schedulers : Schedule(s) \/ SchedulerDies(s)
    \/ \E r \in WatchRuns : RunGoesOn(r) \/ RunDies(r)

WatchSpec == WatchInit /\ [][WatchNext]_watchVars

\* Time passes, the poll loops turn, claimed tasks run.
WatchFair ==
    /\ WF_watchVars(TimePasses)
    /\ \A s \in Schedulers : WF_watchVars(Schedule(s))
    /\ \A r \in WatchRuns : WF_watchVars(RunGoesOn(r))
-----------------------------------------------------------------------------
(* Properties. *)

WatchTypeOK ==
    /\ \A i \in Watched : /\ watch[i].status \in {"absent", "deleted", "active", "paused", "skipped_no_credits"}
                          /\ watch[i].due \in 0 .. Far /\ watch[i].doc \in 0 .. 2
    /\ wallet \in 0 .. Wallet /\ putOff \in 0 .. MaxPutOffs
    /\ \A r \in WatchRuns : run[r].tries \in 0 .. WatchAttempts
    /\ behind \subseteq Watched

\* Two poll loops, retries and an item added again never have two tasks for one item: a
\* company is not researched, and charged for, twice in a period.
OneTaskPerItem ==
    \A i \in Watched :
        Cardinality({r \in WatchRuns : run[r].item = i}) + Cardinality({s \in Schedulers : \E c \in claimed[s] : c.item = i}) <= 1

\* A task is charged for once an attempt, so never more often than it may be tried; none of
\* these charges is ever given back (create_job_with_credit; no except branch refunds).
ChargesBounded == \A r \in WatchRuns : run[r].paid <= run[r].tries

\* Between runs an item refers to the newest document of its company, unless the run that
\* stored it failed or died afterwards: the except branch writes the older document back,
\* and a later run that is recorded repairs it (complete_watchlist_run).
DocumentIsLatest ==
    \A i \in Watched :
        OnList(i) /\ (\A r \in WatchRuns : run[r].item # i) => watch[i].doc = latest[i] \/ i \in behind

\* What the list promises in every state: its types and the three above (claim_due_items,
\* create_job_with_credit, complete_watchlist_run).
WatchKeepsItsItems == WatchTypeOK /\ OneTaskPerItem /\ ChargesBounded /\ DocumentIsLatest

\* An active item is researched again in the end, or leaves the list of active ones, even
\* if a scheduler dies between the claim and the task.
ResearchedAgain ==
    \A i \in Watched : watch[i].status = "active" ~>
        (\E r \in WatchRuns : run[r].item = i) \/ watch[i].status # "active"
=============================================================================

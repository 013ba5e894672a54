----------------------------- MODULE BulkFanout -----------------------------
(***************************************************************************)
(* A bulk research job on the durable queue: one parent task fans out one  *)
(* child task per item (api/jobs.py), every child counts its item          *)
(* (db/bulk.py), asks whether its siblings are done (db/task_queue.py) and *)
(* the one that is told so finalizes the job and refunds the failed items. *)
(*                                                                         *)
(* One bulk job of a paying user.  Row 1 of the queue is the parent.  Rows *)
(* live for seven days, the job for less: none is pruned meanwhile.        *)
(***************************************************************************)
EXTENDS TaskQueue, FiniteSetsExt

CONSTANTS
    MaxItems,     \* the items of the bulk job are 1 .. MaxItems
    Readers       \* names for GET /research/bulk/{id} requests in progress

ASSUME FanConstants == MaxItems \in Nat

Items == 1 .. MaxItems
Parent == 0

VARIABLES
    bulk,         \* bulk_jobs.status, "none" before the request
    done, bad,    \* completed_items and failed_items
    item,         \* bulk_job_items.status
    aged,         \* the items are more than ten minutes old
    payload,      \* what a row of the queue is for: an item, or the parent
    marker,       \* the _finalize_ row exists
    stage, owes,  \* where a child or the parent is; the failures it will refund
    stale,        \* the items a reader saw processing and too old
    finals,       \* history: finalizations
    refunded,     \* history: items refunded
    forgotten     \* history: the marker was deleted after a day

jobTable == <<bulk, done, bad, item>>
local == <<stage, owes>>
readers == <<stale, aged>>
past == <<finals, refunded, forgotten>>
bulkVars == <<jobTable, payload, marker, local, readers, past>>
fanVars == <<vars, bulkVars>>

ItemStatuses == {"pending", "processing", "completed", "failed"}
FinalStatuses == {"completed", "partial_failure", "failed"}
Stages == {"none", "fanout", "returning", "start", "pipeline", "succeeded", "erred",
           "check", "finalize", "refund", "notify"}

FanInit ==
    /\ Init
    /\ bulk = "none"
    /\ done = 0 /\ bad = 0
    /\ item = [i \in Items |-> "pending"]
    /\ aged = FALSE
    /\ payload = [t \in Tasks |-> Parent]
    /\ marker = FALSE
    /\ stage = [r \in Runs |-> "none"]
    /\ owes = [r \in Runs |-> 0]
    /\ stale = [p \in Readers |-> {}]
    /\ finals = 0 /\ refunded = 0
    /\ forgotten = FALSE
-----------------------------------------------------------------------------
(* The request, and the reader that times items out. *)

\* create_bulk_job_with_credit, create_bulk_job_items, enqueue: nothing else sees the
\* job between them, and a request that dies there leaves no task.
CreateBulk ==
    /\ bulk = "none"
    /\ bulk' = "processing"
    /\ status' = [status EXCEPT ![1] = "pending"]
    /\ created' = [created EXCEPT ![1] = 1]
    /\ UNCHANGED <<attempts, due, overdue, loop, runs, history, bounds,
                   done, bad, item, payload, marker, local, readers, past>>

TenMinutesPass ==
    /\ bulk # "none"
    /\ ~aged
    /\ aged' = TRUE
    /\ UNCHANGED <<vars, jobTable, payload, marker, local, stale, past>>

\* get_bulk_job_status reads the items once ...
ReadItems(p) ==
    /\ aged
    /\ stale[p] = {}
    /\ \E i \in Items : item[i] = "processing"
    /\ stale' = [stale EXCEPT ![p] = {i \in Items : item[i] = "processing"}]
    /\ UNCHANGED <<vars, jobTable, payload, marker, local, aged, past>>

CountFailed(i) ==
    /\ item' = [item EXCEPT ![i] = "failed"]
    /\ bad' = bad + 1
    /\ UNCHANGED <<bulk, done>>

\* ... and fails each of those, whatever it has become.
TimeItemOut(p) ==
    /\ stale[p] # {}
    /\ CountFailed(Min(stale[p]))
    /\ stale' = [stale EXCEPT ![p] = @ \ {Min(@)}]
    /\ UNCHANGED <<vars, payload, marker, local, aged, past>>
-----------------------------------------------------------------------------
(* run_bulk_job and run_bulk_item, in coroutine r. *)

At(r, s) == phase[r] = "executing" /\ stage[r] = s
To(r, s) == stage' = [stage EXCEPT ![r] = s]
ItemOf(r) == payload[task[r]]
Quiet == UNCHANGED <<table, loop, runs, history, payload, readers>>

Rows == {t \in Tasks : status[t] # "absent"}
NewRows == Cardinality(Rows) + 1 .. Cardinality(Rows) + MaxItems

\* Mutant: the payloads are built from one item.
FanOutOneItem(r) ==
    /\ At(r, "fanout")
    /\ NewRows \subseteq Tasks
    /\ status' = [t \in Tasks |-> IF t \in NewRows THEN "pending" ELSE status[t]]
    /\ created' = [t \in Tasks |-> IF t \in NewRows THEN Min(NewRows) ELSE created[t]]
    /\ payload' = [t \in Tasks |-> IF t \in NewRows THEN MaxItems ELSE payload[t]]
    /\ To(r, "returning")
    /\ UNCHANGED <<attempts, due, overdue, loop, runs, history, bounds,
                   jobTable, marker, owes, readers, past>>

\* enqueue_many, one batch: a bulk job has at most 100 items, a chunk is 500.
FanOut(r) ==
    /\ At(r, "fanout")
    /\ NewRows \subseteq Tasks
    /\ status' = [t \in Tasks |-> IF t \in NewRows THEN "pending" ELSE status[t]]
    /\ created' = [t \in Tasks |-> IF t \in NewRows THEN Min(NewRows) ELSE created[t]]
    /\ payload' = [t \in Tasks |-> IF t \in NewRows THEN t - Min(NewRows) + 1 ELSE payload[t]]
    /\ To(r, "returning")
    /\ UNCHANGED <<attempts, due, overdue, loop, runs, history, bounds,
                   jobTable, marker, owes, readers, past>>

StartItem(r) ==
    /\ At(r, "start")
    /\ item' = [item EXCEPT ![ItemOf(r)] = "processing"]
    /\ To(r, "pipeline")
    /\ Quiet /\ UNCHANGED <<bounds, bulk, done, bad, marker, owes, past>>

PipelineEnds(r) ==
    /\ At(r, "pipeline")
    /\ To(r, "succeeded") \/ To(r, "erred")
    /\ Quiet /\ UNCHANGED <<bounds, jobTable, marker, owes, past>>

CountCompleted(i) ==
    /\ item' = [item EXCEPT ![i] = "completed"]
    /\ done' = done + 1
    /\ UNCHANGED <<bulk, bad>>

Succeed(r) ==
    /\ At(r, "succeeded")
    /\ CountCompleted(ItemOf(r))
    /\ To(r, "check")
    /\ Quiet /\ UNCHANGED <<bounds, marker, owes, past>>

\* An exception on the way, or a lost reply: the except branch counts the item again.
SucceedRaises(r) ==
    /\ At(r, "succeeded")
    /\ Fault
    /\ CountCompleted(ItemOf(r)) \/ UNCHANGED jobTable
    /\ To(r, "erred")
    /\ Quiet /\ UNCHANGED <<retries, marker, owes, past>>

\* Mutant: the failure is counted for the item, not for its job.
ErrUncounted(r) ==
    /\ At(r, "erred")
    /\ item' = [item EXCEPT ![ItemOf(r)] = "failed"]
    /\ To(r, "check")
    /\ Quiet /\ UNCHANGED <<bounds, bulk, done, bad, marker, owes, past>>

\* Mutant: the other way round.
ErrUnmarked(r) ==
    /\ At(r, "erred")
    /\ bad' = bad + 1
    /\ To(r, "check")
    /\ Quiet /\ UNCHANGED <<bounds, bulk, done, item, marker, owes, past>>

Err(r) ==
    /\ At(r, "erred")
    /\ CountFailed(ItemOf(r))
    /\ To(r, "check")
    /\ Quiet /\ UNCHANGED <<bounds, marker, owes, past>>
-----------------------------------------------------------------------------
(* check_no_pending_siblings and what follows when it says yes. *)

Unfinished == {t \in Rows : status[t] \notin {"completed", "failed", "deleted"}}

\* Mutant: the marker is inserted but nobody looks for it.
LastChildUnmarked(r) ==
    /\ At(r, "check")
    /\ Unfinished = {}
    /\ marker' = TRUE
    /\ To(r, "finalize")
    /\ Quiet /\ UNCHANGED <<bounds, jobTable, owes, past>>

LastChild(r) ==
    /\ At(r, "check")
    /\ ~marker /\ Unfinished = {}
    /\ marker' = TRUE
    /\ To(r, "finalize")
    /\ Quiet /\ UNCHANGED <<bounds, jobTable, owes, past>>

\* finalize_bulk_job: no test of the status it replaces.
Finalize(r) ==
    /\ At(r, "finalize")
    /\ bulk' = IF bad = MaxItems THEN "failed"
               ELSE IF bad > 0 THEN "partial_failure" ELSE "completed"
    /\ finals' = finals + 1
    /\ owes' = [owes EXCEPT ![r] = bad]
    /\ To(r, "refund")
    /\ Quiet /\ UNCHANGED <<bounds, done, bad, item, marker, refunded, forgotten>>

Refund(r) ==
    /\ At(r, "refund")
    /\ refunded' = refunded + owes[r]
    /\ owes' = [owes EXCEPT ![r] = 0]
    /\ To(r, "notify")
    /\ Quiet /\ UNCHANGED <<bounds, jobTable, marker, finals, forgotten>>

Returns(r) ==
    /\ \/ At(r, "returning") \/ At(r, "notify")
       \/ At(r, "check") /\ (marker \/ Unfinished # {})
    /\ BodyReturns(r)
    /\ To(r, "none")
    /\ UNCHANGED <<jobTable, payload, marker, owes, readers, past>>

\* A statement outside the try block raises: the queue will run the task again.
Raises(r) ==
    /\ \E s \in Stages \ {"none", "pipeline", "succeeded"} : At(r, s)
    /\ Fault
    /\ Step(r, "failing")
    /\ To(r, "none")
    /\ owes' = [owes EXCEPT ![r] = 0]
    /\ UNCHANGED <<table, loop, task, history, retries, jobTable, payload, marker, readers, past>>
-----------------------------------------------------------------------------
(* The queue around them. *)

\* Mutant: coroutines of a process that died keep their place.
LocalKept ==
    /\ stage' = [r \in Runs |-> IF phase[r] = "executing" \/ phase'[r] # "executing" THEN stage[r]
                                ELSE IF payload[task'[r]] = Parent THEN "fanout" ELSE "start"]
    /\ owes' = owes

LocalFollows ==
    /\ stage' = [r \in Runs |-> IF phase'[r] # "executing" THEN "none"
                                ELSE IF phase[r] = "executing" THEN stage[r]
                                ELSE IF payload[task'[r]] = Parent THEN "fanout" ELSE "start"]
    /\ owes' = [r \in Runs |-> IF phase'[r] = "executing" THEN owes[r] ELSE 0]

\* requeue_stale also deletes the markers older than a day.
MarkerExpires ==
    /\ marker
    /\ marker' = FALSE
    /\ forgotten' = TRUE
    /\ UNCHANGED <<finals, refunded>>

PollTurn(w) ==
    /\ Poll(w)
    /\ \A t \in Tasks : status'[t] # "deleted"
    /\ \/ UNCHANGED <<marker, past>>
       \/ pc[w] = "top" /\ MarkerExpires
    /\ LocalFollows
    /\ UNCHANGED <<jobTable, payload, readers>>

\* To a job, a shutdown that drains is a pause, and one that does not is a crash.
Crashes(w) ==
    /\ Crash(w)
    /\ LocalFollows
    /\ UNCHANGED <<jobTable, payload, marker, readers, past>>

\* init_database fails the jobs that are more than half an hour old.
Reboot(w) ==
    /\ Restart(w)
    /\ bulk' \in {bulk} \cup IF bulk = "processing" /\ aged THEN {"failed"} ELSE {}
    /\ UNCHANGED <<done, bad, item, payload, marker, local, readers, past>>

Child(r) == \/ FanOut(r) \/ StartItem(r) \/ PipelineEnds(r) \/ Succeed(r) \/ SucceedRaises(r)
            \/ Err(r) \/ LastChild(r) \/ Finalize(r) \/ Refund(r) \/ Returns(r) \/ Raises(r)

Reader(p) == ReadItems(p) \/ TimeItemOut(p)

QueueSettles(r) == Settle(r) /\ UNCHANGED bulkVars

FanNext == \/ CreateBulk \/ TenMinutesPass
           \/ \E p \in Readers : Reader(p)
           \/ \E r \in Runs : Child(r) \/ QueueSettles(r)
           \/ \E w \in Workers : PollTurn(w) \/ Crashes(w) \/ Reboot(w)
           \/ Time /\ UNCHANGED bulkVars

FanSpec == FanInit /\ [][FanNext]_fanVars

FanFairSpec ==
    /\ FanSpec
    /\ \A r \in Runs : WF_fanVars(Child(r)) /\ WF_fanVars(QueueSettles(r))
    /\ \A w \in Workers : WF_fanVars(PollTurn(w)) /\ WF_fanVars(Reboot(w))
    /\ \A t \in Tasks : WF_fanVars(BackoffElapses(t) /\ UNCHANGED bulkVars)
-----------------------------------------------------------------------------
(* Properties. *)

FanTypeOK ==
    /\ bulk \in {"none", "processing"} \cup FinalStatuses
    /\ done \in Nat /\ bad \in Nat
    /\ item \in [Items -> ItemStatuses]
    /\ payload \in [Tasks -> Items \cup {Parent}]
    /\ stage \in [Runs -> Stages]
    /\ owes \in [Runs -> Nat]
    /\ stale \in [Readers -> SUBSET Items]
    /\ marker \in BOOLEAN /\ forgotten \in BOOLEAN /\ aged \in BOOLEAN
    /\ finals \in Nat /\ refunded \in Nat
    /\ \A r \in Runs : stage[r] # "none" <=> phase[r] = "executing"

\* While no task was requeued as stale, no statement failed, no process died and no reader
\* may time an item out.
Undisturbed == reaped = {} /\ faults = 0 /\ ~aged

Ended(s) == Cardinality({i \in Items : item[i] = s})

\* No item ends without its job hearing of it: update_bulk_job_item writes both in one
\* transaction, so that a crash, a lost reply, a child that runs again or a reader that
\* times items out can count an item twice but never leave one out.
NothingUncounted == done >= Ended("completed") /\ bad >= Ended("failed")

\* Undisturbed, every way a child can end counts its item once.
CountedOnce == Undisturbed => done = Ended("completed") /\ bad = Ended("failed")

\* The counters of the job against the statuses of its items.
CountersExact == NothingUncounted /\ CountedOnce

\* However many children end at the same moment, and however often they are run again,
\* one of them at most finalizes the job while its marker lives.
FinalizedAtMostOnce == ~forgotten => finals <= 1

\* No failure is refunded that was not counted, and none twice, whichever child gets to
\* finalize and wherever it dies.
RefundedFailuresOnly == ~forgotten => refunded <= bad

\* Finalization happens once and pays back what was counted, from which nothing that ended
\* is missing (check_no_pending_siblings with its marker, finalize_bulk_job).
FinalizedSoundly == FinalizedAtMostOnce /\ RefundedFailuresOnly /\ NothingUncounted

\* While no statement failed, no process died and the parent was not reaped, it enqueues
\* every item once (otherwise it may run again, and enqueue them again).
OneRowPerItem ==
    faults = 0 /\ 1 \notin reaped =>
        \A t, u \in Rows \ {1} : payload[t] = payload[u] => t = u

\* Every item is counted in the end (its job finalized or not).
EveryItemCounted ==
    \A i \in Items : bulk # "none" ~> item[i] \in {"completed", "failed"} \/ reaped # {} \/ faults > 0

\* check_no_pending_siblings "guarantees exactly-once finalization": once every row of
\* the job is settled and no child is at work, the job is no longer processing.
FinalizedWhenDone ==
    (\E t \in Rows : payload[t] # Parent) /\ Unfinished = {} /\ (\A r \in Runs : ~Busy(r))
        => bulk # "processing"
=============================================================================

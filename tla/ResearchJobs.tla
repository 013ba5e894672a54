---------------------------- MODULE ResearchJobs ----------------------------
(***************************************************************************)
(* A paid research job: the request that charges one credit and enqueues   *)
(* it (api/routes.py), the body the worker runs (api/jobs.py), the refund  *)
(* of an exhausted task (worker.py), the status poll that times a job out, *)
(* and the marking of old jobs when a process starts (db/_pool.py).        *)
(*                                                                         *)
(* Job t is enqueued as task t.  A job was charged when it was created;    *)
(* administrators, who are neither charged nor refunded, are left out.     *)
(***************************************************************************)
EXTENDS TaskQueue

CONSTANT Pollers    \* names for the GET /research/{id} requests in progress

VARIABLES
    job,        \* research_jobs.status
    aged,       \* jobs created more than ten minutes ago
    unsent,     \* jobs charged and committed, whose request has not enqueued them
    stage,      \* where run_research_job is, in each coroutine
    seen,       \* the job a poller read as processing and too old
    owed,       \* the job a poller has marked failed and will refund
    refunds,    \* refunds made for each job
    expired     \* history: jobs failed by a poll

requests == <<unsent, seen, owed>>
ledger == <<refunds, expired>>
jobVars == <<job, aged, requests, stage, ledger>>
allVars == <<vars, jobVars>>

JobStatuses == {"none", "processing", "completed", "failed"}
Stages == {"none", "pipeline", "record", "notify", "markfailed", "notifyfailed"}

JobInit ==
    /\ Init
    /\ job = [t \in Tasks |-> "none"]
    /\ aged = {}
    /\ unsent = {}
    /\ stage = [r \in Runs |-> "none"]
    /\ seen = [p \in Pollers |-> NoTask]
    /\ owed = [p \in Pollers |-> NoTask]
    /\ refunds = [t \in Tasks |-> 0]
    /\ expired = {}
-----------------------------------------------------------------------------
(* POST /research: one transaction charges and inserts the job, another    *)
(* statement enqueues the task.                                            *)

CreateJob(t) ==
    /\ job[t] = "none"
    /\ job' = [job EXCEPT ![t] = "processing"]
    /\ unsent' = unsent \cup {t}
    /\ UNCHANGED <<vars, aged, seen, owed, stage, ledger>>

Rows == {t \in Tasks : status[t] # "absent"}

SendTask(t) ==
    /\ t \in unsent
    /\ unsent' = unsent \ {t}
    /\ status' = [status EXCEPT ![t] = "pending"]
    /\ created' = [created EXCEPT ![t] = Cardinality(Rows) + 1]
    /\ UNCHANGED <<attempts, due, overdue, loop, runs, history, bounds,
                   job, aged, seen, owed, stage, ledger>>

\* The process or the connection dies between the two.
RequestLost(t) ==
    /\ t \in unsent
    /\ Fault
    /\ unsent' = unsent \ {t}
    /\ UNCHANGED <<table, loop, runs, history, retries, job, aged, seen, owed, stage, ledger>>

TenMinutesPass(t) ==
    /\ job[t] = "processing"
    /\ t \notin aged
    /\ aged' = aged \cup {t}
    /\ UNCHANGED <<vars, job, requests, stage, ledger>>
-----------------------------------------------------------------------------
(* GET /research/{id}: read, update and refund are separate statements. *)

Look(p, t) ==
    /\ seen[p] = NoTask /\ owed[p] = NoTask
    /\ job[t] = "processing" /\ t \in aged
    /\ seen' = [seen EXCEPT ![p] = t]
    /\ UNCHANGED <<vars, job, aged, unsent, owed, stage, ledger>>

\* update_job_status does not look at the status it overwrites.
Expire(p) ==
    /\ seen[p] # NoTask
    /\ job' = [job EXCEPT ![seen[p]] = "failed"]
    /\ owed' = [owed EXCEPT ![p] = seen[p]]
    /\ seen' = [seen EXCEPT ![p] = NoTask]
    /\ expired' = expired \cup {seen[p]}
    /\ UNCHANGED <<vars, aged, unsent, stage, refunds>>

PayBack(p) ==
    /\ owed[p] # NoTask
    /\ refunds' = [refunds EXCEPT ![owed[p]] = @ + 1]
    /\ owed' = [owed EXCEPT ![p] = NoTask]
    /\ UNCHANGED <<vars, job, aged, unsent, seen, stage, expired>>

PollLost(p) ==
    /\ seen[p] # NoTask \/ owed[p] # NoTask
    /\ Fault
    /\ seen' = [seen EXCEPT ![p] = NoTask]
    /\ owed' = [owed EXCEPT ![p] = NoTask]
    /\ UNCHANGED <<table, loop, runs, history, retries, job, aged, unsent, stage, ledger>>
-----------------------------------------------------------------------------
(* run_research_job, in coroutine r. *)

At(r, s) == phase[r] = "executing" /\ stage[r] = s
To(r, s) == stage' = [stage EXCEPT ![r] = s]
SetJob(r, s) == job' = [job EXCEPT ![task[r]] = s]
JobOnly == UNCHANGED <<table, loop, runs, history, aged, requests, ledger>>

PipelineEnds(r) ==
    /\ At(r, "pipeline")
    /\ To(r, "record") \/ To(r, "markfailed")
    /\ JobOnly /\ UNCHANGED <<bounds, job>>

RecordCompleted(r) ==
    /\ At(r, "record")
    /\ SetJob(r, "completed")
    /\ To(r, "notify")
    /\ JobOnly /\ UNCHANGED bounds

\* record_api_usage or update_job_status raises, the latter perhaps too late.
RecordRaises(r) ==
    /\ At(r, "record")
    /\ Fault
    /\ SetJob(r, "completed") \/ UNCHANGED job
    /\ To(r, "markfailed")
    /\ JobOnly /\ UNCHANGED retries

\* The webhook is in the same try block: its database errors fail the job.
NotifyRaises(r) ==
    /\ At(r, "notify")
    /\ Fault
    /\ To(r, "markfailed")
    /\ JobOnly /\ UNCHANGED <<retries, job>>

Notified(r) ==
    /\ At(r, "notify")
    /\ BodyReturns(r)
    /\ To(r, "none")
    /\ UNCHANGED <<job, aged, requests, ledger>>

MarkFailed(r) ==
    /\ At(r, "markfailed")
    /\ SetJob(r, "failed")
    /\ To(r, "notifyfailed")
    /\ JobOnly /\ UNCHANGED bounds

\* The except branch raises in its turn: the job is left as it was.
MarkRaises(r) ==
    /\ At(r, "markfailed")
    /\ Fault
    /\ Step(r, "failing")
    /\ To(r, "none")
    /\ UNCHANGED <<table, loop, task, history, retries, job, aged, requests, ledger>>

\* Mutant: the body refunds, as run_retry_account does, and re-raises.
RefundAndReraise(r) ==
    /\ At(r, "notifyfailed")
    /\ BodyRaises(r)
    /\ To(r, "none")
    /\ refunds' = [refunds EXCEPT ![task[r]] = @ + 1]
    /\ UNCHANGED <<job, aged, requests, expired>>

\* Mutant: the exception is swallowed, as run_bulk_item does.
Swallow(r) ==
    /\ At(r, "notifyfailed")
    /\ BodyReturns(r)
    /\ To(r, "none")
    /\ UNCHANGED <<job, aged, requests, ledger>>

Reraise(r) ==
    /\ At(r, "notifyfailed")
    /\ BodyRaises(r)
    /\ To(r, "none")
    /\ UNCHANGED <<job, aged, requests, ledger>>
-----------------------------------------------------------------------------
(* What the worker and its queue do around the body. *)

\* Mutant: coroutines of a process that died keep their place.
StageKept ==
    stage' = [r \in Runs |-> IF phase[r] # "executing" /\ phase'[r] = "executing" THEN "pipeline"
                             ELSE stage[r]]

\* A claimed task starts at the beginning; a vanished one is nowhere.
StageFollows ==
    stage' = [r \in Runs |-> IF phase'[r] # "executing" THEN "none"
                             ELSE IF phase[r] # "executing" THEN "pipeline" ELSE stage[r]]

\* Mutant: the refund is forgotten.
ReportOnly(r) == Report(r) /\ UNCHANGED <<jobVars>>

\* _dispatch refunds the task whose attempts are exhausted.
RefundExhausted(r) ==
    /\ Report(r)
    /\ refunds' = [refunds EXCEPT ![task[r]] = @ + 1]
    /\ UNCHANGED <<job, aged, requests, stage, expired>>

RefundRaises(r) ==
    /\ phase[r] = "exhausted"
    /\ Fault
    /\ End(r)
    /\ UNCHANGED <<table, pc, lock, drained, stopping, history, retries, jobVars>>

SettleTask(r) ==
    /\ Complete(r) \/ CompleteRaises(r) \/ Fail(r) \/ FailRaises(r)
    /\ UNCHANGED jobVars

\* init_database: no refund, and the task stays in the queue.
MarkOldJobs ==
    job' = [t \in Tasks |-> IF job[t] = "processing" /\ t \in aged THEN "failed" ELSE job[t]]

Reboot(w) == Restart(w) /\ MarkOldJobs /\ UNCHANGED <<aged, requests, stage, ledger>>

Otherwise(w) ==
    /\ \/ Poll(w)
       \/ Signal(w) \/ LeaveLoop(w) \/ CancelLoop(w) \/ Drain(w) \/ Stop(w)
       \/ DrainTimesOut(w) \/ Crash(w)
    /\ StageFollows
    /\ UNCHANGED <<job, aged, requests, ledger>>
-----------------------------------------------------------------------------
Request(t) == CreateJob(t) \/ SendTask(t) \/ RequestLost(t) \/ TenMinutesPass(t)

StatusPoll(p) == Expire(p) \/ PayBack(p) \/ PollLost(p)

Research(r) == \/ PipelineEnds(r) \/ RecordCompleted(r) \/ RecordRaises(r)
               \/ NotifyRaises(r) \/ Notified(r)
               \/ MarkFailed(r) \/ MarkRaises(r) \/ Reraise(r)

Dispatched(r) == SettleTask(r) \/ RefundExhausted(r) \/ RefundRaises(r)

AdminOrTime == (\E t \in Tasks : RetryFailed(t)) \/ Time

JobNext == \/ \E t \in Tasks : Request(t)
           \/ \E p \in Pollers : StatusPoll(p) \/ \E t \in Tasks : Look(p, t)
           \/ \E r \in Runs : Research(r) \/ Dispatched(r)
           \/ \E w \in Workers : Otherwise(w) \/ Reboot(w)
           \/ AdminOrTime /\ UNCHANGED jobVars

JobSpec == JobInit /\ [][JobNext]_allVars

\* Requests, bodies and dispatches go on; loops poll; processes are restarted.
JobFairSpec ==
    /\ JobSpec
    /\ \A t \in Tasks : WF_allVars(SendTask(t)) /\ WF_allVars(BackoffElapses(t) /\ UNCHANGED jobVars)
    /\ \A p \in Pollers : WF_allVars(Expire(p) \/ PayBack(p))
    /\ \A r \in Runs : WF_allVars(Research(r)) /\ WF_allVars(Dispatched(r))
    /\ \A w \in Workers : /\ WF_allVars(Poll(w) /\ Otherwise(w))
                          /\ WF_allVars(LeaveLoop(w) /\ Otherwise(w))
                          /\ WF_allVars(Reboot(w))
-----------------------------------------------------------------------------
(* Properties. *)

JobTypeOK ==
    /\ job \in [Tasks -> JobStatuses]
    /\ aged \subseteq Tasks
    /\ unsent \subseteq Tasks
    /\ stage \in [Runs -> Stages]
    /\ seen \in [Pollers -> Tasks \cup {NoTask}]
    /\ owed \in [Pollers -> Tasks \cup {NoTask}]
    /\ refunds \in [Tasks -> Nat]
    /\ expired \subseteq Tasks
    /\ \A r \in Runs : stage[r] # "none" <=> phase[r] = "executing"

\* As long as no poll timed the job out and it was not requeued as stale, its credit
\* comes back at most once, and once more for each time an administrator retries it:
\* retries of the queue, crashes and lost replies do not refund twice.
RefundedOncePerGrant ==
    \A t \in Tasks : t \notin reaped \cup expired => refunds[t] <= 1 + retries

\* Nobody keeps both the document and the credit unless a poll, a stale requeue, an
\* administrator or a fault interfered: a failing attempt before a good one does not.
NothingFree ==
    \A t \in Tasks : job[t] = "completed" /\ refunds[t] > 0 =>
        t \in reaped \cup expired \/ retries > 0 \/ faults > 0

\* Without those, the customer's job and the queue's task tell the same story.
JobAgreesWithTask ==
    \A t \in Tasks \ (reaped \cup expired) : faults = 0 =>
        /\ status[t] = "completed" => job[t] = "completed"
        /\ status[t] = "failed" => job[t] = "failed"

\* A charged job is answered or refunded, unless it was lost to a fault or given up by
\* requeue_stale.
ChargeSettles ==
    \A t \in Tasks : job[t] = "processing" ~>
        job[t] = "completed" \/ refunds[t] > 0 \/ t \in reaped \/ faults > 0

\* run_research_job: "The caller is responsible for refunding credits once retries are
\* exhausted": a failed job that nothing works on any more has been refunded.
Dead(t) == /\ status[t] \in {"absent", "failed", "deleted"}
           /\ t \notin unsent
           /\ \A r \in Runs : task[r] # t
           /\ \A p \in Pollers : seen[p] # t /\ owed[p] # t

FailedIsRefunded == \A t \in Tasks : Dead(t) /\ job[t] = "failed" => refunds[t] > 0
=============================================================================

----------------------------- MODULE TaskQueue -----------------------------
(***************************************************************************)
(* The durable task queue (db/task_queue.py, one PostgreSQL table) and the *)
(* worker processes that poll it (worker.py, and the copy of the loop that *)
(* main.py runs inside the web process).                                   *)
(*                                                                         *)
(* Every SQL statement is one step, except claim_next, whose row lock and  *)
(* commit are two: SKIP LOCKED exists for what happens between them.  Time *)
(* is two flags per row: due (run_at has passed) and overdue (started_at   *)
(* is older than the stale timeout).  A job body is opaque here: it        *)
(* returns, raises, or takes for ever; modules that EXTEND this one say    *)
(* what it does.                                                           *)
(***************************************************************************)
EXTENDS Integers, FiniteSets

CONSTANTS
    MaxTasks,        \* task ids are 1 .. MaxTasks (a bound)
    MaxAttempts,     \* task_queue.max_attempts
    Workers,         \* the processes that run _poll_loop
    Embedded,        \* those started by main.py's lifespan, not by worker.py
    Coroutines,      \* names for a process's _run coroutines
    MaxConcurrent,   \* worker_concurrency: the permits of its semaphore
    MaxFaults,       \* bound: crashes, signals and failed statements
    MaxRetries       \* bound: administrator retries

ASSUME QueueConstants ==
    /\ MaxTasks \in Nat
    /\ MaxAttempts \in Nat \ {0}
    /\ MaxConcurrent \in Nat \ {0}
    /\ MaxFaults \in Nat
    /\ MaxRetries \in Nat
    /\ Embedded \subseteq Workers
    /\ IsFiniteSet(Coroutines)

Tasks == 1 .. MaxTasks
NoTask == 0
Runs == Workers \X Coroutines

VARIABLES
    \* the table task_queue
    status, attempts, created, due, overdue,
    \* a worker process: the poll loop, its semaphore, its open transaction
    pc, lock, permits, drained, stopping,
    \* its dispatched coroutines ("unheard" is "failing" after a complete that was lost)
    phase, task,
    \* history: runs since the last grant, tasks ever requeued as stale
    started, reaped,
    \* bounds
    faults, retries

table == <<status, attempts, created, due, overdue>>
loop == <<pc, lock, permits, drained, stopping>>
runs == <<phase, task>>
history == <<started, reaped>>
bounds == <<faults, retries>>
vars == <<table, loop, runs, history, bounds>>

Statuses == {"absent", "pending", "running", "completed", "failed", "deleted"}
Points == {"top", "prune", "acquire", "claim", "drain", "stopped", "down"}
Phases == {"idle", "executing", "completing", "failing", "unheard", "exhausted"}

Busy(r) == phase[r] # "idle"
Live(w) == pc[w] \notin {"stopped", "down"}
Unlocked(t) == \A w \in Workers : lock[w] # t
Fault == faults < MaxFaults /\ faults' = faults + 1

Init ==
    /\ status = [t \in Tasks |-> "absent"]
    /\ attempts = [t \in Tasks |-> 0]
    /\ created = [t \in Tasks |-> 0]
    /\ due = [t \in Tasks |-> TRUE]
    /\ overdue = [t \in Tasks |-> FALSE]
    /\ pc = [w \in Workers |-> "top"]
    /\ lock = [w \in Workers |-> NoTask]
    /\ permits = [w \in Workers |-> MaxConcurrent]
    /\ drained = [w \in Workers |-> 0]
    /\ stopping = [w \in Workers |-> FALSE]
    /\ phase = [r \in Runs |-> "idle"]
    /\ task = [r \in Runs |-> NoTask]
    /\ started = [t \in Tasks |-> 0]
    /\ reaped = {}
    /\ faults = 0
    /\ retries = 0
-----------------------------------------------------------------------------
(* The clients of the queue, and time. *)

Absent == {t \in Tasks : status[t] = "absent"}

\* enqueue inserts one row, enqueue_many a batch with one created_at.
Enqueue ==
    \E S \in SUBSET Absent : \E first \in S :
        /\ \A s \in S : first <= s
        /\ \A s \in S, u \in Absent \ S : s < u
        /\ status' = [t \in Tasks |-> IF t \in S THEN "pending" ELSE status[t]]
        /\ created' = [t \in Tasks |-> IF t \in S THEN first ELSE created[t]]
        /\ UNCHANGED <<attempts, due, overdue, loop, runs, history, bounds>>

\* Mutant: the status is not tested.
RetryAny(t) ==
    /\ status[t] \in {"completed", "failed"}
    /\ retries < MaxRetries
    /\ retries' = retries + 1
    /\ status' = [status EXCEPT ![t] = "pending"]
    /\ attempts' = [attempts EXCEPT ![t] = 0]
    /\ overdue' = [overdue EXCEPT ![t] = FALSE]
    /\ started' = [started EXCEPT ![t] = 0]
    /\ UNCHANGED <<created, due, loop, runs, reaped, faults>>

\* retry_failed_task, from the admin page.  run_at keeps its old value.
RetryFailed(t) ==
    /\ status[t] = "failed"
    /\ retries < MaxRetries
    /\ retries' = retries + 1
    /\ status' = [status EXCEPT ![t] = "pending"]
    /\ attempts' = [attempts EXCEPT ![t] = 0]
    /\ overdue' = [overdue EXCEPT ![t] = FALSE]
    /\ started' = [started EXCEPT ![t] = 0]
    /\ UNCHANGED <<created, due, loop, runs, reaped, faults>>

BackoffElapses(t) ==
    /\ ~due[t]
    /\ due' = [due EXCEPT ![t] = TRUE]
    /\ UNCHANGED <<status, attempts, created, overdue, loop, runs, history, bounds>>

TimeoutElapses(t) ==
    /\ status[t] = "running"
    /\ ~overdue[t]
    /\ overdue' = [overdue EXCEPT ![t] = TRUE]
    /\ UNCHANGED <<status, attempts, created, due, loop, runs, history, bounds>>
-----------------------------------------------------------------------------
(* One turn of _poll_loop: housekeeping, a permit, a claim. *)

Goto(w, point) == pc' = [pc EXCEPT ![w] = point]
Release(w) == permits' = [permits EXCEPT ![w] = @ + 1]

\* Mutant: the stale check looks at the wrong rows.
StalePending == {t \in Tasks : status[t] = "pending" /\ overdue[t]}

Stale == {t \in Tasks : status[t] = "running" /\ overdue[t]}

\* Mutant: the new attempt is not counted in the comparison.
RequeueStaleOffByOne ==
    /\ status' = [t \in Tasks |-> IF t \notin Stale THEN status[t]
                                  ELSE IF attempts[t] < MaxAttempts THEN "pending" ELSE "failed"]
    /\ attempts' = [t \in Tasks |-> IF t \in Stale THEN attempts[t] + 1 ELSE attempts[t]]
    /\ overdue' = [t \in Tasks |-> t \notin Stale /\ overdue[t]]
    /\ reaped' = reaped \cup Stale

\* requeue_stale: one UPDATE over every stale row.
RequeueStale ==
    LET Left(t) == attempts[t] + 1 < MaxAttempts
    IN  /\ status' = [t \in Tasks |-> IF t \notin Stale THEN status[t]
                                      ELSE IF Left(t) THEN "pending" ELSE "failed"]
        /\ attempts' = [t \in Tasks |-> IF t \in Stale THEN attempts[t] + 1 ELSE attempts[t]]
        /\ overdue' = [t \in Tasks |-> t \notin Stale /\ overdue[t]]
        /\ reaped' = reaped \cup Stale

\* The stale check, when its interval is up; its exceptions are swallowed.
Reap(w) ==
    /\ pc[w] = "top"
    /\ ~stopping[w]
    /\ Goto(w, "prune")
    /\ \/ RequeueStale
       \/ UNCHANGED <<status, attempts, overdue, reaped>>
    /\ UNCHANGED <<created, due, lock, permits, drained, stopping, runs, started, bounds>>

\* cleanup_completed_tasks deletes the terminal rows that are old enough.
Prune(w) ==
    /\ pc[w] = "prune"
    /\ Goto(w, "acquire")
    /\ \E Old \in SUBSET {t \in Tasks : status[t] \in {"completed", "failed"}} :
          status' = [t \in Tasks |-> IF t \in Old THEN "deleted" ELSE status[t]]
    /\ UNCHANGED <<attempts, created, due, overdue, lock, permits, drained, stopping,
                   runs, history, bounds>>

Acquire(w) ==
    /\ pc[w] = "acquire"
    /\ permits[w] > 0
    /\ permits' = [permits EXCEPT ![w] = @ - 1]
    /\ Goto(w, "claim")
    /\ UNCHANGED <<table, lock, drained, stopping, runs, history, bounds>>

\* Mutant: no FOR UPDATE SKIP LOCKED.
ClaimableUnlocked == {t \in Tasks : status[t] = "pending" /\ attempts[t] < MaxAttempts /\ due[t]}

Claimable == {t \in Tasks : /\ status[t] = "pending"
                            /\ attempts[t] < MaxAttempts
                            /\ due[t]
                            /\ Unlocked(t)}

\* SELECT ... ORDER BY created_at FOR UPDATE SKIP LOCKED LIMIT 1
LockNext(w) ==
    /\ pc[w] = "claim"
    /\ lock[w] = NoTask
    /\ \E t \in Claimable :
          /\ \A u \in Claimable : created[t] <= created[u]
          /\ lock' = [lock EXCEPT ![w] = t]
    /\ UNCHANGED <<table, pc, permits, drained, stopping, runs, history, bounds>>

\* Mutant: attempts is not incremented.
ApplyClaimUncounted(t) ==
    /\ status' = [status EXCEPT ![t] = "running"]
    /\ overdue' = [overdue EXCEPT ![t] = FALSE]
    /\ UNCHANGED attempts

\* ... and the UPDATE of the locked row.
ApplyClaim(t) ==
    /\ status' = [status EXCEPT ![t] = "running"]
    /\ attempts' = [attempts EXCEPT ![t] = @ + 1]
    /\ overdue' = [overdue EXCEPT ![t] = FALSE]

Unlock(w) == lock' = [lock EXCEPT ![w] = NoTask]

\* claim_next returns a task, which gets a coroutine that keeps the permit.
Claim(w) ==
    /\ pc[w] = "claim"
    /\ lock[w] # NoTask
    /\ ApplyClaim(lock[w])
    /\ started' = [started EXCEPT ![lock[w]] = @ + 1]
    /\ \E c \in Coroutines :
          /\ ~Busy(<<w, c>>)
          /\ phase' = [phase EXCEPT ![<<w, c>>] = "executing"]
          /\ task' = [task EXCEPT ![<<w, c>>] = lock[w]]
    /\ Unlock(w)
    /\ Goto(w, "top")
    /\ UNCHANGED <<created, due, permits, drained, stopping, reaped, bounds>>

\* Mutant: the permit is kept when there is nothing to claim.
ClaimNothingKeepsPermit(w) ==
    /\ pc[w] = "claim"
    /\ lock[w] = NoTask
    /\ Claimable = {}
    /\ Goto(w, "top")
    /\ UNCHANGED <<table, lock, permits, drained, stopping, runs, history, bounds>>

ClaimNothing(w) ==
    /\ pc[w] = "claim"
    /\ lock[w] = NoTask
    /\ Claimable = {}
    /\ Release(w)
    /\ Goto(w, "top")
    /\ UNCHANGED <<table, lock, drained, stopping, runs, history, bounds>>

\* A statement that raised may have been committed: its reply was lost.
MaybeClaimed(w) ==
    \/ UNCHANGED <<status, attempts, overdue>>
    \/ lock[w] # NoTask /\ ApplyClaim(lock[w])

\* Mutant: the exception path forgets the permit.
ClaimRaisesKeepsPermit(w) ==
    /\ pc[w] = "claim"
    /\ Fault
    /\ MaybeClaimed(w)
    /\ Unlock(w)
    /\ Goto(w, "top")
    /\ UNCHANGED <<created, due, permits, drained, stopping, runs, history, retries>>

\* claim_next raises: the permit is returned, a committed claim has no runner.
ClaimRaises(w) ==
    /\ pc[w] = "claim"
    /\ Fault
    /\ MaybeClaimed(w)
    /\ Release(w)
    /\ Unlock(w)
    /\ Goto(w, "top")
    /\ UNCHANGED <<created, due, drained, stopping, runs, history, retries>>
-----------------------------------------------------------------------------
(* _dispatch, in a coroutine r of its own. *)

Step(r, p) == phase' = [phase EXCEPT ![r] = p]

\* The coroutine ends: its finally clause returns the permit.
End(r) ==
    /\ Step(r, "idle")
    /\ task' = [task EXCEPT ![r] = NoTask]
    /\ Release(r[1])

BodyReturns(r) ==
    /\ phase[r] = "executing"
    /\ Step(r, "completing")
    /\ UNCHANGED <<table, loop, task, history, bounds>>

BodyRaises(r) ==
    /\ phase[r] = "executing"
    /\ Step(r, "failing")
    /\ UNCHANGED <<table, loop, task, history, bounds>>

\* The task will be reported failed: the body raised, or complete did.
Failing(r) == phase[r] \in {"failing", "unheard"}

\* Both statements address the row by id, whatever its status has become.
ApplyComplete(t) ==
    /\ status' = [status EXCEPT ![t] = IF @ = "deleted" THEN @ ELSE "completed"]
    /\ UNCHANGED <<attempts, created, due, overdue>>

Exhausted(t) == status[t] # "deleted" /\ attempts[t] >= MaxAttempts

ApplyFail(t) ==
    LET retry == status[t] # "deleted" /\ attempts[t] < MaxAttempts
    IN  /\ status' = [status EXCEPT ![t] = IF @ = "deleted" THEN @
                                           ELSE IF retry THEN "pending" ELSE "failed"]
        /\ due' = [due EXCEPT ![t] = @ /\ ~retry]
        /\ overdue' = [overdue EXCEPT ![t] = @ /\ status[t] = "deleted"]
        /\ UNCHANGED <<attempts, created>>

Complete(r) ==
    /\ phase[r] = "completing"
    /\ Unlocked(task[r])
    /\ ApplyComplete(task[r])
    /\ End(r)
    /\ UNCHANGED <<pc, lock, drained, stopping, history, bounds>>

\* Mutant: the permit is released in the except branch and again in finally.
CompleteRaisesReleasing(r) ==
    /\ phase[r] = "completing"
    /\ Fault
    /\ Step(r, "failing")
    /\ Release(r[1])
    /\ UNCHANGED <<table, pc, lock, drained, stopping, task, history, retries>>

\* complete raises inside the try block, before or after its commit: the task is
\* reported failed next.
CompleteRaises(r) ==
    /\ phase[r] = "completing"
    /\ Fault
    /\ \/ Unlocked(task[r]) /\ ApplyComplete(task[r]) /\ Step(r, "unheard")
       \/ UNCHANGED table /\ Step(r, "failing")
    /\ UNCHANGED <<loop, task, history, retries>>

Fail(r) ==
    /\ Failing(r)
    /\ Unlocked(task[r])
    /\ ApplyFail(task[r])
    /\ IF Exhausted(task[r])
       THEN Step(r, "exhausted") /\ UNCHANGED <<task, permits>>
       ELSE End(r)
    /\ UNCHANGED <<pc, lock, drained, stopping, history, bounds>>

\* fail raises: nothing catches it, the row may stay running.
FailRaises(r) ==
    /\ Failing(r)
    /\ Fault
    /\ \/ Unlocked(task[r]) /\ ApplyFail(task[r])
       \/ UNCHANGED table
    /\ End(r)
    /\ UNCHANGED <<pc, lock, drained, stopping, history, retries>>

\* Refund and alert of an exhausted task, opaque here.
Report(r) ==
    /\ phase[r] = "exhausted"
    /\ End(r)
    /\ UNCHANGED <<table, pc, lock, drained, stopping, history, bounds>>
-----------------------------------------------------------------------------
(* Shutdown, crash and restart of a process. *)

\* SIGTERM or SIGINT, or the end of the web application's lifespan.
Signal(w) ==
    /\ Live(w)
    /\ ~stopping[w]
    /\ Fault
    /\ stopping' = [stopping EXCEPT ![w] = TRUE]
    /\ UNCHANGED <<table, pc, lock, permits, drained, runs, history, retries>>

\* The flag is only looked at here: a loop past this point still claims.
LeaveLoop(w) ==
    /\ pc[w] = "top"
    /\ stopping[w]
    /\ Goto(w, "drain")
    /\ UNCHANGED <<table, lock, permits, drained, stopping, runs, history, bounds>>

\* main.py waits 5 s for the loop, then cancels it.  A cancelled claim keeps its permit.
CancelLoop(w) ==
    /\ w \in Embedded
    /\ stopping[w]
    /\ pc[w] \in {"prune", "acquire", "claim"}
    /\ MaybeClaimed(w)
    /\ Unlock(w)
    /\ Goto(w, "drain")
    /\ UNCHANGED <<created, due, permits, drained, stopping, runs, history, bounds>>

Drain(w) ==
    /\ pc[w] = "drain"
    /\ drained[w] < MaxConcurrent
    /\ permits[w] > 0
    /\ permits' = [permits EXCEPT ![w] = @ - 1]
    /\ drained' = [drained EXCEPT ![w] = @ + 1]
    /\ UNCHANGED <<table, pc, lock, stopping, runs, history, bounds>>

\* Mutant: the drain loop is one permit short.
StopEarly(w) ==
    /\ pc[w] = "drain"
    /\ drained[w] >= MaxConcurrent - 1
    /\ Goto(w, "stopped")
    /\ UNCHANGED <<table, lock, permits, drained, stopping, runs, history, bounds>>

\* Every permit is back: close_database.
Stop(w) ==
    /\ pc[w] = "drain"
    /\ drained[w] = MaxConcurrent
    /\ Goto(w, "stopped")
    /\ UNCHANGED <<table, lock, permits, drained, stopping, runs, history, bounds>>

\* The process is gone, with its coroutines and its open transaction.
Vanish(w) ==
    /\ Goto(w, "down")
    /\ Unlock(w)
    /\ phase' = [r \in Runs |-> IF r[1] = w THEN "idle" ELSE phase[r]]
    /\ task' = [r \in Runs |-> IF r[1] = w THEN NoTask ELSE task[r]]
    /\ UNCHANGED <<table, permits, drained, stopping, history, retries>>

\* main.py gives each permit 30 s, then closes the pool under what still runs.
DrainTimesOut(w) ==
    /\ w \in Embedded
    /\ pc[w] = "drain"
    /\ drained[w] < MaxConcurrent
    /\ permits[w] = 0
    /\ Vanish(w)
    /\ UNCHANGED faults

Crash(w) == Live(w) /\ Fault /\ Vanish(w)

Restart(w) ==
    /\ ~Live(w)
    /\ Goto(w, "top")
    /\ permits' = [permits EXCEPT ![w] = MaxConcurrent]
    /\ drained' = [drained EXCEPT ![w] = 0]
    /\ stopping' = [stopping EXCEPT ![w] = FALSE]
    /\ UNCHANGED <<table, lock, runs, history, bounds>>
-----------------------------------------------------------------------------
Client == Enqueue \/ \E t \in Tasks : RetryFailed(t)

Time == \E t \in Tasks : BackoffElapses(t) \/ TimeoutElapses(t)

Poll(w) == \/ Reap(w) \/ Prune(w) \/ Acquire(w)
           \/ LockNext(w) \/ Claim(w) \/ ClaimNothing(w) \/ ClaimRaises(w)

Body(r) == BodyReturns(r) \/ BodyRaises(r)

Settle(r) == Complete(r) \/ CompleteRaises(r) \/ Fail(r) \/ FailRaises(r) \/ Report(r)

Lifecycle(w) == \/ Signal(w) \/ LeaveLoop(w) \/ CancelLoop(w) \/ Drain(w) \/ Stop(w)
                \/ DrainTimesOut(w) \/ Crash(w) \/ Restart(w)

Next == \/ Client
        \/ Time
        \/ \E w \in Workers : Poll(w) \/ Lifecycle(w)
        \/ \E r \in Runs : Body(r) \/ Settle(r)

Spec == Init /\ [][Next]_vars

\* What the deployment gives: processes run and are restarted, intervals elapse,
\* and every external call of a job has a timeout, so bodies end.
Keeps(w) == WF_vars(Poll(w)) /\ SF_vars(Reap(w) /\ RequeueStale)

Winds(w) == WF_vars(LeaveLoop(w) \/ CancelLoop(w) \/ Drain(w) \/ Stop(w)
                       \/ DrainTimesOut(w) \/ Restart(w))

Clock(t) == WF_vars(BackoffElapses(t)) /\ WF_vars(TimeoutElapses(t))

SystemFairness == /\ \A w \in Workers : Keeps(w) /\ Winds(w)
                  /\ \A t \in Tasks : Clock(t)
                  /\ \A r \in Runs : WF_vars(Settle(r))

FairSpec == Spec /\ SystemFairness /\ \A r \in Runs : WF_vars(Body(r))

\* The same without the last clause: a job may hang.
HangSpec == Spec /\ SystemFairness
-----------------------------------------------------------------------------
(* Properties. *)

TypeOK ==
    /\ status \in [Tasks -> Statuses]
    /\ attempts \in [Tasks -> 0 .. MaxAttempts + 1]
    /\ created \in [Tasks -> 0 .. MaxTasks]
    /\ due \in [Tasks -> BOOLEAN]
    /\ overdue \in [Tasks -> BOOLEAN]
    /\ pc \in [Workers -> Points]
    /\ lock \in [Workers -> Tasks \cup {NoTask}]
    /\ permits \in [Workers -> 0 .. MaxConcurrent]
    /\ drained \in [Workers -> 0 .. MaxConcurrent]
    /\ stopping \in [Workers -> BOOLEAN]
    /\ phase \in [Runs -> Phases]
    /\ task \in [Runs -> Tasks \cup {NoTask}]
    /\ started \in [Tasks -> 0 .. MaxAttempts]
    /\ reaped \subseteq Tasks
    /\ faults \in Nat
    /\ retries \in Nat

\* A pending row can always be claimed once it is due, and a failed one has used its
\* attempts: claim_next, fail, requeue_stale and retry_failed_task write status and
\* attempts separately, and a zombie's late fail() may hit a row in any state.
NoStrandedTask ==
    \A t \in Tasks : /\ status[t] = "pending" => attempts[t] < MaxAttempts
                     /\ status[t] = "running" => attempts[t] \in 1 .. MaxAttempts
                     /\ status[t] = "failed" => attempts[t] >= MaxAttempts

\* Two coroutines run the same task only after requeue_stale gave it away under the
\* first: SKIP LOCKED, lost replies, crashes and retries never cause it.
Owns(r) == phase[r] \in {"executing", "completing", "failing", "unheard"}

OneRunUnlessReaped ==
    \A q, r \in Runs : q # r /\ Owns(q) /\ Owns(r) /\ task[q] = task[r] => task[r] \in reaped

\* A completed task goes back to work in one way only: the run that lost the reply to
\* its complete(), or whose row was requeued as stale, reports it failed.  No other run,
\* no crash, no lost claim, no administrator and no stale check reopens it.
Reopens(r, t) == task[r] = t /\ (phase[r] = "unheard" \/ (Failing(r) /\ t \in reaped))

DoneStaysDone ==
    [][\A t \in Tasks : status[t] = "completed" /\ status'[t] \notin {"completed", "deleted"}
                            => \E r \in Runs : Reopens(r, t)]_vars

\* Permits are neither leaked nor minted on any path through the loop and _dispatch,
\* until an embedded loop is cancelled in the middle of a claim.
Held(w) == IF pc[w] = "claim" THEN 1 ELSE 0
Working(w) == {r \in Runs : r[1] = w /\ Busy(r)}

PermitsAccounted ==
    \A w \in Workers : Live(w) /\ (pc[w] = "drain" => w \notin Embedded) =>
        permits[w] + drained[w] + Held(w) + Cardinality(Working(w)) = MaxConcurrent

\* A process that shut down by itself has abandoned no job (worker.py's drain waits
\* for every permit, and so does main.py's unless it times out).
GracefulStop == \A w \in Workers : pc[w] = "stopped" => Working(w) = {}

\* The queue keeps the promise of RetryBudget.
Budget == INSTANCE RetryBudget WITH
    left <- [t \in Tasks |-> IF status[t] \in {"absent", "deleted"} \/ attempts[t] >= MaxAttempts
                             THEN 0 ELSE MaxAttempts - attempts[t]]

KeepsBudget == Budget!BudgetSpec

\* Every task is settled in the end: no crash, lost reply or stale requeue loses it.
Settled(t) == status[t] \in {"completed", "failed", "deleted"}
EveryTaskSettles == \A t \in Tasks : status[t] = "pending" ~> Settled(t)

\* A process told to stop does stop.
ShutdownEnds == \A w \in Workers : stopping[w] ~> ~Live(w)

\* "hung tasks eventually hit max_attempts" (db/task_queue.py, requeue_stale).
HungTaskIsReaped ==
    \A t \in Tasks : status[t] = "running" /\ overdue[t] ~> status[t] # "running"
=============================================================================

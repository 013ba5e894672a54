-------------------------- MODULE TaskQueue_proofs --------------------------
(***************************************************************************)
(* Theorems about TaskQueue, for every number of tasks, attempts, workers, *)
(* permits, faults and retries.                                            *)
(***************************************************************************)
EXTENDS TaskQueue, FiniteSetTheorems, TLAPS

(* The types that the actions preserve by themselves: TypeOK's bounds on   *)
(* attempts, permits and started are consequences of the invariants below. *)
Types ==
    /\ status \in [Tasks -> Statuses]
    /\ attempts \in [Tasks -> Nat]
    /\ created \in [Tasks -> 0 .. MaxTasks]
    /\ due \in [Tasks -> BOOLEAN]
    /\ overdue \in [Tasks -> BOOLEAN]
    /\ pc \in [Workers -> Points]
    /\ lock \in [Workers -> Tasks \cup {NoTask}]
    /\ permits \in [Workers -> Nat]
    /\ drained \in [Workers -> 0 .. MaxConcurrent]
    /\ stopping \in [Workers -> BOOLEAN]
    /\ phase \in [Runs -> Phases]
    /\ task \in [Runs -> Tasks \cup {NoTask}]
    /\ started \in [Tasks -> Nat]
    /\ reaped \subseteq Tasks
    /\ faults \in Nat
    /\ retries \in Nat

-----------------------------------------------------------------------------
(* The inductive invariant, part by part. *)

\* A coroutine that is not idle has a task, and the task has a row or had one.
TaskOfRun ==
    \A r \in Runs : Busy(r) => task[r] \in Tasks /\ status[task[r]] # "absent"

\* A lost reply is a fault.
LostReplies == \A r \in Runs : phase[r] = "unheard" => faults > 0

\* A row that is being claimed is pending, and one loop at most is claiming it.
LockedRows ==
    \A w \in Workers : lock[w] # NoTask =>
        /\ pc[w] = "claim"
        /\ status[lock[w]] = "pending"
        /\ \A v \in Workers : v # w => lock[v] # lock[w]

\* What status says about attempts, and attempts about the runs started.
RowCount(t) ==
    /\ status[t] = "absent" => attempts[t] = 0
    /\ status[t] = "pending" => attempts[t] < MaxAttempts
    /\ status[t] = "running" => attempts[t] \in 1 .. MaxAttempts
    /\ status[t] = "failed" => attempts[t] >= MaxAttempts
    /\ attempts[t] <= MaxAttempts + 1
    /\ started[t] <= attempts[t]
    /\ started[t] <= MaxAttempts

RowCounts == \A t \in Tasks : RowCount(t)

\* Until a task is reaped, its only run is the one its row was claimed for, and only
\* that run's own complete(), its reply lost, can have settled the row under it.
Ownable(r) == IF phase[r] = "unheard" THEN {"completed", "deleted"} ELSE {"running"}

OwnedRows ==
    \A r \in Runs : Owns(r) /\ task[r] \notin reaped =>
        /\ status[task[r]] \in Ownable(r)
        /\ \A q \in Runs : q # r /\ Owns(q) => task[q] # task[r]

\* Every permit is free, drained, held by the loop or held by a coroutine.  A cancelled
\* claim loses one, so an embedded process may run short of them: never over.
Accounted(w) == permits[w] + drained[w] + Held(w) + Cardinality(Working(w))
Uncancelled(w) == Live(w) /\ (pc[w] = "drain" => w \notin Embedded)

PermitsKept ==
    \A w \in Workers : /\ Accounted(w) <= MaxConcurrent
                       /\ Uncancelled(w) => Accounted(w) = MaxConcurrent
                       /\ ~Live(w) => Working(w) = {}

IInv == Types /\ TaskOfRun /\ LockedRows /\ RowCounts /\ OwnedRows /\ LostReplies
        /\ PermitsKept

-----------------------------------------------------------------------------
(* Types. *)

LEMMA InitTypes == Init => Types
  BY QueueConstants DEF Init, Types, Statuses, Points, Phases, Tasks, NoTask

TableTypes ==
    /\ status \in [Tasks -> Statuses]
    /\ attempts \in [Tasks -> Nat]
    /\ created \in [Tasks -> 0 .. MaxTasks]
    /\ due \in [Tasks -> BOOLEAN]
    /\ overdue \in [Tasks -> BOOLEAN]

(* What the statements addressed to one row leave of its types. *)
LEMMA ApplyClaimTypes ==
    ASSUME Types, NEW t \in Tasks, ApplyClaim(t)
    PROVE  /\ status' \in [Tasks -> Statuses]
           /\ attempts' \in [Tasks -> Nat]
           /\ overdue' \in [Tasks -> BOOLEAN]
  BY DEF Types, ApplyClaim, Statuses

LEMMA MaybeClaimedTypes ==
    ASSUME Types, NEW w \in Workers, MaybeClaimed(w)
    PROVE  /\ status' \in [Tasks -> Statuses]
           /\ attempts' \in [Tasks -> Nat]
           /\ overdue' \in [Tasks -> BOOLEAN]
  <1>1. lock[w] # NoTask => lock[w] \in Tasks
    BY DEF Types
  <1> QED BY <1>1, ApplyClaimTypes DEF MaybeClaimed, Types

LEMMA ApplyCompleteTypes ==
    ASSUME Types, NEW t \in Tasks, ApplyComplete(t)
    PROVE  TableTypes'
  BY DEF Types, TableTypes, ApplyComplete, Statuses

LEMMA ApplyFailTypes ==
    ASSUME Types, NEW t \in Tasks, ApplyFail(t)
    PROVE  TableTypes'
  <1>1. status' \in [Tasks -> Statuses]
    BY DEF Types, ApplyFail, Statuses
  <1>2. due' \in [Tasks -> BOOLEAN]
    BY DEF Types, ApplyFail
  <1>3. overdue' \in [Tasks -> BOOLEAN]
    BY DEF Types, ApplyFail
  <1> QED BY <1>1, <1>2, <1>3 DEF Types, TableTypes, ApplyFail

LEMMA EndTypes ==
    ASSUME Types, NEW r \in Runs, End(r)
    PROVE  /\ phase' \in [Runs -> Phases]
           /\ task' \in [Runs -> Tasks \cup {NoTask}]
           /\ permits' \in [Workers -> Nat]
  BY DEF Types, End, Step, Release, Phases, Runs

LEMMA NextTypes == Types /\ TaskOfRun /\ [Next]_vars => Types'
  <1> SUFFICES ASSUME Types, TaskOfRun, [Next]_vars PROVE Types'
    OBVIOUS
  <1> USE QueueConstants DEF history, bounds
  <1>1. ASSUME Enqueue PROVE Types'
    <2>1. PICK S \in SUBSET Absent : \E first \in S :
             /\ status' = [t \in Tasks |-> IF t \in S THEN "pending" ELSE status[t]]
             /\ created' = [t \in Tasks |-> IF t \in S THEN first ELSE created[t]]
      BY <1>1 DEF Enqueue
    <2>2. PICK first \in S :
             created' = [t \in Tasks |-> IF t \in S THEN first ELSE created[t]]
      BY <2>1
    <2>3. first \in 0 .. MaxTasks
      BY <2>2 DEF Absent, Tasks
    <2> QED BY <1>1, <2>1, <2>2, <2>3 DEF Types, Enqueue, loop, runs, Statuses
  <1>2. ASSUME NEW t \in Tasks, RetryFailed(t) PROVE Types'
    BY <1>2 DEF RetryFailed, loop, runs, Types, Statuses
  <1>3. CASE Time
    BY <1>3 DEF Time, BackoffElapses, TimeoutElapses, loop, runs, Types
  <1>4. ASSUME NEW w \in Workers, Poll(w) PROVE Types'
    <2> USE DEF Goto, Release, Unlock, table, runs, Fault, NoTask, Points
    <2>1. CASE Reap(w)
      <3>1. CASE RequeueStale
        <4>1. status' \in [Tasks -> Statuses]
          BY <3>1 DEF RequeueStale, Types, Statuses
        <4>2. attempts' \in [Tasks -> Nat]
          BY <3>1 DEF RequeueStale, Types
        <4>3. overdue' \in [Tasks -> BOOLEAN]
          BY <3>1 DEF RequeueStale, Types
        <4>4. reaped' \subseteq Tasks
          BY <3>1 DEF RequeueStale, Stale, Types
        <4> QED BY <2>1, <4>1, <4>2, <4>3, <4>4 DEF Reap, Types
      <3> QED BY <2>1, <3>1 DEF Reap, Types
    <2>2. CASE Prune(w)
      BY <2>2 DEF Prune, Types, Statuses
    <2>3. CASE Acquire(w)
      BY <2>3 DEF Acquire, Types
    <2>4. CASE LockNext(w)
      BY <2>4 DEF LockNext, Claimable, Types
    <2>5. CASE Claim(w)
      BY <2>5, ApplyClaimTypes DEF Claim, Runs, Types, Phases
    <2>6. CASE ClaimNothing(w)
      BY <2>6 DEF ClaimNothing, Types
    <2>7. CASE ClaimRaises(w)
      BY <2>7, MaybeClaimedTypes DEF ClaimRaises, Types
    <2> QED BY <1>4, <2>1, <2>2, <2>3, <2>4, <2>5, <2>6, <2>7 DEF Poll
  <1>5. ASSUME NEW r \in Runs, Body(r) \/ Settle(r) PROVE Types'
    <2> USE DEF Step, table, loop, Fault, Phases
    <2>1. CASE Body(r)
      BY <2>1 DEF Body, BodyReturns, BodyRaises, Types
    <2>2. Busy(r) => task[r] \in Tasks
      BY DEF TaskOfRun
    <2>3. CASE Complete(r)
      BY <2>2, <2>3, ApplyCompleteTypes, EndTypes DEF Complete, Busy, Types, TableTypes
    <2>4. CASE CompleteRaises(r)
      BY <2>2, <2>4, ApplyCompleteTypes DEF CompleteRaises, Busy, Types, TableTypes
    <2>5. CASE Fail(r)
      BY <2>2, <2>5, ApplyFailTypes, EndTypes DEF Fail, Failing, Busy, Types, TableTypes
    <2>6. CASE FailRaises(r)
      BY <2>2, <2>6, ApplyFailTypes, EndTypes DEF FailRaises, Failing, Busy, Types, TableTypes
    <2>7. CASE Report(r)
      BY <2>7, EndTypes DEF Report, Types
    <2> QED BY <1>5, <2>1, <2>3, <2>4, <2>5, <2>6, <2>7 DEF Settle
  <1>6. ASSUME NEW w \in Workers, Lifecycle(w) PROVE Types'
    <2> USE DEF Goto, Unlock, table, runs, Fault, NoTask, Points
    <2>1. CASE Signal(w)
      BY <2>1 DEF Signal, Types
    <2>2. CASE LeaveLoop(w)
      BY <2>2 DEF LeaveLoop, Types
    <2>3. CASE CancelLoop(w)
      BY <2>3, MaybeClaimedTypes DEF CancelLoop, Types
    <2>4. CASE Drain(w)
      BY <2>4 DEF Drain, Types
    <2>5. CASE Stop(w)
      BY <2>5 DEF Stop, Types
    <2>6. CASE Restart(w)
      BY <2>6 DEF Restart, Types
    <2>7. CASE DrainTimesOut(w) \/ Crash(w)
      BY <2>7 DEF DrainTimesOut, Crash, Vanish, Types, Phases
    <2> QED BY <1>6, <2>1, <2>2, <2>3, <2>4, <2>5, <2>6, <2>7 DEF Lifecycle
  <1>7. CASE UNCHANGED vars
    BY <1>7 DEF vars, table, loop, runs, Types
  <1> QED BY <1>1, <1>2, <1>3, <1>4, <1>5, <1>6, <1>7 DEF Next, Client
-----------------------------------------------------------------------------
LEMMA NextTaskOfRun == Types /\ TaskOfRun /\ LockedRows /\ [Next]_vars => TaskOfRun'
  <1> SUFFICES ASSUME Types, TaskOfRun, LockedRows, [Next]_vars PROVE TaskOfRun'
    OBVIOUS
  <1> USE DEF Types, TaskOfRun, Busy, Tasks, NoTask
  <1>1. CASE Enqueue
    BY <1>1 DEF Enqueue, runs, Absent
  <1>2. ASSUME NEW t \in Tasks, RetryFailed(t) PROVE TaskOfRun'
    BY <1>2 DEF RetryFailed, runs
  <1>3. CASE Time
    BY <1>3 DEF Time, BackoffElapses, TimeoutElapses, runs
  <1>4. ASSUME NEW w \in Workers, Poll(w) PROVE TaskOfRun'
    <2> USE DEF table, runs
    <2>1. CASE Reap(w)
      <3>1. CASE RequeueStale
        BY <2>1, <3>1 DEF Reap, RequeueStale
      <3> QED BY <2>1, <3>1 DEF Reap
    <2>2. CASE Prune(w)
      BY <2>2 DEF Prune
    <2>3. CASE Acquire(w) \/ LockNext(w) \/ ClaimNothing(w)
      BY <2>3 DEF Acquire, LockNext, ClaimNothing
    <2>4. CASE Claim(w)
      BY <2>4 DEF Claim, ApplyClaim, Runs
    <2>5. CASE ClaimRaises(w)
      BY <2>5 DEF ClaimRaises, MaybeClaimed, ApplyClaim
    <2> QED BY <1>4, <2>1, <2>2, <2>3, <2>4, <2>5 DEF Poll
  <1>5. ASSUME NEW r \in Runs, Body(r) \/ Settle(r) PROVE TaskOfRun'
    <2> USE DEF Step, End, table
    <2>1. CASE Body(r)
      BY <2>1 DEF Body, BodyReturns, BodyRaises
    <2>2. CASE Complete(r)
      BY <2>2 DEF Complete, ApplyComplete
    <2>3. CASE CompleteRaises(r)
      BY <2>3 DEF CompleteRaises, ApplyComplete
    <2>4. CASE Fail(r)
      BY <2>4 DEF Fail, Failing, ApplyFail
    <2>5. CASE FailRaises(r)
      BY <2>5 DEF FailRaises, Failing, ApplyFail
    <2>6. CASE Report(r)
      BY <2>6 DEF Report
    <2> QED BY <1>5, <2>1, <2>2, <2>3, <2>4, <2>5, <2>6 DEF Settle
  <1>6. ASSUME NEW w \in Workers, Lifecycle(w) PROVE TaskOfRun'
    <2> USE DEF table, runs
    <2>1. CASE CancelLoop(w)
      BY <2>1 DEF CancelLoop, MaybeClaimed, ApplyClaim
    <2>2. CASE DrainTimesOut(w) \/ Crash(w)
      <3>1. Vanish(w)
        BY <2>2 DEF DrainTimesOut, Crash
      <3>2. /\ UNCHANGED status
            /\ \A r \in Runs : phase'[r] # "idle" => phase'[r] = phase[r] /\ task'[r] = task[r]
        BY <3>1 DEF Vanish
      <3> QED BY <3>2
    <2>3. CASE Signal(w) \/ LeaveLoop(w) \/ Drain(w) \/ Stop(w) \/ Restart(w)
      <3>1. UNCHANGED <<status, task, phase>>
        <4>1. CASE Signal(w) \/ LeaveLoop(w) \/ Drain(w)
          BY <4>1 DEF Signal, LeaveLoop, Drain
        <4>2. CASE Stop(w) \/ Restart(w)
          BY <4>2 DEF Stop, Restart
        <4> QED BY <2>3, <4>1, <4>2
      <3> QED BY <3>1
    <2>4. Lifecycle(w)
      BY <1>6
    <2> QED BY <2>1, <2>2, <2>3, <2>4 DEF Lifecycle
  <1>7. CASE UNCHANGED vars
    BY <1>7 DEF vars, table, runs
  <1> QED BY <1>1, <1>2, <1>3, <1>4, <1>5, <1>6, <1>7 DEF Next, Client
LEMMA NextLostReplies == Types /\ LostReplies /\ [Next]_vars => LostReplies'
  <1> SUFFICES ASSUME Types, LostReplies, [Next]_vars PROVE LostReplies'
    OBVIOUS
  <1> USE DEF Types, LostReplies, runs, table, history, bounds, Fault
  <1>0. ASSUME faults' \in {faults, faults + 1},
               \A r \in Runs : phase'[r] = "unheard" => phase[r] = "unheard" \/ faults' = faults + 1
        PROVE  LostReplies'
    BY <1>0
  <1>1. CASE Client \/ Time
    BY <1>1 DEF Client, Enqueue, RetryFailed, Time, BackoffElapses, TimeoutElapses
  <1>2. ASSUME NEW w \in Workers, Poll(w) PROVE LostReplies'
    <2>1. CASE Claim(w)
      BY <1>0, <2>1 DEF Claim, Runs
    <2> QED BY <1>2, <2>1 DEF Poll, Reap, Prune, Acquire, LockNext, ClaimNothing, ClaimRaises
  <1>3. ASSUME NEW r \in Runs, Body(r) \/ Settle(r) PROVE LostReplies'
    BY <1>0, <1>3 DEF Body, BodyReturns, BodyRaises, Settle, Complete, CompleteRaises, Fail,
                      FailRaises, Report, Step, End
  <1>4. ASSUME NEW w \in Workers, Lifecycle(w) PROVE LostReplies'
    BY <1>0, <1>4 DEF Lifecycle, Signal, LeaveLoop, CancelLoop, Drain, Stop, Restart,
                      DrainTimesOut, Crash, Vanish
  <1> QED BY <1>1, <1>2, <1>3, <1>4 DEF Next, vars
-----------------------------------------------------------------------------
(* A step that keeps every lock, or drops that of w, and leaves the other   *)
(* locked rows pending and their loops where they are.                     *)
LEMMA LocksKept ==
    ASSUME Types, LockedRows, lock' = lock,
           \A w \in Workers : lock[w] # NoTask => pc'[w] = "claim",
           \A t \in Tasks : status[t] = "pending" /\ ~Unlocked(t) => status'[t] = "pending"
    PROVE  LockedRows'
  BY DEF Types, LockedRows, Unlocked

LEMMA LockDropped ==
    ASSUME Types, LockedRows, NEW w \in Workers, lock' = [lock EXCEPT ![w] = NoTask],
           \A v \in Workers \ {w} : pc'[v] = pc[v],
           \A t \in Tasks : status[t] = "pending" /\ t # lock[w] => status'[t] = "pending"
    PROVE  LockedRows'
  <1> SUFFICES ASSUME NEW v \in Workers, lock'[v] # NoTask
               PROVE  /\ pc'[v] = "claim"
                      /\ status'[lock'[v]] = "pending"
                      /\ \A u \in Workers : u # v => lock'[u] # lock'[v]
    BY DEF LockedRows
  <1>1. v # w /\ lock'[v] = lock[v] /\ lock[v] \in Tasks
    BY DEF Types
  <1>2. pc[v] = "claim" /\ status[lock[v]] = "pending" /\ lock[v] # lock[w]
    BY <1>1 DEF LockedRows
  <1>3. \A u \in Workers : u # v => lock'[u] # lock'[v]
    BY <1>1 DEF LockedRows, Types
  <1> QED BY <1>1, <1>2, <1>3

LEMMA NextLockedRows == Types /\ LockedRows /\ [Next]_vars => LockedRows'
  <1> SUFFICES ASSUME Types, LockedRows, [Next]_vars PROVE LockedRows'
    OBVIOUS
  <1> DEFINE Kept == \A t \in Tasks : status[t] = "pending" /\ ~Unlocked(t) => status'[t] = "pending"
             Stays == \A w \in Workers : lock[w] # NoTask => pc'[w] = "claim"
  <1>0. ASSUME lock' = lock, Kept, Stays PROVE LockedRows'
    BY <1>0, LocksKept
  <1>1. ASSUME Enqueue PROVE LockedRows'
    <2>1. Kept
      BY <1>1 DEF Enqueue, Types, Absent
    <2>2. Stays
      BY <1>1 DEF Enqueue, loop, LockedRows
    <2> QED BY <1>0, <1>1, <2>1, <2>2 DEF Enqueue, loop
  <1>2. ASSUME NEW t \in Tasks, RetryFailed(t) PROVE LockedRows'
    <2>1. Kept
      BY <1>2 DEF RetryFailed, Types
    <2>2. Stays
      BY <1>2 DEF RetryFailed, loop, LockedRows
    <2> QED BY <1>0, <1>2, <2>1, <2>2 DEF RetryFailed, loop
  <1>3. CASE Time
    BY <1>0, <1>3 DEF Time, BackoffElapses, TimeoutElapses, loop, LockedRows
  <1>4. ASSUME NEW w \in Workers, Poll(w) PROVE LockedRows'
    <2> USE DEF Goto, table
    <2>1. CASE Reap(w)
      <3>1. Kept
        BY <2>1 DEF Reap, RequeueStale, Stale, Types
      <3>2. Stays
        BY <2>1 DEF Reap, LockedRows, Types
      <3> QED BY <1>0, <2>1, <3>1, <3>2 DEF Reap
    <2>2. CASE Prune(w)
      <3>1. Kept
        BY <2>2 DEF Prune, Types
      <3>2. Stays
        BY <2>2 DEF Prune, LockedRows, Types
      <3> QED BY <1>0, <2>2, <3>1, <3>2 DEF Prune
    <2>3. CASE Acquire(w)
      <3>1. Stays
        BY <2>3 DEF Acquire, LockedRows, Types
      <3> QED BY <1>0, <2>3, <3>1 DEF Acquire
    <2>4. CASE LockNext(w)
      BY <2>4 DEF LockNext, Claimable, Unlocked, LockedRows, Types, NoTask, Tasks
    <2>5. CASE Claim(w)
      <3>1. \A t \in Tasks : status[t] = "pending" /\ t # lock[w] => status'[t] = "pending"
        BY <2>5 DEF Claim, ApplyClaim, Types
      <3> QED BY <2>5, <3>1, LockDropped DEF Claim, Unlock, Types
    <2>6. CASE ClaimNothing(w)
      <3>1. Stays
        BY <2>6 DEF ClaimNothing, LockedRows, Types
      <3> QED BY <1>0, <2>6, <3>1 DEF ClaimNothing
    <2>7. CASE ClaimRaises(w)
      <3>1. \A t \in Tasks : status[t] = "pending" /\ t # lock[w] => status'[t] = "pending"
        BY <2>7 DEF ClaimRaises, MaybeClaimed, ApplyClaim, Types
      <3> QED BY <2>7, <3>1, LockDropped DEF ClaimRaises, Unlock, Types
    <2> QED BY <1>4, <2>1, <2>2, <2>3, <2>4, <2>5, <2>6, <2>7 DEF Poll
  <1>5. ASSUME NEW r \in Runs, Body(r) \/ Settle(r) PROVE LockedRows'
    <2>1. pc' = pc /\ lock' = lock
      BY <1>5 DEF Body, BodyReturns, BodyRaises, Settle, Complete, CompleteRaises, Fail,
                  FailRaises, Failing, Report, loop
    <2>2. Stays
      BY <2>1 DEF LockedRows
    <2>3. ASSUME NEW t \in Tasks, status[t] = "pending", ~Unlocked(t) PROVE status'[t] = "pending"
      <3>1. CASE status' = status
        BY <2>3, <3>1
      <3>2. CASE Unlocked(task[r]) /\ (ApplyComplete(task[r]) \/ ApplyFail(task[r]))
        BY <2>3, <3>2 DEF ApplyComplete, ApplyFail, Types
      <3> QED BY <1>5, <3>1, <3>2 DEF Body, BodyReturns, BodyRaises, Settle, Complete,
                  CompleteRaises, Fail, FailRaises, Failing, Report, table
    <2> QED BY <1>0, <2>1, <2>2, <2>3
  <1>6. ASSUME NEW w \in Workers, Lifecycle(w) PROVE LockedRows'
    <2> USE DEF Goto, table
    <2>1. CASE Signal(w) \/ LeaveLoop(w) \/ Drain(w) \/ Stop(w) \/ Restart(w)
      <3>1. Stays
        BY <2>1 DEF Signal, LeaveLoop, Drain, Stop, Restart, Live, LockedRows, Types
      <3> QED BY <1>0, <2>1, <3>1 DEF Signal, LeaveLoop, Drain, Stop, Restart
    <2>2. CASE CancelLoop(w)
      <3>1. \A t \in Tasks : status[t] = "pending" /\ t # lock[w] => status'[t] = "pending"
        BY <2>2 DEF CancelLoop, MaybeClaimed, ApplyClaim, Types
      <3> QED BY <2>2, <3>1, LockDropped DEF CancelLoop, Unlock, Types
    <2>3. CASE DrainTimesOut(w) \/ Crash(w)
      BY <2>3, LockDropped DEF DrainTimesOut, Crash, Vanish, Unlock, Types
    <2> QED BY <1>6, <2>1, <2>2, <2>3 DEF Lifecycle
  <1>7. CASE UNCHANGED vars
    BY <1>0, <1>7 DEF vars, table, loop, LockedRows
  <1> QED BY <1>1, <1>2, <1>3, <1>4, <1>5, <1>6, <1>7 DEF Next, Client
-----------------------------------------------------------------------------
LEMMA ClaimCounts ==
    ASSUME Types, RowCounts, NEW t \in Tasks, status[t] = "pending", ApplyClaim(t),
           \/ started' = started
           \/ started' = [started EXCEPT ![t] = @ + 1]
    PROVE  RowCounts'
  BY QueueConstants DEF Types, RowCounts, RowCount, ApplyClaim

LEMMA MaybeClaimedCounts ==
    ASSUME Types, RowCounts, LockedRows, NEW w \in Workers, MaybeClaimed(w), started' = started
    PROVE  RowCounts'
  <1>1. CASE UNCHANGED <<status, attempts, overdue>>
    BY <1>1 DEF RowCounts, RowCount
  <1>2. CASE lock[w] # NoTask /\ ApplyClaim(lock[w])
    <2>1. lock[w] \in Tasks /\ status[lock[w]] = "pending"
      BY <1>2 DEF Types, LockedRows
    <2> QED BY <1>2, <2>1, ClaimCounts
  <1> QED BY <1>1, <1>2 DEF MaybeClaimed

LEMMA SettledCounts ==
    ASSUME Types, RowCounts, NEW t \in Tasks, status[t] # "absent",
           ApplyComplete(t) \/ ApplyFail(t), started' = started
    PROVE  RowCounts'
  BY QueueConstants DEF Types, RowCounts, RowCount, ApplyComplete, ApplyFail

LEMMA NextRowCounts == Types /\ TaskOfRun /\ LockedRows /\ RowCounts /\ [Next]_vars => RowCounts'
  <1> SUFFICES ASSUME Types, TaskOfRun, LockedRows, RowCounts, [Next]_vars PROVE RowCounts'
    OBVIOUS
  <1>0. ASSUME UNCHANGED <<status, attempts, started>> PROVE RowCounts'
    BY <1>0 DEF RowCounts, RowCount
  <1>1. ASSUME Enqueue PROVE RowCounts'
    BY <1>1, QueueConstants DEF Enqueue, Absent, history, Types, RowCounts, RowCount
  <1>2. ASSUME NEW t \in Tasks, RetryFailed(t) PROVE RowCounts'
    BY <1>2, QueueConstants DEF RetryFailed, Types, RowCounts, RowCount
  <1>3. CASE Time
    BY <1>0, <1>3 DEF Time, BackoffElapses, TimeoutElapses, history
  <1>4. ASSUME NEW w \in Workers, Poll(w) PROVE RowCounts'
    <2> USE DEF table, history
    <2>1. CASE Reap(w)
      <3>1. CASE RequeueStale
        BY <2>1, <3>1, QueueConstants DEF Reap, RequeueStale, Stale, Types, RowCounts, RowCount
      <3> QED BY <1>0, <2>1, <3>1 DEF Reap
    <2>2. CASE Prune(w)
      BY <2>2 DEF Prune, Types, RowCounts, RowCount
    <2>3. CASE Acquire(w) \/ LockNext(w) \/ ClaimNothing(w)
      BY <1>0, <2>3 DEF Acquire, LockNext, ClaimNothing
    <2>4. CASE Claim(w)
      <3>1. lock[w] \in Tasks /\ status[lock[w]] = "pending"
        BY <2>4 DEF Claim, Types, LockedRows
      <3> QED BY <2>4, <3>1, ClaimCounts DEF Claim
    <2>5. CASE ClaimRaises(w)
      BY <2>5, MaybeClaimedCounts DEF ClaimRaises
    <2> QED BY <1>4, <2>1, <2>2, <2>3, <2>4, <2>5 DEF Poll
  <1>5. ASSUME NEW r \in Runs, Body(r) \/ Settle(r) PROVE RowCounts'
    <2>1. CASE UNCHANGED <<status, attempts>>
      BY <1>0, <1>5, <2>1 DEF Body, BodyReturns, BodyRaises, Settle, Complete, CompleteRaises,
                              Fail, FailRaises, Failing, Report, history
    <2>2. CASE Busy(r) /\ (ApplyComplete(task[r]) \/ ApplyFail(task[r]))
      <3>1. task[r] \in Tasks /\ status[task[r]] # "absent"
        BY <2>2 DEF TaskOfRun
      <3>2. started' = started
        BY <1>5 DEF Body, BodyReturns, BodyRaises, Settle, Complete, CompleteRaises,
                    Fail, FailRaises, Failing, Report, history
      <3> QED BY <2>2, <3>1, <3>2, SettledCounts
    <2> QED BY <1>5, <2>1, <2>2 DEF Body, BodyReturns, BodyRaises, Settle, Complete,
                CompleteRaises, Fail, FailRaises, Failing, Report, Busy, table
  <1>6. ASSUME NEW w \in Workers, Lifecycle(w) PROVE RowCounts'
    <2>1. CASE CancelLoop(w)
      BY <2>1, MaybeClaimedCounts DEF CancelLoop, history
    <2> QED BY <1>0, <1>6, <2>1 DEF Lifecycle, Signal, LeaveLoop, Drain, Stop, Restart,
                DrainTimesOut, Crash, Vanish, table, history
  <1>7. CASE UNCHANGED vars
    BY <1>0, <1>7 DEF vars, table, history
  <1> QED BY <1>1, <1>2, <1>3, <1>4, <1>5, <1>6, <1>7 DEF Next, Client
-----------------------------------------------------------------------------
(* A step that starts no run and leaves the rows of the unreaped owners alone. *)
LEMMA OwnersKept ==
    ASSUME OwnedRows, reaped \subseteq reaped',
           \A r \in Runs : Owns(r)' => Owns(r) /\ task'[r] = task[r],
           \A r \in Runs : Owns(r)' /\ task[r] \notin reaped' => status'[task[r]] \in Ownable(r)'
    PROVE  OwnedRows'
  <1> SUFFICES ASSUME NEW r \in Runs, Owns(r)', task'[r] \notin reaped'
               PROVE  /\ status'[task'[r]] \in Ownable(r)'
                      /\ \A q \in Runs : q # r /\ Owns(q)' => task'[q] # task'[r]
    BY DEF OwnedRows
  <1>1. Owns(r) /\ task'[r] = task[r] /\ task[r] \notin reaped
    OBVIOUS
  <1>2. \A q \in Runs : q # r /\ Owns(q) => task[q] # task[r]
    BY <1>1 DEF OwnedRows
  <1> QED BY <1>1, <1>2

(* A step that moves no run at all. *)
LEMMA RunsKept ==
    ASSUME Types, TaskOfRun, OwnedRows, reaped \subseteq reaped', phase' = phase, task' = task,
           \A t \in Tasks :
              \/ status'[t] = status[t]
              \/ t \in reaped'
              \/ status[t] \in {"absent", "pending", "failed"}
              \/ status[t] = "completed" /\ status'[t] = "deleted"
    PROVE  OwnedRows'
  <1> SUFFICES ASSUME NEW r \in Runs, Owns(r), task[r] \notin reaped'
               PROVE  status'[task[r]] \in Ownable(r)'
    BY OwnersKept DEF Owns
  <1>1. status[task[r]] \in Ownable(r) /\ task[r] \in Tasks
    BY DEF OwnedRows, TaskOfRun, Owns, Busy
  <1>2. status[task[r]] \in Ownable(r)'
    BY <1>1 DEF Ownable, Types
  <1>3. CASE status'[task[r]] = status[task[r]]
    BY <1>2, <1>3
  <1>4. CASE status[task[r]] = "completed" /\ status'[task[r]] = "deleted"
    BY <1>2, <1>4 DEF Ownable
  <1> QED BY <1>1, <1>3, <1>4 DEF Ownable

(* A run that leaves, or stays with, the row it settles. *)
LEMMA RunSettles ==
    ASSUME Types, TaskOfRun, OwnedRows, NEW r \in Runs, Owns(r), reaped' = reaped,
           \A q \in Runs \ {r} : phase'[q] = phase[q] /\ task'[q] = task[q],
           \A t \in Tasks \ {task[r]} : status'[t] = status[t],
           \/ ~Owns(r)'
           \/ /\ task'[r] = task[r] /\ status'[task[r]] = status[task[r]]
              /\ "unheard" \notin {phase[r], phase'[r]}
           \/ /\ task'[r] = task[r] /\ phase'[r] = "unheard"
              /\ status'[task[r]] \in {"completed", "deleted"}
    PROVE  OwnedRows'
  <1>1. \A q \in Runs : Owns(q)' => Owns(q) /\ task'[q] = task[q]
    BY DEF Owns
  <1> SUFFICES ASSUME NEW q \in Runs, Owns(q)', task[q] \notin reaped
               PROVE  status'[task[q]] \in Ownable(q)'
    BY <1>1, OwnersKept
  <1>2. Owns(q) /\ status[task[q]] \in Ownable(q) /\ task[q] \in Tasks
    BY <1>1 DEF OwnedRows, TaskOfRun, Owns, Busy
  <1>4. CASE q # r
    BY <1>2, <1>4 DEF OwnedRows, Ownable
  <1>5. CASE q = r
    BY <1>2, <1>5 DEF Ownable, Types
  <1> QED BY <1>4, <1>5

(* The run that a claim starts is alone, because the row was pending. *)
LEMMA ClaimOwned ==
    ASSUME Types, TaskOfRun, LockedRows, OwnedRows, NEW w \in Workers, Claim(w)
    PROVE  OwnedRows'
  <1>1. lock[w] \in Tasks /\ status[lock[w]] = "pending"
    BY DEF Claim, Types, LockedRows
  <1>2. PICK c \in Coroutines : /\ ~Busy(<<w, c>>)
                                /\ phase' = [phase EXCEPT ![<<w, c>>] = "executing"]
                                /\ task' = [task EXCEPT ![<<w, c>>] = lock[w]]
    BY DEF Claim
  <1> DEFINE new == <<w, c>>
  <1>3. new \in Runs /\ task'[new] = lock[w] /\ phase'[new] = "executing" /\ status'[lock[w]] = "running"
    BY <1>1, <1>2 DEF Runs, Types, Claim, ApplyClaim
  <1>4. \A q \in Runs : q # new => task'[q] = task[q] /\ phase'[q] = phase[q] /\ (Owns(q)' <=> Owns(q))
    BY <1>2 DEF Types, Owns
  <1>5. reaped' = reaped /\ faults' = faults
    BY DEF Claim, bounds
  <1>6. \A q \in Runs : Owns(q) /\ task[q] \notin reaped => task[q] # lock[w]
    BY <1>1 DEF OwnedRows, Ownable
  <1>7. ASSUME NEW q \in Runs, q # new, Owns(q)', task'[q] \notin reaped'
        PROVE  /\ status'[task'[q]] \in Ownable(q)'
               /\ \A r \in Runs : r # q /\ Owns(r)' => task'[r] # task'[q]
    <2>1. Owns(q) /\ task'[q] = task[q] /\ task[q] \notin reaped /\ task[q] \in Tasks
      BY <1>4, <1>5, <1>7 DEF TaskOfRun, Owns, Busy
    <2>2. status'[task[q]] = status[task[q]]
      BY <1>6, <2>1 DEF Claim, ApplyClaim, Types
    <2>3. status'[task[q]] \in Ownable(q)'
      BY <1>4, <1>7, <2>1, <2>2 DEF OwnedRows, Ownable, Owns
    <2>4. \A r \in Runs : r # q /\ r # new /\ Owns(r)' => task'[r] # task[q]
      BY <1>4, <2>1 DEF OwnedRows
    <2> QED BY <1>3, <1>6, <2>1, <2>3, <2>4
  <1>8. ASSUME task'[new] \notin reaped'
        PROVE  /\ status'[task'[new]] \in Ownable(new)'
               /\ \A r \in Runs : r # new /\ Owns(r)' => task'[r] # task'[new]
    <2>1. status'[task'[new]] \in Ownable(new)'
      BY <1>3 DEF Ownable
    <2>2. \A r \in Runs : r # new /\ Owns(r)' => task'[r] # task'[new]
      BY <1>3, <1>4, <1>5, <1>6, <1>8
    <2> QED BY <2>1, <2>2
  <1> QED BY <1>7, <1>8 DEF OwnedRows

LEMMA NextOwnedRows ==
    Types /\ TaskOfRun /\ LockedRows /\ RowCounts /\ OwnedRows /\ [Next]_vars => OwnedRows'
  <1> SUFFICES ASSUME Types, TaskOfRun, LockedRows, RowCounts, OwnedRows, [Next]_vars
               PROVE  OwnedRows'
    OBVIOUS
  <1> DEFINE Spared == \A t \in Tasks :
                            \/ status'[t] = status[t]
                            \/ t \in reaped'
                            \/ status[t] \in {"absent", "pending", "failed"}
                            \/ status[t] = "completed" /\ status'[t] = "deleted"
  <1>0. ASSUME Spared, UNCHANGED <<phase, task>>, reaped \subseteq reaped',
               faults' \in {faults, faults + 1}
        PROVE  OwnedRows'
    BY <1>0, RunsKept
  <1>1. ASSUME Enqueue PROVE OwnedRows'
    <2>1. Spared
      BY <1>1 DEF Enqueue, Absent, Types
    <2> QED BY <1>0, <1>1, <2>1 DEF Enqueue, runs, history, bounds
  <1>2. ASSUME NEW t \in Tasks, RetryFailed(t) PROVE OwnedRows'
    <2>1. Spared
      BY <1>2 DEF RetryFailed, Types
    <2> QED BY <1>0, <1>2, <2>1 DEF RetryFailed, runs
  <1>3. CASE Time
    BY <1>0, <1>3 DEF Time, BackoffElapses, TimeoutElapses, runs, history, bounds
  <1>4. ASSUME NEW w \in Workers, Poll(w) PROVE OwnedRows'
    <2> USE DEF table, runs, history, bounds
    <2>1. CASE Reap(w)
      <3>1. Spared /\ reaped \subseteq reaped'
        BY <2>1 DEF Reap, RequeueStale, Types
      <3> QED BY <1>0, <2>1, <3>1 DEF Reap
    <2>2. CASE Prune(w)
      <3>1. Spared
        BY <2>2 DEF Prune, Types
      <3> QED BY <1>0, <2>2, <3>1 DEF Prune
    <2>3. CASE Acquire(w) \/ LockNext(w) \/ ClaimNothing(w)
      <3>1. Spared
        BY <2>3 DEF Acquire, LockNext, ClaimNothing
      <3> QED BY <1>0, <2>3, <3>1 DEF Acquire, LockNext, ClaimNothing
    <2>4. CASE Claim(w)
      BY <2>4, ClaimOwned
    <2>5. CASE ClaimRaises(w)
      <3>1. Spared
        BY <2>5 DEF ClaimRaises, MaybeClaimed, ApplyClaim, LockedRows, Types
      <3> QED BY <1>0, <2>5, <3>1 DEF ClaimRaises, Fault
    <2> QED BY <1>4, <2>1, <2>2, <2>3, <2>4, <2>5 DEF Poll
  <1>5. ASSUME NEW r \in Runs, Body(r) \/ Settle(r) PROVE OwnedRows'
    <2> USE DEF table, loop, history, bounds, Step
    <2>1. CASE Body(r)
      <3>1. /\ Owns(r) /\ "unheard" \notin {phase[r], phase'[r]}
            /\ \A q \in Runs \ {r} : phase'[q] = phase[q] /\ task'[q] = task[q]
        BY <2>1 DEF Body, BodyReturns, BodyRaises, Types, Owns
      <3>2. UNCHANGED <<task, status, reaped, faults>>
        BY <2>1 DEF Body, BodyReturns, BodyRaises
      <3> QED BY <3>1, <3>2, RunSettles
    <2>2. CASE Complete(r)
      <3>1. Owns(r) /\ ~Owns(r)' /\ \A q \in Runs \ {r} : phase'[q] = phase[q] /\ task'[q] = task[q]
        BY <2>2 DEF Complete, End, Types, Owns
      <3>2. \A t \in Tasks \ {task[r]} : status'[t] = status[t]
        BY <2>2 DEF Complete, ApplyComplete, Types
      <3> QED BY <2>2, <3>1, <3>2, RunSettles DEF Complete
    <2>3. CASE CompleteRaises(r)
      <3>1. Owns(r) /\ \A q \in Runs \ {r} : phase'[q] = phase[q] /\ task'[q] = task[q]
        BY <2>3 DEF CompleteRaises, Types, Owns
      <3>2. \A t \in Tasks \ {task[r]} : status'[t] = status[t]
        BY <2>3 DEF CompleteRaises, ApplyComplete, Types
      <3>3. task[r] \in Tasks
        BY <3>1 DEF TaskOfRun, Owns, Busy
      <3>4. \/ /\ status'[task[r]] = status[task[r]]
               /\ "unheard" \notin {phase[r], phase'[r]}
            \/ /\ phase'[r] = "unheard"
               /\ status'[task[r]] \in {"completed", "deleted"}
        BY <2>3, <3>3 DEF CompleteRaises, ApplyComplete, Types
      <3> QED BY <2>3, <3>1, <3>2, <3>4, RunSettles DEF CompleteRaises, Fault
    <2>4. CASE Fail(r)
      <3>1. Owns(r) /\ ~Owns(r)' /\ \A q \in Runs \ {r} : phase'[q] = phase[q] /\ task'[q] = task[q]
        BY <2>4 DEF Fail, Failing, End, Types, Owns
      <3>2. \A t \in Tasks \ {task[r]} : status'[t] = status[t]
        BY <2>4 DEF Fail, Failing, ApplyFail, Types
      <3> QED BY <2>4, <3>1, <3>2, RunSettles DEF Fail, Failing
    <2>5. CASE FailRaises(r)
      <3>1. Owns(r) /\ ~Owns(r)' /\ \A q \in Runs \ {r} : phase'[q] = phase[q] /\ task'[q] = task[q]
        BY <2>5 DEF FailRaises, Failing, End, Types, Owns
      <3>2. \A t \in Tasks \ {task[r]} : status'[t] = status[t]
        BY <2>5 DEF FailRaises, Failing, ApplyFail, Types
      <3> QED BY <2>5, <3>1, <3>2, RunSettles DEF FailRaises, Failing, Fault
    <2>6. CASE Report(r)
      <3>1. \A q \in Runs : Owns(q)' => Owns(q) /\ task'[q] = task[q] /\ phase'[q] = phase[q]
        BY <2>6 DEF Report, End, Types, Owns
      <3>2. UNCHANGED <<status, reaped, faults>>
        BY <2>6 DEF Report
      <3>3. \A q \in Runs : Owns(q)' /\ task[q] \notin reaped' => status'[task[q]] \in Ownable(q)'
        BY <3>1, <3>2 DEF OwnedRows, Ownable
      <3> QED BY <3>1, <3>2, <3>3, OwnersKept
    <2> QED BY <1>5, <2>1, <2>2, <2>3, <2>4, <2>5, <2>6 DEF Settle
  <1>6. ASSUME NEW w \in Workers, Lifecycle(w) PROVE OwnedRows'
    <2> USE DEF table, runs, history, bounds
    <2>1. CASE Signal(w) \/ LeaveLoop(w) \/ Drain(w) \/ Stop(w) \/ Restart(w)
      <3>1. Spared
        BY <2>1 DEF Signal, LeaveLoop, Drain, Stop, Restart
      <3> QED BY <1>0, <2>1, <3>1 DEF Signal, LeaveLoop, Drain, Stop, Restart, Fault
    <2>2. CASE CancelLoop(w)
      <3>1. Spared
        BY <2>2 DEF CancelLoop, MaybeClaimed, ApplyClaim, LockedRows, Types
      <3> QED BY <1>0, <2>2, <3>1 DEF CancelLoop
    <2>3. CASE DrainTimesOut(w) \/ Crash(w)
      <3>1. \A q \in Runs : Owns(q)' => Owns(q) /\ task'[q] = task[q] /\ phase'[q] = phase[q]
        BY <2>3 DEF DrainTimesOut, Crash, Vanish, Owns
      <3>2. UNCHANGED <<status, reaped>> /\ faults' \in {faults, faults + 1}
        BY <2>3 DEF DrainTimesOut, Crash, Vanish, Fault
      <3>3. \A q \in Runs : Owns(q)' /\ task[q] \notin reaped' => status'[task[q]] \in Ownable(q)'
        BY <3>1, <3>2 DEF OwnedRows, Ownable, Types
      <3> QED BY <3>1, <3>2, <3>3, OwnersKept
    <2> QED BY <1>6, <2>1, <2>2, <2>3 DEF Lifecycle
  <1>7. CASE UNCHANGED vars
    BY <1>0, <1>7 DEF vars, table, runs, history, bounds
  <1> QED BY <1>1, <1>2, <1>3, <1>4, <1>5, <1>6, <1>7 DEF Next, Client
-----------------------------------------------------------------------------
(* Permits. *)

LEMMA WorkingFinite ==
    ASSUME NEW w \in Workers
    PROVE  /\ IsFiniteSet(Working(w)) /\ Cardinality(Working(w)) \in Nat
           /\ IsFiniteSet(Working(w)') /\ Cardinality(Working(w)') \in Nat
  <1>1. IsFiniteSet({w} \X Coroutines)
    BY QueueConstants, FS_Singleton, FS_Product
  <1>2. Working(w) \subseteq {w} \X Coroutines /\ Working(w)' \subseteq {w} \X Coroutines
    BY DEF Working, Runs
  <1> QED BY <1>1, <1>2, FS_Subset, FS_CardinalityType

(* A loop that moves without touching its coroutines. *)
LEMMA LoopMoves ==
    ASSUME Types, PermitsKept, NEW w \in Workers,
           \A v \in Workers \ {w} : /\ permits'[v] = permits[v] /\ drained'[v] = drained[v]
                                    /\ pc'[v] = pc[v],
           \A r \in Runs : Busy(r)' <=> Busy(r),
           permits'[w] + drained'[w] + Held(w)' <= permits[w] + drained[w] + Held(w),
           Uncancelled(w)' => /\ Uncancelled(w)
                              /\ permits'[w] + drained'[w] + Held(w)' = permits[w] + drained[w] + Held(w),
           ~Live(w)' => ~Live(w) \/ drained'[w] = MaxConcurrent,
           permits'[w] \in Nat, drained'[w] \in Nat
    PROVE  PermitsKept'
  <1>1. \A v \in Workers : Working(v)' = Working(v)
    BY DEF Working
  <1>2. \A v \in Workers : Held(v) \in {0, 1} /\ Held(v)' \in {0, 1}
    BY DEF Held
  <1>3. ASSUME NEW v \in Workers, v # w
        PROVE  /\ Accounted(v)' <= MaxConcurrent
               /\ Uncancelled(v)' => Accounted(v)' = MaxConcurrent
               /\ ~Live(v)' => Working(v)' = {}
    <2>1. Accounted(v)' = Accounted(v)
      BY <1>1, <1>3 DEF Accounted, Held
    <2>2. (Uncancelled(v)' <=> Uncancelled(v)) /\ (Live(v)' <=> Live(v))
      BY <1>3 DEF Uncancelled, Live
    <2> QED BY <1>1, <2>1, <2>2 DEF PermitsKept
  <1>4. Accounted(w)' <= MaxConcurrent
    BY <1>1, <1>2, WorkingFinite, QueueConstants DEF PermitsKept, Accounted, Types
  <1>5. Uncancelled(w)' => Accounted(w)' = MaxConcurrent
    BY <1>1, <1>2, WorkingFinite, QueueConstants DEF PermitsKept, Accounted, Types
  <1>6. ASSUME ~Live(w)' PROVE Working(w)' = {}
    <2>1. CASE ~Live(w)
      BY <1>1, <2>1 DEF PermitsKept
    <2>2. CASE drained'[w] = MaxConcurrent
      <3>1. Cardinality(Working(w)') = 0
        BY <1>2, <1>4, <2>2, WorkingFinite, QueueConstants DEF Accounted
      <3> QED BY <3>1, WorkingFinite, FS_EmptySet
    <2> QED BY <1>6, <2>1, <2>2
  <1> QED BY <1>3, <1>4, <1>5, <1>6 DEF PermitsKept

(* A coroutine that ends hands back the permit it held. *)
LEMMA EndReturnsPermit ==
    ASSUME Types, PermitsKept, NEW r \in Runs, Busy(r), End(r), UNCHANGED <<pc, drained>>
    PROVE  PermitsKept'
  <1> DEFINE w == r[1]
  <1>1. w \in Workers /\ r \in Working(w)
    BY DEF Runs, Working
  <1>2. Working(w)' = Working(w) \ {r}
    BY DEF End, Step, Working, Busy, Types
  <1>3. \A v \in Workers \ {w} : Working(v)' = Working(v) /\ permits'[v] = permits[v]
    BY DEF End, Step, Release, Working, Busy, Types
  <1>4. Cardinality(Working(w)') = Cardinality(Working(w)) - 1 /\ permits'[w] = permits[w] + 1
    <2>1. permits'[w] = permits[w] + 1
      BY <1>1 DEF End, Release, Types
    <2>2. IsFiniteSet(Working(w))
      BY <1>1, WorkingFinite
    <2>3. Cardinality(Working(w) \ {r}) = Cardinality(Working(w)) - 1
      BY <1>1, <2>2, FS_RemoveElement
    <2> QED BY <1>2, <2>1, <2>3
  <1>5. \A v \in Workers : Held(v)' = Held(v) /\ (Live(v)' <=> Live(v)) /\ (Uncancelled(v)' <=> Uncancelled(v))
    BY DEF Held, Live, Uncancelled
  <1>6. Accounted(w)' = Accounted(w)
    BY <1>1, <1>4, <1>5, WorkingFinite DEF Accounted, Held, Types
  <1>7. \A v \in Workers \ {w} : Accounted(v)' = Accounted(v)
    BY <1>3, <1>5 DEF Accounted
  <1> QED BY <1>1, <1>2, <1>3, <1>5, <1>6, <1>7 DEF PermitsKept

(* The coroutine a claim starts takes over the permit the loop held. *)
LEMMA ClaimPassesPermit ==
    ASSUME Types, PermitsKept, NEW w \in Workers, Claim(w)
    PROVE  PermitsKept'
  <1>1. PICK c \in Coroutines : /\ ~Busy(<<w, c>>)
                                /\ phase' = [phase EXCEPT ![<<w, c>>] = "executing"]
    BY DEF Claim
  <1> DEFINE new == <<w, c>>
  <1>2. new \in Runs /\ new \notin Working(w)
    BY <1>1 DEF Runs, Working
  <1>3. Working(w)' = Working(w) \cup {new}
    BY <1>1, <1>2 DEF Working, Busy, Types
  <1>4. \A v \in Workers \ {w} : Working(v)' = Working(v) /\ pc'[v] = pc[v]
    BY <1>1 DEF Working, Busy, Claim, Goto, Types
  <1>5. Cardinality(Working(w)') = Cardinality(Working(w)) + 1
    BY <1>2, <1>3, WorkingFinite, FS_AddElement
  <1>6. /\ pc[w] = "claim" /\ pc'[w] = "top" /\ Held(w) = 1 /\ Held(w)' = 0
        /\ Uncancelled(w) /\ Live(w)' /\ UNCHANGED <<permits, drained>>
    BY DEF Claim, Goto, Held, Uncancelled, Live, Types
  <1>7. Accounted(w)' = Accounted(w)
    BY <1>5, <1>6, WorkingFinite DEF Accounted, Types
  <1>8. \A v \in Workers \ {w} : /\ Accounted(v)' = Accounted(v)
                                 /\ Uncancelled(v)' <=> Uncancelled(v)
                                 /\ Live(v)' <=> Live(v)
    BY <1>4, <1>6 DEF Accounted, Held, Uncancelled, Live
  <1> QED BY <1>4, <1>6, <1>7, <1>8 DEF PermitsKept

(* A process that is gone has no coroutines, one that comes back has all permits. *)
LEMMA VanishKeepsPermits ==
    ASSUME Types, PermitsKept, NEW w \in Workers, Vanish(w)
    PROVE  PermitsKept'
  <1>1. Working(w)' = {} /\ Held(w)' = 0 /\ ~Live(w)'
    BY DEF Vanish, Goto, Working, Busy, Held, Live, Types
  <1>2. Accounted(w)' <= Accounted(w)
    BY <1>1, WorkingFinite, FS_EmptySet DEF Accounted, Held, Vanish, Types
  <1>3. \A v \in Workers \ {w} : Working(v)' = Working(v) /\ pc'[v] = pc[v]
    BY DEF Vanish, Goto, Working, Busy, Types
  <1>4. \A v \in Workers \ {w} : /\ Accounted(v)' = Accounted(v)
                                 /\ Uncancelled(v)' <=> Uncancelled(v)
                                 /\ Live(v)' <=> Live(v)
    BY <1>3 DEF Accounted, Held, Uncancelled, Live, Vanish
  <1>5. Accounted(w)' <= MaxConcurrent
    <2>1. Accounted(w) \in Int /\ Accounted(w)' \in Int
      BY WorkingFinite DEF Accounted, Held, Types, Vanish
    <2> QED BY <1>2, <2>1, QueueConstants DEF PermitsKept
  <1> QED BY <1>1, <1>3, <1>4, <1>5 DEF PermitsKept, Uncancelled

LEMMA RestartKeepsPermits ==
    ASSUME Types, PermitsKept, NEW w \in Workers, Restart(w)
    PROVE  PermitsKept'
  <1>1. \A v \in Workers : Working(v)' = Working(v)
    BY DEF Restart, runs, Working, Busy
  <1>2. Working(w)' = {} /\ Held(w)' = 0 /\ permits'[w] = MaxConcurrent /\ drained'[w] = 0
    BY <1>1 DEF Restart, Goto, Held, PermitsKept, Types
  <1>3. Accounted(w)' = MaxConcurrent
    BY <1>2, FS_EmptySet, QueueConstants DEF Accounted
  <1>4. \A v \in Workers \ {w} : /\ Accounted(v)' = Accounted(v)
                                 /\ Uncancelled(v)' <=> Uncancelled(v)
                                 /\ Live(v)' <=> Live(v)
    BY <1>1 DEF Restart, Goto, Accounted, Held, Uncancelled, Live
  <1> QED BY <1>1, <1>2, <1>3, <1>4, QueueConstants DEF PermitsKept

LEMMA NextPermitsKept == Types /\ PermitsKept /\ [Next]_vars => PermitsKept'
  <1> SUFFICES ASSUME Types, PermitsKept, [Next]_vars PROVE PermitsKept'
    OBVIOUS
  <1>0. ASSUME UNCHANGED <<pc, permits, drained>>, \A r \in Runs : Busy(r)' <=> Busy(r)
        PROVE  PermitsKept'
    <2>1. \A v \in Workers : Working(v)' = Working(v)
      BY <1>0 DEF Working
    <2> QED BY <1>0, <2>1 DEF PermitsKept, Accounted, Held, Uncancelled, Live
  <1>1. CASE Client \/ Time
    BY <1>0, <1>1 DEF Client, Enqueue, RetryFailed, Time, BackoffElapses, TimeoutElapses,
                      loop, runs, Busy
  <1>2. ASSUME NEW w \in Workers, Poll(w) PROVE PermitsKept'
    <2> USE DEF Goto, Release, table, runs
    <2>1. CASE Reap(w) \/ Prune(w)
      BY <2>1, LoopMoves DEF Reap, Prune, Held, Uncancelled, Live, Busy, Types
    <2>2. CASE Acquire(w)
      BY <2>2, LoopMoves DEF Acquire, Held, Uncancelled, Live, Busy, Types
    <2>3. CASE LockNext(w)
      BY <1>0, <2>3 DEF LockNext, Busy
    <2>4. CASE Claim(w)
      BY <2>4, ClaimPassesPermit
    <2>5. CASE ClaimNothing(w)
      BY <2>5, LoopMoves DEF ClaimNothing, Held, Uncancelled, Live, Busy, Types
    <2>6. CASE ClaimRaises(w)
      BY <2>6, LoopMoves DEF ClaimRaises, Held, Uncancelled, Live, Busy, Types
    <2> QED BY <1>2, <2>1, <2>2, <2>3, <2>4, <2>5, <2>6 DEF Poll
  <1>3. ASSUME NEW r \in Runs, Body(r) \/ Settle(r) PROVE PermitsKept'
    <2> USE DEF Step, table, loop
    <2>1. CASE Body(r) \/ CompleteRaises(r)
      BY <1>0, <2>1 DEF Body, BodyReturns, BodyRaises, CompleteRaises, Busy, Types
    <2>2. CASE Fail(r) /\ Exhausted(task[r])
      BY <1>0, <2>2 DEF Fail, Failing, Busy, Types
    <2>3. CASE Complete(r) \/ (Fail(r) /\ ~Exhausted(task[r])) \/ FailRaises(r) \/ Report(r)
      BY <2>3, EndReturnsPermit DEF Complete, Fail, FailRaises, Failing, Report, Busy
    <2> QED BY <1>3, <2>1, <2>2, <2>3 DEF Settle
  <1>4. ASSUME NEW w \in Workers, Lifecycle(w) PROVE PermitsKept'
    <2> USE DEF Goto, table, runs
    <2>1. CASE Signal(w)
      BY <1>0, <2>1 DEF Signal, Busy
    <2>2. CASE LeaveLoop(w)
      BY <2>2, LoopMoves DEF LeaveLoop, Held, Uncancelled, Live, Busy, Types
    <2>3. CASE CancelLoop(w)
      BY <2>3, LoopMoves DEF CancelLoop, Held, Uncancelled, Live, Busy, Types
    <2>4. CASE Drain(w)
      BY <2>4, LoopMoves, QueueConstants DEF Drain, Held, Uncancelled, Live, Busy, Types
    <2>5. CASE Stop(w)
      BY <2>5, LoopMoves DEF Stop, Held, Uncancelled, Live, Busy, Types
    <2>6. CASE Restart(w)
      BY <2>6, RestartKeepsPermits
    <2>7. CASE DrainTimesOut(w) \/ Crash(w)
      BY <2>7, VanishKeepsPermits DEF DrainTimesOut, Crash
    <2> QED BY <1>4, <2>1, <2>2, <2>3, <2>4, <2>5, <2>6, <2>7 DEF Lifecycle
  <1>5. CASE UNCHANGED vars
    BY <1>0, <1>5 DEF vars, loop, runs, Busy
  <1> QED BY <1>1, <1>2, <1>3, <1>4, <1>5 DEF Next
-----------------------------------------------------------------------------
(* The theorems. *)

LEMMA InitIInv == Init => IInv
  <1> SUFFICES ASSUME Init PROVE IInv
    OBVIOUS
  <1>1. Types
    BY InitTypes
  <1>2. TaskOfRun /\ OwnedRows /\ LostReplies
    BY DEF Init, TaskOfRun, OwnedRows, Owns, Busy, LostReplies
  <1>3. LockedRows
    BY DEF Init, LockedRows
  <1>4. RowCounts
    BY QueueConstants DEF Init, RowCounts, RowCount
  <1>5. PermitsKept
    <2> SUFFICES ASSUME NEW w \in Workers
                 PROVE  Accounted(w) = MaxConcurrent /\ Live(w) /\ Uncancelled(w)
      BY QueueConstants DEF PermitsKept
    <2>1. Working(w) = {} /\ Held(w) = 0
      BY DEF Init, Working, Busy, Held
    <2>2. Accounted(w) = MaxConcurrent
      BY <2>1, FS_EmptySet, QueueConstants DEF Init, Accounted
    <2> QED BY <2>2 DEF Init, Live, Uncancelled
  <1> QED BY <1>1, <1>2, <1>3, <1>4, <1>5 DEF IInv

(* The inductive invariant: the row's status, its attempts, the locks, the *)
(* runs and the permits stay consistent, whatever crashes or loses a reply.*)
THEOREM Inductive == Spec => []IInv
  <1>1. IInv /\ [Next]_vars => IInv'
    BY NextTypes, NextTaskOfRun, NextLockedRows, NextRowCounts, NextOwnedRows, NextLostReplies,
       NextPermitsKept DEF IInv
  <1> QED BY InitIInv, <1>1, PTL DEF Spec

(* Every value stays in its range: in particular no row counts more than   *)
(* one attempt over its budget (requeue_stale adds it), and no process     *)
(* holds more permits than worker_concurrency.                             *)
THEOREM TypeCorrect == Spec => []TypeOK
  <1>1. IInv => TypeOK
    <2> SUFFICES ASSUME IInv PROVE TypeOK
      OBVIOUS
    <2>1. attempts \in [Tasks -> 0 .. MaxAttempts + 1] /\ started \in [Tasks -> 0 .. MaxAttempts]
      BY QueueConstants DEF IInv, Types, RowCounts, RowCount
    <2>2. ASSUME NEW w \in Workers PROVE permits[w] \in 0 .. MaxConcurrent
      <3>1. Accounted(w) <= MaxConcurrent /\ permits[w] \in Nat /\ drained[w] \in Nat
        BY QueueConstants DEF IInv, PermitsKept, Types
      <3> QED BY <3>1, WorkingFinite, QueueConstants DEF Accounted, Held
    <2> QED BY <2>1, <2>2 DEF IInv, Types, TypeOK
  <1> QED BY Inductive, <1>1, PTL

(* No row is stranded: a pending row is below its budget, a running one    *)
(* within it, and a failed one has used it up, whichever of claim_next,    *)
(* fail, requeue_stale and retry_failed_task wrote it last.                *)
THEOREM NothingStranded == Spec => []NoStrandedTask
  <1>1. IInv => NoStrandedTask
    BY DEF IInv, RowCounts, RowCount, NoStrandedTask
  <1> QED BY Inductive, <1>1, PTL

(* Two coroutines never run one task unless it was requeued as stale: the  *)
(* row lock of claim_next is enough, over any number of processes.         *)
THEOREM RunsExclusive == Spec => []OneRunUnlessReaped
  <1>1. IInv => OneRunUnlessReaped
    BY DEF IInv, OwnedRows, OneRunUnlessReaped
  <1> QED BY Inductive, <1>1, PTL

(* The semaphore of a process counts: what is free, drained, held by the   *)
(* loop and held by its coroutines adds up to worker_concurrency.          *)
THEOREM PermitsConserved == Spec => []PermitsAccounted
  <1>1. IInv => PermitsAccounted
    BY DEF IInv, PermitsKept, PermitsAccounted, Accounted, Uncancelled
  <1> QED BY Inductive, <1>1, PTL

(* A process that reached the end of its shutdown has no coroutine left.   *)
THEOREM ShutdownAbandonsNothing == Spec => []GracefulStop
  <1>1. IInv => GracefulStop
    BY DEF IInv, PermitsKept, GracefulStop, Live
  <1> QED BY Inductive, <1>1, PTL
-----------------------------------------------------------------------------
(* The queue implements RetryBudget: what one step does to one task. *)

Left(t) == IF status[t] \in {"absent", "deleted"} \/ attempts[t] >= MaxAttempts
           THEN 0 ELSE MaxAttempts - attempts[t]

Spends(t) ==
    \/ Left(t)' \in 0 .. Left(t) /\ started'[t] = started[t]
    \/ Left(t) > 0 /\ Left(t)' = Left(t) - 1 /\ started'[t] = started[t] + 1
    \/ Left(t) = 0 /\ Left(t)' = MaxAttempts /\ started'[t] = 0

LEMMA ClaimSpends ==
    ASSUME Types, RowCounts, NEW u \in Tasks, status[u] = "pending", ApplyClaim(u),
           NEW t \in Tasks,
           \/ started' = started
           \/ started' = [started EXCEPT ![u] = @ + 1]
    PROVE  Spends(t)
  <1>1. attempts[u] \in Nat /\ attempts[u] < MaxAttempts /\ attempts[t] \in Nat
    BY DEF Types, RowCounts, RowCount
  <1>2. CASE t # u
    BY <1>1, <1>2, QueueConstants DEF Types, ApplyClaim, Spends, Left
  <1>3. CASE t = u
    BY <1>1, <1>3, QueueConstants DEF Types, ApplyClaim, Spends, Left
  <1> QED BY <1>2, <1>3

LEMMA MaybeClaimSpends ==
    ASSUME Types, LockedRows, RowCounts, NEW w \in Workers, MaybeClaimed(w), started' = started,
           NEW t \in Tasks
    PROVE  Spends(t)
  <1>1. CASE UNCHANGED <<status, attempts, overdue>>
    BY <1>1, QueueConstants DEF Types, Spends, Left
  <1>2. CASE lock[w] # NoTask /\ ApplyClaim(lock[w])
    <2>1. lock[w] \in Tasks /\ status[lock[w]] = "pending"
      BY <1>2 DEF Types, LockedRows
    <2> QED BY <1>2, <2>1, ClaimSpends
  <1> QED BY <1>1, <1>2 DEF MaybeClaimed

LEMMA SettleSpends ==
    ASSUME Types, RowCounts, NEW u \in Tasks, status[u] # "absent",
           ApplyComplete(u) \/ ApplyFail(u), started' = started, NEW t \in Tasks
    PROVE  Spends(t)
  <1>1. attempts' = attempts /\ attempts[t] \in Nat
    BY DEF ApplyComplete, ApplyFail, Types
  <1>2. status[t] \in {"absent", "deleted"} <=> status'[t] \in {"absent", "deleted"}
    BY DEF ApplyComplete, ApplyFail, Types
  <1> QED BY <1>1, <1>2, QueueConstants DEF Spends, Left

LEMMA NextSpends ==
    ASSUME Types, TaskOfRun, LockedRows, RowCounts, [Next]_vars, NEW t \in Tasks
    PROVE  Spends(t)
  <1>0. ASSUME UNCHANGED <<status, attempts, started>> PROVE Spends(t)
    BY <1>0, QueueConstants DEF Spends, Left, Types
  <1>1. ASSUME Enqueue PROVE Spends(t)
    <2>1. UNCHANGED <<attempts, started>>
      BY <1>1 DEF Enqueue, history
    <2>2. status'[t] = status[t] \/ (status[t] = "absent" /\ status'[t] = "pending")
      BY <1>1 DEF Enqueue, Absent
    <2>3. status[t] = "absent" => attempts[t] = 0 /\ started[t] = 0
      BY DEF Types, RowCounts, RowCount
    <2> QED BY <2>1, <2>2, <2>3, QueueConstants DEF Spends, Left, Types
  <1>2. ASSUME NEW u \in Tasks, RetryFailed(u) PROVE Spends(t)
    <2>1. CASE t # u
      BY <1>2, <2>1, QueueConstants DEF RetryFailed, Types, Spends, Left
    <2>2. CASE t = u
      BY <1>2, <2>2, QueueConstants DEF RetryFailed, Types, RowCounts, RowCount, Spends, Left
    <2> QED BY <2>1, <2>2
  <1>3. CASE Time
    BY <1>0, <1>3 DEF Time, BackoffElapses, TimeoutElapses, history
  <1>4. ASSUME NEW w \in Workers, Poll(w) PROVE Spends(t)
    <2> USE DEF table, history
    <2>1. CASE Reap(w)
      <3>1. CASE RequeueStale
        <4>1. started' = started /\ attempts[t] \in Nat
          BY <2>1 DEF Reap, Types
        <4>2. \/ status'[t] = status[t] /\ attempts'[t] = attempts[t]
              \/ /\ status[t] = "running" /\ status'[t] \in {"pending", "failed"}
                 /\ attempts'[t] = attempts[t] + 1
          BY <3>1 DEF RequeueStale, Stale
        <4> QED BY <4>1, <4>2, QueueConstants DEF Spends, Left
      <3> QED BY <1>0, <2>1, <3>1 DEF Reap
    <2>2. CASE Prune(w)
      BY <2>2, QueueConstants DEF Prune, Types, Spends, Left
    <2>3. CASE Acquire(w) \/ LockNext(w) \/ ClaimNothing(w)
      BY <1>0, <2>3 DEF Acquire, LockNext, ClaimNothing
    <2>4. CASE Claim(w)
      <3>1. lock[w] \in Tasks /\ status[lock[w]] = "pending"
        BY <2>4 DEF Claim, Types, LockedRows
      <3> QED BY <2>4, <3>1, ClaimSpends DEF Claim
    <2>5. CASE ClaimRaises(w)
      BY <2>5, MaybeClaimSpends DEF ClaimRaises
    <2> QED BY <1>4, <2>1, <2>2, <2>3, <2>4, <2>5 DEF Poll
  <1>5. ASSUME NEW r \in Runs, Body(r) \/ Settle(r) PROVE Spends(t)
    <2>1. started' = started
      BY <1>5 DEF Body, BodyReturns, BodyRaises, Settle, Complete, CompleteRaises, Fail,
                  FailRaises, Failing, Report, history
    <2>2. CASE UNCHANGED <<status, attempts>>
      BY <1>0, <2>1, <2>2
    <2>3. CASE Busy(r) /\ (ApplyComplete(task[r]) \/ ApplyFail(task[r]))
      BY <2>1, <2>3, SettleSpends DEF TaskOfRun
    <2> QED BY <1>5, <2>2, <2>3 DEF Body, BodyReturns, BodyRaises, Settle, Complete,
                CompleteRaises, Fail, FailRaises, Failing, Report, Busy, table
  <1>6. ASSUME NEW w \in Workers, Lifecycle(w) PROVE Spends(t)
    <2>1. CASE CancelLoop(w)
      BY <2>1, MaybeClaimSpends DEF CancelLoop, history
    <2> QED BY <1>0, <1>6, <2>1 DEF Lifecycle, Signal, LeaveLoop, Drain, Stop, Restart,
                DrainTimesOut, Crash, Vanish, table, history
  <1>7. CASE UNCHANGED vars
    BY <1>0, <1>7 DEF vars, table, history
  <1> QED BY <1>1, <1>2, <1>3, <1>4, <1>5, <1>6, <1>7 DEF Next, Client

(* Every grant of a task pays for at most max_attempts runs, and each run  *)
(* is paid for when it starts: the queue refines RetryBudget.              *)
THEOREM QueueKeepsBudget == Spec => KeepsBudget
  <1>1. Init => Budget!BudgetInit
    BY QueueConstants DEF Init, Budget!BudgetInit
  <1>2. IInv /\ IInv' /\ [Next]_vars => Budget!BudgetNext
    <2> SUFFICES ASSUME IInv, IInv', [Next]_vars PROVE Budget!BudgetNext
      OBVIOUS
    <2>1. \A t \in Tasks : Spends(t)
      BY NextSpends DEF IInv
    <2>2. \A t \in Tasks : Left(t)' \in 0 .. MaxAttempts /\ started'[t] \in 0 .. MaxAttempts
      BY QueueConstants DEF IInv, Types, RowCounts, RowCount, Left
    <2>3. started' \in [Tasks -> 0 .. MaxAttempts]
      BY <2>2 DEF IInv, Types
    <2> QED BY <2>1, <2>2, <2>3
            DEF Spends, Left, Budget!BudgetNext, Budget!Keep, Budget!Grant, Budget!Start, Budget!Forfeit
  <1> QED BY Inductive, <1>1, <1>2, PTL DEF Spec, KeepsBudget, Budget!BudgetSpec

(* A job that always fails is run MaxAttempts times for one grant: the      *)
(* runs it has had and the runs it is still owed never exceed it.          *)
THEOREM QueueWithinBudget == Spec => []Budget!WithinBudget
  <1>1. IInv => Budget!WithinBudget
    BY QueueConstants DEF IInv, Types, RowCounts, RowCount, Left, Budget!WithinBudget
  <1> QED BY <1>1, Inductive, PTL
-----------------------------------------------------------------------------
LEMMA DoneStep ==
    ASSUME IInv, [Next]_vars, NEW t \in Tasks, status[t] = "completed",
           \A r \in Runs : ~Reopens(r, t)
    PROVE  status'[t] \in {"completed", "deleted"}
  <1>1. \A w \in Workers : lock[w] # NoTask => lock[w] # t
    BY DEF IInv, LockedRows
  <1>2. \A r \in Runs : Failing(r) => task[r] # t
    BY DEF IInv, OwnedRows, Ownable, Owns, Failing, Reopens
  <1> USE DEF IInv, Types, table
  <1>3. CASE Client \/ Time
    BY <1>3 DEF Client, Enqueue, Absent, RetryFailed, Time, BackoffElapses, TimeoutElapses
  <1>4. ASSUME NEW w \in Workers, Poll(w) PROVE status'[t] \in {"completed", "deleted"}
    <2>1. CASE Reap(w) \/ Prune(w)
      BY <2>1 DEF Reap, RequeueStale, Stale, Prune
    <2>2. CASE Claim(w) \/ ClaimRaises(w)
      BY <1>1, <2>2 DEF Claim, ClaimRaises, MaybeClaimed, ApplyClaim
    <2> QED BY <1>4, <2>1, <2>2 DEF Poll, Acquire, LockNext, ClaimNothing
  <1>5. ASSUME NEW r \in Runs, Body(r) \/ Settle(r) PROVE status'[t] \in {"completed", "deleted"}
    <2>1. CASE UNCHANGED status
      BY <2>1
    <2>2. CASE ApplyComplete(task[r])
      BY <2>2 DEF ApplyComplete
    <2>3. CASE Failing(r) /\ ApplyFail(task[r])
      BY <1>2, <2>3 DEF ApplyFail
    <2> QED BY <1>5, <2>1, <2>2, <2>3 DEF Body, BodyReturns, BodyRaises, Settle, Complete,
                CompleteRaises, Fail, FailRaises, Report
  <1>6. ASSUME NEW w \in Workers, Lifecycle(w) PROVE status'[t] \in {"completed", "deleted"}
    <2>1. CASE CancelLoop(w)
      BY <1>1, <2>1 DEF CancelLoop, MaybeClaimed, ApplyClaim
    <2> QED BY <1>6, <2>1 DEF Lifecycle, Signal, LeaveLoop, Drain, Stop, Restart,
                DrainTimesOut, Crash, Vanish
  <1>7. CASE UNCHANGED vars
    BY <1>7 DEF vars
  <1> QED BY <1>3, <1>4, <1>5, <1>6, <1>7 DEF Next

(* A completed row goes back to work only through the fail() of a run that *)
(* lost the reply to its complete(), or whose row was requeued as stale:   *)
(* whatever else crashes, is cancelled, loses a reply or is retried.       *)
THEOREM DoneIsFinal == Spec => DoneStaysDone
  <1>1. IInv /\ [Next]_vars =>
          [\A t \in Tasks : status[t] = "completed" /\ status'[t] \notin {"completed", "deleted"}
                              => \E r \in Runs : Reopens(r, t)]_vars
    BY DoneStep DEF IInv, Types
  <1> QED BY Inductive, <1>1, PTL DEF Spec, DoneStaysDone
-----------------------------------------------------------------------------
(* For the modules that put jobs of their own on the queue: the parts of   *)
(* the invariant that their steps on its table, which are not all steps of *)
(* TaskQueue, keep as well; and what a step of the worker may do to a job. *)
QueueParts == Types /\ TaskOfRun /\ LockedRows /\ RowCounts /\ OwnedRows /\ LostReplies

LEMMA NextQueueParts == QueueParts /\ [Next]_vars => QueueParts'
  BY NextTypes, NextTaskOfRun, NextLockedRows, NextRowCounts, NextOwnedRows, NextLostReplies
  DEF QueueParts

(* A statement that raises spends a fault and may leave every row and run alone. *)
LEMMA FaultKeepsQueue ==
    ASSUME QueueParts, UNCHANGED <<table, loop, runs, history, retries>>, faults' = faults + 1
    PROVE  QueueParts'
  <1> USE DEF QueueParts, table, loop, runs, history
  <1>1. Types'
    BY DEF Types
  <1>2. TaskOfRun' /\ LockedRows'
    BY DEF TaskOfRun, Busy, LockedRows, Types
  <1>3. RowCounts'
    BY DEF RowCounts, RowCount
  <1>4. OwnedRows'
    BY RunsKept
  <1>5. LostReplies'
    BY DEF LostReplies, Types
  <1> QED BY <1>1, <1>2, <1>3, <1>4, <1>5

(* Rows that a job's own statement inserts are new. *)
LEMMA InsertKeepsQueue ==
    ASSUME QueueParts,
           \A t \in Tasks : status'[t] = status[t] \/ (status[t] = "absent" /\ status'[t] = "pending"),
           status' \in [Tasks -> Statuses], created' \in [Tasks -> 0 .. MaxTasks],
           UNCHANGED <<attempts, due, overdue, loop, runs, history, bounds>>
    PROVE  QueueParts'
  <1> USE DEF QueueParts, loop, runs, history, bounds
  <1>1. Types'
    BY DEF Types
  <1>2. TaskOfRun'
    BY DEF TaskOfRun, Busy
  <1>3. LockedRows'
    BY DEF LockedRows, Types
  <1>4. RowCounts'
    BY QueueConstants DEF RowCounts, RowCount, Types
  <1>5. OwnedRows'
    BY RunsKept
  <1>6. LostReplies'
    BY DEF LostReplies
  <1> QED BY <1>1, <1>2, <1>3, <1>4, <1>5, <1>6

(* A body that raises because of a fault. *)
LEMMA FaultyBodyKeepsQueue ==
    ASSUME QueueParts, NEW r \in Runs, phase[r] = "executing", Step(r, "failing"), Fault,
           UNCHANGED <<table, loop, task, history, retries>>
    PROVE  QueueParts'
  <1> USE DEF QueueParts, Step, Fault, table, loop, history
  <1>1. Types'
    BY DEF Types, Phases
  <1>2. TaskOfRun' /\ LockedRows'
    BY DEF TaskOfRun, Busy, LockedRows, Types
  <1>3. RowCounts'
    BY DEF RowCounts, RowCount
  <1>4. OwnedRows'
    <2>1. /\ Owns(r) /\ "unheard" \notin {phase[r], phase'[r]}
          /\ \A q \in Runs \ {r} : phase'[q] = phase[q] /\ task'[q] = task[q]
      BY DEF Owns, Types
    <2>2. UNCHANGED <<task, status, reaped>>
      OBVIOUS
    <2> QED BY <2>1, <2>2, RunSettles
  <1>5. LostReplies'
    BY DEF LostReplies, Types
  <1> QED BY <1>1, <1>2, <1>3, <1>4, <1>5

(* A turn of the loop, or a start or an end of the process: rows that were *)
(* not reaped are claimed or pruned, runs stay, vanish or are new.         *)
LEMMA TurnEffect ==
    ASSUME QueueParts, NEW w \in Workers, Poll(w) \/ Lifecycle(w)
    PROVE  /\ \A t \in Tasks : \/ status'[t] = status[t]
                               \/ /\ status[t] = "running" /\ status'[t] \in {"pending", "failed"}
                                  /\ t \in reaped'
                               \/ status[t] = "pending" /\ status'[t] = "running"
                               \/ status[t] \in {"completed", "failed"} /\ status'[t] = "deleted"
           /\ \A r \in Runs : \/ phase'[r] = phase[r] /\ task'[r] = task[r]
                              \/ phase'[r] = "idle"
                              \/ /\ phase[r] = "idle" /\ phase'[r] = "executing"
                                 /\ task'[r] \in Tasks /\ status[task'[r]] = "pending"
           /\ reaped \subseteq reaped' /\ retries' = retries /\ faults' \in {faults, faults + 1}
  <1> USE DEF QueueParts
  <1>1. CASE Reap(w)
    <2>1. UNCHANGED <<phase, task, retries, faults>>
      BY <1>1 DEF Reap, runs, bounds
    <2>2. CASE RequeueStale
      BY <2>1, <2>2 DEF RequeueStale, Stale, Types
    <2>3. CASE UNCHANGED <<status, reaped>>
      BY <2>1, <2>3
    <2> QED BY <1>1, <2>2, <2>3 DEF Reap
  <1>2. CASE Prune(w)
    BY <1>2 DEF Prune, Types, runs, history, bounds
  <1>3. CASE Acquire(w) \/ LockNext(w) \/ ClaimNothing(w)
    BY <1>3 DEF Acquire, LockNext, ClaimNothing, table, runs, history, bounds
  <1>4. CASE Claim(w)
    <2>1. lock[w] \in Tasks /\ status[lock[w]] = "pending"
      BY <1>4 DEF Claim, Types, LockedRows
    <2>2. \A t \in Tasks : \/ status'[t] = status[t]
                           \/ status[t] = "pending" /\ status'[t] = "running"
      BY <1>4, <2>1 DEF Claim, ApplyClaim, Types
    <2>3. \A r \in Runs : \/ phase'[r] = phase[r] /\ task'[r] = task[r]
                          \/ phase[r] = "idle" /\ phase'[r] = "executing" /\ task'[r] = lock[w]
      BY <1>4 DEF Claim, Busy, Types
    <2> QED BY <1>4, <2>1, <2>2, <2>3 DEF Claim, bounds
  <1>5. CASE ClaimRaises(w) \/ CancelLoop(w)
    <2>1. \A t \in Tasks : \/ status'[t] = status[t]
                           \/ status[t] = "pending" /\ status'[t] = "running"
      BY <1>5 DEF ClaimRaises, CancelLoop, MaybeClaimed, ApplyClaim, LockedRows, Types
    <2> QED BY <1>5, <2>1 DEF ClaimRaises, CancelLoop, Fault, runs, history, bounds
  <1>6. CASE Signal(w) \/ LeaveLoop(w) \/ Drain(w) \/ Stop(w) \/ Restart(w)
    BY <1>6 DEF Signal, LeaveLoop, Drain, Stop, Restart, Fault, table, runs, history, bounds
  <1>7. CASE DrainTimesOut(w) \/ Crash(w)
    BY <1>7 DEF DrainTimesOut, Crash, Vanish, Fault, table, history
  <1> QED BY <1>1, <1>2, <1>3, <1>4, <1>5, <1>6, <1>7 DEF Poll, Lifecycle

(* A run settles its row: only its row and its phase move.                 *)
LEMMA SettleEffect ==
    ASSUME QueueParts, NEW r \in Runs, Complete(r) \/ CompleteRaises(r) \/ Fail(r) \/ FailRaises(r)
    PROVE  /\ phase[r] = "completing" \/ Failing(r)
           /\ phase[r] = "unheard" => faults > 0
           /\ task[r] \in Tasks
           /\ \A q \in Runs \ {r} : phase'[q] = phase[q] /\ task'[q] = task[q]
           /\ phase'[r] \in {"idle", "failing", "unheard", "exhausted"}
           /\ phase'[r] # "idle" => task'[r] = task[r]
           /\ \A t \in Tasks \ {task[r]} : status'[t] = status[t]
           /\ \/ status'[task[r]] = status[task[r]]
              \/ /\ phase[r] = "completing" /\ status'[task[r]] = "completed"
                 /\ status[task[r]] \notin {"absent", "deleted"}
              \/ /\ Failing(r) /\ status'[task[r]] \in {"pending", "failed"}
                 /\ status[task[r]] \notin {"absent", "deleted"}
           /\ phase'[r] = "exhausted" => /\ Failing(r) /\ status'[task[r]] = "failed"
                                         /\ status[task[r]] # "deleted"
           /\ phase'[r] \in {"failing", "unheard"} => faults' = faults + 1
           /\ UNCHANGED <<reaped, retries>> /\ faults' \in {faults, faults + 1}
  <1> USE DEF QueueParts, Step, Fault, Failing
  <1>1. /\ Busy(r) => task[r] \in Tasks /\ status[task[r]] # "absent"
        /\ phase[r] = "unheard" => faults > 0
    BY DEF TaskOfRun, LostReplies
  <1>2. CASE Complete(r)
    BY <1>1, <1>2 DEF Complete, ApplyComplete, End, Busy, Types, history, bounds
  <1>3. CASE CompleteRaises(r)
    BY <1>1, <1>3 DEF CompleteRaises, ApplyComplete, Busy, Types, table, history
  <1>4. CASE Fail(r)
    <2>1. CASE Exhausted(task[r])
      BY <1>1, <1>4, <2>1, QueueConstants DEF Fail, Failing, ApplyFail, Exhausted, Busy, Types, history, bounds
    <2>2. CASE ~Exhausted(task[r])
      BY <1>1, <1>4, <2>2 DEF Fail, Failing, ApplyFail, End, Busy, Types, history, bounds
    <2> QED BY <2>1, <2>2
  <1>5. CASE FailRaises(r)
    BY <1>1, <1>5 DEF FailRaises, Failing, ApplyFail, End, Busy, Types, table, history
  <1> QED BY <1>2, <1>3, <1>4, <1>5

(* The report of an exhausted task ends the run and touches no row.        *)
LEMMA ReportEffect ==
    ASSUME QueueParts, NEW r \in Runs, Report(r)
    PROVE  /\ phase[r] = "exhausted" /\ task[r] \in Tasks /\ phase'[r] = "idle"
           /\ \A q \in Runs \ {r} : phase'[q] = phase[q] /\ task'[q] = task[q]
           /\ UNCHANGED <<status, reaped, retries, faults>>
  BY DEF Report, End, Step, QueueParts, Types, TaskOfRun, Busy, table, history, bounds
=============================================================================

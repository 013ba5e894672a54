------------------------ MODULE ResearchJobs_proofs ------------------------
(***************************************************************************)
(* Theorems about ResearchJobs, for every number of jobs, attempts,        *)
(* workers, pollers, faults and retries.                                   *)
(***************************************************************************)
EXTENDS ResearchJobs, TaskQueue_proofs

\* A job that was never sent, or is not sent yet, has no row.
NotSent ==
    \A t \in Tasks : /\ job[t] = "none" \/ t \in unsent => status[t] = "absent"
                     /\ t \in unsent => job[t] # "none"

\* A poll pays back only the jobs it has failed.
PaidByPoll == \A p \in Pollers : owed[p] # NoTask => owed[p] \in expired

\* Each grant of attempts (the request, an administrator's retry) is used up by the
\* failure of the row, which hands one refund to the run that saw it.
Refunding(t) == {r \in Runs : phase[r] = "exhausted" /\ task[r] = t}
Granted(t) == IF status[t] \in {"failed", "deleted"} THEN 0 ELSE 1
Spared(t) == t \notin reaped \cup expired

RefundsBounded ==
    \A t \in Tasks :
        /\ IsFiniteSet(Refunding(t))
        /\ Spared(t) => refunds[t] + Cardinality(Refunding(t)) + Granted(t) <= 1 + retries

\* What a run that has passed its pipeline, and a row that is settled, say of the job.
RunStory(r) ==
    /\ stage[r] = "notify" \/ phase[r] = "completing" => job[task[r]] = "completed"
    /\ stage[r] = "notifyfailed" \/ phase[r] = "failing" => job[task[r]] = "failed"

RowStory(t) ==
    /\ status[t] = "completed" => job[t] = "completed"
    /\ status[t] = "failed" => job[t] = "failed"
    /\ retries = 0 /\ (refunds[t] > 0 \/ \E r \in Runs : phase[r] = "exhausted" /\ task[r] = t)
          => status[t] \in {"failed", "deleted"} /\ job[t] = "failed"

OneStory ==
    faults = 0 => /\ \A t \in Tasks : Spared(t) => RowStory(t)
                  /\ \A r \in Runs : Busy(r) /\ Spared(task[r]) => RunStory(r)

JobInv == QueueParts /\ JobTypeOK /\ NotSent /\ PaidByPoll /\ RefundsBounded /\ OneStory
-----------------------------------------------------------------------------
(* The queue under research jobs. *)

(* The row that a request inserts is new. *)
LEMMA SendKeepsQueue ==
    ASSUME QueueParts, NEW t \in Tasks, status[t] = "absent", SendTask(t)
    PROVE  QueueParts'
  <1>1. Cardinality(Rows) + 1 \in 0 .. MaxTasks
    <2>1. IsFiniteSet(Tasks) /\ Cardinality(Tasks) = MaxTasks
      BY QueueConstants, FS_Interval DEF Tasks
    <2>2. Rows \subseteq Tasks \ {t}
      BY DEF Rows
    <2>3. IsFiniteSet(Tasks \ {t}) /\ Cardinality(Tasks \ {t}) = MaxTasks - 1
      BY <2>1, FS_RemoveElement
    <2>4. Cardinality(Rows) <= MaxTasks - 1 /\ Cardinality(Rows) \in Nat
      BY <2>2, <2>3, FS_Subset, FS_CardinalityType
    <2> QED BY <2>4, QueueConstants
  <1>2. created' \in [Tasks -> 0 .. MaxTasks]
    BY <1>1 DEF SendTask, QueueParts, Types
  <1>3. /\ status' \in [Tasks -> Statuses]
        /\ \A u \in Tasks : status'[u] = status[u] \/ (status[u] = "absent" /\ status'[u] = "pending")
    BY DEF SendTask, QueueParts, Types, Statuses
  <1> QED BY <1>2, <1>3, InsertKeepsQueue DEF SendTask

LEMMA RefundRaisesKeepsQueue ==
    ASSUME QueueParts, NEW r \in Runs, RefundRaises(r)
    PROVE  QueueParts'
  <1> USE DEF QueueParts, RefundRaises, Fault, table, history
  <1>1. Types'
    BY EndTypes DEF Types
  <1>2. TaskOfRun' /\ LockedRows'
    BY DEF TaskOfRun, Busy, End, Step, LockedRows, Types
  <1>3. RowCounts'
    BY DEF RowCounts, RowCount
  <1>4. OwnedRows'
    <2>1. \A q \in Runs : Owns(q)' => Owns(q) /\ task'[q] = task[q] /\ phase'[q] = phase[q]
      BY DEF End, Step, Owns, Types
    <2>2. \A q \in Runs : Owns(q)' /\ task[q] \notin reaped' => status'[task[q]] \in Ownable(q)'
      BY <2>1 DEF OwnedRows, Ownable, Types
    <2> QED BY <2>1, <2>2, OwnersKept
  <1>5. LostReplies'
    BY DEF LostReplies, End, Step, Types
  <1> QED BY <1>1, <1>2, <1>3, <1>4, <1>5

(* A step of a research job is a step of the queue, or one of those above. *)
LEMMA JobStepKeepsQueue ==
    ASSUME QueueParts, NotSent, JobTypeOK, [JobNext]_allVars
    PROVE  QueueParts'
  <1> USE NextQueueParts
  <1>1. ASSUME NEW t \in Tasks, Request(t) PROVE QueueParts'
    <2>1. CASE CreateJob(t) \/ TenMinutesPass(t)
      BY <2>1 DEF CreateJob, TenMinutesPass
    <2>2. CASE SendTask(t)
      BY <2>2, SendKeepsQueue DEF NotSent, SendTask
    <2>3. CASE RequestLost(t)
      BY <2>3, FaultKeepsQueue DEF RequestLost, Fault
    <2> QED BY <1>1, <2>1, <2>2, <2>3 DEF Request
  <1>2. ASSUME NEW p \in Pollers, StatusPoll(p) \/ \E t \in Tasks : Look(p, t) PROVE QueueParts'
    <2>1. CASE PollLost(p)
      BY <2>1, FaultKeepsQueue DEF PollLost, Fault
    <2>2. CASE Expire(p) \/ PayBack(p) \/ \E t \in Tasks : Look(p, t)
      BY <2>2 DEF Expire, PayBack, Look
    <2> QED BY <1>2, <2>1, <2>2 DEF StatusPoll
  <1>3. ASSUME NEW r \in Runs, Research(r) PROVE QueueParts'
    <2>1. CASE PipelineEnds(r) \/ RecordCompleted(r) \/ MarkFailed(r)
      BY <2>1 DEF PipelineEnds, RecordCompleted, MarkFailed, JobOnly, vars, bounds
    <2>2. CASE RecordRaises(r) \/ NotifyRaises(r)
      BY <2>2, FaultKeepsQueue DEF RecordRaises, NotifyRaises, Fault, JobOnly
    <2>3. CASE Notified(r) \/ Reraise(r)
      BY <2>3 DEF Notified, Reraise, Next, Body
    <2>4. CASE MarkRaises(r)
      BY <2>4, FaultyBodyKeepsQueue DEF MarkRaises, At
    <2> QED BY <1>3, <2>1, <2>2, <2>3, <2>4 DEF Research
  <1>4. ASSUME NEW r \in Runs, Dispatched(r) PROVE QueueParts'
    <2>1. CASE SettleTask(r) \/ RefundExhausted(r)
      BY <2>1 DEF SettleTask, RefundExhausted, Next, Settle
    <2>2. CASE RefundRaises(r)
      BY <2>2, RefundRaisesKeepsQueue
    <2> QED BY <1>4, <2>1, <2>2 DEF Dispatched
  <1>5. ASSUME NEW w \in Workers, Otherwise(w) \/ Reboot(w) PROVE QueueParts'
    <2>1. Poll(w) \/ Lifecycle(w)
      BY <1>5 DEF Otherwise, Reboot, Lifecycle
    <2> QED BY <2>1 DEF Next
  <1>6. CASE AdminOrTime
    BY <1>6 DEF AdminOrTime, Next, Client
  <1>7. CASE UNCHANGED allVars
    BY <1>7 DEF allVars
  <1> QED BY <1>1, <1>2, <1>3, <1>4, <1>5, <1>6, <1>7 DEF JobNext

(* A run settles its row, and no variable of the jobs moves.               *)
LEMMA SettledTask ==
    ASSUME QueueParts, NEW r \in Runs, SettleTask(r)
    PROVE  /\ phase[r] = "completing" \/ Failing(r)
           /\ phase[r] = "unheard" => faults > 0
           /\ task[r] \in Tasks
           /\ \A q \in Runs \ {r} : phase'[q] = phase[q] /\ task'[q] = task[q]
           /\ phase'[r] \in {"idle", "failing", "unheard", "exhausted"}
           /\ phase'[r] # "idle" => task'[r] = task[r]
           /\ \A t \in Tasks \ {task[r]} : status'[t] = status[t]
           /\ \/ status'[task[r]] = status[task[r]]
              \/ /\ phase[r] = "completing" /\ status'[task[r]] = "completed"
                 /\ status[task[r]] \notin {"absent", "deleted"}
              \/ /\ Failing(r) /\ status'[task[r]] \in {"pending", "failed"}
                 /\ status[task[r]] \notin {"absent", "deleted"}
           /\ phase'[r] = "exhausted" => /\ Failing(r) /\ status'[task[r]] = "failed"
                                         /\ status[task[r]] # "deleted"
           /\ phase'[r] \in {"failing", "unheard"} => faults' = faults + 1
           /\ UNCHANGED <<reaped, retries, jobVars>> /\ faults' \in {faults, faults + 1}
  BY SettleEffect DEF SettleTask
-----------------------------------------------------------------------------
(* Types. *)

LEMMA JobInitInv == JobInit => JobInv
  <1> SUFFICES ASSUME JobInit PROVE JobInv
    OBVIOUS
  <1> USE DEF JobInit, Init
  <1>1. QueueParts
    <2>1. Types
      BY InitTypes
    <2>2. TaskOfRun /\ LockedRows /\ OwnedRows /\ LostReplies
      BY DEF TaskOfRun, Busy, LockedRows, OwnedRows, Owns, LostReplies
    <2>3. RowCounts
      BY QueueConstants DEF RowCounts, RowCount
    <2> QED BY <2>1, <2>2, <2>3 DEF QueueParts
  <1>2. JobTypeOK
    BY DEF JobTypeOK, JobStatuses, Stages
  <1>3. NotSent /\ PaidByPoll
    BY DEF NotSent, PaidByPoll
  <1>4. RefundsBounded
    <2>1. \A t \in Tasks : Refunding(t) = {}
      BY DEF Refunding
    <2>2. IsFiniteSet({}) /\ Cardinality({}) = 0
      BY FS_EmptySet
    <2>3. \A t \in Tasks : refunds[t] = 0 /\ Granted(t) = 1 /\ retries = 0
      BY DEF Granted
    <2>4. ASSUME NEW t \in Tasks
          PROVE  IsFiniteSet(Refunding(t)) /\ refunds[t] + Cardinality(Refunding(t)) + Granted(t) <= 1 + retries
      <3>1. IsFiniteSet(Refunding(t)) /\ Cardinality(Refunding(t)) = 0
        BY <2>1, <2>2
      <3> QED BY <2>3, <3>1
    <2> QED BY <2>4 DEF RefundsBounded
  <1>5. OneStory
    BY DEF OneStory, RowStory, Busy
  <1> QED BY <1>1, <1>2, <1>3, <1>4, <1>5 DEF JobInv

LEMMA NextJobTypes ==
    ASSUME QueueParts, JobTypeOK, [JobNext]_allVars
    PROVE  JobTypeOK'
  <1> USE DEF JobTypeOK, JobStatuses, QueueParts
  <1>0. \A r \in Runs : Busy(r) => task[r] \in Tasks
    BY DEF TaskOfRun
  <1>1. ASSUME NEW t \in Tasks, Request(t) PROVE JobTypeOK'
    BY <1>1 DEF Request, CreateJob, SendTask, RequestLost, TenMinutesPass,
                vars, runs, requests, ledger
  <1>2. ASSUME NEW p \in Pollers, StatusPoll(p) \/ \E t \in Tasks : Look(p, t) PROVE JobTypeOK'
    <2>1. CASE Expire(p)
      BY <2>1 DEF Expire, vars, runs
    <2>2. CASE PayBack(p)
      BY <2>2 DEF PayBack, vars, runs
    <2>3. CASE PollLost(p) \/ \E t \in Tasks : Look(p, t)
      BY <2>3 DEF PollLost, Look, vars, runs, ledger
    <2> QED BY <1>2, <2>1, <2>2, <2>3 DEF StatusPoll
  <1>3. ASSUME NEW r \in Runs, Research(r) PROVE JobTypeOK'
    <2> USE DEF At, To, Stages, requests, ledger
    <2>1. CASE PipelineEnds(r) \/ NotifyRaises(r)
      BY <2>1 DEF PipelineEnds, NotifyRaises, JobOnly, runs
    <2>2. CASE RecordCompleted(r) \/ RecordRaises(r) \/ MarkFailed(r)
      BY <1>0, <2>2 DEF RecordCompleted, RecordRaises, MarkFailed, SetJob, JobOnly, runs, Busy
    <2>3. CASE Notified(r) \/ MarkRaises(r) \/ Reraise(r)
      BY <2>3 DEF Notified, MarkRaises, Reraise, BodyReturns, BodyRaises, Step, Types
    <2> QED BY <1>3, <2>1, <2>2, <2>3 DEF Research
  <1>4. ASSUME NEW r \in Runs, Dispatched(r) PROVE JobTypeOK'
    <2>1. CASE SettleTask(r)
      <3>1. \A q \in Runs : phase'[q] = "executing" <=> phase[q] = "executing"
        BY <2>1, SettledTask DEF Failing
      <3> QED BY <2>1, <3>1 DEF SettleTask, jobVars, requests, ledger
    <2>2. CASE RefundExhausted(r)
      <3>1. \A q \in Runs : phase'[q] = "executing" <=> phase[q] = "executing"
        BY <2>2 DEF RefundExhausted, Report, End, Step, Types
      <3>2. refunds' \in [Tasks -> Nat]
        BY <1>0, <2>2 DEF RefundExhausted, Report, Busy
      <3> QED BY <2>2, <3>1, <3>2 DEF RefundExhausted, requests
    <2>3. CASE RefundRaises(r)
      BY <2>3 DEF RefundRaises, End, Step, Types, jobVars, requests, ledger
    <2> QED BY <1>4, <2>1, <2>2, <2>3 DEF Dispatched
  <1>5. ASSUME NEW w \in Workers, Otherwise(w) PROVE JobTypeOK'
    BY <1>5 DEF Otherwise, StageFollows, Stages, requests, ledger
  <1>6. ASSUME NEW w \in Workers, Reboot(w) PROVE JobTypeOK'
    BY <1>6 DEF Reboot, Restart, MarkOldJobs, runs, requests, ledger
  <1>7. CASE AdminOrTime /\ UNCHANGED jobVars
    BY <1>7 DEF AdminOrTime, RetryFailed, Time, BackoffElapses, TimeoutElapses, runs,
                jobVars, requests, ledger
  <1>8. CASE UNCHANGED allVars
    BY <1>8 DEF allVars, vars, runs, jobVars, requests, ledger
  <1> QED BY <1>1, <1>2, <1>3, <1>4, <1>5, <1>6, <1>7, <1>8 DEF JobNext
-----------------------------------------------------------------------------
(* Requests and polls. *)

LEMMA NotSentKept ==
    ASSUME NotSent, unsent' \subseteq unsent,
           \A t \in Tasks : job'[t] = "none" => job[t] = "none",
           \A t \in Tasks : status[t] = "absent" => status'[t] = "absent"
    PROVE  NotSent'
  BY DEF NotSent

LEMMA NextNotSent ==
    ASSUME QueueParts, JobTypeOK, NotSent, [JobNext]_allVars
    PROVE  NotSent'
  <1> USE DEF QueueParts
  <1>0. \A r \in Runs : Busy(r) => task[r] \in Tasks /\ status[task[r]] # "absent"
    BY DEF TaskOfRun
  <1>1. ASSUME NEW t \in Tasks, Request(t) PROVE NotSent'
    <2>1. CASE CreateJob(t)
      BY <2>1 DEF CreateJob, NotSent, vars, table, JobTypeOK
    <2>2. CASE SendTask(t)
      BY <2>2 DEF SendTask, NotSent, Types
    <2>3. CASE RequestLost(t) \/ TenMinutesPass(t)
      BY <2>3, NotSentKept DEF RequestLost, TenMinutesPass, vars, table, requests
    <2> QED BY <1>1, <2>1, <2>2, <2>3 DEF Request
  <1>2. ASSUME NEW p \in Pollers, StatusPoll(p) \/ \E t \in Tasks : Look(p, t) PROVE NotSent'
    <2>1. CASE Expire(p)
      BY <2>1, NotSentKept DEF Expire, vars, table, JobTypeOK
    <2>2. CASE PayBack(p) \/ PollLost(p) \/ \E t \in Tasks : Look(p, t)
      BY <2>2, NotSentKept DEF PayBack, PollLost, Look, vars, table
    <2> QED BY <1>2, <2>1, <2>2 DEF StatusPoll
  <1>3. ASSUME NEW r \in Runs, Research(r) PROVE NotSent'
    <2>1. UNCHANGED <<status, unsent>>
      BY <1>3 DEF Research, PipelineEnds, RecordCompleted, RecordRaises, NotifyRaises, Notified,
              MarkFailed, MarkRaises, Reraise, BodyReturns, BodyRaises, JobOnly, table, requests
    <2>2. \A t \in Tasks : job'[t] = "none" => job[t] = "none"
      BY <1>0, <1>3 DEF Research, PipelineEnds, RecordCompleted, RecordRaises, NotifyRaises, Notified,
              MarkFailed, MarkRaises, Reraise, JobOnly, SetJob, At, Busy, JobTypeOK
    <2> QED BY <2>1, <2>2, NotSentKept
  <1>4. ASSUME NEW r \in Runs, Dispatched(r) PROVE NotSent'
    <2>1. UNCHANGED <<job, unsent>>
      BY <1>4 DEF Dispatched, SettleTask, RefundExhausted, RefundRaises, jobVars, requests
    <2>2. \A t \in Tasks : status[t] = "absent" => status'[t] = "absent"
      <3>1. CASE SettleTask(r)
        BY <3>1, SettledTask
      <3>2. CASE RefundExhausted(r) \/ RefundRaises(r)
        BY <3>2 DEF RefundExhausted, Report, RefundRaises, table
      <3> QED BY <1>4, <3>1, <3>2 DEF Dispatched
    <2> QED BY <2>1, <2>2, NotSentKept
  <1>5. ASSUME NEW w \in Workers, Otherwise(w) \/ Reboot(w) PROVE NotSent'
    <2>1. Poll(w) \/ Lifecycle(w)
      BY <1>5 DEF Otherwise, Reboot, Lifecycle
    <2>2. \A t \in Tasks : status[t] = "absent" => status'[t] = "absent"
      BY <2>1, TurnEffect
    <2>3. UNCHANGED unsent /\ \A t \in Tasks : job'[t] = "none" => job[t] = "none"
      BY <1>5 DEF Otherwise, Reboot, MarkOldJobs, requests
    <2> QED BY <2>2, <2>3, NotSentKept
  <1>6. CASE AdminOrTime /\ UNCHANGED jobVars
    <2>1. \A t \in Tasks : status[t] = "absent" => status'[t] = "absent"
      BY <1>6 DEF AdminOrTime, RetryFailed, Time, BackoffElapses, TimeoutElapses, Types
    <2> QED BY <1>6, <2>1, NotSentKept DEF jobVars, requests
  <1>7. CASE UNCHANGED allVars
    BY <1>7, NotSentKept DEF allVars, vars, table, jobVars, requests
  <1> QED BY <1>1, <1>2, <1>3, <1>4, <1>5, <1>6, <1>7 DEF JobNext

LEMMA NextPaidByPoll ==
    ASSUME JobTypeOK, PaidByPoll, [JobNext]_allVars
    PROVE  PaidByPoll'
  <1>1. ASSUME UNCHANGED <<owed, expired>> PROVE PaidByPoll'
    BY <1>1 DEF PaidByPoll
  <1>2. ASSUME NEW p \in Pollers, StatusPoll(p) PROVE PaidByPoll'
    BY <1>2 DEF StatusPoll, Expire, PayBack, PollLost, PaidByPoll, ledger, JobTypeOK
  <1>3. ASSUME NEW r \in Runs, Research(r) \/ Dispatched(r) PROVE UNCHANGED <<owed, expired>>
    BY <1>3 DEF Research, PipelineEnds, RecordCompleted, RecordRaises, NotifyRaises, Notified,
              MarkFailed, MarkRaises, Reraise, Dispatched, SettleTask, RefundExhausted,
              RefundRaises, JobOnly, jobVars, requests, ledger
  <1> QED BY <1>1, <1>2, <1>3 DEF JobNext, Request, CreateJob, SendTask, RequestLost,
              TenMinutesPass, Look, Otherwise, Reboot, allVars, jobVars, requests, ledger
-----------------------------------------------------------------------------
(* Refunds. *)

(* A step that hands out no refund and grants no more attempts than it counts. *)
LEMMA RefundsKept ==
    ASSUME QueueParts, JobTypeOK, JobTypeOK', QueueParts', RefundsBounded,
           \A t \in Tasks : Refunding(t)' \subseteq Refunding(t),
           \A t \in Tasks : Spared(t)' =>
               Spared(t) /\ refunds'[t] + Granted(t)' - retries' <= refunds[t] + Granted(t) - retries
    PROVE  RefundsBounded'
  <1> SUFFICES ASSUME NEW t \in Tasks
               PROVE  /\ IsFiniteSet(Refunding(t)')
                      /\ Spared(t)' => refunds'[t] + Cardinality(Refunding(t)') + Granted(t)' <= 1 + retries'
    BY DEF RefundsBounded
  <1>1. IsFiniteSet(Refunding(t))
    BY DEF RefundsBounded
  <1>2. /\ IsFiniteSet(Refunding(t)') /\ Cardinality(Refunding(t)') <= Cardinality(Refunding(t))
        /\ Cardinality(Refunding(t)) \in Nat /\ Cardinality(Refunding(t)') \in Nat
    BY <1>1, FS_Subset, FS_CardinalityType
  <1>3. ASSUME Spared(t)'
        PROVE  refunds'[t] + Cardinality(Refunding(t)') + Granted(t)' <= 1 + retries'
    <2> DEFINE c == Cardinality(Refunding(t))
               d == Cardinality(Refunding(t)')
               g == Granted(t)
               h == Granted(t)'
    <2>1. refunds[t] + c + g <= 1 + retries /\ refunds'[t] + h - retries' <= refunds[t] + g - retries
      BY <1>3 DEF RefundsBounded
    <2>2. g \in Int /\ h \in Int
      BY DEF Granted
    <2>3. refunds[t] \in Nat /\ refunds'[t] \in Nat /\ retries \in Nat /\ retries' \in Nat
      BY DEF JobTypeOK, QueueParts, Types
    <2>4. d <= c /\ c \in Nat /\ d \in Nat
      BY <1>2
    <2> HIDE DEF c, d, g, h
    <2>5. refunds'[t] + d + h <= 1 + retries'
      BY <2>1, <2>2, <2>3, <2>4
    <2> QED BY <2>5 DEF c, d, h
  <1> QED BY <1>2, <1>3

(* The run that sees its row fail takes the grant of that row with it. *)
LEMMA RefundsTaken ==
    ASSUME QueueParts, JobTypeOK, JobTypeOK', QueueParts', RefundsBounded,
           NEW r \in Runs, SettleTask(r), phase'[r] = "exhausted"
    PROVE  RefundsBounded'
  <1> SUFFICES ASSUME NEW t \in Tasks
               PROVE  /\ IsFiniteSet(Refunding(t)')
                      /\ Spared(t)' => refunds'[t] + Cardinality(Refunding(t)') + Granted(t)' <= 1 + retries'
    BY DEF RefundsBounded
  <1>1. /\ Failing(r) /\ task'[r] = task[r] /\ task[r] \in Tasks
        /\ \A q \in Runs \ {r} : phase'[q] = phase[q] /\ task'[q] = task[q]
        /\ \A u \in Tasks \ {task[r]} : status'[u] = status[u]
        /\ status'[task[r]] = "failed" /\ status[task[r]] # "deleted"
        /\ UNCHANGED <<reaped, expired, refunds, retries>>
    BY SettledTask DEF jobVars, ledger
  <1>2. IsFiniteSet(Refunding(t)) /\ Cardinality(Refunding(t)) \in Nat
    BY FS_CardinalityType DEF RefundsBounded
  <1>3. CASE t # task[r]
    <2>1. Refunding(t)' = Refunding(t)
      BY <1>1, <1>3 DEF Refunding
    <2>2. Granted(t)' = Granted(t) /\ (Spared(t)' <=> Spared(t))
      BY <1>1, <1>3 DEF Granted, Spared
    <2> QED BY <1>1, <2>1, <2>2 DEF RefundsBounded
  <1>4. CASE t = task[r]
    <2>1. Refunding(t)' = Refunding(t) \cup {r} /\ r \notin Refunding(t)
      BY <1>1, <1>4 DEF Refunding, Failing
    <2>2. /\ IsFiniteSet(Refunding(t)')
          /\ Cardinality(Refunding(t)') = Cardinality(Refunding(t)) + 1
      BY <1>2, <2>1, FS_AddElement
    <2>3. ASSUME Spared(t)'
          PROVE  refunds'[t] + Cardinality(Refunding(t)') + Granted(t)' <= 1 + retries'
      <3>1. Spared(t) /\ Owns(r)
        BY <1>1, <2>3 DEF Spared, Owns, Failing
      <3>2. status[t] # "failed"
        BY <1>4, <3>1 DEF QueueParts, OwnedRows, Ownable, Spared
      <3>3. Granted(t) = 1 /\ Granted(t)' = 0
        BY <1>1, <1>4, <3>2 DEF Granted
      <3>4. refunds[t] + Cardinality(Refunding(t)) + 1 <= 1 + retries
        BY <3>1, <3>3 DEF RefundsBounded
      <3>5. refunds[t] \in Nat /\ retries \in Nat
        BY DEF JobTypeOK, QueueParts, Types
      <3> QED BY <1>1, <1>2, <2>2, <3>3, <3>4, <3>5
    <2> QED BY <2>2, <2>3
  <1> QED BY <1>3, <1>4

(* ... and gives it to the customer when it reports.                       *)
LEMMA RefundsPaid ==
    ASSUME QueueParts, JobTypeOK, JobTypeOK', QueueParts', RefundsBounded,
           NEW r \in Runs, RefundExhausted(r)
    PROVE  RefundsBounded'
  <1> SUFFICES ASSUME NEW t \in Tasks
               PROVE  /\ IsFiniteSet(Refunding(t)')
                      /\ Spared(t)' => refunds'[t] + Cardinality(Refunding(t)') + Granted(t)' <= 1 + retries'
    BY DEF RefundsBounded
  <1>1. /\ phase[r] = "exhausted" /\ task[r] \in Tasks /\ phase'[r] = "idle"
        /\ \A q \in Runs \ {r} : phase'[q] = phase[q] /\ task'[q] = task[q]
        /\ refunds' = [refunds EXCEPT ![task[r]] = @ + 1]
        /\ UNCHANGED <<status, reaped, expired, retries>>
    BY ReportEffect DEF RefundExhausted
  <1>2. IsFiniteSet(Refunding(t)) /\ Cardinality(Refunding(t)) \in Nat
    BY FS_CardinalityType DEF RefundsBounded
  <1>3. Granted(t)' = Granted(t) /\ (Spared(t)' <=> Spared(t))
    BY <1>1 DEF Granted, Spared
  <1>4. CASE t # task[r]
    <2>1. Refunding(t)' = Refunding(t)
      BY <1>1, <1>4 DEF Refunding
    <2>2. refunds'[t] = refunds[t]
      BY <1>1, <1>4 DEF JobTypeOK
    <2> QED BY <1>1, <1>3, <2>1, <2>2 DEF RefundsBounded
  <1>5. CASE t = task[r]
    <2>1. Refunding(t)' = Refunding(t) \ {r} /\ r \in Refunding(t)
      BY <1>1, <1>5 DEF Refunding
    <2>2. /\ IsFiniteSet(Refunding(t)')
          /\ Cardinality(Refunding(t)') = Cardinality(Refunding(t)) - 1
      BY <1>2, <2>1, FS_RemoveElement
    <2>3. ASSUME Spared(t)'
          PROVE  refunds'[t] + Cardinality(Refunding(t)') + Granted(t)' <= 1 + retries'
      <3>1. refunds[t] + Cardinality(Refunding(t)) + Granted(t) <= 1 + retries
        BY <1>3, <2>3 DEF RefundsBounded
      <3>2. refunds'[t] = refunds[t] + 1
        BY <1>1, <1>5 DEF JobTypeOK
      <3>3. refunds[t] \in Nat /\ retries \in Nat
        BY DEF JobTypeOK, QueueParts, Types
      <3>4. Granted(t) \in Nat
        BY DEF Granted
      <3> QED BY <1>1, <1>2, <1>3, <2>2, <3>1, <3>2, <3>3, <3>4
    <2> QED BY <2>2, <2>3
  <1> QED BY <1>4, <1>5

(* A step that leaves the refunds, the bounds and the settled rows alone.  *)
LEMMA RefundsUntouched ==
    ASSUME QueueParts, JobTypeOK, JobTypeOK', QueueParts', RefundsBounded,
           \A r \in Runs : phase'[r] = "exhausted" => phase[r] = "exhausted" /\ task'[r] = task[r],
           reaped \subseteq reaped', expired \subseteq expired', retries' = retries,
           \A t \in Tasks \ expired' : refunds'[t] = refunds[t],
           \A t \in Tasks \ reaped' :
               status[t] \in {"failed", "deleted"} => status'[t] \in {"failed", "deleted"}
    PROVE  RefundsBounded'
  <1>1. \A t \in Tasks : Refunding(t)' \subseteq Refunding(t)
    BY DEF Refunding
  <1>2. ASSUME NEW t \in Tasks, Spared(t)'
        PROVE  Spared(t) /\ refunds'[t] + Granted(t)' - retries' <= refunds[t] + Granted(t) - retries
    <2>1. Spared(t) /\ refunds'[t] = refunds[t] /\ Granted(t)' <= Granted(t)
      BY <1>2 DEF Spared, Granted
    <2>2. refunds[t] \in Nat /\ retries \in Nat /\ Granted(t) \in Nat /\ Granted(t)' \in Nat
      BY DEF JobTypeOK, QueueParts, Types, Granted
    <2> QED BY <2>1, <2>2
  <1> QED BY <1>1, <1>2, RefundsKept

LEMMA NextRefundsBounded ==
    ASSUME QueueParts, JobTypeOK, QueueParts', JobTypeOK', NotSent, PaidByPoll, RefundsBounded,
           [JobNext]_allVars
    PROVE  RefundsBounded'
  <1> DEFINE RunsStay == \A r \in Runs : phase'[r] = "exhausted" =>
                                            phase[r] = "exhausted" /\ task'[r] = task[r]
             RowsStay == \A t \in Tasks \ reaped' : status[t] \in {"failed", "deleted"} =>
                                                       status'[t] \in {"failed", "deleted"}
             BooksStay == /\ reaped \subseteq reaped' /\ expired \subseteq expired'
                          /\ retries' = retries /\ \A t \in Tasks \ expired' : refunds'[t] = refunds[t]
  <1>0. ASSUME RunsStay, RowsStay, BooksStay PROVE RefundsBounded'
    BY <1>0, RefundsUntouched
  <1>1. ASSUME NEW t \in Tasks, Request(t) PROVE RefundsBounded'
    <2>1. CASE SendTask(t)
      <3>1. RunsStay /\ BooksStay
        BY <2>1 DEF SendTask, runs, history, bounds, ledger
      <3>2. RowsStay
        BY <2>1 DEF SendTask, NotSent, QueueParts, Types
      <3> QED BY <1>0, <3>1, <3>2
    <2>2. CASE CreateJob(t) \/ RequestLost(t) \/ TenMinutesPass(t)
      BY <1>0, <2>2 DEF CreateJob, RequestLost, TenMinutesPass, vars, table, runs, history, bounds, ledger
    <2> QED BY <1>1, <2>1, <2>2 DEF Request
  <1>2. ASSUME NEW p \in Pollers, StatusPoll(p) \/ \E t \in Tasks : Look(p, t) PROVE RefundsBounded'
    <2>1. RunsStay /\ RowsStay
      BY <1>2 DEF StatusPoll, Expire, PayBack, PollLost, Look, vars, table, runs
    <2>2. CASE PayBack(p)
      <3>1. owed[p] \in expired
        BY <2>2 DEF PayBack, PaidByPoll
      <3> QED BY <1>0, <2>1, <2>2, <3>1 DEF PayBack, vars, history, bounds, JobTypeOK
    <2>3. CASE Expire(p) \/ PollLost(p) \/ \E t \in Tasks : Look(p, t)
      BY <1>0, <2>1, <2>3 DEF Expire, PollLost, Look, vars, history, bounds, ledger
    <2> QED BY <1>2, <2>2, <2>3 DEF StatusPoll
  <1>3. ASSUME NEW r \in Runs, Research(r) PROVE RefundsBounded'
    <2>1. RunsStay
      BY <1>3 DEF Research, PipelineEnds, RecordCompleted, RecordRaises, NotifyRaises, Notified,
              MarkFailed, MarkRaises, Reraise, BodyReturns, BodyRaises, Step, JobOnly, runs,
              QueueParts, Types
    <2>2. RowsStay /\ BooksStay
      BY <1>3 DEF Research, PipelineEnds, RecordCompleted, RecordRaises, NotifyRaises, Notified,
              MarkFailed, MarkRaises, Reraise, BodyReturns, BodyRaises, JobOnly, table, history,
              bounds, ledger
    <2> QED BY <1>0, <2>1, <2>2
  <1>4. ASSUME NEW r \in Runs, Dispatched(r) PROVE RefundsBounded'
    <2>1. CASE SettleTask(r)
      <3>1. CASE phase'[r] = "exhausted"
        BY <2>1, <3>1, RefundsTaken
      <3>2. CASE phase'[r] # "exhausted"
        <4>1. RunsStay /\ BooksStay
          BY <2>1, <3>2, SettledTask DEF jobVars, ledger
        <4>2. RowsStay
          <5>1. Owns(r) /\ task[r] \in Tasks /\ reaped' = reaped
            BY <2>1, SettledTask DEF Owns, Failing
          <5>2. task[r] \notin reaped => status[task[r]] # "failed"
            BY <5>1 DEF QueueParts, OwnedRows, Ownable
          <5> QED BY <2>1, <5>1, <5>2, SettledTask
        <4> QED BY <1>0, <4>1, <4>2
      <3> QED BY <3>1, <3>2
    <2>2. CASE RefundExhausted(r)
      BY <2>2, RefundsPaid
    <2>3. CASE RefundRaises(r)
      <3>1. RunsStay
        BY <2>3 DEF RefundRaises, End, Step, QueueParts, Types
      <3>2. RowsStay /\ BooksStay
        BY <2>3 DEF RefundRaises, table, history, jobVars, ledger
      <3> QED BY <1>0, <3>1, <3>2
    <2> QED BY <1>4, <2>1, <2>2, <2>3 DEF Dispatched
  <1>5. ASSUME NEW w \in Workers, Otherwise(w) \/ Reboot(w) PROVE RefundsBounded'
    <2>1. Poll(w) \/ Lifecycle(w)
      BY <1>5 DEF Otherwise, Reboot, Lifecycle
    <2>2. RunsStay /\ RowsStay /\ reaped \subseteq reaped' /\ retries' = retries
      BY <2>1, TurnEffect
    <2>3. UNCHANGED <<refunds, expired>>
      BY <1>5 DEF Otherwise, Reboot, ledger
    <2> QED BY <1>0, <2>2, <2>3
  <1>6. CASE AdminOrTime /\ UNCHANGED jobVars
    <2>1. ASSUME NEW u \in Tasks, RetryFailed(u) PROVE RefundsBounded'
      <3>1. \A t \in Tasks : Refunding(t)' \subseteq Refunding(t)
        BY <2>1 DEF RetryFailed, runs, Refunding
      <3>2. ASSUME NEW t \in Tasks, Spared(t)'
            PROVE  /\ Spared(t)
                   /\ refunds'[t] + Granted(t)' - retries' <= refunds[t] + Granted(t) - retries
        <4>1. Spared(t) /\ refunds'[t] = refunds[t] /\ retries' = retries + 1
          BY <1>6, <2>1, <3>2 DEF RetryFailed, Spared, jobVars, ledger
        <4>2. refunds[t] \in Nat /\ retries \in Nat
          BY DEF JobTypeOK, QueueParts, Types
        <4>3. Granted(t) \in {0, 1} /\ Granted(t)' \in {0, 1}
          BY DEF Granted
        <4> QED BY <4>1, <4>2, <4>3
      <3> QED BY <3>1, <3>2, RefundsKept
    <2>2. CASE Time
      BY <1>0, <1>6, <2>2 DEF Time, BackoffElapses, TimeoutElapses, runs, history, bounds, jobVars, ledger
    <2> QED BY <1>6, <2>1, <2>2 DEF AdminOrTime
  <1>7. CASE UNCHANGED allVars
    BY <1>0, <1>7 DEF allVars, vars, table, runs, history, bounds, jobVars, ledger
  <1> QED BY <1>1, <1>2, <1>3, <1>4, <1>5, <1>6, <1>7 DEF JobNext
-----------------------------------------------------------------------------
(* The job and its task. *)

(* A step that settles no row and no job, and moves no run past its verdict. *)
LEMMA StoriesKept ==
    ASSUME QueueParts, JobTypeOK, OneStory, faults' = 0 => faults = 0, retries' = retries,
           \A t \in Tasks : Spared(t)' =>
               /\ Spared(t) /\ refunds'[t] = refunds[t]
               /\ job'[t] = job[t] \/ job[t] \in {"none", "processing"}
               /\ \/ status'[t] = status[t]
                  \/ status[t] \in {"absent", "pending"} /\ status'[t] \in {"pending", "running"}
                  \/ status[t] \in {"completed", "failed"} /\ status'[t] = "deleted",
           \A r \in Runs : Busy(r)' =>
               \/ /\ phase'[r] = phase[r] /\ task'[r] = task[r]
                  /\ stage'[r] = stage[r] \/ stage'[r] \in {"record", "markfailed"}
               \/ phase'[r] = "executing" /\ stage'[r] = "pipeline"
    PROVE  OneStory'
  <1> SUFFICES ASSUME faults' = 0
               PROVE  /\ \A t \in Tasks : Spared(t)' => RowStory(t)'
                      /\ \A r \in Runs : Busy(r)' /\ Spared(task[r])' => RunStory(r)'
    BY DEF OneStory
  <1>1. /\ \A t \in Tasks : Spared(t) => RowStory(t)
        /\ \A r \in Runs : Busy(r) /\ Spared(task[r]) => RunStory(r)
    BY DEF OneStory
  <1>2. ASSUME NEW t \in Tasks, Spared(t)' PROVE RowStory(t)'
    <2>1. Spared(t) /\ RowStory(t)
      BY <1>1, <1>2
    <2>2. \A r \in Runs : phase'[r] = "exhausted" => phase[r] = "exhausted" /\ task'[r] = task[r]
      BY DEF Busy
    <2> QED BY <1>2, <2>1, <2>2 DEF RowStory
  <1>3. ASSUME NEW r \in Runs, Busy(r)', Spared(task[r])' PROVE RunStory(r)'
    <2>1. CASE phase'[r] = "executing" /\ stage'[r] = "pipeline"
      BY <2>1 DEF RunStory
    <2>2. CASE /\ phase'[r] = phase[r] /\ task'[r] = task[r]
               /\ stage'[r] = stage[r] \/ stage'[r] \in {"record", "markfailed"}
      <3>1. Busy(r) /\ task[r] \in Tasks
        BY <1>3, <2>2 DEF Busy, QueueParts, TaskOfRun
      <3>2. Spared(task[r]) /\ RunStory(r)
        BY <1>1, <1>3, <2>2, <3>1
      <3> QED BY <1>3, <2>2, <3>1, <3>2 DEF RunStory
    <2> QED BY <1>3, <2>1, <2>2
  <1> QED BY <1>2, <1>3

(* Without faults, a run that owns an unreaped row is alone with it, and   *)
(* the row is running.                                                     *)
LEMMA OwnsAlone ==
    ASSUME QueueParts, NEW r \in Runs, Owns(r), Spared(task[r]), faults = 0
    PROVE  /\ task[r] \in Tasks /\ status[task[r]] = "running"
           /\ \A q \in Runs \ {r} : Owns(q) => task[q] # task[r]
  BY DEF QueueParts, OwnedRows, Ownable, LostReplies, Spared, TaskOfRun, Owns, Busy

(* The body's verdict on the job.                                          *)
LEMMA VerdictStory ==
    ASSUME QueueParts, JobTypeOK, OneStory, NEW r \in Runs, phase[r] = "executing",
           UNCHANGED <<status, runs, faults, retries, reaped, refunds, expired>>,
           \/ /\ job' = [job EXCEPT ![task[r]] = "completed"]
              /\ stage' = [stage EXCEPT ![r] = "notify"]
           \/ /\ job' = [job EXCEPT ![task[r]] = "failed"]
              /\ stage' = [stage EXCEPT ![r] = "notifyfailed"]
    PROVE  OneStory'
  <1> SUFFICES ASSUME faults = 0
               PROVE  /\ \A t \in Tasks : Spared(t) => RowStory(t)'
                      /\ \A q \in Runs : Busy(q) /\ Spared(task[q]) => RunStory(q)'
    BY DEF OneStory, Spared, Busy, runs
  <1>1. /\ \A t \in Tasks : Spared(t) => RowStory(t)
        /\ \A q \in Runs : Busy(q) /\ Spared(task[q]) => RunStory(q)
    BY DEF OneStory
  <1>2. Busy(r) /\ Owns(r) /\ task[r] \in Tasks
    BY DEF Owns, Busy, QueueParts, TaskOfRun
  <1>3. ASSUME NEW t \in Tasks, Spared(t) PROVE RowStory(t)'
    <2>1. CASE t # task[r]
      BY <1>1, <1>3, <2>1 DEF RowStory, runs, JobTypeOK
    <2>2. CASE t = task[r]
      <3>1. status[t] = "running"
        BY <1>2, <1>3, <2>2, OwnsAlone
      <3> QED BY <1>1, <1>3, <3>1 DEF RowStory, runs
    <2> QED BY <2>1, <2>2
  <1>4. ASSUME NEW q \in Runs, Busy(q), Spared(task[q]) PROVE RunStory(q)'
    <2>1. CASE q = r
      BY <1>2, <2>1 DEF RunStory, runs, JobTypeOK
    <2>2. CASE q # r /\ ~Owns(q)
      <3>1. stage'[q] = "none" /\ phase'[q] = phase[q]
        BY <1>2, <2>2 DEF runs, JobTypeOK, Owns
      <3> QED BY <2>2, <3>1 DEF RunStory, Owns
    <2>3. CASE q # r /\ Owns(q)
      <3>1. task[q] # task[r]
        BY <1>2, <1>4, <2>3, OwnsAlone
      <3>2. stage'[q] = stage[q] /\ job'[task[q]] = job[task[q]] /\ RunStory(q)
        BY <1>1, <1>4, <2>3, <3>1 DEF JobTypeOK, QueueParts, TaskOfRun
      <3> QED BY <3>2 DEF RunStory, runs
    <2> QED BY <2>1, <2>2, <2>3
  <1> QED BY <1>3, <1>4

(* The body ends, and the row will say what the job says.                  *)
LEMMA BodyEndsStory ==
    ASSUME QueueParts, JobTypeOK, OneStory, NEW r \in Runs, Notified(r) \/ Reraise(r)
    PROVE  OneStory'
  <1>1. /\ phase[r] = "executing" /\ UNCHANGED <<status, task, job, refunds, expired, reaped, faults, retries>>
        /\ stage' = [stage EXCEPT ![r] = "none"]
        /\ \/ stage[r] = "notify" /\ phase' = [phase EXCEPT ![r] = "completing"]
           \/ stage[r] = "notifyfailed" /\ phase' = [phase EXCEPT ![r] = "failing"]
    BY DEF Notified, Reraise, BodyReturns, BodyRaises, At, To, Step, table, history, bounds, ledger
  <1>2. \A q \in Runs \ {r} : phase'[q] = phase[q] /\ stage'[q] = stage[q]
    BY <1>1 DEF QueueParts, Types, JobTypeOK
  <1>3. /\ stage'[r] = "none" /\ phase'[r] \in {"completing", "failing"}
        /\ phase'[r] = "completing" => stage[r] = "notify"
        /\ phase'[r] = "failing" => stage[r] = "notifyfailed"
    BY <1>1 DEF QueueParts, Types, JobTypeOK
  <1> SUFFICES ASSUME faults = 0
               PROVE  /\ \A t \in Tasks : Spared(t) => RowStory(t)'
                      /\ \A q \in Runs : Busy(q)' /\ Spared(task[q]) => RunStory(q)'
    BY <1>1 DEF OneStory, Spared
  <1>4. ASSUME NEW t \in Tasks, Spared(t) PROVE RowStory(t)'
    <2>1. \A q \in Runs : phase'[q] = "exhausted" => phase[q] = "exhausted"
      BY <1>2, <1>3
    <2> QED BY <1>1, <1>4, <2>1 DEF OneStory, RowStory
  <1>5. ASSUME NEW q \in Runs, Busy(q)', Spared(task[q]) PROVE RunStory(q)'
    <2>1. Busy(q) /\ RunStory(q)
      BY <1>1, <1>2, <1>5 DEF OneStory, Busy
    <2> QED BY <1>1, <1>2, <1>3, <2>1 DEF RunStory
  <1> QED BY <1>4, <1>5

LEMMA SettleStory ==
    ASSUME QueueParts, JobTypeOK, OneStory, NEW r \in Runs, SettleTask(r)
    PROVE  OneStory'
  <1>1. /\ phase[r] \in {"completing", "failing", "unheard"} /\ task[r] \in Tasks
        /\ phase[r] = "unheard" => faults > 0
        /\ \A q \in Runs \ {r} : phase'[q] = phase[q] /\ task'[q] = task[q]
        /\ phase'[r] # "idle" => task'[r] = task[r]
        /\ \A t \in Tasks \ {task[r]} : status'[t] = status[t]
        /\ \/ status'[task[r]] = status[task[r]]
           \/ phase[r] = "completing" /\ status'[task[r]] = "completed"
           \/ Failing(r) /\ status'[task[r]] \in {"pending", "failed"}
        /\ phase'[r] \in {"idle", "failing", "unheard", "exhausted"}
        /\ phase'[r] = "exhausted" => Failing(r) /\ status'[task[r]] = "failed"
        /\ phase'[r] \in {"failing", "unheard"} => faults' = faults + 1
        /\ UNCHANGED <<reaped, retries, job, stage, refunds, expired>>
        /\ faults' \in {faults, faults + 1}
    BY SettledTask DEF jobVars, ledger, Failing
  <1> SUFFICES ASSUME faults' = 0
               PROVE  /\ \A t \in Tasks : Spared(t) => RowStory(t)'
                      /\ \A q \in Runs : Busy(q)' /\ Spared(task'[q]) => RunStory(q)'
    BY <1>1 DEF OneStory, Spared
  <1>2. /\ faults = 0 /\ phase'[r] \notin {"failing", "unheard"}
        /\ phase[r] # "unheard" /\ (Failing(r) <=> phase[r] = "failing")
    BY <1>1 DEF QueueParts, Types, Failing
  <1>3. /\ \A t \in Tasks : Spared(t) => RowStory(t)
        /\ \A q \in Runs : Busy(q) /\ Spared(task[q]) => RunStory(q)
    BY <1>2 DEF OneStory
  <1>4. Owns(r) /\ Busy(r)
    BY <1>1 DEF Owns, Busy
  <1>5. ASSUME NEW t \in Tasks, Spared(t) PROVE RowStory(t)'
    <2>1. CASE t # task[r]
      <3>1. \A q \in Runs : phase'[q] = "exhausted" /\ task'[q] = t =>
                              phase[q] = "exhausted" /\ task[q] = t
        BY <1>1, <2>1
      <3> QED BY <1>1, <1>3, <1>5, <2>1, <3>1 DEF RowStory
    <2>2. CASE t = task[r]
      <3>1. status[t] = "running" /\ RowStory(t) /\ RunStory(r)
        BY <1>2, <1>3, <1>4, <1>5, <2>2, OwnsAlone
      <3>2. /\ phase[r] = "completing" => job[t] = "completed"
            /\ phase[r] = "failing" => job[t] = "failed"
        BY <2>2, <3>1 DEF RunStory
      <3>3. ~(retries = 0 /\ (refunds[t] > 0 \/ \E q \in Runs : phase[q] = "exhausted" /\ task[q] = t))
        BY <3>1 DEF RowStory
      <3>4. phase'[r] # "exhausted" =>
              \A q \in Runs : phase'[q] = "exhausted" /\ task'[q] = t =>
                               phase[q] = "exhausted" /\ task[q] = t
        BY <1>1
      <3>5. CASE phase'[r] = "exhausted"
        BY <1>1, <1>2, <2>2, <3>2, <3>5 DEF RowStory
      <3>6. CASE phase'[r] # "exhausted"
        <4>1. ~(retries' = 0 /\ (refunds'[t] > 0 \/ \E q \in Runs : phase'[q] = "exhausted" /\ task'[q] = t))
          BY <1>1, <3>3, <3>4, <3>6
        <4> QED BY <1>1, <1>2, <2>2, <3>1, <3>2, <4>1 DEF RowStory
      <3> QED BY <3>5, <3>6
    <2> QED BY <2>1, <2>2
  <1>6. ASSUME NEW q \in Runs, Busy(q)', Spared(task'[q]) PROVE RunStory(q)'
    <2>1. CASE q = r
      <3>1. phase'[r] = "exhausted" /\ stage'[r] = "none"
        BY <1>1, <1>2, <1>6, <2>1 DEF Busy, JobTypeOK
      <3> QED BY <2>1, <3>1 DEF RunStory
    <2>2. CASE q # r
      BY <1>1, <1>3, <1>6, <2>2 DEF RunStory, Busy
    <2> QED BY <2>1, <2>2
  <1> QED BY <1>5, <1>6

LEMMA PaidStory ==
    ASSUME QueueParts, JobTypeOK, OneStory, NEW r \in Runs, RefundExhausted(r)
    PROVE  OneStory'
  <1>1. /\ phase[r] = "exhausted" /\ task[r] \in Tasks /\ phase'[r] = "idle"
        /\ \A q \in Runs \ {r} : phase'[q] = phase[q] /\ task'[q] = task[q]
        /\ refunds' = [refunds EXCEPT ![task[r]] = @ + 1]
        /\ UNCHANGED <<status, job, stage, reaped, expired, faults, retries>>
    BY ReportEffect DEF RefundExhausted
  <1> SUFFICES ASSUME faults = 0
               PROVE  /\ \A t \in Tasks : Spared(t) => RowStory(t)'
                      /\ \A q \in Runs : Busy(q)' /\ Spared(task'[q]) => RunStory(q)'
    BY <1>1 DEF OneStory, Spared
  <1>2. ASSUME NEW t \in Tasks, Spared(t) PROVE RowStory(t)'
    <2>1. RowStory(t)
      BY <1>2 DEF OneStory
    <2>2. \A q \in Runs : phase'[q] = "exhausted" => phase[q] = "exhausted" /\ task'[q] = task[q]
      BY <1>1
    <2>3. t # task[r] => refunds'[t] = refunds[t]
      BY <1>1 DEF JobTypeOK
    <2> QED BY <1>1, <2>1, <2>2, <2>3 DEF RowStory
  <1>3. ASSUME NEW q \in Runs, Busy(q)', Spared(task'[q]) PROVE RunStory(q)'
    <2>1. q # r /\ Busy(q) /\ task'[q] = task[q]
      BY <1>1, <1>3 DEF Busy
    <2>2. RunStory(q)
      BY <1>3, <2>1 DEF OneStory
    <2> QED BY <1>1, <2>1, <2>2 DEF RunStory
  <1> QED BY <1>2, <1>3

(* An administrator's retry starts another story.                          *)
LEMMA RetryStory ==
    ASSUME QueueParts, JobTypeOK, OneStory, NEW u \in Tasks, RetryFailed(u), UNCHANGED jobVars
    PROVE  OneStory'
  <1>1. /\ status' = [status EXCEPT ![u] = "pending"] /\ retries' > 0
        /\ UNCHANGED <<phase, task, job, stage, refunds, expired, reaped, faults>>
    BY DEF RetryFailed, runs, jobVars, ledger, QueueParts, Types
  <1>2. ASSUME faults = 0, NEW t \in Tasks, Spared(t) PROVE RowStory(t)'
    BY <1>1, <1>2 DEF OneStory, RowStory, QueueParts, Types
  <1>3. ASSUME faults = 0, NEW q \in Runs, Busy(q), Spared(task[q]) PROVE RunStory(q)'
    BY <1>1, <1>3 DEF OneStory, RunStory
  <1> QED BY <1>1, <1>2, <1>3 DEF OneStory, Spared, Busy

LEMMA NextOneStory ==
    ASSUME QueueParts, JobTypeOK, NotSent, PaidByPoll, OneStory, [JobNext]_allVars
    PROVE  OneStory'
  <1> DEFINE RowsStay == \A t \in Tasks : Spared(t)' =>
               /\ Spared(t) /\ refunds'[t] = refunds[t]
               /\ job'[t] = job[t] \/ job[t] \in {"none", "processing"}
               /\ \/ status'[t] = status[t]
                  \/ status[t] \in {"absent", "pending"} /\ status'[t] \in {"pending", "running"}
                  \/ status[t] \in {"completed", "failed"} /\ status'[t] = "deleted"
             RunsStay == \A r \in Runs : Busy(r)' =>
               \/ /\ phase'[r] = phase[r] /\ task'[r] = task[r]
                  /\ stage'[r] = stage[r] \/ stage'[r] \in {"record", "markfailed"}
               \/ phase'[r] = "executing" /\ stage'[r] = "pipeline"
  <1>0. ASSUME RowsStay, RunsStay, faults' = 0 => faults = 0, retries' = retries PROVE OneStory'
    BY <1>0, StoriesKept
  <1>a. ASSUME faults' = faults + 1 PROVE OneStory'
    BY <1>a DEF OneStory, QueueParts, Types
  <1>1. ASSUME NEW t \in Tasks, Request(t) PROVE OneStory'
    <2>1. CASE CreateJob(t)
      <3>1. RowsStay
        BY <2>1 DEF CreateJob, JobTypeOK, vars, table, history, ledger, Spared
      <3>2. RunsStay
        BY <2>1 DEF CreateJob, vars, runs
      <3> QED BY <1>0, <2>1, <3>1, <3>2 DEF CreateJob, vars, bounds
    <2>2. CASE SendTask(t)
      <3>1. RowsStay
        BY <2>2 DEF SendTask, NotSent, QueueParts, Types, history, ledger, Spared
      <3>2. RunsStay
        BY <2>2 DEF SendTask, runs
      <3> QED BY <1>0, <2>2, <3>1, <3>2 DEF SendTask, bounds
    <2>3. CASE RequestLost(t)
      BY <1>a, <2>3 DEF RequestLost, Fault
    <2>4. CASE TenMinutesPass(t)
      BY <1>0, <2>4 DEF TenMinutesPass, vars, table, runs, history, bounds, ledger, Spared
    <2> QED BY <1>1, <2>1, <2>2, <2>3, <2>4 DEF Request
  <1>2. ASSUME NEW p \in Pollers, StatusPoll(p) \/ \E t \in Tasks : Look(p, t) PROVE OneStory'
    <2>1. CASE Expire(p)
      <3>1. RowsStay
        BY <2>1 DEF Expire, JobTypeOK, vars, table, history, Spared
      <3>2. RunsStay
        BY <2>1 DEF Expire, vars, runs
      <3> QED BY <1>0, <2>1, <3>1, <3>2 DEF Expire, vars, bounds
    <2>2. CASE PayBack(p)
      <3>1. RowsStay
        BY <2>2 DEF PayBack, PaidByPoll, JobTypeOK, vars, table, history, Spared
      <3>2. RunsStay
        BY <2>2 DEF PayBack, vars, runs
      <3> QED BY <1>0, <2>2, <3>1, <3>2 DEF PayBack, vars, bounds
    <2>3. CASE PollLost(p)
      BY <1>a, <2>3 DEF PollLost, Fault
    <2>4. CASE \E t \in Tasks : Look(p, t)
      BY <1>0, <2>4 DEF Look, vars, table, runs, history, bounds, ledger, Spared
    <2> QED BY <1>2, <2>1, <2>2, <2>3, <2>4 DEF StatusPoll
  <1>3. ASSUME NEW r \in Runs, Research(r) PROVE OneStory'
    <2>1. CASE PipelineEnds(r)
      <3>1. RowsStay
        BY <2>1 DEF PipelineEnds, JobOnly, table, history, ledger, Spared
      <3>2. RunsStay
        BY <2>1 DEF PipelineEnds, To, JobOnly, runs, JobTypeOK
      <3> QED BY <1>0, <2>1, <3>1, <3>2 DEF PipelineEnds, bounds
    <2>2. CASE RecordCompleted(r)
      BY <2>2, VerdictStory DEF RecordCompleted, At, To, SetJob, JobOnly, table, history, bounds, ledger
    <2>3. CASE MarkFailed(r)
      BY <2>3, VerdictStory DEF MarkFailed, At, To, SetJob, JobOnly, table, history, bounds, ledger
    <2>4. CASE RecordRaises(r) \/ NotifyRaises(r) \/ MarkRaises(r)
      BY <1>a, <2>4 DEF RecordRaises, NotifyRaises, MarkRaises, Fault
    <2>5. CASE Notified(r) \/ Reraise(r)
      BY <2>5, BodyEndsStory
    <2> QED BY <1>3, <2>1, <2>2, <2>3, <2>4, <2>5 DEF Research
  <1>4. ASSUME NEW r \in Runs, Dispatched(r) PROVE OneStory'
    BY <1>a, <1>4, SettleStory, PaidStory DEF Dispatched, RefundRaises, Fault
  <1>5. ASSUME NEW w \in Workers, Otherwise(w) \/ Reboot(w) PROVE OneStory'
    <2>1. Poll(w) \/ Lifecycle(w)
      BY <1>5 DEF Otherwise, Reboot, Lifecycle
    <2>2. /\ \A t \in Tasks : \/ status'[t] = status[t]
                              \/ status[t] = "running" /\ t \in reaped'
                              \/ status[t] = "pending" /\ status'[t] = "running"
                              \/ status[t] \in {"completed", "failed"} /\ status'[t] = "deleted"
          /\ \A r \in Runs : \/ phase'[r] = phase[r] /\ task'[r] = task[r]
                             \/ phase'[r] = "idle"
                             \/ phase[r] = "idle" /\ phase'[r] = "executing"
          /\ reaped \subseteq reaped' /\ retries' = retries /\ faults' \in {faults, faults + 1}
      BY <2>1, TurnEffect
    <2>3. RowsStay
      <3>1. UNCHANGED <<refunds, expired>>
        BY <1>5 DEF Otherwise, Reboot, ledger
      <3>2. \A t \in Tasks : job'[t] = job[t] \/ job[t] = "processing"
        BY <1>5 DEF Otherwise, Reboot, MarkOldJobs
      <3> QED BY <2>2, <3>1, <3>2 DEF Spared
    <2>4. RunsStay
      <3>1. CASE Otherwise(w)
        BY <2>2, <3>1 DEF Otherwise, StageFollows, JobTypeOK, Busy
      <3>2. CASE Reboot(w)
        BY <3>2 DEF Reboot, Restart, runs
      <3> QED BY <1>5, <3>1, <3>2
    <2>5. faults' = 0 => faults = 0
      BY <2>2 DEF QueueParts, Types
    <2> QED BY <1>0, <2>2, <2>3, <2>4, <2>5
  <1>6. CASE AdminOrTime /\ UNCHANGED jobVars
    <2>1. CASE Time
      BY <1>0, <1>6, <2>1 DEF Time, BackoffElapses, TimeoutElapses, runs, history, bounds,
                              jobVars, ledger, Spared
    <2> QED BY <1>6, <2>1, RetryStory DEF AdminOrTime
  <1>7. CASE UNCHANGED allVars
    BY <1>0, <1>7 DEF allVars, vars, table, runs, history, bounds, jobVars, ledger, Spared
  <1> QED BY <1>1, <1>2, <1>3, <1>4, <1>5, <1>6, <1>7 DEF JobNext
-----------------------------------------------------------------------------
(* The theorems. *)

\* The inductive invariant holds in every reachable state.
THEOREM JobInvariant == JobSpec => []JobInv
  <1>1. JobInit => JobInv
    BY JobInitInv
  <1>2. JobInv /\ [JobNext]_allVars => JobInv'
    <2> SUFFICES ASSUME JobInv, [JobNext]_allVars PROVE JobInv'
      OBVIOUS
    <2>1. QueueParts' /\ JobTypeOK'
      BY JobStepKeepsQueue, NextJobTypes DEF JobInv
    <2>2. NotSent' /\ PaidByPoll' /\ RefundsBounded' /\ OneStory'
      BY <2>1, NextNotSent, NextPaidByPoll, NextRefundsBounded, NextOneStory DEF JobInv
    <2> QED BY <2>1, <2>2 DEF JobInv
  <1> QED BY <1>1, <1>2, PTL DEF JobSpec

\* Every variable of the research jobs keeps its type, and a coroutine is at a stage of
\* run_research_job exactly while the queue says that it executes.
THEOREM JobTypeCorrect == JobSpec => []JobTypeOK
  BY JobInvariant, PTL DEF JobInv

\* A credit comes back once per grant of attempts: the charge, and each retry by an
\* administrator, unless a poll or a stale requeue gave the job up.
THEOREM CreditReturnsOncePerGrant == JobSpec => []RefundedOncePerGrant
  <1>1. JobInv => RefundedOncePerGrant
    <2> SUFFICES ASSUME JobInv, NEW t \in Tasks, t \notin reaped \cup expired
                 PROVE  refunds[t] <= 1 + retries
      BY DEF RefundedOncePerGrant
    <2>1. /\ IsFiniteSet(Refunding(t))
          /\ refunds[t] + Cardinality(Refunding(t)) + Granted(t) <= 1 + retries
      BY DEF JobInv, RefundsBounded, Spared
    <2>2. Cardinality(Refunding(t)) \in Nat
      BY <2>1, FS_CardinalityType
    <2>3. Granted(t) \in Nat /\ refunds[t] \in Nat /\ retries \in Nat
      BY DEF JobInv, Granted, JobTypeOK, QueueParts, Types
    <2> QED BY <2>1, <2>2, <2>3
  <1> QED BY <1>1, JobInvariant, PTL

\* Without a poll's timeout, a stale requeue, a retry or a fault, nobody keeps both the
\* document and the credit.
THEOREM NobodyResearchesFree == JobSpec => []NothingFree
  <1>1. JobInv => NothingFree
    <2> SUFFICES ASSUME JobInv, NEW t \in Tasks, refunds[t] > 0, job[t] = "completed",
                        t \notin reaped \cup expired, ~(retries > 0), ~(faults > 0)
                 PROVE  FALSE
      BY DEF NothingFree
    <2>1. retries = 0 /\ faults = 0
      BY DEF JobInv, QueueParts, Types
    <2> QED BY <2>1 DEF JobInv, OneStory, RowStory, Spared
  <1> QED BY <1>1, JobInvariant, PTL

\* Without those, the customer's job and the queue's task tell the same story.
THEOREM JobAndTaskAgree == JobSpec => []JobAgreesWithTask
  <1>1. JobInv => JobAgreesWithTask
    BY DEF JobInv, OneStory, RowStory, Spared, JobAgreesWithTask
  <1> QED BY <1>1, JobInvariant, PTL

\* The queue's own promise about attempts, and the single owner of an unreaped task,
\* still hold when research jobs share its table: their steps are not all its own.
THEOREM QueueHoldsUnderJobs == JobSpec => [](NoStrandedTask /\ OneRunUnlessReaped)
  <1>1. JobInv => NoStrandedTask
    BY DEF JobInv, QueueParts, RowCounts, RowCount, NoStrandedTask
  <1>2. JobInv => OneRunUnlessReaped
    BY DEF JobInv, QueueParts, OwnedRows, OneRunUnlessReaped
  <1> QED BY <1>1, <1>2, JobInvariant, PTL
=============================================================================

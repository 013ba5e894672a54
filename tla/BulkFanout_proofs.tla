-------------------------- MODULE BulkFanout_proofs --------------------------
(***************************************************************************)
(* Theorems about BulkFanout, for every number of items, rows, workers,    *)
(* readers and faults.                                                     *)
(***************************************************************************)
EXTENDS BulkFanout, TaskQueue_proofs

\* The rows of the job are numbered in the order of their insertion.
RowsInOrder ==
    /\ \E n \in Nat : Rows = 1 .. n
    /\ bulk = "none" => Rows = {}
    /\ \A t \in Tasks \ Rows : payload[t] = Parent

\* While the marker lives, one child holds the right to finalize, or has used it.
OneFinalizer ==
    ~forgotten =>
        /\ \A r \in Runs : stage[r] = "finalize" =>
              marker /\ finals = 0 /\ \A q \in Runs : stage[q] = "finalize" => q = r
        /\ finals \in {0, 1}
        /\ finals = 1 => marker

\* One child at most owes a refund, of failures that have been counted; it has not
\* been paid before.
OneRefund ==
    ~forgotten =>
        /\ refunded <= bad
        /\ finals = 0 => refunded = 0
        /\ \A r \in Runs : owes[r] > 0 =>
              /\ finals = 1 /\ refunded = 0 /\ owes[r] <= bad
              /\ \A q \in Runs : q # r => owes[q] = 0

\* While nothing fails and the parent is not reaped, it fans out once: nothing has
\* children before its run does it, and it is never pending afterwards.
FannedOut ==
    faults = 0 /\ 1 \notin reaped =>
        /\ \A r \in Runs : phase[r] \notin {"failing", "unheard", "exhausted"}
        /\ \A t \in Rows : payload[t] = t - 1
        /\ \A t \in Rows \ {1} : status[1] \in {"running", "completed"}
        /\ \A r \in Runs : stage[r] = "fanout" => task[r] = 1 /\ Rows = {1}

\* While nothing disturbs the job, the item of a row that is not settled is not counted.
Uncounted(i) == item[i] \in {"pending", "processing"}
Counting == {"start", "pipeline", "succeeded", "erred"}

ItemsUncounted ==
    Undisturbed =>
        /\ \A p \in Readers : stale[p] = {}
        /\ \A i \in Items : i + 1 \notin Rows => Uncounted(i)
        /\ \A t \in Rows \ {1} : status[t] = "pending" => Uncounted(payload[t])
        /\ \A r \in Runs : stage[r] \in Counting => task[r] # 1 /\ Uncounted(ItemOf(r))

FanInv == /\ QueueParts /\ FanTypeOK /\ RowsInOrder /\ OneFinalizer /\ OneRefund
          /\ FannedOut /\ ItemsUncounted /\ CountedOnce /\ NothingUncounted

-----------------------------------------------------------------------------
(* Rows. *)

LEMMA MinOfInterval ==
    ASSUME NEW a \in Int, NEW b \in Int, a <= b
    PROVE  Min(a .. b) = a
  BY DEF Min

LEMMA RowsCounted ==
    ASSUME NEW n \in Nat, Rows = 1 .. n
    PROVE  Cardinality(Rows) = n
  BY FS_Interval

LEMMA FanOutEffect ==
    ASSUME QueueParts, FanTypeOK, RowsInOrder, NEW r \in Runs, FanOut(r)
    PROVE  \E n \in Nat :
              /\ Rows = 1 .. n /\ Rows' = 1 .. n + MaxItems /\ n + MaxItems \in 0 .. MaxTasks
              /\ \A t \in Tasks : IF t \in n + 1 .. n + MaxItems
                    THEN /\ status[t] = "absent" /\ status'[t] = "pending"
                         /\ created'[t] = n + 1 /\ payload'[t] = t - n
                    ELSE UNCHANGED <<status[t], created[t], payload[t]>>
  <1>1. PICK n \in Nat : Rows = 1 .. n
    BY DEF RowsInOrder
  <1>2. Cardinality(Rows) = n
    BY <1>1, RowsCounted
  <1>3. NewRows = n + 1 .. n + MaxItems
    BY <1>2 DEF NewRows
  <1>4. \A t \in NewRows : Min(NewRows) = n + 1
    BY <1>3, MinOfInterval, FanConstants
  <1>5. n + MaxItems \in 0 .. MaxTasks
    <2>1. CASE MaxItems = 0
      <3>1. n = 0 \/ n \in Tasks
        BY <1>1 DEF Rows
      <3> QED BY <2>1, <3>1, QueueConstants DEF Tasks
    <2>2. CASE MaxItems > 0
      <3>1. n + MaxItems \in Tasks
        BY <1>3, <2>2, FanConstants DEF FanOut
      <3> QED BY <3>1 DEF Tasks
    <2> QED BY <2>1, <2>2, FanConstants
  <1>6. ASSUME NEW t \in Tasks
        PROVE  IF t \in n + 1 .. n + MaxItems
                  THEN /\ status[t] = "absent" /\ status'[t] = "pending"
                       /\ created'[t] = n + 1 /\ payload'[t] = t - n
                  ELSE UNCHANGED <<status[t], created[t], payload[t]>>
    <2>1. CASE t \in n + 1 .. n + MaxItems
      <3>1. t \in NewRows /\ Min(NewRows) = n + 1
        BY <1>3, <1>4, <2>1
      <3>2. t \notin Rows
        BY <1>1, <2>1
      <3>3. t - (n + 1) + 1 = t - n
        BY <2>1
      <3> QED BY <2>1, <3>1, <3>2, <3>3 DEF FanOut, Rows
    <2>2. CASE t \notin n + 1 .. n + MaxItems
      BY <1>3, <2>2 DEF FanOut
    <2> QED BY <2>1, <2>2
  <1>7. Rows' = 1 .. n + MaxItems
    <2>1. \A t \in Tasks : t \in Rows' <=> t \in Rows \/ t \in n + 1 .. n + MaxItems
      BY <1>6 DEF Rows
    <2>2. 1 .. n + MaxItems \subseteq Tasks
      BY <1>5, FanConstants, QueueConstants DEF Tasks
    <2>3. Rows' \subseteq Tasks
      BY DEF Rows
    <2>4. \A t \in Tasks : t \in Rows' <=> t \in 1 .. n + MaxItems
      BY <1>1, <2>1, FanConstants DEF Tasks
    <2> QED BY <2>2, <2>3, <2>4
  <1> QED BY <1>1, <1>5, <1>6, <1>7

-----------------------------------------------------------------------------
(* The queue under a bulk job. *)

LEMMA FanStepKeepsQueue ==
    ASSUME QueueParts, FanTypeOK, RowsInOrder, [FanNext]_fanVars
    PROVE  QueueParts'
  <1> USE NextQueueParts
  <1>1. CASE CreateBulk
    <2>1. \A t \in Tasks : status[t] = "absent"
      BY <1>1 DEF CreateBulk, RowsInOrder, Rows
    <2>2. 1 \in Tasks => 1 \in 0 .. MaxTasks
      BY DEF Tasks
    <2>3. status' \in [Tasks -> Statuses] /\ created' \in [Tasks -> 0 .. MaxTasks]
      BY <1>1, <2>2 DEF CreateBulk, QueueParts, Types, Statuses
    <2>4. \A t \in Tasks : status'[t] = status[t] \/ (status[t] = "absent" /\ status'[t] = "pending")
      BY <1>1, <2>1 DEF CreateBulk, QueueParts, Types
    <2> QED BY <1>1, <2>3, <2>4, InsertKeepsQueue DEF CreateBulk
  <1>2. CASE TenMinutesPass
    BY <1>2 DEF TenMinutesPass
  <1>3. ASSUME NEW p \in Readers, Reader(p) PROVE QueueParts'
    BY <1>3 DEF Reader, ReadItems, TimeItemOut
  <1>4. ASSUME NEW r \in Runs, Child(r) PROVE QueueParts'
    <2>1. CASE FanOut(r)
      <3>1. PICK n \in Nat :
               /\ n + MaxItems \in 0 .. MaxTasks
               /\ \A t \in Tasks : IF t \in n + 1 .. n + MaxItems
                     THEN /\ status[t] = "absent" /\ status'[t] = "pending"
                          /\ created'[t] = n + 1 /\ payload'[t] = t - n
                     ELSE UNCHANGED <<status[t], created[t], payload[t]>>
        BY <2>1, FanOutEffect
      <3>2. status' \in [Tasks -> Statuses]
        <4>1. \A t \in Tasks : status'[t] \in Statuses
          BY <3>1 DEF QueueParts, Types, Statuses
        <4>2. status' = [t \in Tasks |-> status'[t]]
          BY <2>1 DEF FanOut
        <4> QED BY <4>1, <4>2
      <3>3. created' \in [Tasks -> 0 .. MaxTasks]
        <4>1. ASSUME NEW t \in Tasks PROVE created'[t] \in 0 .. MaxTasks
          <5>1. CASE t \in n + 1 .. n + MaxItems
            <6>1. n + 1 <= n + MaxItems
              BY <5>1, FanConstants
            <6>2. n + 1 \in 0 .. MaxTasks
              BY <3>1, <6>1, FanConstants, QueueConstants
            <6> QED BY <3>1, <5>1, <6>2
          <5>2. CASE t \notin n + 1 .. n + MaxItems
            BY <3>1, <5>2 DEF QueueParts, Types
          <5> QED BY <5>1, <5>2
        <4>2. created' = [t \in Tasks |-> created'[t]]
          BY <2>1 DEF FanOut
        <4> QED BY <4>1, <4>2
      <3>4. \A t \in Tasks : status'[t] = status[t] \/ (status[t] = "absent" /\ status'[t] = "pending")
        BY <3>1
      <3> QED BY <2>1, <3>2, <3>3, <3>4, InsertKeepsQueue DEF FanOut
    <2>2. CASE StartItem(r) \/ PipelineEnds(r) \/ Succeed(r) \/ Err(r)
      BY <2>2 DEF StartItem, PipelineEnds, Succeed, Err, Quiet, vars
    <2>3. CASE LastChild(r) \/ Finalize(r) \/ Refund(r)
      BY <2>3 DEF LastChild, Finalize, Refund, Quiet, vars
    <2>4. CASE SucceedRaises(r)
      BY <2>4, FaultKeepsQueue DEF SucceedRaises, Quiet, Fault
    <2>5. CASE Returns(r)
      BY <2>5 DEF Returns, Next, Body
    <2>6. CASE Raises(r)
      BY <2>6, FaultyBodyKeepsQueue DEF Raises, At
    <2> QED BY <1>4, <2>1, <2>2, <2>3, <2>4, <2>5, <2>6 DEF Child
  <1>5. ASSUME NEW r \in Runs, QueueSettles(r) PROVE QueueParts'
    BY <1>5 DEF QueueSettles, Next
  <1>6. ASSUME NEW w \in Workers, PollTurn(w) \/ Crashes(w) \/ Reboot(w) PROVE QueueParts'
    <2>1. Poll(w) \/ Lifecycle(w)
      BY <1>6 DEF PollTurn, Crashes, Reboot, Lifecycle
    <2> QED BY <2>1 DEF Next
  <1>7. CASE Time
    BY <1>7 DEF Next
  <1>8. CASE UNCHANGED fanVars
    BY <1>8 DEF fanVars
  <1> QED BY <1>1, <1>2, <1>3, <1>4, <1>5, <1>6, <1>7, <1>8 DEF FanNext
-----------------------------------------------------------------------------
(* Types. *)

LEMMA NextFanTypes ==
    ASSUME QueueParts, FanTypeOK, RowsInOrder, [FanNext]_fanVars
    PROVE  FanTypeOK'
  <1> USE DEF FanTypeOK, FinalStatuses, ItemStatuses
  <1>1. CASE CreateBulk
    BY <1>1 DEF CreateBulk, runs, local, readers, past
  <1>2. CASE TenMinutesPass
    BY <1>2 DEF TenMinutesPass, vars, runs, jobTable, local, past
  <1>3. ASSUME NEW p \in Readers, Reader(p) PROVE FanTypeOK'
    BY <1>3 DEF Reader, ReadItems, TimeItemOut, CountFailed, vars, runs, jobTable, local, past
  <1>4. ASSUME NEW r \in Runs, Child(r) PROVE FanTypeOK'
    <2> USE DEF At, To, Stages, Quiet, jobTable, readers, past, runs
    <2>1. CASE FanOut(r)
      <3>1. PICK n \in Nat :
               \A t \in Tasks : IF t \in n + 1 .. n + MaxItems
                     THEN payload'[t] = t - n ELSE payload'[t] = payload[t]
        BY <2>1, FanOutEffect
      <3>2. \A t \in Tasks : payload'[t] \in Items \cup {Parent}
        BY <3>1, FanConstants DEF Items
      <3>3. payload' = [t \in Tasks |-> payload'[t]]
        BY <2>1 DEF FanOut
      <3> QED BY <2>1, <3>2, <3>3 DEF FanOut
    <2>2. CASE StartItem(r) \/ PipelineEnds(r)
      BY <2>2 DEF StartItem, PipelineEnds
    <2>3. CASE Succeed(r) \/ SucceedRaises(r) \/ Err(r)
      BY <2>3 DEF Succeed, SucceedRaises, Err, CountCompleted, CountFailed
    <2>4. CASE LastChild(r)
      BY <2>4 DEF LastChild
    <2>5. CASE Finalize(r)
      BY <2>5 DEF Finalize
    <2>6. CASE Refund(r)
      <3>1. owes[r] \in Nat /\ owes' \in [Runs -> Nat] /\ refunded' = refunded + owes[r]
        BY <2>6 DEF Refund
      <3> QED BY <2>6, <3>1 DEF Refund
    <2>7. CASE Returns(r) \/ Raises(r)
      BY <2>7 DEF Returns, Raises, BodyReturns, Step, QueueParts, Types
    <2> QED BY <1>4, <2>1, <2>2, <2>3, <2>4, <2>5, <2>6, <2>7 DEF Child
  <1>5. ASSUME NEW r \in Runs, QueueSettles(r) PROVE FanTypeOK'
    <2>1. \A q \in Runs : phase'[q] = "executing" <=> phase[q] = "executing"
      BY <1>5, SettleEffect, ReportEffect DEF QueueSettles, Settle, Failing
    <2> QED BY <1>5, <2>1 DEF QueueSettles, bulkVars, jobTable, local, readers, past
  <1>6. ASSUME NEW w \in Workers, PollTurn(w) PROVE FanTypeOK'
    BY <1>6 DEF PollTurn, MarkerExpires, LocalFollows, Stages, jobTable, readers, past
  <1>7. ASSUME NEW w \in Workers, Crashes(w) PROVE FanTypeOK'
    BY <1>7 DEF Crashes, LocalFollows, Stages, jobTable, readers, past
  <1>8. ASSUME NEW w \in Workers, Reboot(w) PROVE FanTypeOK'
    BY <1>8 DEF Reboot, Restart, runs, local, readers, past
  <1>9. CASE Time /\ UNCHANGED bulkVars
    BY <1>9 DEF Time, BackoffElapses, TimeoutElapses, bulkVars, jobTable, local, readers, past, runs
  <1>10. CASE UNCHANGED fanVars
    BY <1>10 DEF fanVars, vars, runs, bulkVars, jobTable, local, readers, past
  <1> QED BY <1>1, <1>2, <1>3, <1>4, <1>5, <1>6, <1>7, <1>8, <1>9, <1>10 DEF FanNext
-----------------------------------------------------------------------------
(* What one child does, besides its item. *)

(* The steps that neither finalize nor refund: the right to do so and the  *)
(* debt stay where they are, or vanish with a run.                         *)
LEMMA FinalizationKept ==
    ASSUME FanTypeOK, OneFinalizer, OneRefund,
           forgotten => forgotten', marker' = marker \/ forgotten',
           UNCHANGED <<finals, refunded>>, bad' \in Nat, bad' >= bad,
           \A r \in Runs : stage'[r] = "finalize" => stage[r] = "finalize",
           \A r \in Runs : owes'[r] = owes[r] \/ owes'[r] = 0
    PROVE  OneFinalizer' /\ OneRefund'
  <1>1. OneFinalizer'
    BY DEF OneFinalizer
  <1>2. OneRefund'
    <2> SUFFICES ASSUME ~forgotten' PROVE
          /\ refunded <= bad'
          /\ finals = 0 => refunded = 0
          /\ \A r \in Runs : owes'[r] > 0 =>
                /\ finals = 1 /\ refunded = 0 /\ owes'[r] <= bad'
                /\ \A q \in Runs : q # r => owes'[q] = 0
      BY DEF OneRefund
    <2>1. ~forgotten
      OBVIOUS
    <2>2. refunded <= bad'
      BY <2>1 DEF OneRefund, FanTypeOK
    <2>3. ASSUME NEW r \in Runs, owes'[r] > 0
          PROVE  /\ finals = 1 /\ refunded = 0 /\ owes'[r] <= bad'
                 /\ \A q \in Runs : q # r => owes'[q] = 0
      <3>1. owes'[r] = owes[r] /\ owes[r] \in Nat
        BY <2>3 DEF FanTypeOK
      <3> QED BY <2>1, <2>3, <3>1 DEF OneRefund, FanTypeOK
    <2> QED BY <2>1, <2>2, <2>3 DEF OneRefund
  <1> QED BY <1>1, <1>2

(* The last child takes the right, ... *)
LEMMA LastChildFinalizes ==
    ASSUME FanTypeOK, OneFinalizer, OneRefund, NEW r \in Runs, LastChild(r)
    PROVE  OneFinalizer' /\ OneRefund'
  <1>1. /\ ~marker /\ marker' /\ stage' = [stage EXCEPT ![r] = "finalize"]
        /\ UNCHANGED <<bad, owes, finals, refunded, forgotten>>
    BY DEF LastChild, To, Quiet, jobTable, past
  <1>2. OneFinalizer'
    BY <1>1 DEF OneFinalizer, FanTypeOK
  <1>3. OneRefund'
    BY <1>1 DEF OneRefund
  <1> QED BY <1>2, <1>3

(* ... uses it, and owes what it has counted, ... *)
LEMMA FinalizeOwes ==
    ASSUME FanTypeOK, OneFinalizer, OneRefund, NEW r \in Runs, Finalize(r)
    PROVE  OneFinalizer' /\ OneRefund'
  <1>1. /\ stage[r] = "finalize" /\ stage' = [stage EXCEPT ![r] = "refund"]
        /\ finals' = finals + 1 /\ owes' = [owes EXCEPT ![r] = bad]
        /\ UNCHANGED <<bad, marker, refunded, forgotten>>
    BY DEF Finalize, At, To
  <1> SUFFICES ASSUME ~forgotten PROVE OneFinalizer' /\ OneRefund'
    BY <1>1 DEF OneFinalizer, OneRefund
  <1>2. marker /\ finals = 0 /\ \A q \in Runs : stage[q] = "finalize" => q = r
    BY <1>1 DEF OneFinalizer
  <1>3. OneFinalizer'
    BY <1>1, <1>2 DEF OneFinalizer, FanTypeOK
  <1>4. refunded = 0 /\ \A q \in Runs : owes[q] = 0
    BY <1>2 DEF OneRefund, FanTypeOK
  <1>5. OneRefund'
    BY <1>1, <1>2, <1>4 DEF OneRefund, FanTypeOK
  <1> QED BY <1>3, <1>5

(* ... and pays it. *)
LEMMA RefundPays ==
    ASSUME FanTypeOK, OneFinalizer, OneRefund, NEW r \in Runs, Refund(r)
    PROVE  OneFinalizer' /\ OneRefund'
  <1>1. /\ stage[r] = "refund" /\ stage' = [stage EXCEPT ![r] = "notify"]
        /\ refunded' = refunded + owes[r] /\ owes' = [owes EXCEPT ![r] = 0]
        /\ UNCHANGED <<bad, marker, finals, forgotten>>
    BY DEF Refund, At, To, jobTable
  <1>2. OneFinalizer'
    BY <1>1 DEF OneFinalizer, FanTypeOK
  <1>3. OneRefund'
    <2>1. CASE owes[r] = 0
      BY <1>1, <2>1 DEF OneRefund, FanTypeOK
    <2>2. CASE owes[r] > 0
      BY <1>1, <2>2 DEF OneRefund, FanTypeOK
    <2> QED BY <2>1, <2>2 DEF FanTypeOK
  <1> QED BY <1>2, <1>3

LEMMA NextFinalization ==
    ASSUME QueueParts, FanTypeOK, FanTypeOK', OneFinalizer, OneRefund, [FanNext]_fanVars
    PROVE  OneFinalizer' /\ OneRefund'
  <1> DEFINE Marked == (forgotten => forgotten') /\ (marker' = marker \/ forgotten')
             Counted == UNCHANGED <<finals, refunded>> /\ bad' \in Nat /\ bad' >= bad
             Placed == /\ \A r \in Runs : stage'[r] = "finalize" => stage[r] = "finalize"
                       /\ \A r \in Runs : owes'[r] = owes[r] \/ owes'[r] = 0
  <1>0. ASSUME Marked, Counted, Placed PROVE OneFinalizer' /\ OneRefund'
    BY <1>0, FinalizationKept
  <1> USE DEF FanTypeOK
  <1>1. CASE CreateBulk
    BY <1>0, <1>1 DEF CreateBulk, local, past
  <1>2. CASE TenMinutesPass
    BY <1>0, <1>2 DEF TenMinutesPass, jobTable, local, past
  <1>3. ASSUME NEW p \in Readers, Reader(p) PROVE OneFinalizer' /\ OneRefund'
    BY <1>0, <1>3 DEF Reader, ReadItems, TimeItemOut, CountFailed, jobTable, local, past
  <1>4. ASSUME NEW r \in Runs, Child(r) PROVE OneFinalizer' /\ OneRefund'
    <2> USE DEF To, jobTable, past
    <2>1. CASE FanOut(r)
      BY <1>0, <2>1 DEF FanOut
    <2>2. CASE StartItem(r) \/ PipelineEnds(r)
      BY <1>0, <2>2 DEF StartItem, PipelineEnds
    <2>3. CASE Succeed(r) \/ SucceedRaises(r) \/ Err(r)
      BY <1>0, <2>3 DEF Succeed, SucceedRaises, Err, CountCompleted, CountFailed
    <2>4. CASE Returns(r) \/ Raises(r)
      BY <1>0, <2>4 DEF Returns, Raises
    <2> QED BY <1>4, <2>1, <2>2, <2>3, <2>4, LastChildFinalizes, FinalizeOwes, RefundPays DEF Child
  <1>5. ASSUME NEW r \in Runs, QueueSettles(r) PROVE OneFinalizer' /\ OneRefund'
    BY <1>0, <1>5 DEF QueueSettles, bulkVars, jobTable, local, past
  <1>6. ASSUME NEW w \in Workers, PollTurn(w) \/ Crashes(w) PROVE OneFinalizer' /\ OneRefund'
    <2>1. Placed
      BY <1>6 DEF PollTurn, Crashes, LocalFollows
    <2>2. Marked /\ Counted
      BY <1>6 DEF PollTurn, Crashes, MarkerExpires, jobTable, past
    <2> QED BY <1>0, <2>1, <2>2
  <1>7. ASSUME NEW w \in Workers, Reboot(w) PROVE OneFinalizer' /\ OneRefund'
    BY <1>0, <1>7 DEF Reboot, local, past
  <1>8. CASE UNCHANGED bulkVars
    BY <1>0, <1>8 DEF bulkVars, jobTable, local, past
  <1> QED BY <1>1, <1>2, <1>3, <1>4, <1>5, <1>6, <1>7, <1>8 DEF FanNext, fanVars
-----------------------------------------------------------------------------
(* Rows are inserted by the request and by the parent. *)

LEMMA RowsInOrderKept ==
    ASSUME RowsInOrder, Rows' = Rows, bulk' = "none" => bulk = "none", payload' = payload
    PROVE  RowsInOrder'
  BY DEF RowsInOrder

LEMMA RowsStay ==
    ASSUME QueueParts,
           \/ \E w \in Workers : Poll(w) \/ Lifecycle(w)
           \/ \E r \in Runs : Settle(r)
           \/ Time
    PROVE  Rows' = Rows
  <1>1. CASE \E w \in Workers : Poll(w) \/ Lifecycle(w)
    BY <1>1, TurnEffect DEF Rows
  <1>2. ASSUME NEW r \in Runs, Settle(r) PROVE Rows' = Rows
    BY <1>2, SettleEffect, ReportEffect DEF Settle, Rows
  <1>3. CASE Time
    BY <1>3 DEF Time, BackoffElapses, TimeoutElapses, Rows
  <1> QED BY <1>1, <1>2, <1>3

LEMMA NextRowsInOrder ==
    ASSUME QueueParts, FanTypeOK, RowsInOrder, [FanNext]_fanVars
    PROVE  RowsInOrder'
  <1>0. ASSUME status' = status, bulk' = "none" => bulk = "none", payload' = payload
        PROVE  RowsInOrder'
    BY <1>0, RowsInOrderKept DEF Rows
  <1>1. CASE CreateBulk
    <2>1. Rows = {}
      BY <1>1 DEF CreateBulk, RowsInOrder
    <2>2. Rows' = {t \in Tasks : t = 1}
      BY <1>1, <2>1 DEF CreateBulk, Rows, QueueParts, Types
    <2>3. Rows' = {} \/ Rows' = {1}
      BY <2>2
    <2>4. {} = 1 .. 0 /\ {1} = 1 .. 1
      OBVIOUS
    <2>5. \E n \in Nat : Rows' = 1 .. n
      BY <2>3, <2>4
    <2>6. \A t \in Tasks \ Rows' : payload'[t] = Parent
      BY <1>1, <2>1 DEF CreateBulk, RowsInOrder
    <2> QED BY <1>1, <2>5, <2>6 DEF CreateBulk, RowsInOrder
  <1>2. CASE TenMinutesPass
    BY <1>0, <1>2 DEF TenMinutesPass, vars, table, jobTable
  <1>3. ASSUME NEW p \in Readers, Reader(p) PROVE RowsInOrder'
    BY <1>0, <1>3 DEF Reader, ReadItems, TimeItemOut, CountFailed, vars, table, jobTable
  <1>4. ASSUME NEW r \in Runs, Child(r) PROVE RowsInOrder'
    <2> USE DEF Quiet, table, jobTable
    <2>1. CASE FanOut(r)
      <3>1. PICK n \in Nat :
               /\ Rows = 1 .. n /\ Rows' = 1 .. n + MaxItems
               /\ \A t \in Tasks : t \notin n + 1 .. n + MaxItems => payload'[t] = payload[t]
        BY <2>1, FanOutEffect
      <3>2. n + MaxItems \in Nat
        BY FanConstants
      <3>3. \A t \in Tasks \ Rows' : payload'[t] = Parent
        BY <3>1, FanConstants DEF RowsInOrder, Tasks
      <3>4. bulk' # "none"
        <4>1. Busy(r) /\ bulk' = bulk
          BY <2>1 DEF FanOut, At, Busy
        <4>2. task[r] \in Rows
          BY <4>1 DEF QueueParts, TaskOfRun, Rows
        <4> QED BY <4>1, <4>2 DEF RowsInOrder
      <3> QED BY <3>1, <3>2, <3>3, <3>4 DEF RowsInOrder
    <2>2. CASE StartItem(r) \/ PipelineEnds(r) \/ LastChild(r) \/ Refund(r)
      BY <1>0, <2>2 DEF StartItem, PipelineEnds, LastChild, Refund
    <2>3. CASE Succeed(r) \/ SucceedRaises(r) \/ Err(r)
      BY <1>0, <2>3 DEF Succeed, SucceedRaises, Err, CountCompleted, CountFailed
    <2>4. CASE Finalize(r)
      BY <1>0, <2>4 DEF Finalize
    <2>5. CASE Returns(r) \/ Raises(r)
      BY <1>0, <2>5 DEF Returns, Raises, BodyReturns
    <2> QED BY <1>4, <2>1, <2>2, <2>3, <2>4, <2>5 DEF Child
  <1>5. ASSUME NEW r \in Runs, QueueSettles(r) PROVE RowsInOrder'
    BY <1>5, RowsStay, RowsInOrderKept DEF QueueSettles, bulkVars, jobTable
  <1>6. ASSUME NEW w \in Workers, PollTurn(w) \/ Crashes(w) \/ Reboot(w) PROVE RowsInOrder'
    <2>1. Poll(w) \/ Lifecycle(w)
      BY <1>6 DEF PollTurn, Crashes, Reboot, Lifecycle
    <2>2. payload' = payload /\ (bulk' = "none" => bulk = "none")
      BY <1>6 DEF PollTurn, Crashes, Reboot, jobTable
    <2> QED BY <2>1, <2>2, RowsStay, RowsInOrderKept
  <1>7. CASE Time /\ UNCHANGED bulkVars
    BY <1>7, RowsStay, RowsInOrderKept DEF bulkVars, jobTable
  <1>8. CASE UNCHANGED fanVars
    BY <1>0, <1>8 DEF fanVars, vars, table, bulkVars, jobTable
  <1> QED BY <1>1, <1>2, <1>3, <1>4, <1>5, <1>6, <1>7, <1>8 DEF FanNext
-----------------------------------------------------------------------------
(* The parent fans out once. *)

(* A step that inserts no row, gives no run to the fan-out, and settles row 1 *)
(* as completed if it does.                                                *)
LEMMA FannedOutKept ==
    ASSUME QueueParts, FannedOut, faults' = 0 => faults = 0, reaped \subseteq reaped',
           Rows' = Rows, payload' = payload,
           \A r \in Runs : faults' = 0 /\ phase'[r] \in {"failing", "unheard", "exhausted"} =>
                             phase[r] \in {"failing", "unheard", "exhausted"},
           faults' = 0 /\ 1 \notin reaped' /\ 1 \in Tasks /\ status[1] \in {"running", "completed"} =>
                             status'[1] \in {"running", "completed"},
           \A r \in Runs : stage'[r] = "fanout" => stage[r] = "fanout" /\ task'[r] = task[r]
    PROVE  FannedOut'
  <1> SUFFICES ASSUME faults' = 0, 1 \notin reaped'
               PROVE  /\ \A r \in Runs : phase'[r] \notin {"failing", "unheard", "exhausted"}
                      /\ \A t \in Rows : payload[t] = t - 1
                      /\ \A t \in Rows \ {1} : status'[1] \in {"running", "completed"}
                      /\ \A r \in Runs : stage'[r] = "fanout" => task'[r] = 1 /\ Rows = {1}
    BY DEF FannedOut
  <1>1. faults = 0 /\ 1 \notin reaped
    OBVIOUS
  <1>2. \A t \in Rows \ {1} : 1 \in Tasks
    BY QueueConstants DEF Rows, Tasks
  <1> QED BY <1>1, <1>2 DEF FannedOut

(* An interval that has a member has its last number.                      *)
LEMMA OneOfInterval ==
    ASSUME NEW n \in Nat, 1 \in 1 .. n
    PROVE  n \in 1 .. n
  OBVIOUS

(* The parent's own step: the job has one row before it, and the item i of *)
(* the fan-out gets row i + 1.                                             *)
LEMMA FanOutOnce ==
    ASSUME QueueParts, FanTypeOK, RowsInOrder, FannedOut, NEW r \in Runs, FanOut(r)
    PROVE  FannedOut'
  <1> SUFFICES ASSUME faults = 0, 1 \notin reaped PROVE FannedOut'
    BY DEF FanOut, history, bounds, FannedOut
  <1>1. /\ phase[r] = "executing" /\ stage[r] = "fanout" /\ stage' = [stage EXCEPT ![r] = "returning"]
        /\ UNCHANGED <<phase, task, reaped, faults>>
    BY DEF FanOut, At, To, runs, history, bounds
  <1>2. task[r] = 1 /\ Rows = {1} /\ Owns(r)
    BY <1>1 DEF FannedOut, Owns
  <1>3. /\ 1 \in Tasks /\ status[1] = "running"
        /\ \A q \in Runs : q # r /\ phase[q] = "executing" => task[q] # 1
    BY <1>1, <1>2 DEF QueueParts, OwnedRows, Ownable, Owns, Rows
  <1>4. PICK n \in Nat :
           /\ Rows = 1 .. n /\ Rows' = 1 .. n + MaxItems
           /\ \A t \in Tasks : IF t \in n + 1 .. n + MaxItems
                 THEN payload'[t] = t - n
                 ELSE UNCHANGED <<status[t], payload[t]>>
    BY FanOutEffect
  <1>5. n = 1
    <2>1. n \in Nat /\ 1 .. n = {1}
      BY <1>2, <1>4
    <2>2. n \in 1 .. n
      BY <2>1, OneOfInterval
    <2>3. n \in {1}
      BY <2>1, <2>2, Zenon
    <2> QED BY <2>3
  <1>6. \A t \in Rows' : payload'[t] = t - 1
    BY <1>2, <1>4, <1>5, FanConstants DEF FannedOut, Rows
  <1>7. status'[1] = "running"
    BY <1>3, <1>4, <1>5
  <1>8. \A q \in Runs : stage'[q] # "fanout"
    <2> SUFFICES ASSUME NEW q \in Runs, stage'[q] = "fanout" PROVE FALSE
      OBVIOUS
    <2>1. q # r /\ stage[q] = "fanout"
      BY <1>1 DEF FanTypeOK
    <2>2. task[q] = 1 /\ phase[q] = "executing"
      BY <2>1 DEF FannedOut, FanTypeOK
    <2> QED BY <1>3, <2>1, <2>2
  <1> QED BY <1>1, <1>6, <1>7, <1>8 DEF FannedOut

(* A turn of the loop gives the fan-out only to the row that nothing has   *)
(* fanned out yet.                                                         *)
LEMMA TurnFansOut ==
    ASSUME QueueParts, FanTypeOK, RowsInOrder, FannedOut, NEW w \in Workers, PollTurn(w)
    PROVE  FannedOut'
  <1>1. /\ \A t \in Tasks : \/ status'[t] = status[t]
                            \/ status[t] = "running" /\ t \in reaped'
                            \/ status[t] = "pending" /\ status'[t] = "running"
        /\ \A r \in Runs : \/ phase'[r] = phase[r] /\ task'[r] = task[r]
                           \/ phase'[r] = "idle"
                           \/ /\ phase[r] = "idle" /\ phase'[r] = "executing"
                              /\ task'[r] \in Tasks /\ status[task'[r]] = "pending"
        /\ reaped \subseteq reaped' /\ faults' \in {faults, faults + 1}
    BY TurnEffect DEF PollTurn
  <1>2. payload' = payload /\ Rows' = Rows
    BY RowsStay DEF PollTurn
  <1>3. faults' = 0 => faults = 0
    BY <1>1 DEF QueueParts, Types
  <1> SUFFICES ASSUME faults' = 0, 1 \notin reaped', faults = 0, 1 \notin reaped
               PROVE  /\ \A r \in Runs : phase'[r] \notin {"failing", "unheard", "exhausted"}
                      /\ \A t \in Rows : payload[t] = t - 1
                      /\ \A t \in Rows \ {1} : status'[1] \in {"running", "completed"}
                      /\ \A r \in Runs : stage'[r] = "fanout" => task'[r] = 1 /\ Rows = {1}
    BY <1>1, <1>2, <1>3 DEF FannedOut
  <1>4. \A r \in Runs : phase'[r] \notin {"failing", "unheard", "exhausted"}
    BY <1>1 DEF FannedOut
  <1>5. \A t \in Rows \ {1} : status'[1] \in {"running", "completed"}
    <2>1. \A t \in Rows \ {1} : 1 \in Tasks
      BY QueueConstants DEF Rows, Tasks
    <2> QED BY <1>1, <2>1 DEF FannedOut
  <1>6. ASSUME NEW r \in Runs, stage'[r] = "fanout" PROVE task'[r] = 1 /\ Rows = {1}
    <2>1. \/ phase[r] = "executing" /\ phase'[r] = "executing" /\ stage[r] = "fanout"
          \/ phase[r] # "executing" /\ phase'[r] = "executing" /\ payload[task'[r]] = Parent
      BY <1>2, <1>6 DEF PollTurn, LocalFollows
    <2>2. CASE phase[r] = "executing" /\ phase'[r] = "executing" /\ stage[r] = "fanout"
      BY <1>1, <2>2 DEF FannedOut
    <2>3. CASE phase[r] # "executing" /\ phase'[r] = "executing" /\ payload[task'[r]] = Parent
      <3>1. task'[r] \in Rows /\ status[task'[r]] = "pending"
        BY <1>1, <2>3 DEF Rows
      <3>2. task'[r] = 1
        BY <2>3, <3>1 DEF FannedOut, Parent, Rows, Tasks
      <3> QED BY <3>1, <3>2 DEF FannedOut
    <2> QED BY <2>1, <2>2, <2>3
  <1> QED BY <1>4, <1>5, <1>6 DEF FannedOut

LEMMA NextFannedOut ==
    ASSUME QueueParts, FanTypeOK, RowsInOrder, FannedOut, [FanNext]_fanVars
    PROVE  FannedOut'
  <1> DEFINE Fewer == \A r \in Runs : faults' = 0 /\ phase'[r] \in {"failing", "unheard", "exhausted"} =>
                                         phase[r] \in {"failing", "unheard", "exhausted"}
             Same == \A r \in Runs : stage'[r] = "fanout" => stage[r] = "fanout" /\ task'[r] = task[r]
  <1>0. ASSUME UNCHANGED <<status, payload, reaped, faults>>, Fewer, Same PROVE FannedOut'
    BY <1>0, FannedOutKept DEF Rows
  <1>a. ASSUME faults' = faults + 1 PROVE FannedOut'
    BY <1>a DEF FannedOut, QueueParts, Types
  <1> USE DEF vars, table, runs, history, bounds
  <1>1. CASE CreateBulk
    <2>1. Rows = {}
      BY <1>1 DEF CreateBulk, RowsInOrder
    <2>2. Rows' \subseteq {1} /\ Rows' \subseteq Tasks
      BY <1>1, <2>1 DEF CreateBulk, Rows, QueueParts, Types
    <2>3. UNCHANGED <<phase, stage, payload, reaped, faults>>
      BY <1>1 DEF CreateBulk, local
    <2>4. \A t \in Rows' : payload'[t] = t - 1
      BY <2>1, <2>2, <2>3 DEF RowsInOrder, Parent
    <2>5. faults = 0 /\ 1 \notin reaped => \A r \in Runs : stage[r] # "fanout"
      BY <2>1 DEF FannedOut
    <2> QED BY <2>2, <2>3, <2>4, <2>5 DEF FannedOut
  <1>2. CASE TenMinutesPass
    BY <1>0, <1>2 DEF TenMinutesPass, local
  <1>3. ASSUME NEW p \in Readers, Reader(p) PROVE FannedOut'
    BY <1>0, <1>3 DEF Reader, ReadItems, TimeItemOut, local
  <1>4. ASSUME NEW r \in Runs, Child(r) PROVE FannedOut'
    <2> USE DEF Quiet, To, At, FanTypeOK
    <2>1. CASE FanOut(r)
      BY <2>1, FanOutOnce
    <2>2. CASE StartItem(r) \/ PipelineEnds(r) \/ LastChild(r)
      BY <1>0, <2>2 DEF StartItem, PipelineEnds, LastChild
    <2>3. CASE Finalize(r) \/ Refund(r)
      BY <1>0, <2>3 DEF Finalize, Refund
    <2>4. CASE Succeed(r) \/ Err(r)
      BY <1>0, <2>4 DEF Succeed, Err
    <2>5. CASE SucceedRaises(r) \/ Raises(r)
      BY <1>a, <2>5 DEF SucceedRaises, Raises, Fault
    <2>6. CASE Returns(r)
      <3>1. Fewer /\ Same /\ UNCHANGED <<status, payload, reaped, faults>>
        BY <2>6 DEF Returns, BodyReturns, Step, QueueParts, Types
      <3> QED BY <1>0, <3>1
    <2> QED BY <1>4, <2>1, <2>2, <2>3, <2>4, <2>5, <2>6 DEF Child
  <1>5. ASSUME NEW r \in Runs, QueueSettles(r) PROVE FannedOut'
    <2>1. CASE faults' = faults + 1
      BY <1>a, <2>1
    <2>2. CASE faults' = faults /\ faults = 0 /\ 1 \notin reaped
      <3>1. phase[r] \notin {"failing", "unheard", "exhausted"}
        BY <2>2 DEF FannedOut
      <3>2. Complete(r)
        BY <1>5, <2>2, <3>1 DEF QueueSettles, Settle, Complete, CompleteRaises, Fail, FailRaises,
                              Failing, Report, Fault, QueueParts, Types
      <3>3. /\ \A q \in Runs \ {r} : phase'[q] = phase[q] /\ task'[q] = task[q]
            /\ phase'[r] = "idle" /\ phase[r] = "completing"
        BY <3>2 DEF Complete, End, Step, QueueParts, Types
      <3>4. stage[r] # "fanout" /\ UNCHANGED <<stage, payload>>
        BY <1>5, <3>3 DEF FanTypeOK, QueueSettles, bulkVars, local
      <3>5. status[1] \in {"running", "completed"} /\ 1 \in Tasks => status'[1] \in {"running", "completed"}
        BY <3>2 DEF Complete, ApplyComplete, QueueParts, Types
      <3>6. Rows' = Rows /\ reaped' = reaped
        BY <1>5, <3>2, RowsStay DEF QueueSettles, Complete
      <3> QED BY <2>2, <3>3, <3>4, <3>5, <3>6, FannedOutKept
    <2>3. CASE ~(faults = 0 /\ 1 \notin reaped)
      <3>1. reaped' = reaped /\ faults' \in {faults, faults + 1}
        BY <1>5, SettleEffect, ReportEffect DEF QueueSettles, Settle
      <3> QED BY <2>3, <3>1 DEF FannedOut, QueueParts, Types
    <2>4. faults' \in {faults, faults + 1}
      BY <1>5, SettleEffect, ReportEffect DEF QueueSettles, Settle
    <2> QED BY <2>1, <2>2, <2>3, <2>4
  <1>6. ASSUME NEW w \in Workers, PollTurn(w) PROVE FannedOut'
    BY <1>6, TurnFansOut
  <1>7. ASSUME NEW w \in Workers, Crashes(w) PROVE FannedOut'
    BY <1>a, <1>7 DEF Crashes, Crash, Fault
  <1>8. ASSUME NEW w \in Workers, Reboot(w) PROVE FannedOut'
    BY <1>0, <1>8 DEF Reboot, Restart, local
  <1>9. CASE Time /\ UNCHANGED bulkVars
    BY <1>0, <1>9 DEF Time, BackoffElapses, TimeoutElapses, bulkVars, local
  <1>10. CASE UNCHANGED fanVars
    BY <1>0, <1>10 DEF fanVars, bulkVars, local
  <1> QED BY <1>1, <1>2, <1>3, <1>4, <1>5, <1>6, <1>7, <1>8, <1>9, <1>10 DEF FanNext
-----------------------------------------------------------------------------
(* Every item is counted once. *)

(* A step that counts nothing and gives no settled row a new run.          *)
LEMMA ItemsKept ==
    ASSUME FanTypeOK, ItemsUncounted, CountedOnce,
           Undisturbed' => Undisturbed, Rows \subseteq Rows',
           UNCHANGED <<item, done, bad, stale>>, payload' = payload,
           Undisturbed' => \A t \in Rows' \ {1} : status'[t] = "pending" =>
                                                     t \in Rows /\ status[t] = "pending",
           Undisturbed' => \A r \in Runs : stage'[r] \in Counting =>
               \/ stage[r] \in Counting /\ task'[r] = task[r]
               \/ task'[r] \in Rows \ {1} /\ status[task'[r]] = "pending"
    PROVE  ItemsUncounted' /\ CountedOnce'
  <1>1. ItemsUncounted'
    <2> SUFFICES ASSUME Undisturbed'
                 PROVE  /\ \A p \in Readers : stale[p] = {}
                        /\ \A i \in Items : i + 1 \notin Rows' => Uncounted(i)
                        /\ \A t \in Rows' \ {1} : status'[t] = "pending" => Uncounted(payload[t])
                        /\ \A r \in Runs : stage'[r] \in Counting =>
                              task'[r] # 1 /\ Uncounted(payload[task'[r]])
      BY DEF ItemsUncounted, Uncounted, ItemOf
    <2>1. Undisturbed
      OBVIOUS
    <2>2. \A p \in Readers : stale[p] = {}
      BY <2>1 DEF ItemsUncounted
    <2>3. \A i \in Items : i + 1 \notin Rows' => Uncounted(i)
      BY <2>1 DEF ItemsUncounted
    <2>4. \A t \in Rows \ {1} : status[t] = "pending" => Uncounted(payload[t])
      BY <2>1 DEF ItemsUncounted
    <2>5. \A t \in Rows' \ {1} : status'[t] = "pending" => Uncounted(payload[t])
      BY <2>4
    <2>6. \A r \in Runs : stage[r] \in Counting => task[r] # 1 /\ Uncounted(payload[task[r]])
      BY <2>1 DEF ItemsUncounted, ItemOf
    <2>7. \A r \in Runs : stage'[r] \in Counting => task'[r] # 1 /\ Uncounted(payload[task'[r]])
      BY <2>4, <2>6
    <2> QED BY <2>2, <2>3, <2>5, <2>7
  <1>2. CountedOnce'
    BY DEF CountedOnce, Ended
  <1> QED BY <1>1, <1>2

(* The fan-out makes a row for each item, none of them counted yet.        *)
LEMMA FanOutUncounted ==
    ASSUME QueueParts, FanTypeOK, RowsInOrder, FannedOut, ItemsUncounted, CountedOnce,
           NEW r \in Runs, FanOut(r)
    PROVE  ItemsUncounted' /\ CountedOnce'
  <1>1. /\ phase[r] = "executing" /\ stage[r] = "fanout" /\ stage' = [stage EXCEPT ![r] = "returning"]
        /\ UNCHANGED <<phase, task, reaped, faults, item, done, bad, stale, aged>>
    BY DEF FanOut, At, To, runs, history, bounds, jobTable, readers
  <1>2. CountedOnce' /\ (Undisturbed' <=> Undisturbed)
    BY <1>1 DEF CountedOnce, Undisturbed, Ended
  <1>3. PICK n \in Nat :
           /\ Rows = 1 .. n /\ Rows' = 1 .. n + MaxItems
           /\ \A t \in Tasks : IF t \in n + 1 .. n + MaxItems
                 THEN payload'[t] = t - n
                 ELSE UNCHANGED <<status[t], payload[t]>>
    BY FanOutEffect
  <1> SUFFICES ASSUME Undisturbed PROVE ItemsUncounted'
    BY <1>2 DEF ItemsUncounted
  <1>4. task[r] = 1 /\ Rows = {1}
    BY <1>1 DEF FannedOut, Undisturbed
  <1>5. n = 1
    <2>1. n \in Nat /\ 1 .. n = {1}
      BY <1>3, <1>4
    <2>2. n \in 1 .. n
      BY <2>1, OneOfInterval
    <2>3. n \in {1}
      BY <2>1, <2>2, Zenon
    <2> QED BY <2>3
  <1>6. \A i \in Items : Uncounted(i)
    BY <1>4 DEF ItemsUncounted, Items
  <1>7. \A t \in Rows' \ {1} : payload'[t] \in Items
    BY <1>3, <1>5, FanConstants DEF Rows, Items
  <1>8. \A q \in Runs : stage'[q] \notin Counting
    <2> SUFFICES ASSUME NEW q \in Runs, stage'[q] \in Counting PROVE FALSE
      OBVIOUS
    <2>1. stage[q] \in Counting
      BY <1>1 DEF FanTypeOK, Counting
    <2>2. phase[q] = "executing" /\ task[q] # 1
      BY <2>1 DEF FanTypeOK, Counting, ItemsUncounted
    <2>3. task[q] \in Rows
      BY <2>2 DEF QueueParts, TaskOfRun, Busy, Rows
    <2> QED BY <1>4, <2>2, <2>3
  <1>9. /\ \A p \in Readers : stale'[p] = {}
        /\ \A i \in Items : Uncounted(i)'
    BY <1>1, <1>6 DEF ItemsUncounted, Uncounted
  <1> QED BY <1>7, <1>8, <1>9 DEF ItemsUncounted

(* Undisturbed, a child at work on its item has a row of its own, which is *)
(* not pending, and so an item of its own.                                 *)
LEMMA ItemAtWork ==
    ASSUME QueueParts, FanTypeOK, FannedOut, ItemsUncounted, Undisturbed,
           NEW r \in Runs, stage[r] \in Counting
    PROVE  /\ ItemOf(r) \in Items /\ task[r] = ItemOf(r) + 1 /\ task[r] \in Rows /\ Uncounted(ItemOf(r))
           /\ \A t \in Rows \ {1} : status[t] = "pending" => payload[t] # ItemOf(r)
           /\ \A q \in Runs : stage[q] \in Counting /\ q # r => ItemOf(q) # ItemOf(r)
  <1>1. \A q \in Runs : stage[q] \in Counting =>
           /\ task[q] \in Tasks /\ task[q] \in Rows /\ task[q] # 1 /\ phase[q] = "executing"
           /\ payload[task[q]] = task[q] - 1 /\ Uncounted(ItemOf(q))
    <2> SUFFICES ASSUME NEW q \in Runs, stage[q] \in Counting
                 PROVE  /\ task[q] \in Tasks /\ task[q] \in Rows /\ task[q] # 1 /\ phase[q] = "executing"
                        /\ payload[task[q]] = task[q] - 1 /\ Uncounted(ItemOf(q))
      OBVIOUS
    <2>1. phase[q] = "executing"
      BY DEF FanTypeOK, Counting
    <2>2. task[q] \in Tasks /\ task[q] \in Rows
      BY <2>1 DEF QueueParts, TaskOfRun, Busy, Rows
    <2>3. task[q] # 1 /\ Uncounted(ItemOf(q))
      BY DEF ItemsUncounted
    <2>4. payload[task[q]] = task[q] - 1
      BY <2>2 DEF FannedOut, Undisturbed
    <2> QED BY <2>1, <2>2, <2>3, <2>4
  <1>2. ItemOf(r) \in Items /\ task[r] = ItemOf(r) + 1
    <2>1. payload[task[r]] \in Items \cup {0}
      BY <1>1 DEF FanTypeOK, Parent
    <2>2. payload[task[r]] # 0 /\ task[r] \in Int
      BY <1>1 DEF Tasks
    <2> QED BY <1>1, <2>1, <2>2 DEF ItemOf, Items
  <1>3. status[task[r]] = "running" /\ \A q \in Runs : stage[q] \in Counting /\ q # r => task[q] # task[r]
    BY <1>1 DEF QueueParts, OwnedRows, Ownable, Owns, Undisturbed
  <1>4. \A t \in Rows \ {1} : status[t] = "pending" => payload[t] # ItemOf(r)
    BY <1>2, <1>3 DEF FannedOut, Undisturbed, Rows, Tasks
  <1>5. \A q \in Runs : stage[q] \in Counting /\ q # r => ItemOf(q) # ItemOf(r)
    BY <1>1, <1>2, <1>3 DEF ItemOf, Tasks
  <1> QED BY <1>1, <1>2, <1>4, <1>5

(* A step of such a child that does something to its item, and if it takes *)
(* the item out of the uncounted ones leaves it.                           *)
LEMMA ItemCounted ==
    ASSUME QueueParts, FanTypeOK, FannedOut, ItemsUncounted, NEW r \in Runs, stage[r] \in Counting,
           NEW v \in ItemStatuses, item' = [item EXCEPT ![ItemOf(r)] = v],
           NEW s \in Stages, stage' = [stage EXCEPT ![r] = s],
           v = "processing" \/ s \notin Counting, UNCHANGED <<status, task, reaped, faults, payload, stale, aged>>
    PROVE  ItemsUncounted'
  <1> SUFFICES ASSUME Undisturbed PROVE ItemsUncounted'
    BY DEF ItemsUncounted, Undisturbed
  <1>1. /\ ItemOf(r) \in Items /\ task[r] = ItemOf(r) + 1 /\ task[r] \in Rows
        /\ \A t \in Rows \ {1} : status[t] = "pending" => payload[t] # ItemOf(r)
        /\ \A q \in Runs : stage[q] \in Counting /\ q # r => ItemOf(q) # ItemOf(r)
    BY ItemAtWork
  <1>2. Rows' = Rows /\ \A q \in Runs : ItemOf(q)' = ItemOf(q)
    BY DEF Rows, ItemOf
  <1>3. \A i : Uncounted(i) /\ (i # ItemOf(r) \/ v = "processing") => Uncounted(i)' \/ i \notin Items
    BY DEF Uncounted, FanTypeOK
  <1>4. \A i \in Items : i + 1 \notin Rows => i # ItemOf(r) /\ Uncounted(i)
    BY <1>1 DEF ItemsUncounted
  <1>5. \A t \in Rows \ {1} : payload[t] \in Items
    <2> SUFFICES ASSUME NEW t \in Rows \ {1} PROVE payload[t] \in Items
      OBVIOUS
    <2>1. t \in Tasks /\ payload[t] = t - 1
      BY DEF FannedOut, Undisturbed, Rows
    <2>2. payload[t] \in Items \cup {0}
      BY <2>1 DEF FanTypeOK, Parent
    <2> QED BY <2>1, <2>2 DEF Tasks
  <1>6. \A t \in Rows' \ {1} : status'[t] = "pending" => Uncounted(payload[t])'
    BY <1>1, <1>2, <1>3, <1>5 DEF ItemsUncounted, Uncounted
  <1>7. ASSUME NEW q \in Runs, stage'[q] \in Counting PROVE task'[q] # 1 /\ Uncounted(ItemOf(q))'
    <2>1. stage[q] \in Counting /\ (q # r \/ v = "processing")
      BY <1>7 DEF FanTypeOK
    <2>2. ItemOf(q) \in Items /\ Uncounted(ItemOf(q)) /\ task[q] # 1
      BY <2>1, ItemAtWork DEF ItemsUncounted
    <2>3. ItemOf(q) # ItemOf(r) \/ v = "processing"
      BY <1>1, <2>1
    <2> QED BY <1>2, <1>3, <2>2, <2>3 DEF Uncounted
  <1>8. \A p \in Readers : stale'[p] = {}
    BY DEF ItemsUncounted
  <1>9. \A i \in Items : i + 1 \notin Rows' => Uncounted(i)'
    BY <1>2, <1>3, <1>4
  <1> QED BY <1>6, <1>7, <1>8, <1>9 DEF ItemsUncounted

(* What one counting adds to the items of that status.                     *)
LEMMA CountOneMore ==
    ASSUME FanTypeOK, NEW i \in Items, Uncounted(i), NEW v \in {"completed", "failed"},
           item' = [item EXCEPT ![i] = v]
    PROVE  /\ Cardinality({j \in Items : item'[j] = v}) = Cardinality({j \in Items : item[j] = v}) + 1
           /\ \A u \in {"completed", "failed"} : u # v =>
                 Cardinality({j \in Items : item'[j] = u}) = Cardinality({j \in Items : item[j] = u})
  <1>1. {j \in Items : item'[j] = v} = {j \in Items : item[j] = v} \cup {i}
    BY DEF FanTypeOK
  <1>2. IsFiniteSet(Items)
    BY FS_Interval, FanConstants DEF Items
  <1>3. IsFiniteSet({j \in Items : item[j] = v})
    BY <1>2, FS_Subset
  <1>4. i \notin {j \in Items : item[j] = v}
    BY DEF Uncounted
  <1>5. Cardinality({j \in Items : item[j] = v} \cup {i}) = Cardinality({j \in Items : item[j] = v}) + 1
    BY <1>3, <1>4, FS_AddElement
  <1>6. \A u \in {"completed", "failed"} : u # v =>
           {j \in Items : item'[j] = u} = {j \in Items : item[j] = u}
    BY DEF FanTypeOK, Uncounted
  <1> QED BY <1>1, <1>5, <1>6

LEMMA NextItems ==
    ASSUME QueueParts, FanTypeOK, RowsInOrder, FannedOut, ItemsUncounted, CountedOnce,
           [FanNext]_fanVars
    PROVE  ItemsUncounted' /\ CountedOnce'
  <1> DEFINE Calm == Undisturbed' => Undisturbed
             Unmoved == UNCHANGED <<item, done, bad, stale>> /\ payload' = payload
             SameRows == /\ Rows \subseteq Rows'
                         /\ Undisturbed' => \A t \in Rows' \ {1} : status'[t] = "pending" =>
                                                     t \in Rows /\ status[t] = "pending"
             SameRuns == Undisturbed' => \A r \in Runs : stage'[r] \in Counting =>
                            \/ stage[r] \in Counting /\ task'[r] = task[r]
                            \/ task'[r] \in Rows \ {1} /\ status[task'[r]] = "pending"
  <1>0. ASSUME Calm, Unmoved, SameRows, SameRuns PROVE ItemsUncounted' /\ CountedOnce'
    BY <1>0, ItemsKept
  <1>a. ASSUME ~Undisturbed' PROVE ItemsUncounted' /\ CountedOnce'
    BY <1>a DEF ItemsUncounted, CountedOnce, Ended
  <1>b. faults' = faults + 1 => ~Undisturbed'
    BY DEF Undisturbed, QueueParts, Types
  <1>c. status' = status => SameRows
    BY DEF Rows
  <1>d. ASSUME NEW r \in Runs, stage[r] \in Counting, Undisturbed
        PROVE  ItemOf(r) \in Items /\ Uncounted(ItemOf(r))
    BY <1>d, ItemAtWork
  <1>1. CASE CreateBulk
    <2>1. Rows = {}
      BY <1>1 DEF CreateBulk, RowsInOrder
    <2>2. Rows' \subseteq {1}
      BY <1>1, <2>1 DEF CreateBulk, Rows, QueueParts, Types
    <2>3. SameRows
      BY <2>1, <2>2
    <2>4. Calm /\ Unmoved /\ SameRuns
      BY <1>1 DEF CreateBulk, runs, history, bounds, local, readers, Undisturbed
    <2> QED BY <1>0, <2>3, <2>4
  <1>2. CASE TenMinutesPass
    BY <1>2, <1>a DEF TenMinutesPass, Undisturbed
  <1>3. ASSUME NEW p \in Readers, Reader(p) PROVE ItemsUncounted' /\ CountedOnce'
    <2>1. CASE ReadItems(p)
      BY <2>1, <1>a DEF ReadItems, Undisturbed
    <2>2. CASE TimeItemOut(p)
      <3>1. ~Undisturbed
        BY <2>2 DEF TimeItemOut, ItemsUncounted
      <3>2. ~Undisturbed'
        BY <2>2, <3>1 DEF TimeItemOut, Undisturbed, vars, history, bounds
      <3> QED BY <1>a, <3>2
    <2> QED BY <1>3, <2>1, <2>2 DEF Reader
  <1>4. ASSUME NEW r \in Runs, Child(r) PROVE ItemsUncounted' /\ CountedOnce'
    <2> USE DEF Quiet, table, runs, history, readers, At, To
    <2>1. CASE FanOut(r)
      BY <2>1, FanOutUncounted
    <2>2. CASE StartItem(r)
      <3>1. stage[r] \in Counting
        BY <2>2 DEF StartItem, Counting
      <3>2. ItemsUncounted'
        BY <2>2, <3>1, ItemCounted DEF StartItem, bounds, ItemStatuses, Stages
      <3>3. ASSUME Undisturbed PROVE CountedOnce'
        <4>1. Uncounted(ItemOf(r)) /\ UNCHANGED <<done, bad>>
          BY <2>2, <3>1, <3>3, <1>d DEF StartItem
        <4>2. \A i \in Items, v \in {"completed", "failed"} : item'[i] = v <=> item[i] = v
          BY <2>2, <4>1 DEF StartItem, FanTypeOK, Uncounted
        <4>3. \A v \in {"completed", "failed"} :
                 {i \in Items : item'[i] = v} = {i \in Items : item[i] = v}
          BY <4>2
        <4> QED BY <3>3, <4>1, <4>3 DEF CountedOnce, Ended
      <3>4. Undisturbed' => Undisturbed
        BY <2>2 DEF StartItem, bounds, Undisturbed
      <3> QED BY <3>2, <3>3, <3>4 DEF CountedOnce, Ended
    <2>3. CASE PipelineEnds(r) \/ LastChild(r)
      <3>1. Calm /\ Unmoved /\ status' = status
        BY <2>3 DEF PipelineEnds, LastChild, bounds, jobTable, Undisturbed
      <3>2. SameRuns
        BY <2>3 DEF PipelineEnds, LastChild, FanTypeOK, Counting
      <3> QED BY <1>0, <1>c, <3>1, <3>2
    <2>4. CASE Finalize(r) \/ Refund(r)
      <3>1. Calm /\ Unmoved /\ status' = status
        BY <2>4 DEF Finalize, Refund, bounds, jobTable, Undisturbed
      <3>2. SameRuns
        BY <2>4 DEF Finalize, Refund, FanTypeOK, Counting
      <3> QED BY <1>0, <1>c, <3>1, <3>2
    <2>5. ASSUME Succeed(r) \/ Err(r) PROVE ItemsUncounted' /\ CountedOnce'
      <3>1. stage[r] \in Counting
        BY <2>5 DEF Succeed, Err, Counting
      <3>2. PICK v \in {"completed", "failed"} :
               /\ item' = [item EXCEPT ![ItemOf(r)] = v]
               /\ done' = IF v = "completed" THEN done + 1 ELSE done
               /\ bad' = IF v = "failed" THEN bad + 1 ELSE bad
        BY <2>5 DEF Succeed, Err, CountCompleted, CountFailed
      <3>3. ItemsUncounted'
        <4>1. stage' = [stage EXCEPT ![r] = "check"] /\ UNCHANGED <<status, task, reaped, faults, payload, stale, aged>>
          BY <2>5 DEF Succeed, Err, bounds
        <4>2. v \in ItemStatuses /\ "check" \in Stages /\ "check" \notin Counting
          BY DEF ItemStatuses, Stages, Counting
        <4> QED BY <3>1, <3>2, <4>1, <4>2, ItemCounted
      <3>4. Undisturbed' => Undisturbed
        BY <2>5 DEF Succeed, Err, bounds, Undisturbed
      <3>5. ASSUME Undisturbed PROVE CountedOnce'
        <4>1. ItemOf(r) \in Items /\ Uncounted(ItemOf(r))
          BY <3>1, <3>5, <1>d
        <4>2. /\ Cardinality({j \in Items : item'[j] = v}) = Cardinality({j \in Items : item[j] = v}) + 1
              /\ \A u \in {"completed", "failed"} : u # v =>
                    Cardinality({j \in Items : item'[j] = u}) = Cardinality({j \in Items : item[j] = u})
          BY <3>2, <4>1, CountOneMore
        <4>3. /\ done = Cardinality({i \in Items : item[i] = "completed"})
              /\ bad = Cardinality({i \in Items : item[i] = "failed"})
          BY <3>5 DEF CountedOnce, Ended
        <4>4. CASE v = "completed"
          BY <3>2, <4>2, <4>3, <4>4 DEF CountedOnce, Ended
        <4>5. CASE v = "failed"
          BY <3>2, <4>2, <4>3, <4>5 DEF CountedOnce, Ended
        <4> QED BY <4>4, <4>5
      <3> QED BY <3>3, <3>4, <3>5 DEF CountedOnce, Ended
    <2>6. CASE SucceedRaises(r) \/ Raises(r)
      BY <1>a, <1>b, <2>6 DEF SucceedRaises, Raises, Fault
    <2>7. CASE Returns(r)
      <3>1. Calm /\ Unmoved /\ status' = status
        BY <2>7 DEF Returns, BodyReturns, bounds, jobTable, Undisturbed
      <3>2. SameRuns
        BY <2>7 DEF Returns, BodyReturns, FanTypeOK, Counting
      <3> QED BY <1>0, <1>c, <3>1, <3>2
    <2> QED BY <1>4, <2>1, <2>2, <2>3, <2>4, <2>5, <2>6, <2>7 DEF Child
  <1>5. ASSUME NEW r \in Runs, QueueSettles(r) PROVE ItemsUncounted' /\ CountedOnce'
    <2>1. /\ Unmoved /\ UNCHANGED <<stage, aged>> /\ Rows' = Rows
          /\ reaped' = reaped /\ faults' \in {faults, faults + 1}
      BY <1>5, SettleEffect, ReportEffect, RowsStay
      DEF QueueSettles, Settle, bulkVars, jobTable, local, readers
    <2>2. CASE Undisturbed'
      <3>1. Undisturbed
        BY <2>1, <2>2 DEF Undisturbed, QueueParts, Types
      <3>2. phase[r] \notin {"failing", "unheard", "exhausted"}
        BY <3>1 DEF FannedOut, Undisturbed
      <3>3. /\ phase[r] = "completing"
            /\ \A q \in Runs \ {r} : task'[q] = task[q]
            /\ \A t \in Tasks : status'[t] = status[t] \/ status'[t] = "completed"
        BY <1>5, <3>2, SettleEffect, ReportEffect DEF QueueSettles, Settle, Failing
      <3>4. SameRows
        BY <2>1, <3>3 DEF Rows
      <3>5. SameRuns
        BY <2>1, <3>3 DEF FanTypeOK, Counting
      <3> QED BY <1>0, <2>1, <3>1, <3>4, <3>5
    <2> QED BY <1>a, <2>2
  <1>6. ASSUME NEW w \in Workers, PollTurn(w) PROVE ItemsUncounted' /\ CountedOnce'
    <2>1. /\ \A t \in Tasks : \/ status'[t] = status[t]
                              \/ status[t] = "running" /\ t \in reaped'
                              \/ status[t] = "pending" /\ status'[t] = "running"
                              \/ status'[t] = "deleted"
          /\ \A r \in Runs : \/ phase'[r] = phase[r] /\ task'[r] = task[r]
                             \/ phase'[r] = "idle"
                             \/ /\ phase[r] = "idle" /\ phase'[r] = "executing"
                                /\ task'[r] \in Tasks /\ status[task'[r]] = "pending"
          /\ reaped \subseteq reaped' /\ faults' \in {faults, faults + 1}
      BY <1>6, TurnEffect DEF PollTurn
    <2>2. Rows' = Rows
      BY <1>6, RowsStay DEF PollTurn
    <2>3. Unmoved /\ aged' = aged
      BY <1>6 DEF PollTurn, jobTable, readers
    <2>4. Calm
      BY <2>1, <2>3 DEF Undisturbed, QueueParts, Types
    <2>5. SameRows
      BY <2>1, <2>2 DEF Undisturbed, Rows
    <2>6. SameRuns
      <3> SUFFICES ASSUME Undisturbed', NEW r \in Runs, stage'[r] \in Counting
                   PROVE  \/ stage[r] \in Counting /\ task'[r] = task[r]
                          \/ task'[r] \in Rows \ {1} /\ status[task'[r]] = "pending"
        OBVIOUS
      <3>1. \/ phase[r] = "executing" /\ phase'[r] = "executing" /\ stage'[r] = stage[r]
            \/ phase[r] # "executing" /\ phase'[r] = "executing" /\ payload[task'[r]] # Parent
        BY <1>6, <2>3 DEF PollTurn, LocalFollows, Counting
      <3>2. CASE phase[r] = "executing" /\ phase'[r] = "executing" /\ stage'[r] = stage[r]
        BY <2>1, <3>2
      <3>3. CASE phase[r] # "executing" /\ phase'[r] = "executing" /\ payload[task'[r]] # Parent
        <4>1. task'[r] \in Rows /\ status[task'[r]] = "pending"
          BY <2>1, <3>3 DEF Rows
        <4>2. task'[r] # 1
          <5>1. 1 \in Rows => payload[1] = 0
            BY <2>4 DEF FannedOut, Undisturbed
          <5> QED BY <3>3, <4>1, <5>1 DEF Parent
        <4> QED BY <4>1, <4>2
      <3> QED BY <3>1, <3>2, <3>3
    <2> QED BY <1>0, <2>3, <2>4, <2>5, <2>6
  <1>7. ASSUME NEW w \in Workers, Crashes(w) PROVE ItemsUncounted' /\ CountedOnce'
    BY <1>a, <1>b, <1>7 DEF Crashes, Crash, Fault
  <1>8. ASSUME NEW w \in Workers, Reboot(w) PROVE ItemsUncounted' /\ CountedOnce'
    BY <1>0, <1>c, <1>8 DEF Reboot, Restart, table, runs, history, bounds, local, readers, Undisturbed
  <1>9. CASE Time /\ UNCHANGED bulkVars
    BY <1>0, <1>c, <1>9 DEF Time, BackoffElapses, TimeoutElapses, runs, history, bounds,
                            bulkVars, jobTable, local, readers, Undisturbed
  <1>10. CASE UNCHANGED fanVars
    BY <1>0, <1>c, <1>10 DEF fanVars, vars, table, runs, history, bounds,
                             bulkVars, jobTable, local, readers, Undisturbed
  <1> QED BY <1>1, <1>2, <1>3, <1>4, <1>5, <1>6, <1>7, <1>8, <1>9, <1>10 DEF FanNext
(* Nothing that ends is left out of the counters.                          *)
LEMMA CountsNoMore ==
    ASSUME FanTypeOK, NEW i, NEW v \in ItemStatuses, NEW u \in {"completed", "failed"},
           item' = [item EXCEPT ![i] = v]
    PROVE  /\ Ended(u) \in Nat /\ Ended(u)' \in Nat
           /\ Ended(u)' <= Ended(u) + (IF u = v THEN 1 ELSE 0)
  <1> DEFINE Old == {j \in Items : item[j] = u}
             New == {j \in Items : item'[j] = u}
  <1>1. IsFiniteSet(Items)
    BY FS_Interval, FanConstants DEF Items
  <1>2. IsFiniteSet(Old) /\ IsFiniteSet(New)
    BY <1>1, FS_Subset
  <1>3. Cardinality(Old) \in Nat /\ Cardinality(New) \in Nat
    BY <1>2, FS_CardinalityType
  <1>4. CASE u = v
    <2>1. New \subseteq Old \cup {i}
      BY DEF FanTypeOK
    <2>2. IsFiniteSet(Old \cup {i})
      BY <1>2, FS_AddElement
    <2>3. Cardinality(New) <= Cardinality(Old \cup {i})
      BY <2>1, <2>2, FS_Subset
    <2>4. Cardinality(Old \cup {i}) <= Cardinality(Old) + 1
      BY <1>2, <1>3, FS_AddElement
    <2>5. Cardinality(Old \cup {i}) \in Nat
      BY <2>2, FS_CardinalityType
    <2> QED BY <1>3, <1>4, <2>3, <2>4, <2>5 DEF Ended
  <1>5. CASE u # v
    <2>1. New \subseteq Old
      BY <1>5 DEF FanTypeOK
    <2>2. Cardinality(New) <= Cardinality(Old)
      BY <1>2, <2>1, FS_Subset
    <2> QED BY <1>3, <1>5, <2>2 DEF Ended
  <1> QED BY <1>4, <1>5

LEMMA CountingCounts ==
    ASSUME FanTypeOK, NothingUncounted, NEW i, CountCompleted(i) \/ CountFailed(i)
    PROVE  NothingUncounted'
  <1>1. "completed" \in ItemStatuses /\ "failed" \in ItemStatuses
    BY DEF ItemStatuses
  <1>2. CASE CountCompleted(i)
    <2>1. /\ Ended("completed")' <= Ended("completed") + 1 /\ Ended("completed")' \in Nat
          /\ Ended("failed")' <= Ended("failed") + 0 /\ Ended("failed")' \in Nat
          /\ Ended("completed") \in Nat /\ Ended("failed") \in Nat
      BY <1>1, <1>2, CountsNoMore DEF CountCompleted
    <2> QED BY <1>2, <2>1 DEF CountCompleted, NothingUncounted, FanTypeOK
  <1>3. CASE CountFailed(i)
    <2>1. /\ Ended("completed")' <= Ended("completed") + 0 /\ Ended("completed")' \in Nat
          /\ Ended("failed")' <= Ended("failed") + 1 /\ Ended("failed")' \in Nat
          /\ Ended("completed") \in Nat /\ Ended("failed") \in Nat
      BY <1>1, <1>3, CountsNoMore DEF CountFailed
    <2> QED BY <1>3, <2>1 DEF CountFailed, NothingUncounted, FanTypeOK
  <1> QED BY <1>2, <1>3

LEMMA NextNothingUncounted ==
    ASSUME FanTypeOK, NothingUncounted, [FanNext]_fanVars
    PROVE  NothingUncounted'
  <1>0. ASSUME UNCHANGED <<item, done, bad>> PROVE NothingUncounted'
    BY <1>0 DEF NothingUncounted, Ended
  <1> USE DEF jobTable
  <1>1. CASE CreateBulk \/ TenMinutesPass
    BY <1>0, <1>1 DEF CreateBulk, TenMinutesPass
  <1>2. ASSUME NEW p \in Readers, Reader(p) PROVE NothingUncounted'
    BY <1>0, <1>2, CountingCounts DEF Reader, ReadItems, TimeItemOut
  <1>3. ASSUME NEW r \in Runs, Child(r) PROVE NothingUncounted'
    <2>1. CASE StartItem(r)
      <3>1. "processing" \in ItemStatuses
        BY DEF ItemStatuses
      <3>2. /\ Ended("completed")' <= Ended("completed") + 0 /\ Ended("completed")' \in Nat
            /\ Ended("failed")' <= Ended("failed") + 0 /\ Ended("failed")' \in Nat
            /\ Ended("completed") \in Nat /\ Ended("failed") \in Nat
        BY <2>1, <3>1, CountsNoMore DEF StartItem
      <3> QED BY <2>1, <3>2 DEF StartItem, NothingUncounted, FanTypeOK
    <2>2. CASE Succeed(r) \/ SucceedRaises(r) \/ Err(r)
      BY <1>0, <2>2, CountingCounts DEF Succeed, SucceedRaises, Err
    <2>3. CASE FanOut(r) \/ PipelineEnds(r) \/ LastChild(r) \/ Finalize(r) \/ Refund(r)
               \/ Returns(r) \/ Raises(r)
      BY <1>0, <2>3 DEF FanOut, PipelineEnds, LastChild, Finalize, Refund, Returns, Raises
    <2> QED BY <1>3, <2>1, <2>2, <2>3 DEF Child
  <1>4. ASSUME NEW r \in Runs, QueueSettles(r) PROVE NothingUncounted'
    BY <1>0, <1>4 DEF QueueSettles, bulkVars
  <1>5. ASSUME NEW w \in Workers, PollTurn(w) \/ Crashes(w) \/ Reboot(w) PROVE NothingUncounted'
    BY <1>0, <1>5 DEF PollTurn, Crashes, Reboot
  <1>6. CASE UNCHANGED bulkVars \/ UNCHANGED fanVars
    BY <1>0, <1>6 DEF bulkVars, fanVars
  <1> QED BY <1>1, <1>2, <1>3, <1>4, <1>5, <1>6 DEF FanNext

-----------------------------------------------------------------------------
(* The theorems. *)

LEMMA FanInitInv == FanInit => FanInv
  <1> SUFFICES ASSUME FanInit PROVE FanInv
    OBVIOUS
  <1> USE DEF FanInit
  <1>1. Init /\ Types
    BY InitTypes
  <1>2. QueueParts
    BY <1>1, QueueConstants
    DEF QueueParts, Init, TaskOfRun, Busy, LockedRows, NoTask, RowCounts, RowCount, OwnedRows, Owns,
        LostReplies
  <1>3. FanTypeOK
    BY <1>1 DEF FanTypeOK, Init, ItemStatuses, Stages
  <1>4. Rows = {}
    BY <1>1 DEF Init, Rows
  <1>5. RowsInOrder
    <2>1. Rows = 1 .. 0
      BY <1>4
    <2> QED BY <1>4, <2>1 DEF RowsInOrder
  <1>6. OneFinalizer /\ OneRefund
    BY DEF OneFinalizer, OneRefund
  <1>7. FannedOut /\ ItemsUncounted
    BY <1>1, <1>4 DEF FannedOut, ItemsUncounted, Init, Uncounted, Counting
  <1>8. CountedOnce /\ NothingUncounted
    <2>1. {i \in Items : item[i] = "completed"} = {} /\ {i \in Items : item[i] = "failed"} = {}
      OBVIOUS
    <2>2. Ended("completed") = 0 /\ Ended("failed") = 0
      BY <2>1, FS_EmptySet DEF Ended
    <2>3. done = 0 /\ bad = 0
      OBVIOUS
    <2> QED BY <2>2, <2>3 DEF CountedOnce, NothingUncounted
  <1> QED BY <1>2, <1>3, <1>5, <1>6, <1>7, <1>8 DEF FanInv

\* The inductive invariant holds in every reachable state.
THEOREM FanInvariant == FanSpec => []FanInv
  <1>1. FanInit => FanInv
    BY FanInitInv
  <1>2. FanInv /\ [FanNext]_fanVars => FanInv'
    <2> SUFFICES ASSUME FanInv, [FanNext]_fanVars PROVE FanInv'
      OBVIOUS
    <2>1. QueueParts' /\ FanTypeOK' /\ RowsInOrder'
      BY FanStepKeepsQueue, NextFanTypes, NextRowsInOrder DEF FanInv
    <2>2. OneFinalizer' /\ OneRefund'
      BY <2>1, NextFinalization DEF FanInv
    <2>3. FannedOut' /\ ItemsUncounted' /\ CountedOnce'
      BY NextFannedOut, NextItems DEF FanInv
    <2>4. NothingUncounted'
      BY NextNothingUncounted DEF FanInv
    <2> QED BY <2>1, <2>2, <2>3, <2>4 DEF FanInv
  <1> QED BY <1>1, <1>2, PTL DEF FanSpec

\* Every variable of the bulk job keeps its type, and a coroutine is at a stage of the
\* job exactly while the queue says that it executes.
THEOREM FanTypeCorrect == FanSpec => []FanTypeOK
  BY FanInvariant, PTL DEF FanInv

\* While its marker lives, the job is finalized once, however many children end at the
\* same moment or run again, and no failure is refunded that was not counted; and no item
\* that ended is missing from the count.
THEOREM OneChildFinalizes == FanSpec => []FinalizedSoundly
  <1>1. FanInv => FinalizedSoundly
    BY DEF FanInv, FinalizedSoundly, FinalizedAtMostOnce, RefundedFailuresOnly, OneFinalizer, OneRefund
  <1> QED BY <1>1, FanInvariant, PTL

\* The parent gives every item one row, unless it was reaped or a statement failed.
THEOREM ItemsGetOneRow == FanSpec => []OneRowPerItem
  <1>1. FanInv => OneRowPerItem
    BY DEF FanInv, FannedOut, OneRowPerItem, Rows, Tasks
  <1> QED BY <1>1, FanInvariant, PTL

\* No completed or failed item is missing from the counters of its job, whatever dies, is
\* requeued as stale or is timed out by a reader; and while no statement failed, no process
\* died, nothing was requeued and no item is old enough to be timed out, the counters are
\* exactly what the items say. (Disturbed, an item may be counted twice.)
THEOREM ItemsCounted == FanSpec => []CountersExact
  <1>1. FanInv => CountersExact
    BY DEF FanInv, CountersExact
  <1> QED BY <1>1, FanInvariant, PTL

\* The queue's own promises still hold when a bulk job inserts rows into its table.
THEOREM QueueHoldsUnderBulkJobs == FanSpec => [](NoStrandedTask /\ OneRunUnlessReaped)
  <1>1. FanInv => NoStrandedTask
    BY DEF FanInv, QueueParts, RowCounts, RowCount, NoStrandedTask
  <1>2. FanInv => OneRunUnlessReaped
    BY DEF FanInv, QueueParts, OwnedRows, OneRunUnlessReaped
  <1> QED BY <1>1, <1>2, FanInvariant, PTL
=============================================================================

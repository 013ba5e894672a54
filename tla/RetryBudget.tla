---------------------------- MODULE RetryBudget ----------------------------
(***************************************************************************)
(* What the durable task queue promises whoever enqueues a task, with the  *)
(* rows, the workers, the locks and the clock left out: every grant (the   *)
(* insertion of the task, or an operator's retry of a failed one) allows   *)
(* at most MaxAttempts runs of the job, and a run that was lost still      *)
(* counts as one of them.                                                  *)
(***************************************************************************)
EXTENDS Integers

CONSTANTS Tasks, MaxAttempts

VARIABLES left,      \* runs a task may still start under its current grant
          started    \* runs it has started under that grant

budgetVars == <<left, started>>

BudgetInit == /\ left = [t \in Tasks |-> 0]
              /\ started = [t \in Tasks |-> 0]

Keep(t) == left'[t] = left[t] /\ started'[t] = started[t]

\* Only a task with nothing left is granted (again).
Grant(t) == left[t] = 0 /\ left'[t] = MaxAttempts /\ started'[t] = 0

Start(t) == /\ left[t] > 0
            /\ left'[t] = left[t] - 1
            /\ started'[t] = started[t] + 1

\* A lost run is written off, or the task leaves the queue altogether.
Forfeit(t) == left'[t] \in 0 .. left[t] /\ started'[t] = started[t]

BudgetNext ==
    /\ left' \in [Tasks -> 0 .. MaxAttempts]
    /\ started' \in [Tasks -> 0 .. MaxAttempts]
    /\ \A t \in Tasks : Keep(t) \/ Grant(t) \/ Start(t) \/ Forfeit(t)

BudgetSpec == BudgetInit /\ [][BudgetNext]_budgetVars

\* A grant never pays for more than MaxAttempts runs.
WithinBudget == \A t \in Tasks : started[t] + left[t] <= MaxAttempts
=============================================================================

---------------------------- MODULE Automation -----------------------------
(***************************************************************************)
(* What follows the analysis of a list: the rules of the user, evaluated   *)
(* one after the other (services/automation.py, db/automation.py), and the *)
(* batches over the accounts of the list that a rule or the user starts    *)
(* (run_batch_write_sequences, run_batch_enrich in api/jobs.py).           *)
(***************************************************************************)
EXTENDS Integers, Sequences, FiniteSets

CONSTANTS
    Accounts,       \* the completed accounts are 1 .. Accounts, in the order of the list
    Thresholds,     \* composite_score_gte of the enabled rules, in the order of their ids
    Retired,        \* the rules whose action is of a deprecated or unknown kind
    Scores,         \* composite scores, NULL read as 0 among them
    BatchPermits,   \* permits of a batch's semaphore
    ChunkSize,      \* BATCH_SIZE
    BatchFaults     \* bound: failed statements and deaths

VARIABLES
    composite,      \* list_accounts.composite_score
    outreach,       \* list_accounts.outreach_status or enrichment_status
    engine,         \* the rule being evaluated, and where evaluate_rules is
    ruleRun,        \* automation_runs.status by rule
    batch,          \* by starter: accounts to come, of the chunk, in process, treated
    slips

autoVars == <<composite, outreach, engine, ruleRun, batch, slips>>

List == 1 .. Accounts
Rules == DOMAIN Thresholds
Starters == {"rule", "user"}
NoBatch == [runs |-> FALSE, left |-> {}, chunk |-> {}, busy |-> {}, treated |-> {}, missed |-> {}]

AutoInit ==
    /\ composite \in [List -> Scores]
    /\ outreach = [a \in List |-> "none"]
    /\ engine = [at |-> "next", rule |-> 1]
    /\ ruleRun = [r \in Rules |-> "none"]
    /\ batch = [b \in Starters |-> NoBatch]
    /\ slips = 0

AutoTypeOK ==
    /\ outreach \in [List -> {"none", "pending", "completed", "failed"}]
    /\ engine.at \in {"next", "acting", "closing", "over"} /\ engine.rule \in 1 .. Len(Thresholds) + 1
    /\ ruleRun \in [Rules -> {"none", "running", "completed", "failed"}]
    /\ \A b \in Starters : Cardinality(batch[b].busy) <= BatchPermits

\* filter_by_conditions
Matching(r) == {a \in List : composite[a] >= Thresholds[r]}
EngineAt(p) == engine.at = p
EngineTo(p) == engine' = [engine EXCEPT !.at = p]
NextRule == engine' = [at |-> "next", rule |-> engine.rule + 1]
Slip == slips < BatchFaults /\ slips' = slips + 1
StartBatch(b, as) == batch' = [batch EXCEPT ![b] = [NoBatch EXCEPT !.runs = TRUE, !.left = as]]
SetRun(s) == ruleRun' = [ruleRun EXCEPT ![engine.rule] = s]
-----------------------------------------------------------------------------
(* evaluate_rules and execute_action *)

\* A rule that nothing matches leaves no run; a deprecated action raises into its own handler.
EvaluateRule ==
    LET r == engine.rule
    IN  /\ EngineAt("next")
        /\ \/ r \notin Rules /\ EngineTo("over") /\ UNCHANGED <<ruleRun, batch>>
           \/ r \in Rules /\ Matching(r) = {} /\ NextRule /\ UNCHANGED <<ruleRun, batch>>
           \/ r \in Rules /\ Matching(r) # {} /\ r \in Retired
              /\ SetRun("failed") /\ NextRule /\ UNCHANGED batch
           \/ r \in Rules /\ Matching(r) # {} /\ r \notin Retired
              /\ SetRun("running") /\ EngineTo("acting") /\ StartBatch("rule", Matching(r))
        /\ UNCHANGED <<composite, outreach, slips>>

\* create_automation_run is outside the handler: with it, evaluate_rules is over.
NoRunRecord ==
    /\ EngineAt("next") /\ engine.rule \in Rules /\ Matching(engine.rule) # {}
    /\ Slip /\ EngineTo("over")
    /\ UNCHANGED <<composite, outreach, ruleRun, batch>>

ActionReturns ==
    /\ EngineAt("acting") /\ ~batch["rule"].runs
    /\ EngineTo("closing")
    /\ UNCHANGED <<composite, outreach, ruleRun, batch, slips>>

\* complete_automation_run: the batch swallows what fails in it, so the run is completed.
CloseRun ==
    /\ EngineAt("closing")
    /\ SetRun("completed") /\ NextRule
    /\ UNCHANGED <<composite, outreach, batch, slips>>

\* The statement fails, and the one of the handler follows, or fails as well.
CloseFails ==
    /\ EngineAt("closing") /\ Slip
    /\ \/ SetRun("failed") /\ NextRule
       \/ EngineTo("over") /\ UNCHANGED ruleRun
    /\ UNCHANGED <<composite, outreach, batch>>
-----------------------------------------------------------------------------
(* The batches.  The user's is a task of the queue; the rule's runs inside *)
(* the task that finished the list.                                        *)

UserStarts ==
    /\ batch["user"] = NoBatch
    /\ \E as \in SUBSET List \ {{}} : StartBatch("user", as)
    /\ UNCHANGED <<composite, outreach, engine, ruleRun, slips>>

FirstOf(s, n) == {a \in s : Cardinality({b \in s : b < a}) < n}

\* The next chunk once the last account of the one before is done; after the last one the end.
NextChunk(b) ==
    LET c == FirstOf(batch[b].left, ChunkSize)
    IN  /\ batch[b].runs /\ batch[b].chunk = {} /\ batch[b].busy = {}
        /\ batch' = [batch EXCEPT ![b] = [@ EXCEPT !.runs = batch[b].left # {}, !.chunk = c, !.left = batch[b].left \ c]]
        /\ UNCHANGED <<composite, outreach, engine, ruleRun, slips>>

\* A permit of the semaphore, then the account is pending.
Take(b, a) ==
    /\ a \in batch[b].chunk /\ Cardinality(batch[b].busy) < BatchPermits
    /\ batch' = [batch EXCEPT ![b].chunk = @ \ {a}, ![b].busy = @ \cup {a}]
    /\ outreach' = [outreach EXCEPT ![a] = "pending"]
    /\ UNCHANGED <<composite, engine, ruleRun, slips>>

\* Mutant: a document that is gone ends the account without an entry.
TreatQuietly(b, a) ==
    /\ a \in batch[b].busy
    /\ batch' = [batch EXCEPT ![b].busy = @ \ {a}, ![b].treated = @ \cup {a}]
    /\ \E s \in {outreach[a], "completed", "failed"} : outreach' = [outreach EXCEPT ![a] = s]
    /\ UNCHANGED <<composite, engine, ruleRun, slips>>

\* Written or enriched; no document, no URL, an exception: failed.
Treat(b, a) ==
    /\ a \in batch[b].busy
    /\ batch' = [batch EXCEPT ![b].busy = @ \ {a}, ![b].treated = @ \cup {a}]
    /\ \E s \in {"completed", "failed"} : outreach' = [outreach EXCEPT ![a] = s]
    /\ UNCHANGED <<composite, engine, ruleRun, slips>>

\* The entry of the failure fails: gather keeps the exception and the account stays pending.
TreatRaises(b, a) ==
    /\ a \in batch[b].busy /\ Slip
    /\ batch' = [batch EXCEPT ![b].busy = @ \ {a}, ![b].missed = @ \cup {a}]
    /\ UNCHANGED <<composite, outreach, engine, ruleRun>>

\* The process dies; the user's batch is not resumed here, the run of the rule never.
BatchDies(b) ==
    /\ batch[b].runs /\ Slip
    /\ batch' = [batch EXCEPT ![b] = [NoBatch EXCEPT !.missed = batch[b].busy \cup batch[b].chunk \cup batch[b].left]]
    /\ IF b = "rule" THEN EngineTo("over") ELSE UNCHANGED engine
    /\ UNCHANGED <<composite, outreach, ruleRun>>

BatchGoesOn(b) == NextChunk(b) \/ \E a \in List : Take(b, a) \/ Treat(b, a)
EngineGoesOn == EvaluateRule \/ ActionReturns \/ CloseRun

AutoNext ==
    \/ EngineGoesOn \/ NoRunRecord \/ CloseFails \/ UserStarts
    \/ \E b \in Starters :
        \/ BatchGoesOn(b) \/ BatchDies(b)
        \/ \E a \in List : TreatRaises(b, a)

AutoSpec == AutoInit /\ [][AutoNext]_autoVars
-----------------------------------------------------------------------------
(* A rule acts on the accounts that match it and on all of them, chunk by  *)
(* chunk, before its run is completed; an account is pending only while a  *)
(* batch works on it or because a statement failed under one (process and  *)
(* the gather around it, even with two batches over the same accounts).    *)
RulesActOnMatches ==
    /\ engine.rule \in Rules => batch["rule"].busy \cup batch["rule"].treated \subseteq
           UNION {Matching(r) : r \in 1 .. engine.rule}
    /\ EngineAt("closing") => batch["rule"].treated \cup batch["rule"].missed = Matching(engine.rule)
    /\ \A a \in List : outreach[a] = "pending" =>
           slips > 0 \/ \E b \in Starters : a \in batch[b].busy

(* One rule that fails does not keep the ones after it from running: a     *)
(* rule that was passed over had nothing to act on (execute_action's own   *)
(* handler).                                                               *)
RulesAreIndependent ==
    \A r \in Rules : r < engine.rule => (ruleRun[r] = "none" <=> Matching(r) = {})
=============================================================================

----------------------------- MODULE MCPayments -----------------------------
(* Who pays for what: the account itself (CreditAccount), the analysis of a *)
(* list (ListAnalysis) and the recurring research of the watchlist          *)
(* (Watchlist).  A behaviour is of one part, chosen in the initial state;   *)
(* the others rest.  Lists are two parts: in "list" one request at a time   *)
(* works on every account and something may fail, in "race" all requests    *)
(* work on the first account and nothing fails.                             *)
EXTENDS CreditAccount, ListAnalysis, Watchlist

CONSTANTS a, b, s1, q1, q2, i1, w1, w2, r1, r2

VARIABLE part

Alone == INSTANCE ListAnalysis WITH ListRequests <- {q1}
Race == INSTANCE ListAnalysis WITH NAccounts <- 1, MaxListFaults <- 0

paymentVars == <<part, creditVars, listVars, watchVars>>

PaymentInit ==
    /\ part \in {"credit", "list", "race", "watch"}
    /\ CreditInit /\ ListInit /\ WatchInit

PaymentNext ==
    \/ part = "credit" /\ CreditNext /\ UNCHANGED <<part, listVars, watchVars>>
    \/ part = "list" /\ Alone!ListNext /\ UNCHANGED <<part, creditVars, watchVars>>
    \/ part = "race" /\ Race!ListNext /\ UNCHANGED <<part, creditVars, watchVars>>
    \/ part = "watch" /\ WatchNext /\ UNCHANGED <<part, creditVars, listVars>>

InCredit(step) == part = "credit" /\ step /\ UNCHANGED <<part, listVars, watchVars>>
InList(p, step) == part = p /\ step /\ UNCHANGED <<part, creditVars, watchVars>>
InWatch(step) == part = "watch" /\ step /\ UNCHANGED <<part, creditVars, listVars>>

(* The fairness of the part that moves: CreditFairSpec, ListFair, WatchFair. *)
PaymentFair ==
    /\ \A c \in Callers : WF_paymentVars(InCredit(Goes(c)))
    /\ \A q \in {q1} :
         /\ WF_paymentVars(InList("list", Alone!RequestGoesOn(q)))
         /\ WF_paymentVars(InList("list", Alone!PollCounts(q)))
    /\ \A q \in ListRequests :
         /\ WF_paymentVars(InList("race", Race!RequestGoesOn(q)))
         /\ WF_paymentVars(InList("race", Race!PollCounts(q)))
    /\ \A s \in Slots :
         /\ WF_paymentVars(InList("list", Alone!TaskGoesOn(s)))
         /\ WF_paymentVars(InList("race", Race!TaskGoesOn(s)))
    /\ WF_paymentVars(InWatch(TimePasses))
    /\ \A w \in Schedulers : WF_paymentVars(InWatch(Schedule(w)))
    /\ \A r \in WatchRuns : WF_paymentVars(InWatch(RunGoesOn(r)))

PaymentSpec == PaymentInit /\ [][PaymentNext]_paymentVars /\ PaymentFair

-----------------------------------------------------------------------------
(* A list that was paid for and queued is finalized in the end, and an      *)
(* active item of the watchlist is researched again, even if a scheduler    *)
(* dies between its claim and its task (pipeline_status, claim_due_items).  *)
NothingIsForgotten == ListSettles /\ ResearchedAgain
=============================================================================

------------------------------ MODULE Reports ------------------------------
(***************************************************************************)
(* _deliver_webhook (api/jobs.py) with the user's registration             *)
(* (api/webhooks.py, routes/settings.py, db/webhooks.py): what a job       *)
(* reports, to whom, how often, and what the record of the delivery says.  *)
(***************************************************************************)
EXTENDS Integers, FiniteSets, FiniteSetsExt

CONSTANTS
    Deliveries,     \* events that jobs report
    Attempts,       \* WEBHOOK_MAX_RETRIES
    BackoffBase,    \* WEBHOOK_BACKOFF_BASE, seconds
    LongestSleep,   \* its cap
    Secrets,        \* registrations: a URL and its secret
    ReportFaults    \* bound: failed statements and deaths

VARIABLES
    hook,           \* webhooks: the registration and whether it is active
    delivery,       \* webhook_deliveries and the coroutine: see NotStarted
    received,       \* history: how often the endpoint got the event
    unsure,         \* history: deliveries with an answer or an entry that was lost
    mishaps

reportVars == <<hook, delivery, received, unsure, mishaps>>

NoSecret == "none"
NotStarted == [at |-> "free", to |-> NoSecret, status |-> "none", tries |-> 0, slept |-> 0, answer |-> "none"]

ReportInit ==
    /\ hook = NoSecret
    /\ delivery = [d \in Deliveries |-> NotStarted]
    /\ received = [d \in Deliveries |-> 0]
    /\ unsure = {}
    /\ mishaps = 0

ReportTypeOK ==
    /\ hook \in Secrets \cup {NoSecret}
    /\ \A d \in Deliveries :
        /\ delivery[d].at \in {"free", "recording", "posting", "entering", "sleeping", "spent", "over"}
        /\ delivery[d].status \in {"none", "pending", "success", "failed"}
        /\ delivery[d].tries \in 0 .. Attempts

DeliveryAt(d, p) == delivery[d].at = p

\* register_webhook, create_webhook_route (upsert_webhook); remove_webhook, delete_webhook_route.
Register == hook' \in Secrets /\ hook' # hook /\ UNCHANGED <<delivery, received, unsure, mishaps>>
Unregister == hook # NoSecret /\ hook' = NoSecret /\ UNCHANGED <<delivery, received, unsure, mishaps>>

\* The active webhook, if it subscribes to the type: URL and secret are what they are now.
Report(d) ==
    /\ DeliveryAt(d, "free") /\ hook # NoSecret
    /\ delivery' = [delivery EXCEPT ![d].at = "recording", ![d].to = hook]
    /\ UNCHANGED <<hook, received, unsure, mishaps>>

\* create_webhook_event, create_webhook_delivery
RecordDelivery(d) ==
    /\ DeliveryAt(d, "recording")
    /\ delivery' = [delivery EXCEPT ![d].at = "posting", ![d].status = "pending", ![d].tries = 1]
    /\ UNCHANGED <<hook, received, unsure, mishaps>>

Receives(d, n) == received' = [received EXCEPT ![d] = @ + n]

\* BackoffBase ** n
Backoff[n \in 0 .. Attempts] == IF n = 0 THEN 1 ELSE BackoffBase * Backoff[n - 1]
Sleep(n) == Min({Backoff[n], LongestSleep})

\* An answer that settles it; what follows an attempt that did not.
Settles(d, a) == delivery' = [delivery EXCEPT ![d].at = "entering", ![d].answer = a]

Later(d) ==
    \/ /\ delivery[d].tries < Attempts
       /\ delivery' = [delivery EXCEPT ![d].at = "sleeping", ![d].answer = "none",
                                       ![d].slept = @ + Sleep(delivery[d].tries)]
    \/ /\ delivery[d].tries >= Attempts
       /\ delivery' = [delivery EXCEPT ![d].at = "spent", ![d].answer = "none"]

\* Below 400; 4xx but 429; the rest, an exception included, which may well have arrived.
Post(d) ==
    /\ DeliveryAt(d, "posting")
    /\ \/ Receives(d, 1) /\ Settles(d, "success") /\ UNCHANGED unsure
       \/ Receives(d, 0) /\ Settles(d, "failed") /\ UNCHANGED unsure
       \/ Receives(d, 0) /\ Later(d) /\ UNCHANGED unsure
       \/ Receives(d, 1) /\ Later(d) /\ unsure' = unsure \cup {d}
    /\ UNCHANGED <<hook, mishaps>>

\* update_delivery_status of an answer that settles it.
Enter(d) ==
    /\ DeliveryAt(d, "entering")
    /\ delivery' = [delivery EXCEPT ![d].at = "over", ![d].status = delivery[d].answer]
    /\ UNCHANGED <<hook, received, unsure, mishaps>>

\* It is inside the try: an entry that fails counts as an attempt that failed, and is posted again.
EnterFails(d) ==
    /\ DeliveryAt(d, "entering") /\ mishaps < ReportFaults
    /\ mishaps' = mishaps + 1
    /\ unsure' = unsure \cup {d}
    /\ Later(d)
    /\ UNCHANGED <<hook, received>>

\* asyncio.sleep, in the middle of the job that reports.
WakeUp(d) ==
    /\ DeliveryAt(d, "sleeping")
    /\ delivery' = [delivery EXCEPT ![d].at = "posting", ![d].tries = @ + 1]
    /\ UNCHANGED <<hook, received, unsure, mishaps>>

GiveUp(d) ==
    /\ DeliveryAt(d, "spent")
    /\ delivery' = [delivery EXCEPT ![d].at = "over", ![d].status = "failed"]
    /\ UNCHANGED <<hook, received, unsure, mishaps>>

\* The process dies, or the last statement raises into the job.
Abandon(d) ==
    /\ delivery[d].at \notin {"free", "over"} /\ mishaps < ReportFaults
    /\ mishaps' = mishaps + 1
    /\ delivery' = [delivery EXCEPT ![d].at = "over"]
    /\ UNCHANGED <<hook, received, unsure>>

Delivers(d) == Report(d) \/ RecordDelivery(d) \/ Post(d) \/ Enter(d) \/ WakeUp(d) \/ GiveUp(d)

ReportNext ==
    \/ Register \/ Unregister
    \/ \E d \in Deliveries : Delivers(d) \/ EnterFails(d) \/ Abandon(d)

ReportSpec == ReportInit /\ [][ReportNext]_reportVars
-----------------------------------------------------------------------------
(* The record can be believed: a success was received, what failed was     *)
(* refused or tried as often as there are attempts, and nothing arrives    *)
(* twice unless an answer or an entry was lost in between.                 *)
RecordsAreTrue ==
    \A d \in Deliveries :
        /\ delivery[d].status = "success" => received[d] > 0
        /\ delivery[d].status = "failed" => delivery[d].tries = Attempts \/ delivery[d].answer = "failed"
        /\ received[d] > 1 => d \in unsure

(* An endpoint that does not answer holds its job up for 280 seconds of    *)
(* sleep: 5, 25 and twice 125.                                             *)
HeldUpFor == 280
DelayIsBounded == \A d \in Deliveries : delivery[d].slept <= HeldUpFor
=============================================================================

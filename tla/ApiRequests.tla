---------------------------- MODULE ApiRequests ----------------------------
(***************************************************************************)
(* Charged POST requests under an idempotency key: the SDK that sends and  *)
(* retries them (sdk/auggie), the claim and the saved result of the key    *)
(* (api/idempotency.py, db/idempotency.py) and three handlers around them  *)
(* (api/routes.py): research reserves and enqueues, clay reserves and runs *)
(* the pipeline itself, enrich charges once it has found contacts.         *)
(*                                                                         *)
(* A client is one use of one key by one user; all act for one company and *)
(* one organization.  Handler <<c, n>> serves the n-th request of client c *)
(* and may outlive it.  Amounts are in half credits.                       *)
(***************************************************************************)
EXTENDS Integers

CONSTANTS
    Clients,       \* the keys in use
    MaxRetries,    \* the SDK's max_retries
    MaxSends,      \* bound: requests per key
    StartBalance,  \* the organization's credits
    MaxFaults      \* bound: statements that raise, processes that die

ASSUME RequestConstants == /\ MaxRetries \in Nat
                           /\ MaxSends \in Nat \ {0}
                           /\ StartBalance \in Nat
                           /\ MaxFaults \in Nat

Routes == {"research", "clay", "enrich"}
Handlers == Clients \X (1 .. MaxSends)
Price(route) == IF route = "enrich" THEN 1 ELSE 2

\* An answer is a status and the request whose work it reports.
Replies == [code : {200, 202, 402, 409, 422, 429, 500, 504}, of : Handlers]
NoReply == [code |-> -1, of |-> <<>>]

\* A row of idempotency_keys holds the answer, or status_code 0 once it is claimed.
Absent == NoReply
Claimed == [code |-> 0, of |-> <<>>]
Success(reply) == reply.code \in {200, 202}

Points == {"none", "limit", "claim", "lookup", "validate", "cache", "reserve", "enqueue", "work",
           "contacts", "charge", "usage", "finish", "save", "replay", "refund", "fail", "done"}

VARIABLES
    call, tries, sent,      \* a client: where it is, its attempt, its requests so far
    route,                  \* what it asks for
    pc, reply,              \* a handler: its next statement, its answer
    charged,                \* enrich's credit_charged
    key,                    \* idempotency_keys
    balance,                \* organizations.bonus_credits
    document, contacts,     \* the company's recent document, the document's contacts
    paid,                   \* history: what each handler has charged less what it refunded
    faults

client == <<call, tries, sent, route>>
handler == <<pc, reply, charged>>
company == <<document, contacts>>
money == <<balance, paid>>
apiVars == <<client, handler, key, money, company, faults>>

ApiInit ==
    /\ call = [c \in Clients |-> "idle"]
    /\ tries = [c \in Clients |-> 0]
    /\ sent = [c \in Clients |-> 0]
    /\ route \in [Clients -> Routes]
    /\ pc = [h \in Handlers |-> "none"]
    /\ reply = [h \in Handlers |-> NoReply]
    /\ charged = [h \in Handlers |-> FALSE]
    /\ key = [c \in Clients |-> Absent]
    /\ balance = StartBalance
    /\ document = FALSE /\ contacts = FALSE
    /\ paid = [h \in Handlers |-> 0]
    /\ faults = 0
-----------------------------------------------------------------------------
(* The SDK. *)

Latest(c) == <<c, sent[c]>>
Retried == {429, 500, 502, 503, 504}

Post(c) ==
    /\ sent' = [sent EXCEPT ![c] = @ + 1]
    /\ pc' = [pc EXCEPT ![<<c, sent[c] + 1>>] = "limit"]
    /\ call' = [call EXCEPT ![c] = "waiting"]
    /\ UNCHANGED <<route, reply, charged, key, money, company, faults>>

\* A new call.  The SDK makes up a key for each; a client that chooses its keys may
\* repeat one after an exception.
Send(c) == /\ call[c] \in {"idle", "raised"}
           /\ sent[c] + MaxRetries < MaxSends
           /\ Post(c)
           /\ tries' = [tries EXCEPT ![c] = 0]

\* The end of the sleep after a transient error.
Retry(c) == call[c] = "sleeping" /\ Post(c) /\ tries' = [tries EXCEPT ![c] = @ + 1]

Transient(c) == reply[Latest(c)].code \in Retried /\ tries[c] < MaxRetries

Receive(c) ==
    /\ call[c] = "waiting" /\ pc[Latest(c)] = "done"
    /\ call' = [call EXCEPT ![c] = IF Success(reply[Latest(c)]) THEN "returned"
                                   ELSE IF Transient(c) THEN "sleeping" ELSE "raised"]
    /\ UNCHANGED <<tries, sent, route, handler, key, money, company, faults>>

\* httpx gives up on a slow handler, which goes on: no retry.
TimesOut(c) ==
    /\ call[c] = "waiting"
    /\ pc[Latest(c)] # "done"
    /\ call' = [call EXCEPT ![c] = "raised"]
    /\ UNCHANGED <<tries, sent, route, handler, key, money, company, faults>>
-----------------------------------------------------------------------------
(* The handlers, statement by statement. *)

RouteOf(h) == route[h[1]]
Goto(h, point) == pc' = [pc EXCEPT ![h] = point]

AnswerWith(h, r) ==
    /\ reply' = [reply EXCEPT ![h] = r]
    /\ Goto(h, "done")
    /\ UNCHANGED <<client, charged>>

Answer(h, code) == AnswerWith(h, [code |-> code, of |-> h])

Continue(h, point) == Goto(h, point) /\ UNCHANGED <<client, reply, charged>>

\* limiter.check()
Limit(h) ==
    /\ pc[h] = "limit"
    /\ Answer(h, 429) \/ Continue(h, "claim")
    /\ UNCHANGED <<key, money, company, faults>>

\* Mutant: the key is looked up first and inserted afterwards.
ClaimAnyway(h) ==
    /\ pc[h] = "claim"
    /\ IF key[h[1]] \in {Absent, Claimed}
       THEN key' = [key EXCEPT ![h[1]] = Claimed] /\ Continue(h, "validate")
       ELSE Continue(h, "lookup") /\ UNCHANGED key
    /\ UNCHANGED <<money, company, faults>>

\* INSERT ... ON CONFLICT DO NOTHING
Claim(h) ==
    /\ pc[h] = "claim"
    /\ IF key[h[1]] = Absent
       THEN key' = [key EXCEPT ![h[1]] = Claimed] /\ Continue(h, "validate")
       ELSE Continue(h, "lookup") /\ UNCHANGED key
    /\ UNCHANGED <<money, company, faults>>

\* Mutant: it polls until there is a result.
LookupWaiting(h) ==
    /\ pc[h] = "lookup"
    /\ key[h[1]] \notin {Absent, Claimed}
    /\ AnswerWith(h, key[h[1]])
    /\ UNCHANGED <<key, money, company, faults>>

\* Another statement: IdempotencyKeyInProgress unless there is a result by now.
Lookup(h) ==
    /\ pc[h] = "lookup"
    /\ IF key[h[1]] \in {Absent, Claimed} THEN Answer(h, 409) ELSE AnswerWith(h, key[h[1]])
    /\ UNCHANGED <<key, money, company, faults>>

Validate(h) ==
    /\ pc[h] = "validate"
    /\ Answer(h, 422) \/ Continue(h, "cache")
    /\ UNCHANGED <<key, money, company, faults>>

\* The answer of research and clay is saved, that of enrich is not.
Cached(h) ==
    /\ pc[h] = "cache"
    /\ IF RouteOf(h) = "enrich" THEN contacts /\ Answer(h, 200) ELSE document /\ Continue(h, "replay")
    /\ UNCHANGED <<key, money, company, faults>>

\* enrich compares a balance that is not reserved (and may be 30 s old).
Uncached(h) ==
    /\ pc[h] = "cache"
    /\ IF RouteOf(h) = "enrich"
       THEN ~contacts /\ IF balance < 1 THEN Answer(h, 402) ELSE Continue(h, "work")
       ELSE ~document /\ Continue(h, "reserve")
    /\ UNCHANGED <<key, money, company, faults>>

Pay(h, amount) == /\ balance' = balance - amount
                  /\ paid' = [paid EXCEPT ![h] = @ + amount]

\* Mutant: the UPDATE does not test the balance.
ReserveAnyway(h) ==
    /\ pc[h] = "reserve"
    /\ Pay(h, 2)
    /\ Continue(h, IF RouteOf(h) = "research" THEN "enqueue" ELSE "work")
    /\ UNCHANGED <<key, company, faults>>

\* One transaction with the insertion of the job.
Reserve(h) ==
    /\ pc[h] = "reserve"
    /\ IF balance < 2
       THEN Answer(h, 402) /\ UNCHANGED money
       ELSE /\ Pay(h, 2)
            /\ Continue(h, IF RouteOf(h) = "research" THEN "enqueue" ELSE "work")
    /\ UNCHANGED <<key, company, faults>>

Enqueue(h) ==
    /\ pc[h] = "enqueue"
    /\ Continue(h, "save")
    /\ UNCHANGED <<key, money, company, faults>>

\* The pipeline of clay leaves a document; LeadMagic finds contacts or none.
WorkEnds(h) ==
    /\ pc[h] = "work"
    /\ IF RouteOf(h) = "clay"
       THEN document' = TRUE /\ Continue(h, "usage")
       ELSE UNCHANGED document /\ (Continue(h, "contacts") \/ Continue(h, "usage"))
    /\ UNCHANGED <<key, money, contacts, faults>>

\* The external service raises; clay's pipeline may also time
\* out, with or without its document.
WorkRaises(h) ==
    /\ pc[h] = "work"
    /\ IF RouteOf(h) = "clay"
       THEN Continue(h, "refund") /\ document' \in {document, TRUE}
       ELSE Answer(h, 500) /\ UNCHANGED document
    /\ UNCHANGED <<key, money, contacts, faults>>

SaveContacts(h) ==
    /\ pc[h] = "contacts"
    /\ contacts' = TRUE
    /\ Continue(h, "charge")
    /\ UNCHANGED <<key, money, document, faults>>

ChargeIfFunds(h) == IF balance >= 1 THEN Pay(h, 1) ELSE UNCHANGED money

\* use_credit(cents=50), whose answer is not looked at.
Charge(h) ==
    /\ pc[h] = "charge"
    /\ ChargeIfFunds(h)
    /\ charged' = [charged EXCEPT ![h] = TRUE]
    /\ Goto(h, "usage")
    /\ UNCHANGED <<client, reply, key, company, faults>>

Usage(h) ==
    /\ pc[h] = "usage"
    /\ Continue(h, IF RouteOf(h) = "clay" THEN "finish" ELSE "save")
    /\ UNCHANGED <<key, money, company, faults>>

\* clay: the job is completed, the document is read.
Finish(h) ==
    /\ pc[h] = "finish"
    /\ Continue(h, "save")
    /\ UNCHANGED <<key, money, company, faults>>

Result(h) == [code |-> IF RouteOf(h) = "research" THEN 202 ELSE 200, of |-> h]

Save(h) ==
    /\ pc[h] \in {"save", "replay"}
    /\ key' = [key EXCEPT ![h[1]] = Result(h)]
    /\ AnswerWith(h, Result(h))
    /\ UNCHANGED <<money, company, faults>>

\* Mutant: no refund.
FailUnrefunded(h) ==
    /\ pc[h] = "refund"
    /\ Continue(h, "fail")
    /\ UNCHANGED <<key, money, company, faults>>

Refund(h) ==
    /\ pc[h] = "refund"
    /\ Pay(h, -Price(RouteOf(h)))
    /\ Continue(h, "fail")
    /\ UNCHANGED <<key, company, faults>>

\* clay marks the job failed; both answer an error.
Fail(h) ==
    /\ pc[h] = "fail"
    /\ \/ Answer(h, 500)
       \/ RouteOf(h) = "clay" /\ Answer(h, 504)
    /\ UNCHANGED <<key, money, company, faults>>

\* What runs in a try block is refunded.
Fault == faults < MaxFaults /\ faults' = faults + 1

InTry(h) == \/ RouteOf(h) = "clay" /\ pc[h] \in {"usage", "finish", "save"}
            \/ charged[h] /\ pc[h] \in {"usage", "save"}

Except(h) == IF InTry(h) THEN Continue(h, "refund") ELSE Answer(h, 500)

\* A statement raises.
Raises(h) ==
    /\ pc[h] \notin {"none", "limit", "validate", "work", "done"}
    /\ Fault
    /\ Except(h)
    /\ UNCHANGED <<key, money, company>>

\* It is executed, and its reply is lost: for all others this is like a failure of the next.
ReplyLost(h) ==
    /\ Fault
    /\ \/ pc[h] = "reserve" /\ balance >= 2 /\ Pay(h, 2) /\ UNCHANGED key
       \/ pc[h] = "charge" /\ ChargeIfFunds(h) /\ UNCHANGED key
       \/ /\ pc[h] \in {"save", "replay"}
          /\ key' = [key EXCEPT ![h[1]] = Result(h)]
          /\ UNCHANGED money
    /\ Except(h)
    /\ UNCHANGED company

\* The process dies: its client sees a broken connection.
Dies(h) ==
    /\ pc[h] \notin {"none", "done"}
    /\ Fault
    /\ Goto(h, "done")
    /\ UNCHANGED <<client, reply, charged, key, money, company>>
-----------------------------------------------------------------------------
(* Elsewhere. *)

\* Another request leaves a document of the company, and a day later it is not recent.
DocumentAppears == ~document /\ document' = TRUE /\ UNCHANGED <<client, handler, key, money, contacts, faults>>
DocumentAges == document /\ document' = FALSE /\ UNCHANGED <<client, handler, key, money, contacts, faults>>

\* Another request of the organization is charged.
OthersCharge == /\ balance > 0
                /\ balance' = balance - 1
                /\ UNCHANGED <<client, handler, key, paid, company, faults>>

Active(c) == \E n \in 1 .. MaxSends : pc[<<c, n>>] \notin {"none", "done"}

\* cleanup_expired_keys, a day after the claim: the client starts over with a fresh key.
KeyExpires(c) ==
    LET Fresh(f, value) == [h \in Handlers |-> IF h[1] = c THEN value ELSE f[h]] IN
    /\ key[c] # Absent
    /\ ~Active(c) /\ call[c] \in {"returned", "raised"}
    /\ key' = [key EXCEPT ![c] = Absent]
    /\ call' = [call EXCEPT ![c] = "idle"]
    /\ tries' = [tries EXCEPT ![c] = 0]
    /\ sent' = [sent EXCEPT ![c] = 0]
    /\ pc' = Fresh(pc, "none") /\ reply' = Fresh(reply, NoReply)
    /\ charged' = Fresh(charged, FALSE) /\ paid' = Fresh(paid, 0)
    /\ UNCHANGED <<route, balance, company, faults>>
-----------------------------------------------------------------------------
Statement(h) == \/ Limit(h) \/ Claim(h) \/ Lookup(h) \/ Validate(h) \/ Cached(h) \/ Uncached(h)
                \/ Reserve(h) \/ Enqueue(h) \/ WorkEnds(h) \/ WorkRaises(h) \/ SaveContacts(h)
                \/ Charge(h) \/ Usage(h) \/ Finish(h) \/ Save(h) \/ Refund(h) \/ Fail(h)

ApiNext == \/ \E c \in Clients : Send(c) \/ Retry(c) \/ Receive(c) \/ TimesOut(c) \/ KeyExpires(c)
           \/ \E h \in Handlers : Statement(h) \/ Raises(h) \/ ReplyLost(h) \/ Dies(h)
           \/ DocumentAppears \/ DocumentAges \/ OthersCharge

ApiSpec == ApiInit /\ [][ApiNext]_apiVars

\* Handlers go on; the SDK wakes up and reads its answers.
ApiFairSpec == /\ ApiSpec
               /\ \A h \in Handlers : WF_apiVars(Statement(h))
               /\ \A c \in Clients : WF_apiVars(Receive(c)) /\ WF_apiVars(Retry(c))
-----------------------------------------------------------------------------
(* Properties. *)

ApiTypeOK ==
    /\ call \in [Clients -> {"idle", "waiting", "sleeping", "returned", "raised"}]
    /\ tries \in [Clients -> 0 .. MaxRetries]
    /\ sent \in [Clients -> 0 .. MaxSends]
    /\ route \in [Clients -> Routes]
    /\ pc \in [Handlers -> Points]
    /\ \A h \in Handlers : reply[h] \in Replies \cup {NoReply}
    /\ charged \in [Handlers -> BOOLEAN]
    /\ \A c \in Clients : key[c] \in {Absent, Claimed} \/ Success(key[c])
    /\ balance \in Nat
    /\ document \in BOOLEAN /\ contacts \in BOOLEAN
    /\ paid \in [Handlers -> -1 .. 2]
    /\ faults \in 0 .. MaxFaults

\* .plan.md: "You never get double-charged".  However often a key is sent, while earlier
\* requests with it run, fail or die, one of them at most is charged.
PaidOncePerKey ==
    \A g, h \in Handlers : g[1] = h[1] /\ paid[g] > 0 /\ paid[h] > 0 => g = h

\* Every success told under one key is the same one.
AnswersAgree ==
    \A g, h \in Handlers : g[1] = h[1] /\ Success(reply[g]) /\ Success(reply[h])
                               => reply[g] = reply[h]

\* Unless a statement fails, a request that is answered with an error costs nothing: the
\* handlers refund on every path that leaves after the charge.
ErrorsAreFree ==
    faults = 0 => \A h \in Handlers : pc[h] = "done" /\ ~Success(reply[h]) => paid[h] = 0

\* The SDK returns or raises, whatever it is told.
CallEnds == \A c \in Clients : call[c] = "waiting" ~> call[c] \in {"returned", "raised"}
=============================================================================

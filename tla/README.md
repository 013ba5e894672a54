# A verification project for Auggie

Auggie sells account research: a request names a company, a credit is reserved, a
durable task is enqueued, a worker runs a pipeline of external services and a
language model, and the customer gets a document or the credit back. The code is
FastAPI and asyncpg over PostgreSQL; several processes (web processes with an embedded
worker loop, stand-alone workers) share nothing but the database.

What can go wrong here is seldom in one function. It is in the order of small
transactions of several processes: a claim, a body, a settlement of the row, a refund, a
poll that times a job out, a process that dies between any two of them. That is what
these modules model.

## 1. Inventory

| Component | State | Operations | Hard behaviour | Correct means |
|---|---|---|---|---|
| Durable task queue (`db/task_queue.py`), worker loop (`worker.py`, lifespan of `main.py`) | table `task_queue`; a semaphore and a shutdown event per process | enqueue, claim (SKIP LOCKED), complete, fail with backoff, requeue stale, retry, prune; poll, dispatch, drain | two loops on one table, crashes, lost replies, runs outliving the stale timeout, cancellation during a claim | every task is settled; a grant pays for at most `max_attempts` runs; one run at a time unless reaped; permits neither leak nor multiply; a drained process abandons nothing |
| Research jobs (`api/routes.py`, `api/jobs.py`, `db/jobs.py`) | `research_jobs`, the reservation | create, poll, run, record, fail, refund | charge and enqueue are two transactions; the poll times out what the worker still runs; startup fails old jobs | a charge ends in a document or one refund, never both or neither |
| Bulk jobs (`db/bulk.py`, `api/jobs.py`) | `bulk_jobs`, its counters, `bulk_job_items`, finalization markers in the queue | create, fan out, run item, count, last-child check, finalize, refund failures | parent and children run again; children end together; readers time items out | each item once, counted once; one finalization; refunds equal failures |
| Credits (`db/users.py`, `db/jobs.py`, `db/bulk.py`, `billing.py`) and ledger (`db/credit_ledger.py`) | `organizations.bonus_credits`, `fulfilled_sessions`, `credit_ledger`, the connection pool | charge, refund, reserve, add, fulfil a Stripe session, book | concurrent charges, redelivered webhooks, deaths inside a transaction, nested connections | no overdraft; a purchase credited once; a ledger that explains the balance; no call hangs |
| Startup and migrations (`db/_pool.py`, `db/_migrate.py`) | `_migrations`, advisory lock, the credits of old users | migrate, create organizations, fail stale jobs | several processes start together, next to running workers, and die between statements | each file once and in order; credits moved once; nothing running is failed |
| List analysis (`db/lists.py`, `routes/lists.py`, `api/jobs.py`) | `lists`, `list_accounts`, counters | upload, create, analyze, run item, retry accounts, poll, finalize, delete | charges for what was pending when it was counted, retries and polls racing the analysis | runs are paid, refunds within charges, counters true, a paid list is finalized |
| Watchlist (`db/watchlist.py`, `worker.py`) | `watchlist_items` | add, update, delete, claim due items, run, reschedule, skip | charge per attempt, two schedulers, a death between claim and task | one task per item and period; charges within attempts; the newest document unless its run failed afterwards; no item is forgotten |
| API requests (`api/idempotency.py`, `db/idempotency.py`, `api/auth.py`), SDK (`sdk/auggie`) | `idempotency_keys` | claim, lookup, save, expire; retry | handlers that die after the claim, retries by the client | one charge per key; a key is answered in the end |
| Rate limits (`api/ratelimit.py`) | hits per key, in memory | check, evict, clean up | hits spread over a sliding window, eviction at `MAX_KEYS` | no window is exceeded; `Retry-After` is kept |
| Outgoing webhooks (`api/webhooks.py`, `routes/settings.py`, `api/jobs.py`) | registration, deliveries | register, renew, remove, deliver with five attempts | slow endpoints inside a job, an entry that fails after the post | the record is what happened; a bounded delay |
| Organizations and sign-in (`db/orgs.py`, `routes/team.py`, `auth.py`) | users, members, invitations | sign in, invite, revoke, accept, remove, change role | the same link used by several requests, two first sign-ins | an invitation lets one person in; one welcome grant |
| User caches and profile (`auth_cache.py`, `db/users.py`, `routes/settings.py`) | two TTL caches per process; the seller profile | read through, invalidate, save, build a profile | an invalidation between the read and the store; a slow build of an old website's profile | a cache follows the row unless its read was overtaken or the balance was changed elsewhere; the profile is of the stored website |
| Automation (`services/automation.py`, `api/jobs.py`) | rule runs, account statuses | evaluate rules, batches in chunks | two batches over the same accounts, failing rules | a rule acts on its matches, all of them; one failing rule does not stop the next |
| Document pages (`routes/research.py`, `db/documents.py`) | documents, slugs, contacts | research, open, buy contacts | requests cut off, slugs that run out, two purchases | every half credit is explained; a link opens its document |
| Collection (`api/jobs.py`, `services/collect.py`, ...) | shared singletons: headers, industry code, tickers, searches | gather branches | jobs side by side overwrite what another reads later | a job uses its own company's data unless overlapped |
| Technology detection (`services/techdetect`, `services/tech_detection.py`) | none | match, expand implications, list stacks, store | a breadth-first expansion in the order of a table; stacks of sites that repeat each other | what is detected follows from what was matched; nothing is lost between stacks and rows |
| Seller profile (`services/seller_profile.py`, `services/firecrawl.py`) | none | map, select, scrape, summarize | three scrapes to spend on a list in any order, any of which fails | the scrapes go to the pages that say most; the sources were read |
| Inference (`services/pain_inference.py`, `services/claude.py`) | none | rules, compounds, tiers, prompt | four passes over the same signals | compounds never stand alone; the prompt names what is relevant once, at its place |
| Generation (`services/claude.py`) | none | check, repair, reformat, score | passes that undo each other | one valid answer, facts kept once |
| Writing (`services/writing/*`) | none | draft, repair, shorten, rescue, trim | rescues that break one another | what is sent fits its channel |
| Materials (`services/materials.py`, `services/chunking.py`) | rows, chunks, files | upload, process, reprocess, delete, chunk | a background task racing a reprocess or a delete | ready means whole; a row has its file |
| Pagination (`db/lists.py`, `sdk/auggie`) | none | pages by id and by score | rows change between pages | steady rows are yielded once |

Everything else is listed under `components` in `PROJECT.json` with the reason why it is
left out; `hazards` there lists what is hard to test, at its line.

## 2. Modules

```
RetryBudget      what the queue promises, abstractly
   ^ refines
TaskQueue        the table, the loops, the coroutines, time, faults
   ^ EXTENDS                     ^ EXTENDS
ResearchJobs     one paid job    BulkFanout     parent, children, finalization

CreditAccount    balance, purchases, ledger, connection pool
ListAnalysis     a list: charges, children, retries, polls         composed by MCPayments
Watchlist        recurring research: schedulers, attempts, dates

ApiRequests      the SDK, idempotency keys, the three charged handlers

Team  UserRecord  Startup  Reports  Automation  DocumentPages
Collection  RateLimits                                             composed by Services
TechDetect  Inference  Generation  SellerProfile  (Picking)        composed by Grounds
Services  Grounds  Writing  Materials  Cursors                     composed by MCServices

TaskQueue_proofs  ResearchJobs_proofs  BulkFanout_proofs           theorems
ApiRequests_proofs
Payments_proofs    about CreditAccount, ListAnalysis, Watchlist
Services_proofs    about the parts of Services
Documents_proofs   about Cursors, Materials, Writing, Grounds
Sums_proofs        numbers, sums and recursion, for the last two
MC*                                                                TLC instances
```

**TaskQueue.** Every SQL statement is one action, except `claim_next`, whose row lock
(`LockNext`) and commit (`Claim`) are two, because `SKIP LOCKED` is about what happens in
between. Time is two flags: `due` (`run_at` has passed) and `overdue` (`started_at` is older
than the timeout of `requeue_stale`). A worker process is a program counter over one turn of
`_poll_loop` (housekeeping, permit, claim), its semaphore, and its dispatched coroutines,
whose `phase` follows `_dispatch`: executing, completing, failing, exhausted, and "unheard" for
a run whose `complete()` raised, which is also reported failed. `Embedded`
processes shut down as `main.py` does (5 s, cancel the loop, drain with a timeout), the
others as `worker.py` does (drain for ever). A fault is a crash, a signal, or a statement
that raises; when a statement raises, it may have been executed (the reply was lost) or not.
A job body is opaque: it returns, raises, or never ends.

**ResearchJobs** gives the body of a `research` task: the job row, the charge, the stages of
`run_research_job`, the refund of `_dispatch`, the poll of `get_job_status` (read, then
update, then refund: three steps) and the UPDATE of `init_database` at every start.

**BulkFanout** gives the bodies of `bulk` and `bulk_item` tasks: fan-out, item, count,
`check_no_pending_siblings` and its marker row, finalization, refund, and a reader of
`get_bulk_job_status` with its stale snapshot.

**CreditAccount** is one organization's balance with the callers of all functions that change
it. Calls hold connections: the first while they work, a second while they write the
ledger. `fulfill_session` is a transaction: its unique key and its row lock are held until
it commits, and its ledger entry is not part of it. A statement that waits for a lock
is cancelled by the 30 s `statement_timeout`; a call that waits for a connection is not.

**ApiRequests** follows one POST from the SDK to the answer. A client is one use of one key:
it waits, sleeps between attempts, returns or raises; httpx gives up after 60 s while the
handler goes on. A handler is at one of its statements: limiter, claim (`INSERT ... ON
CONFLICT`), lookup of the row, validation, cache, reservation, work, charge, save, refund.
`research` reserves and enqueues, `clay/enrich` reserves and works itself, `enrich`
charges half a credit after the work; each has its own `try` block (`InTry`), so a statement
that raises is refunded or not as in the code. A statement may also be executed and its
reply lost, and a process may die at any of them. The row expires a day later, when nothing
of it runs any more; the requests of others move the balance and the 24-hour cache. Amounts
are in half credits, and the limiter admits or refuses at will.

**ListAnalysis** keeps the rows of the queue but reduces the queue to claimed, completed,
failed and requeued; its requests and its coroutines stop between any two statements, with
what they have read (`req[q].n` is the number of pending accounts that was charged, for
example). `SetAccount` increments the counters of the list whatever the row was before, as
`update_list_account` does. `PollFinalizes` is the page that polls, which is the only thing
that finalizes a list while its children count themselves as unfinished. `crossed` records two
ways in which requests of the web page meet: "reset", a retry reset an account that was not
failed any more, and "fanout", an analysis took an account that a retry had reset and not
yet marked as researching.

**Watchlist** follows `run_watchlist_item` statement by statement around its pipeline; an
exception may come from any of them (`ChargeRaises`, `SkipRun`, `FailRun`), and the except
branch then writes the document of the payload back and puts the item a period ahead. `behind`
remembers the items whose run stored a document and then failed or died; a run that is recorded
takes its item out. `paid` counts the charges of a task. The module abstracts dates to the days
left of a period and time to `TimePasses`, which happens only while nothing is outstanding: a
run takes minutes and a period a month. `ClaimDue` and `EnqueueDue` are two steps, so that a
scheduler may die between them.

**RateLimits** keeps the ages of hits. Its history (`granted`) is independent of what eviction
and cleanup leave in `hits`.

**Team** and **UserRecord** are requests between two awaits. `UserRecord` looks at one user in
one process. A cache is filled by a step later than the read it comes from; `late` says that a
write came between the two. The balance belongs to the organization, but `use_credit`,
`refund_credit` and the reservations pop only their caller's entry, in their own process:
`ChangeBalance` is theirs when the user is the caller here, `ChangeBalanceElsewhere` when a
colleague charges, when `worker.py` refunds, and when a purchase is fulfilled, which pops nothing;
the entry that was there is then `astray`. Only entries neither late nor astray are promised to
be current; the 30 s are `CacheExpires`.

**Startup** is `init_database` in several instances: one migration is two statements, its file
and its entry, under the advisory lock; the credits of each old user are moved in one
transaction, which locks the user and looks again.

**Reports** is one `_deliver_webhook` per event: registration read, entry, posts with
sleeps 5, 25, 125, 125 s, final entry.

**Automation** is `evaluate_rules` with the batches its rules start, next to a batch that the
user starts over the same accounts.

**DocumentPages** is the pages of a document in halves of a credit. `start_research` charges
(`StartResearch`) and then adds a watchlist item and the task (`SendResearch`); between the two a
statement may fail or the process die, and the credit is kept (`CutOff`). `save_document` tries
`SlugAttempts` suffixes and raises; the request's own handler then refunds.

**Collection** is the gathered branches of a job, two jobs on the same singletons. `overlapped`
records that another job wrote between a job's write and its read.

**TechDetect** matches a table of patterns on the response of every site that answers, expands
what is implied one technology at a time (the loop of `_resolve_implies` is the action
`ExpandNext`), and lists and stores the stacks. The table, the archetypes and the responses
are constants; an expression of a pattern is a name that a response contains or not, except
the empty one, which any text contains. `matches` keeps what was found before the expansion,
so that `ImplicationsAreChains` can compare its end with the chains of implications that lead from
what was matched: `Chained(c)` is the least set that holds what was matched with at least
`c` and what a link of at least `c` leads to.

**SellerProfile** has an address as its page, with the weights that `_score_url` reads off
the path; `SelectProfileUrls` is `select_profile_urls` over any list of pages.

**Grounds** puts `TechDetect`, `SellerProfile`, `Inference` and `Generation` together, what
a document and a profile stand on, with what may be assumed of their constants; its property
`DocumentsStandOnFacts` has the properties of the four as conjuncts. **Picking** has the
members of a sequence at some of its places, in order, which is how the loops of these four
that skip, stop and drop repetitions are written without recursion.

**Inference**, **Generation** and **Writing** take what a model or a crawler returned as an
input, in the parts that the code looks at: a line has a kind and an identity, an email a number
of words, a sentence its length and what it contains. They carry every check, fallback, cut and
retry of the code. Their rules and weights are tables, their scores integers; confidences are
percentages. Most entries of the tables are there because compounds, doubts, boosts and denials
name them, and `CompoundsStandOnSignals` is about what all passes together leave of a signal.
`Relevant` leaves out the sources of which the seller's product leaves nothing
(`filter_text_blocks`), and the tiered prompt leaves out the technologies of marketing sites
(`format_tech_by_tier`, of which it takes the first half), as the tests of the repository ask
(`tests/test_claude.py:1439`); the flat prompt has them. `Linked` is the part of
`is_action_tier_relevant` that lets a denied signal through: the text of its evidence is an
input (`tech.linked`), the text of its own description is the code's.

**Materials** has a text as sections of sentence lengths; `Chunks` is `chunk_document` with its
overlap and its smallest chunk: a section's chunks start where `Starts` says, a function of
the number of the sentence, and `Carried` is the longest tail that fits the overlap. Requests to
reprocess are not serialised: each drops the chunks and spawns a task, whether another one or a
task is under way (`redoing` counts them); a material that two of these touched is `spoiled`.

**Cursors** keeps the rows of one collection and iterators that remember a cursor, while rows
are inserted, removed and scored. The order of a list by company name is left out.

**MCPayments**, **Services** and **MCServices** put several modules in one state space. In
each, a behaviour is of one part, chosen in the initial state by `part`; the variables of
the others rest in one fixed initial state. The parts share no table that the properties are
about, so interleaving them would multiply the states and show nothing more. A property of
such a run is a conjunction over the parts of properties that answer one question; each
conjunct is stated and explained in the module of its part. `MCPayments` extends
`CreditAccount`, `ListAnalysis` and `Watchlist`, so that its run checks the definitions that
the proofs are about; it has two instances of a list, "list" (two accounts, one request, one
fault) and "race" (one account, two requests, no fault). `Services` has eight parts with
state that only they change, and the assumptions on their constants; `MCServices` extends
it, `Materials`, `Cursors`, `Writing` and `Grounds`, whose definitions the proofs are about, and
adds the inputs of all of them, and its steps are those of one of them, each with the rest
unchanged.

**RetryBudget** says of the queue only that a grant (an enqueue, or an administrator's retry)
pays for at most `MaxAttempts` runs. `TaskQueue` refines it, with the runs left
computed from `status` and `attempts`.

## 3. Runs

| Run | Instance | Shows |
|---|---|---|
| `queue_safety` | 1 task, 2 attempts, a stand-alone and an embedded worker, 2 coroutines each, 1 permit, 3 faults, 2 retries | types, no stranded row, exclusive runs, permits and a graceful stop through both shutdowns, final completion, refinement of RetryBudget |
| `queue_live` | 1 task, a stand-alone and an embedded worker, 1 permit each, 3 faults, fairness | every task settles, both shutdowns end |
| `queue_hang` (violation) | 2 tasks, 1 permit, bodies may hang | the stale check is not reached when every permit is held |
| `research_jobs` | 1 job, 2 attempts, 1 embedded worker, 1 poller, 1 fault, 1 retry | refunds at most once per grant unless a poll or a stale requeue gave the job up, nothing free, job and task agree, charges settle |
| `research_never` (violation) | the same with 1 fault | `requeue_stale` exhausts a task that nobody refunds |
| `bulk_fanout` | 2 items, 2 permits, no fault | exact counters, one row per item, every item is counted |
| `bulk_faults` | 1 item, 1 fault, 1 reader | types, one finalization, refunds within failures, no ended item uncounted |
| `bulk_end` (violation) | 2 items, no fault | no child ever sees its siblings done |
| `credit` | CreditAccount: 2 callers, 3 connections, 4 calls, 1 fault. ListAnalysis: 2 accounts, 1 request, 1 coroutine, 3 credits, 2 attempts, 1 fault; and 1 account, 2 requests, no fault. Watchlist: 1 item, 2 schedulers, 2 runs, 2 attempts, 1 death, exceptions at will | no overdraft, purchases once, the ledger while none died, no hang; lists keep their books while nothing fails or crosses, and settle; the watchlist keeps its items and forgets none |
| `credit_pool` (violation) | 2 callers, 2 connections, 2 calls | ledger entries wait for each other |
| `api_requests` | 1 key, up to 3 requests with it, 1 retry, 3 half credits, 2 faults, every route | one charge and one answer per key, errors that cost nothing, the call ends |
| `services` | the sixteen parts of Services and MCServices, one or two actors each (the cfg and the INSTANCE lines name every bound) | types; nothing granted twice; caches, profiles and collected data are current; records match effects; limits; documents; outreach; materials; pagination |

The bounds are small because the interesting cases are: one row that two loops want, one
that is reaped under its run, one crash between any two statements, two children that end
together. A second task matters for permits that hang and for the fan-out and is there. Two
attempts are the least that tell a retry from the last run. The numbers of faults, retries
and calls are bounds of the model, named in CONSTANTS; the theorems hold for all of them.

For `services` the bounds are the least that let two actors meet: two requests with one link,
two instances at one lock, two jobs on one singleton, two keys for a limiter that remembers one,
two visits that buy the same contacts, a reprocess next to a running task. The inputs of the
pure parts are chosen so that each branch is taken: signals above and below each threshold and
doubt, answers with each defect the validator knows, messages that need each rescue and messages
that two rescues conflict over, texts with sections of one chunk, of two chunks with an overlap,
and with a sentence longer than a chunk; postings that hire what their initiatives need and
postings that do not, a seller whose product silences a source. `LongestSleep`, `Attempts` and
the word limits are the values of the code.

**Fairness.** `FairSpec` assumes that processes run and are restarted by the platform, that
backoffs and timeouts elapse, that a coroutine settles its row, and that a body ends (the
HTTP clients of the pipeline have timeouts). `SF` is used only for a loop that reaches its
stale check, whose interval is counted in turns of the loop. `HangSpec` drops the ending of
bodies, which is what `requeue_stale` is meant to survive. In `CreditFairSpec` a call that
can go on does; waiters for a connection and for a row queue up. In `ApiFairSpec` handlers
go on, and the SDK wakes and reads its answers; a process may still die, which its client
sees as an answer. `BulkFanout` and `ResearchJobs` use weak fairness only. `PaymentFair` is
the fairness of each part, guarded by `part`, so that a part that rests owes no step:
callers go on, as in `CreditFairSpec`; a list's requests and tasks go on and its page polls
(it does so every few seconds while it is open; a list nobody looks at stays as it is); time
passes, poll loops turn and claimed runs go on for the watchlist. A crash, a lost request
and a cancelled run are never owed. `services` checks safety only.

`CHECK_DEADLOCK FALSE` is given where the clients stop after a bounded number of calls.

## 4. Proofs

`TaskQueue_proofs` proves, for all constants, that `IInv` is inductive and from it
`TypeOK`, `NoStrandedTask`, `OneRunUnlessReaped`, `PermitsAccounted`, `GracefulStop`,
`DoneStaysDone`, and the refinement of `RetryBudget`. None of them is inductive alone:

* `NoStrandedTask` needs `LockedRows` (the row a claim holds is still pending, because every
  other statement on it waits) and `RowCounts` (how `attempts` and the runs started bound each
  other for each status).
* `OneRunUnlessReaped` needs `OwnedRows`: until a task is reaped, the row a coroutine works
  for is running, unless a lost reply settled it, and is nobody else's.
* `DoneStaysDone` needs `OwnedRows` too: the `fail()` of a run finds a completed row only if
  its own `complete()` was executed and its reply lost (`phase` "unheard"), or if the row was
  requeued under it as stale and completed by another. No crash, signal or other lost
  statement is excused.
* `PermitsAccounted` needs the weaker `Accounted(w) <= MaxConcurrent` to survive the
  cancellation of an embedded loop, which may lose a permit: the one place where the
  code does lose one, on its way out.
* The refinement maps a step to `Grant`, `Start`, `Forfeit` or a stutter of each task.

`ResearchJobs_proofs` proves, for any number of jobs, attempts, workers, pollers, faults and
retries, `JobTypeOK`, `RefundedOncePerGrant`, `NothingFree` and `JobAgreesWithTask`. The rows
and runs of a job are those of the queue, so the invariant takes over the parts of
`TaskQueue`'s that do not depend on what a body does (`QueueParts`; a step of a job is a step
of the queue with a body, or leaves the queue alone) and adds:

* `NotSent` (a job between its charge and its enqueue has no row) and `PaidByPoll` (a poll
  pays back only a job it has failed);
* `RefundsBounded`: a grant of attempts is used up by the failure of its row, which hands one
  refund to the one run that saw it, so refunds given, refunds in the hands of such a run and
  the grant that is left never exceed the grants;
* `OneStory`: what a run past its pipeline, and what a row that is settled, say of the job.

`BulkFanout_proofs` proves `FanTypeOK`, `FinalizedSoundly`, `OneRowPerItem` and
`CountersExact`, for any number of items, workers, readers and faults:

* `RowsInOrder` (rows are numbered as they are inserted) makes the marker row of a
  finalization one row, and `OneFinalizer` gives it to one child while it lives;
* `OneRefund`: one child at most owes a refund, of failures that have been counted;
* `FannedOut`: without faults and while the parent is not reaped, nothing has children before
  the parent's run, and the parent is never pending afterwards;
* `NothingUncounted` needs no excuse, because `update_bulk_job_item` writes item and counter in
  one transaction: whatever fails, is reaped or is read late, no item that ended is missing from
  the counters. The opposite (`CountedOnce`) holds while nothing of this happens;
* `ItemsUncounted`: undisturbed, the item of a row that is not settled is not counted, which
  makes the increment of a counter exact.

`Payments_proofs` proves of `CreditAccount` `CreditTypeOK` (so: no overdraft, refunds within
charges, the pool within its size), `GrantedOnce` and `LedgerExplainsBalance`. The invariant
says that at most one open transaction has inserted a session, that such a session is not
yet fulfilled, and that `granted` counts the fulfilled ones. The ledger needs a sum over the
callers whose entry is not written yet, for any finite number of them. It is stated as the
list of its partial sums over an enumeration (`SumsTo`), which exists or not and needs no
induction: a caller that comes or goes shifts the later sums.

Of `ListAnalysis` it proves `ListKeepsItsBooks`, for any number of accounts, requests,
coroutines, attempts and faults. Rows are in a phase given by their status and the coroutine
that holds them (`Phase`):

* `ListTypes`, `PlacesFit`, `TakenFirst` and `NothingYet` say whatever fails what a place has
  read, and that an account is retried only after an analysis took it;
* `Steadily`: while nothing fails, a row has one coroutine, and no child finds its siblings
  done;
* `RefundsPaid` sets what was refunded and the retries that may still refund against what was
  paid; `AnalysesPaid` does the same for the accounts that were taken and for every request and
  row that can still take the fresh ones;
* `OneAtATime`: while each account has one item and no retry crosses another, one request,
  row or coroutine works on an account, and none on a failed one.

Of `Watchlist` it proves `WatchKeepsItsItems`, for any number of items, poll loops and runs:
a slot holds an item or is free (`WatchSlotsFit`); what was claimed or queued for an item is the
only thing that was (`Apart`), because its date was put ahead in the same statement
(`PutAhead`) and time passes only while nothing is outstanding; an item that is not `behind`,
and what was claimed for it, refer to the newest document (`Remembered`); and a run was charged
for at most once an attempt. An item falls behind when the run that stored its document fails
afterwards or dies, and not otherwise; one that a later run is recorded for is no longer behind.

`ApiRequests_proofs` proves all four safety properties of charged requests, for any number
of keys, requests per key, retries and faults. The invariant calls a handler the owner of
its key when it is at a point past the claim, has charged, or has its result in its answer or
in the row (`Owned`); a key has one owner (`Exclusive`), an owner has a row (`KeyHeld`), and
a success is the owner's own or a copy of the row (`Replied`, `KeyWritten`). `Paying` says what
has been charged at each place of each route, which gives `ErrorsAreFree`. Every statement of
a handler, failed or not, is first shown to be a `Step` of one handler, and `Step` is shown
to preserve the invariant once.

`Services_proofs` proves `NothingGrantedTwice`, `KeptIsCurrent`, `RecordsMatchEffects` and
`LimitsHold` of `PartsSpec`, the specification of `Services`, for any number of instances,
people, tabs, pages, jobs, probes, deliveries, accounts, rules, visits, documents and keys.
Each part has its own invariant, and `PartsStep` shows that a step of one is a stutter of
the others:

* startup: only the holder of the lock goes through the files and those behind it are
  applied (`HolderApplies`); a file was executed more often than instances died only if it is
  applied or about to be (`ExecutionsCounted`);
* the user's row: a request that was not overtaken has read what the row says (`ReadsFollow`),
  and so has an entry that no write from elsewhere led `astray`;
* the team: numbers of invitations are apart and a pending one let nobody in (`TokensApart`,
  `JoinsCounted`), an account was welcomed once (`AccountsWelcomed`);
* collection: the headers and the industry code that a job will take from a singleton are its
  own unless it was overlapped (`HeadersKept`, `IndustryKept`), and a probe holds a permit
  (`PermitsHeld`, which also gives `ProbesHavePermits`);
* automation: what a rule's batch has under way, treated and missed is all that matches the
  rule (`ActsOnAll`, `TouchedMatches`), and an account that is pending is in a batch
  (`PendingHeld`);
* deliveries: what the place of one says of its record, attempts and answer (`Stands`);
* document pages: no user has two documents under one link (`LinksApart`), and what a request
  shows has the name and suffix that it asked for (`Opens`); every half credit is in a
  document, in contacts, in a search that found none, in a request or in one that was cut off
  (`MoneyIsExplained`), which takes three sums, over members, documents and visits, through
  every step;
* rate limits: what the limiter keeps of a key is the end of what it granted, unless the key
  was forgotten, so that counting in one counts in the other; `InWindow` is a recursive function
  over the hits, and its values are proved by induction along the sequence;
* the delay of a delivery: what it slept is at most the sum of the sleeps its attempts call for.
  The code gives this bound only with its own numbers, so `DelayConstants` allows no more
  attempts and no longer sleeps than the code's.

`Documents_proofs` is about what is computed from data:

* `EverySteadyRowOnce`, the property of pages: for any rows, scores, iterators and page size,
  what is owed to an iterator was yielded if and only if it is behind the cursor
  (`OwedIsAhead`). The step that fetches a page needs that the order of the rows is the order of
  the cursor (`CursorIsOrder`: `COALESCE` with its sentinel agrees with `NULLS LAST`) and that a
  page is cut where its last row is (`PagesOfAll`), which are facts about finite sets and
  their cardinalities;
* `ChunkingLosesLittle`: for every text, the windows cover a section (`WindowCovers`, by
  induction along its sentences), and what a dropped chunk loses is less than the smallest
  chunk, because the next chunk starts with any tail that is no longer than the overlap. This
  is where the code relies on `MIN_CHUNK_SIZE` being at most `DEFAULT_OVERLAP`, an assumption
  of `MaterialConstants`;
* `MaterialsStayWhole`: a row has its file (`FilesKept`), and a material that nothing disturbed
  has one task, whose place says how many of its chunks are stored (`Progress`);
* `WhatIsSentFits`: the place of the work says what the emails and the message are already
  known to satisfy (`Places`) and how many calls were made (`CallsMade`). That a message cut to the
  limit fits it is about sums over a prefix of its sentences;
* `DocumentsStand` proves `DocumentsStandOnFacts` of `GroundsSpec`, with an invariant for each of
  the four modules and `GroundsStep`, by which a step of one is a stutter of the others:
  * technologies: everything detected is on a chain (`SurerIsWithin`: a surer chain is one of
    the less sure, so a confidence may be raised), and what was expanded has led on as far as
    it could unless it was raised afterwards. When the queue is empty, what is detected
    is therefore closed under the links and holds every chain, which is the least such set. What
    is listed, known, stored or under analysis is the same set of names at every place;
  * inference: each pass keeps one signal per rule and the grounds of every compound
    (`DampenedIsSound`, `DoubtedIsSound`, `WeightedIsSound`, `DemotedIsSound`, `EvaluatedIsSound`),
    and a prompt signs each source that is to be named, and each signal, with one tier
    (`ApartAs`): a flat prompt all that are relevant to the seller, a tiered one all but
    what the marketing sites run (`NamedIn`);
  * generation: what is kept is one answer with its own scores, a valid one where one was received
    (`OfOneAnswer`, `Best`), and formatting says a line once and loses none (`FormatSaysOnce`);
  * the seller's profile: whatever the list, what was chosen bucket by bucket and then filled up
    is without repetitions and as long as it can be (`SelectionIsWellSpent`).

`Sums_proofs` has what these need and the library's proofs do not give without the provers
that are missing: a set of numbers that has 0 and the successors of its members has all
(`NumbersFromZero`, from the least member of what it would leave out), the existence of
sequences defined from their first member (`RecursionFromFirst`), and `SumFunctionOnSet`, a
fold over a set: it exists, does not depend on the order, and a member adds its value
(`SumWithout`, `SumChanges`, `SumOfPart`).

TLC has checked each of these inductive invariants on the instances of the runs before it was
proved.

The assumptions are `QueueConstants`, `FanConstants`, `AccountConstants`, `ListConstants`,
`WatchConstants`, `RequestConstants`, those of `Services` (`StartConstants`, `TeamConstants`,
`UserConstants`, `ReportConstants`, `AutoConstants`, `PagesConstants`, `MoneyConstants`,
`CollectConstants`, `LimitConstants`, `DelayConstants`), `CursorConstants`, `MaterialConstants`,
`WritingConstants`, and those of `Grounds` (`InferConstants`, `GenerationConstants`,
`TechConstants`, `ProfileConstants`): counts are natural numbers, some of them not zero, some
sets are finite, the names for nothing (no task, no account, no profile) are apart from the
names of things, tables name a technology once and imply only what they name, a doubt takes
ten or twenty, a weight of a path is none or at least three, and the two relations between
constants of the code named above. TLC evaluates them in every run.

Only model-checked:

* everything under fairness (`EveryTaskSettles`, `ShutdownEnds`, `ChargeSettles`,
  `EveryItemCounted`, `CallsEnd`, `CallEnds`, `NothingIsForgotten`), which the prover cannot do;
* `ServicesTypeOK`, the conjunction over all sixteen parts of what `MCServices` puts together.
  The types that the proofs need of each part are in its inductive invariant.

## 5. What the checks found

* `queue_hang`: the loop that reaps stale rows waits for a permit first, so when every permit
  is held by a hung job, nothing is reaped (`worker.py:161`).
* `research_never`: a task exhausted by `requeue_stale` is not refunded (`worker.py:81`).
* `bulk_end`: each child counts its own running row among the unfinished, so none finalizes
  (`api/jobs.py:295`).
* `credit_pool`: a ledger entry needs a second connection while the first is held
  (`db/credit_ledger.py:22`).

Met while proving: chunks lose little only because the smallest chunk is no longer than the
overlap; with a larger one, several chunks of a section may be dropped whose sentences no
other holds (`services/chunking.py:22`). The bound of nine calls for a message needs that an
anchor is asked for once and inserted once, in this order. Two properties of a list held on
the first instance only because it had one request. Two retries of one failed account, by
two clicks, make the counter of failures wrong (`FailuresCounted`, with one account and two
requests: the second resets an account that is not failed any more, `routes/lists.py:705`,
`db/lists.py:342`). An analysis that takes an account between a retry's reset and its mark
analyzes an account that only the retry has paid for, and the retry analyzes it again
(`RunsArePaid`, with three accounts, three requests and eight credits). Both are properties
of lists in which nothing `crossed` now, and the run has an instance with two requests.

A technology may be implied on a chain and its confidence raised after its turn, which is the
one reason why the closure has an exception (`RaisedLate`). A compound of marketing debt is
offered to sellers of developer tools although its grounds are denied to them: its description,
"... evidence of marketing infrastructure debt" (`services/pain_inference.py:912`), holds their
linkage term "infrastructure" (`services/pain_inference.py:124`); `CompoundsStandOnSignals`
excepts it and no other. A profile without a summary need not be one without pages: the model
may leave it blank, as it is asked to where it is unsure, and a page of pictures has no plain
text (`services/seller_profile.py:266`), so `SourcesWereRead` says of an empty profile only what
follows from having read nothing.

Met while modelling, without a run of its own:

* A request that fails after its claim (402, 422, 500) leaves the row at `status_code` 0, and
  every repetition is told 409, "already in progress", until the row expires a day later
  (`api/idempotency.py:31`; the SDK does not retry a 409). `PaidOncePerKey` holds because of it.
* `enrich` answers from its cache without saving the key (`api/routes.py:405`), ignores
  whether `use_credit` charged (`api/routes.py:435`), and refunds half a credit after a later
  failure in either case: `paid` may become -1, which `ApiTypeOK` bounds.
* The SDK makes up a key for each call, so a call repeated after its 60 s timeout is a new
  request and not protected by the key.
* The ten-minute timeout of a status poll refunds a job whose task goes on, and the worker
  refunds it again if the task is exhausted later (`api/routes.py:267`, `worker.py:83`). This is
  why `RefundedOncePerGrant` excepts jobs that a poll gave up (`expired`).
* Lists: `retry_selected_accounts` takes the pair that `get_list_accounts` returns for the
  rows, charges two credits and raises (`routes/lists.py:647`; `lost` in the model); an analysis
  that is answered 402 or 422 leaves the list "analyzing"; the page that polls finalizes
  without refunding; a child requeued while it runs is counted twice, so that refunds may
  exceed charges after a fault (hence `upsets = 0` in `RefundsWithinCharges`).
* Watchlist: `complete_watchlist_run` writes "active" over a pause made during the run; a
  deleted item's run fails at its score change and is charged again at each attempt. Any
  exception after the new document was saved (`api/jobs.py:618-635`) makes the except branch
  write the old document back (`api/jobs.py:666-671`), with no process dying, and the next run
  compares with it; each attempt is charged and none refunded (`ChargesBounded`).
* User record: `update_seller_profile` may write an older website back, and a save that was
  decided on a stale view skips the rebuild of the profile (`blind`). The balance belongs to the
  organization, but `use_credit`, `refund_credit` and `create_job_with_credit` pop only the
  caller's entry of their own process (`db/users.py:480`, `db/users.py:498`), and
  `fulfill_session` pops none: a charge by a colleague or by `worker.py`, or a purchase, leaves
  the cached balance of the others (`astray`) until it expires. Startup: the handler of a unique
  violation goes on inside the transaction it aborted, so that the start fails and is repeated.
* Team: a removed member keeps `users.org_id`; a person known through one provider gets an
  error from the other, since emails are unique.
* Webhooks: an entry that fails after the post leads to another post (`unsure`). Automation:
  a rule run is marked completed even if some of its accounts failed.
* Collection: the industry code of the company looked up before stays on the EDGAR client
  for a company without filings; a failed download of the tickers is stored for the life
  of the process; `_check_url_exists` answers None for a 405 before its own test for it.
* Technologies: the sites of a product are analyzed with no HTML (`tech_detection.py:415`), so
  inline scripts are the empty text. "If pattern is non-empty, use it; otherwise use
  re.escape(global_path) as presence check" (`techdetect/fingerprints.py:85`) asks for this
  before the pattern is split, so that an entry that only has a mark (`\;confidence:25`) keeps
  an empty expression, which is found in any text: every site that answers is said to run
  Shopify, PrestaShop, Chart.js and others of the table (`Prepared`, `Search`). A technology
  found weakly and raised after its turn is not expanded again (`RaisedLate`). A confidence of
  0 is stored as 100 (`db/tech_signals.py:28`). Redirected sites keep their own address, so the
  deduplication by final URL never drops one (`tech_detection.py:312`).
* Seller profile: a short path scores in every bucket, so the two further pages are taken by
  "product" and "audience" even when nothing speaks of either, and a page of customers or
  prices is passed over for the first short one (`seller_profile.py:146`; hence
  `ProductAndAudienceAreRead` says nothing of "proof"). The host must be the same to the letter,
  `www.` included. The fallback calls the first page that could be scraped the homepage.
* Inference: a confidence of exactly 10 that is lowered by 10 becomes 0 and its signal is
  dropped; two dampeners name families that their rules never have; the flat prompt drops
  signals without a category. The tiered prompt leaves out what was found on marketing sites
  only (`claude.py:1127-1129`), as `tests/test_claude.py:1439` asks, and both leave out
  postings and mentions of which nothing is relevant to the seller (`claude.py:1123-1124`).
* Generation: an empty answer passes every check and may replace one that failed them; a
  composite that is given is not compared with the three scores. Writing: a shortened body
  that comes back empty is accepted; inserting the company name may push a message over its
  limit, so that the trim drops the question.
* Document pages: a statement of `start_research` that fails after its charge keeps the credit,
  with no job or no task for it (`routes/research.py:73-82`); two purchases of the same contacts
  are both charged, and an empty answer is too (`empty`); after nineteen documents of one
  company name `save_document` raises.
* Materials: a material that is reprocessed while it is processed has its chunks twice; a
  short answer of the embedding service truncates the chunks silently; a task lost in a crash
  leaves "processing" (`spoiled` excepts these).
* Cursors: the second page of a list sorted by company name is always an SQL error, while
  the SDK's iterators promise all pages; the other orders are as they should be.

## 6. What is not modelled

The admin path (no charges) of jobs; wording, prompts, pages and the formats of external
services; `get_failed_tasks`, `get_queue_stats` and other reads without consequences; the
contents of the fingerprint and archetype tables, which are constants of `TechDetect`, and
the text matching of the parsers, whose results are inputs of `Inference` and `Generation`;
vector search; OAuth exchanges; the waiters of the SDK, which read in a loop; notifications
and integrations, which send one message to a product each; administration, images, the
Chrome extension, the static site and the operations scripts. Each component left out, and
what is left out of the others, is in `PROJECT.json`.

`ListAnalysis`, `Watchlist` and the modules of `services` reduce the queue to a row that is
claimed, settled or requeued; that the queue does this is what `TaskQueue` is about. They
are not composed with it statement by statement, which would exceed what TLC can enumerate.

## 7. Plan

1. An abstract specification of a reservation (charged, then delivered or refunded) and its
   refinement by `ResearchJobs` under the assumptions of its properties.
2. The choice of one pain for a message, and versions and signal quality of technologies.

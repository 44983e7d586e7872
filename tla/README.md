# ForUsGuide: a verification project

`src/kb-rag-system` is a service that answers inquiries about 401(k) plans from
a knowledge base (retrieval and language models) and, for tickets, collects the
participant's data from an external robot service, ForUsBots, before it
answers. A ticket is accepted at once and worked on later: the job is stored in
Firestore, a Cloud Tasks task delivers it to a worker, clients poll for the
result, and a scheduled reconciler repairs what got lost between the three.
Beside this durable pipeline stand a review console with a store of its own, a
reader of DevRev, the engine that searches and answers, and a controller that
plans, applies and promotes releases. All of these are modelled here; section 6
says what is not.

Paths below are relative to `src/kb-rag-system` unless they start with `src/`.

## 1. Inventory

### The ticket pipeline

| component | state | operations | interacts with |
|---|---|---|---|
| **Job repository** `data_pipeline/ticket_job_repository.py`, `ticket_job_models.py` | per job: control document (state, owner, lease, `lease_epoch`, `enqueue_state`, `enqueue_generation`, recovery lock, error), payload document with TTL; per principal: outstanding counter, rate window; per idempotency key: receipt; per inquiry: checkpoint, ForUsBots intents and receipts; one scan cursor | each method is one Firestore transaction: `create_or_get`, `claim`, `renew_lease`, `record_inquiry_result`, `update`, `mark_enqueued`, `bump_enqueue_generation`, `acquire_recovery_lock`, `fence_and_requeue`, `terminalize_recovery`, `terminalize_if_unrecoverable`, the scan | called by all the others; Firestore's TTL deletes payloads behind its back |
| **Worker** `api/ticket_worker.py` | per delivery: the job, the delivered generation, the epoch its claim got, heartbeat misses | the HTTP endpoint (`ticket_job_task`), `run_ticket_job`, `_heartbeat_loop`, `_execute`, aggregation of inquiry results to one verdict | claims, renews and ends jobs in the repository; answers Cloud Tasks; calls the orchestrator |
| **Task queue / outbox** `data_pipeline/ticket_task_queue.py` | task names `(job, generation)`; a name once used is a tombstone | `ensure_enqueued` (create, probe, burn, confirm), `task_exists` | Cloud Tasks (at-least-once, five attempts), repository |
| **Reconciler** `data_pipeline/ticket_reconciler.py` | the snapshot it took, its owner name, its lock in the document | `run_once`: lock, end overdue jobs, end jobs whose payload is gone, fence lapsed leases, enqueue pending ones, recheck confirmed ones | repository, queue; started by Cloud Scheduler each minute, runs may overlap |
| **Producer and poll endpoints** `api/main.py` | none of its own between requests | `_accept_ticket_job` (peek, create, enqueue, confirm; a replay repairs the outbox), GET status (ends an unrecoverable job lazily) | repository, queue, n8n clients |
| **Administrative requeue** `scripts/requeue_ticket_job.py` | the record it read | read, judge, bump, enqueue | repository, queue |
| **Orchestrator, router** `data_pipeline/ticket_orchestrator.py`, `inquiry_router.py`, `gr_payload_builder.py` | per inquiry: chosen route, scrape results | route, `_scrape_all`, `_handle_gr`, knowledge questions | worker, ForUsBots client, RAG engine |
| **ForUsBots client and effect ledger** `data_pipeline/forusbots_client.py`, repository 979-1435 | circuit (closed, open, half open), semaphore, in-process map of shared submissions; durable intents and receipts per operation | `submit_and_poll`, `resume_job`, prepare and record around the POST | ForUsBots over HTTP, repository |

### The rest of the program

| component | state | operations | interacts with |
|---|---|---|---|
| **Inquiry execution** `api/ticket_worker.py` 405-568, 987-1625, orchestrator `handle_inquiry` | the stored plan, one checkpoint per inquiry, the attempt's budget | extract, plan, sample a shadow, handle, checkpoint, aggregate, resume | job repository, orchestrator, RAG engine |
| **Review console store** `data_pipeline/ticket_review_repository.py`, `api/ticket_review_models.py` | reviews with version, retention clock and hold; evidence links; a chained audit ledger; idempotency keys; batches with leases; imports with counters; sealed cursors | create, patch, assign, link, hold; claim, heartbeat, extend, patch, release a batch; apply and reverse chunks of rows; purge; list | people and agents through an API that is not written yet (the tests are its callers), a purge job |
| **DevRev client** `data_pipeline/devrev_client.py` | per call: cursor, pages, requests, flags | get a ticket, list tickets, load or walk a timeline | DevRev over HTTP |
| **RAG engine** `data_pipeline/rag_engine.py` | a search cache shared by requests; per request: chunks, profile, context, outcome | required data, answers, knowledge questions | vector index, language models |
| **Release controller** `scripts/release_controller.py`, `create_evidence_manifest.py` | Terraform serials, queues, plans, outputs, promotions, evidence artifacts | plan, apply, publish, build, attest, observe, promote | Cloud Build, Terraform, Cloud Tasks, people's receipts |
| LLM router, rate limiter, uploader | counters and a fallback | | not modelled, section 6 |
| Auth, config, middleware, metrics, logging, fault injection | validation, I/O; injected faults equal a crash between two steps | | not modelled |
| Terraform, n8n flows, UI, articles, agent prompts | deployment and content | | Terraform and the n8n flow give parameters and the polling client |

### What is hard here

* **Interleaving**: two deliveries of one task (Cloud Tasks is at-least-once)
  under the same worker id, a heartbeat next to its attempt, overlapping
  reconciler runs, polls and an operator, all over the same document.
* **Stale reads**: nearly every actor reads in one transaction and writes in
  another; fencing is by lease epoch, generation and compare-and-set.
* **Crashes** between create and enqueue, claim and verdict, fence and enqueue.
* **Unreliable delivery**: lost tasks, exhausted retries, tombstoned names.
* **Time**: leases, recovery locks, a payload TTL, an absolute deadline, with
  boundary comparisons (`>` for a claim, `<` for a holder) that matter.
* **Accounting**: ten paths end a job; each must free one quota slot, close one
  receipt and drop the payload.
* **Long sequences of legal calls** in the console: renewals, extensions and
  reclaims of a batch; rows applied, edited, reversed and retried; a purge in
  bounded pieces next to people who edit; a listing of a queue that moves.
* **Combinations**: which exclusions, boosts, quotas and blocking intents meet in
  one answer is decided by independent tables that nobody tests together.
* **Documents that outlive their reason**: plans, evidence and promotions of
  another image, run or controller.

`PROJECT.json` lists each hazard at its line with the properties aimed at it.

## 2. Modules

```
TicketRepository            the store: one action per transaction; implements
                            ExclusiveLease
  <- TicketWorkers          EXTENDS it: deliveries, run_ticket_job, heartbeat, faults
       <- TicketDelivery    EXTENDS it: queue, producer, reconciler, operator
TicketExecution             the inside of an attempt: plan, checkpoints, verdict
ForusBotsClient             one process's client of the scraping service
ForusBotsEffects            what attempts leave behind upstream and in the store

ReviewContract              tables of the console's state machines (no state)
  <- ReviewBatches          batches and their leases; implements ExclusiveLease
  <- ReviewStore            reviews, links, keys, ledger
       <- ReviewRetention   EXTENDS it: purge runs
       <- ReviewImports     EXTENDS it: chunks of rows
  <- ReviewReads            listings and cursors
ExclusiveLease              abstract: what every lease promises

DevRevClient                calls to DevRev
RagRetrieval                search, cache, boosts, gate
RagRouting, RagContext      signals to profile; chunks to context (no state)
  <- RagAnswer              EXTENDS both: one answer from routing to outcome
Lists                       lists and dictionaries as the four Rag modules work
                            on them (no state)
ReleaseApply                plan and apply builds
ReleaseEvidence             evidence and promotion of an image

TicketRepositoryProofs    theorems about the store
  <- TicketDeliveryProofs   EXTENDS it: attempts and delivery path
TicketExecutionProofs, ForusBotsProofs (client and ledger),
ReviewBatchesProofs (batches and listings), ReviewStoreProofs,
ReleaseProofs, AnsweringProofs (DevRev, search, answer)            TLAPS
MCTicketWorkers, MCTicketDelivery, MCForusBotsClient, MCForusBotsEffects,
MCForusBots, MCReviewConsole, MCAccountsAndRelease, MCAnswering    TLC
```

The layering is a chain of refinements. `TicketRepository!Spec` is the abstract
specification: documents under *the most general client*, which calls any
transaction at any time with any argument, stale ones included. `TicketWorkers`
replaces the worker's part of that client by attempts that follow the code and
leaves the others general (`OthersStep`). `TicketDelivery` makes those concrete
too. Each layer is shown to implement the one above (`ImplementsRepository`,
`ImplementsWorkers`, both proved and checked), so what is proved of the
store holds of the whole.

### TicketRepository

| variable | code |
|---|---|
| `jobs` | `ticket_jobs/{id}`, the control document (`TicketJobRecord`) |
| `payloads` | `ticket_job_payloads/{id}`, present or not; live while `expires_at` is in the future |
| `receipts` | `idempotency_receipts/{key}` |
| `counts`, `windows` | the two documents of a principal |
| `now` | `utcnow()`, shared (`ClockLag` bounds how old a caller's clock may be on admission) |

One action is one method's transaction: Firestore transactions are
serializable, so a method whose reads and writes are one transaction is one
step, and a caller that uses two of them is modelled (in the upper layers) as
two. `_stage_terminalization` is part of whichever action ends a job
(`Terminalize`). Arguments (`lease_epoch`, `enqueue_generation`, expected
snapshot) come from `\E`, which is what makes stale callers possible. A
refused call changes nothing and is the stutter of `[Next]_vars`, except the
refusals that terminalize an expired job on the way; those are disjuncts.

Abstracted: display fields, request text, the inquiry checkpoints (`Progress`
only keeps their effect on the lease fence; `TicketExecution` has them), verdict contents (`WorkerVerdicts`
is the set of state and error pairs aggregation can yield).

### TicketWorkers

One element of `Attempts` is one delivery of a task, with its program counter:

```
idle -> accepted -> running -> closing -> acked        the job reached a verdict
           |          |  \---> cancelled -> nacked     shutdown, lost lease
           |          \------> superseded...           stale epoch: answered from the record
           \-> refused -> acked / nacked               claim refused: duplicate or busy
```

`Receive` is the endpoint up to its pre-check, `Start` the claim with each of
its outcomes, `Complete` the terminal update inside `_execute`, `Requeue` the
`CancelledError` handler, `Beat`/`MissBeat` one turn of `_heartbeat_loop`.
`cancelled` is the time between `task.cancel()` and the handler: the job is
still leased. Faults are a budget (`MaxFaults`) drawn from `Faults`: `crash`
(instance lost), `cancel` (SIGTERM, client gone), `miss` (renewal timed out),
`lost` (the requeue transaction failed), `unrecorded` (the attempt failed and so did
the write of its failure).

### TicketDelivery

`tasks[j][g]` is the Cloud Tasks name of generation `g` of job `j`: never used,
queued, or gone (a tombstone: the name is refused). `callers` are the processes
outside the worker: producers, reconcilers and operators, which share
`ensure_enqueued` (create, probe, rebump, confirm) and come back from it to
`CallerRests`. A reconciler keeps the `SnapshotOf` the document and takes
its decisions from it, as `run_once` does; its compare-and-sets check the
document again. `Drop` is a failed call or dead process at any step.

### ForusBotsClient

| variable | code |
|---|---|
| `circuit` | `_circuit_state`, `_circuit_failures`, `_half_open_inflight`; `cooled` stands for "`circuit_reset_s` has passed" |
| `requests` | one coroutine of `_submit_and_poll` or `resume_job` each, with its `_SubmitBoundary` (`crossed`, `orphaned`) |
| `inflight`, `cache` | `_inflight`, the keys of `_result_cache` |
| `callers` | the coroutine that awaits it |

```
created -> queued -> sending <-> backoff        POST and its retries
     \--------------/    \-> persisting -> polling -> finished
```

The client runs on one event loop, so one action is the code between two
awaits; nothing finer interleaves. A free permit of the semaphore is taken
at once, as asyncio's does. The four kinds are the four ways into the client:
`shared` (the deduplicated task of `_deduped`), `observed` (`_observed_submit`,
a task owned by one lease, the worker's way), `plain` (awaited directly) and
`resume`. What the transport may do with a POST is a reply of `Replies`.
Cancellation is modelled as asyncio has it: a flag set by `cancel()`, delivered when
the task next runs.

### ForusBotsEffects

One inquiry of the `generate_response` route, its operations (participant,
plan), the attempts that work on it and the service.

| variable | code |
|---|---|
| `job` | epoch, owner, liveness and verdict of the control document |
| `entry` | the inquiry's checkpoint: `execution_status`, `error`, `manual_reconciliation_required` |
| `intents` | the `lease_epoch` of each operation's element of `forusbots_submit_intents` |
| `receipts` | `forusbots_external_jobs` |
| `attempts`, `subs` | the worker's coroutine and its submissions, which may outlive it as orphans |
| `service` | the job the service holds under each idempotency key (external) |

`Claim`, `Lapse` and `EndByRecovery` are what `TicketRepository` and
`TicketWorkers` refine with a clock; the circuit and the retries of a request
are those of `ForusBotsClient` seen from outside (a refusal, a number of tries).
A job of the service is named by the modules it was asked for, so that the
answer of a replay under a key that stands for something else is a conflict
(409). An attempt asks for what its field mapping, an LLM's, came up with: two
attempts may differ. The payload that holds checkpoint, intents and receipts lives
throughout: its expiry ends the job and is in `TicketRepository`.

### TicketExecution

`job`, `plan` and `entries` are the payload's mode, `execution_plan` and
`per_inquiry_status`; `attempt` is what `_execute` keeps between two awaits.
`Extract` stores the plan once (`Rehydrate` is every later attempt's way to it),
`Handle`, `HandleTimesOut`, `HandleFails` end in one `Checkpoint` each, which may
raise; `Expire` is the attempt's budget, `Interrupt` the instance's end, after
which the next `Claim` starts over from the checkpoints. The branches of the
orchestrator are the operators `KQOutcome`, `GROutcome`, `ScrapeStatus`: given
which of their calls fail, what outcome and diagnostics come out. `Aggregate` and
`PublicError` are translated as they stand. Attempts are serial here, which
`EpochsAreExclusive` and `SupersededIsPowerless` justify: a fenced one cannot write.

### The review console

| variable | code |
|---|---|
| `batch`, `items` | `remediation_batches/{id}` with its lease, its frozen items |
| `review`, `links`, `ledger` | `ticket_reviews/{id}` (live or tombstone), `evidence_links`, `audit_events` in chain order |
| `keys` | `idempotency_keys/{key}`: request digest and expiry |
| `import`, `rows`, `attempt` | `ticket_imports/{id}`, its rows, what a delivery of a chunk keeps |
| `run` | what one `purge_expired` keeps between its transactions |
| `queue`, `link`, `walk` | what a listing's query reads, and the client's cursor |

Every method is one transaction and one action; what spans several (a purge run,
a chunk) is one action per transaction with its local state in between, and may
die there. A transaction commits with a clock reading up to `Delay` old, since
the methods, those of the batches included, read the clock before a transaction that
Firestore may retry. `Delay < Lease`: its attempts are over long before 15 minutes are.
Callers are the most general ones: no API module calls the store yet, so any role,
token, version and key the types allow may come.

`ExclusiveLease` is the promise: one holder at a time, displaced only when its time
is over, prolonged only while it runs by a reading at most `Lag` old, and another one
each time. `TicketRepository` implements it with `Lag <- 0`, under `LeaseHolder` (worker
and epoch) and `LeaseEnd`: it reads the clock inside its transactions.
`ReviewBatches` implements it with `Lag <- Delay`, under `holder <- Holder(b)`,
`until <- Until(b)`, where the time of the claim belongs to the holder because tokens
are the clients' own and may come again. There a heartbeat or an extension that was
retried may prolong a lease up to `Delay` after its end, if nobody took it over in
between; that it may at all is finding 4.

### DevRevClient, RagRetrieval, RagAnswer

A DevRev page is what the server likes (`Pages`: rows with the flaws that
normalization tells apart, cursors that repeat); time is counted in units of the
shortest backoff. In `RagRetrieval` a chunk in hand is an object (who fetched
it, under which cache key, which chunk), because the cache hands out the very
dictionaries that requests then boost. In `RagRouting` a text is the set of
phrase families in it, one family per set of phrases that stand in the same lists
of the code. A situation of `kind` "required" is one of `get_required_data`, whose
profile takes a named employer for a former one; the others are those of the answers.
`RagContext` packs chunks with small token counts, in the order of the code's sort keys
(type, tier, category, index, score). A model's answer is
anything. Scores are hundredths; the thresholds are the code's.

### ReleaseApply, ReleaseEvidence

One action per command of a build: check, pause, Terraform, settle the queues,
publish. A build may die between any two; a new controller, promotions and tasks
come in between. In `ReleaseEvidence` each controller command is one action on
the bucket's documents; what staging serves and what a later scan finds is external.

## 3. Runs

Parts of the program that share no state are checked **side by side** in one run: a
variable `part` is chosen at the start, the chosen part takes its steps and the
others keep their initial state. Such a run is the union of separate runs.

| run | bounds | what it shows |
|---|---|---|
| `accounts_and_release` | store: 2 jobs of one principal with cap 1 and rate limit 1, 1 key, 2 requests, a lagging clock 0..2; release: 2 builds, 2 plans, 3 kinds of request, 2 controllers; 2 images of one commit, 2 executions | the counter equals the number of active jobs; a key binds one job and request, its receipt follows the job; "expired" verdicts are true; production runs what was promoted under the controller that planned it; a paused staging queue stays paused; a promotion is of one commit, image and execution |
| `workers_fencing` | 2 attempts under one worker id, 1 fault of five kinds, clock 0..3, deadline 2, 2 epochs | exclusive epochs; a delivery that never got the job is answered 2xx only if none is left to do; a superseded attempt is powerless; terminal is final; a live lease is never stolen, a lapsed one never prolonged; refinement of the store |
| `delivery_executes` | 1 attempt, producer, reconciler, 2 worker faults, 1 queue fault; deadline and payload never run out | every accepted job is executed to a verdict |
| `delivery_deadline` | no worker at all; deadline and payload run out | every job ends |
| `delivery_safety` | producer, reconciler, operator, attempt, 1 fault of worker and queue each | a confirmed outbox has a created task; the recheck never burns a live task; the concrete environment is one `TicketWorkers` allows |
| `delivery_requeue_race` (violation) | operator and worker | finding 1 |
| `forusbots` | ledger: 2 attempts, 2 operations, 2 mappings, 1 try; client: 3 callers, 2 requests of all kinds and replies, 2 permits, 2 tries; crowd: 3 requests with one key, 1 permit | nothing is posted without a durable intent, nor again by whoever could read its receipt; results rest on receipts; work somebody waits for is never cancelled; one live task per key; a half-open circuit has a probe that settles it, unless an unknown exception ended it |
| `client_wedged` (violation) | 2 requests, 1 permit | finding 2 |
| `effects_doubt` (violation) | 2 attempts, 1 operation, 2 tries | finding 3 |
| `review_console` | batches: 1 batch, 2 agents, lease and cap 2, readings up to 1 old, clock to 5, 7 versions; retention: 1 review, 1 link, 2 purge runs with budget 1, clock to 4; imports: 2 rows applied and reversed, 2 deliveries; listings: 3 reviews, 2 links, pages of 1 | runs of a lease are bounded; leases are exclusive; no orphans of a purge; the audit ledger outlives the product; counters are true; rows apply once; retried chunks get through; a walk misses nothing |
| `batch_lease_retry` (violation) | the batches of `review_console` by themselves, 1 token | finding 4 |
| `answering` | execution: 3 extracted, cap 2, 2 attempts, 3 modes; DevRev: 1 call, 2 objects, 2 cursors, 2 tries; retrieval: 2 requests, 3 chunks, 6 profiles; answers: 8 chunks, 110 situations | a reply covers every inquiry; the unprocessed are taken up again; retry is never advised over a final failure; an unflagged DevRev result is complete; its cost is bounded; boosts are no evidence; the routed article is not excluded; contexts are full; the stricter intent blocks |

**Bounds.** `MaxTime`, `MaxEpoch`, `MaxGeneration`, `MaxFaults` and
`MaxQueueFaults` cut the state space; every other constant is a parameter of
the code. All durations are one or a few ticks: the protocol compares times and
never computes with them, so what counts is every order of "lease lapses",
"lock lapses", "payload dies", "deadline passes" and equality at the boundary;
with `LeaseTime = 1` and a clock to 3..5 each happens before, at and after each
other. One job suffices for leases because no transaction touches two jobs'
documents; the shared documents (counter, receipts) get a run with several jobs.
Two attempts suffice for fencing because each fence compares one attempt with
the document; a third adds no new comparison, and the theorem `EpochsAreExclusive`
covers any number.

In the console, the clock of the batches passes the cap and the end of an extension
with a renewal on either side; seven versions hold a claim, two renewals, the
extension, a patch, a release and a reclaim. Keys are left out there (a replay is a
stutter) and come with the imports, whose keys are what makes retries safe. A
purge budget of 1 stops a run between any two of its deletions. A page of one row
puts every edit between two pages. In the release, two plans let an older one be
applied late; two builds are one that dies and one that follows. In the answering
run, three extracted inquiries exceed the cap of two; two cursors make a cycle; two
requests share the cache.

In the client, three callers are what the deduplication can confuse (one that
leaves, one that stays, one that joins), two requests what the circuit can (one that
opens it, one that probes it), and two tries make a first and a last one. The crowded
client has a third request and one permit, so that requests queue. `Threshold` 1 opens
the circuit soonest. That the outcome of a request from before the circuit opened
meets a probe takes a third request of its own and is covered by the theorems
alone, which hold of any number. In the
ledger two attempts are an old and a new one; one try is enough there, because a
retry repeats the same post under the same key and its loop is
checked in the client's part and in `effects_doubt`; the theorems hold for any
number of attempts, operations and tries.

In `TicketDelivery` nothing new starts between `LastTick` and `MaxTime` until
every process has come to rest (`Busy`, `Quiet`); then the clock runs to
`MaxTime`, where all leases and locks have lapsed, and everybody may act again
without faults. A liveness property therefore has a fault-prone prefix and
a fault-free end, and is not satisfied by the clock's stopping. The caps on
epochs and generations never bind in the liveness runs: if they did, the job
would be stuck and `EveryJobIsExecuted` violated.

`CHECK_DEADLOCK FALSE` everywhere: when all jobs are terminal and the clock is
at its bound the bounded system rightly stops.

**Fairness** (`Fairness` in TicketDelivery). Weak fairness of the clock, of each
step of a process that has begun (an attempt is bounded by its 480 s budget, a
request by its timeout) and of Cloud Tasks' settling a delivery. Strong fairness of
the start of a reconciler run on each job - Cloud Scheduler fires every 60 s
and the scan's cursor wraps round, so a job that is again and again eligible is again
and again scanned - and of dispatch, since Cloud Tasks retries a queued task
while slots come and go. Nothing is assumed of producers, operators, polls, TTL
or faults. The retry limits of the queue (`src/infra/terraform/live/platform/environment_containers.tf:100-108`)
are the fault `exhaust`, which is why the reconciler's recheck is needed.

For imports (`IFairSpec`): the import is created, a delivery that has begun goes on,
every chunk is started again and again until it was counted (strong fairness: the
admin's tool resends it), and deliveries do not die for ever. Reviewers owe nothing.

**Symmetry** is used where no property is a liveness property of a specification
with fairness and no constant of the permuted set is told from another: jobs and
requests, attempts, field mappings, builds, images, executions, DevRev's objects and
cursors. The invariants and action properties of those runs name no single element.

## 4. Proofs

All by TLAPS, for all values of the constants that satisfy the named
assumptions: `JobsFinite`, `NoneIsNoValue`, `LimitsAreNaturals`,
`NoneIsNoDocument` (TicketRepository), `FaultsAreKnown` (TicketWorkers),
`LastTickBeforeEnd`, `QueueFaultsAreKnown` (TicketDelivery),
`ExecutionAssumption`, `PlanAssumption` (TicketExecution), `ClientParameters`
(ForusBotsClient), `EffectParameters`, `NoneIsNoMapping` (ForusBotsEffects),
`TimesAssumption`, `SentinelsAssumption` (ReviewBatches), `RetentionAssumption`,
`PatchesAssumption`, `AbsentAssumption`, `BudgetsAssumption` (retention),
`ImportAssumption`, `ChunksAssumption` (ReviewImports), `ReadsAssumption`
(ReviewReads), `DevRevConstants`, `RetrievalConstants`, `ContextConstants`,
`AnswerConstants`, `NobodyIsNoArticle` (answering), `ApplyAssumption`,
`RequestsAssumption` (ReleaseApply), `EvidenceConstants` (ReleaseEvidence). TLC
evaluates each of them, or of its instance, in a run. They say that counts and times
are numbers, that sentinels are no values, and what the configuration of
the code guarantees: a positive threshold, an audit retention longer than the
product's, requests that name known roots and environments, caps that do not
cross, a likeness between 0 and 100.

**The ticket pipeline: store, attempts, delivery.**

* `TypeCorrect`, `RunningIsOwned`, `TerminalStatesAreFinal`,
  `EpochsNameAttempts`, `LeasesAreNotStolen`: `TypeOK` is inductive; running iff
  owned needs it and its own step facts; the action properties follow from
  `TypeOK` and the invariant, one case per transaction.
* `JobsImplementLease`, `RespectForLeases`: `LeaseMoves` says what a transaction may do to the lease of a
  job (keep, take, prolong, give), `OneJobAtATime` that it does so to one job, and
  `LeasesEndSoon` (no lease ends later than one `LeaseTime` from now) that a
  renewal never shortens.
* `SlotsAreCounted`, `QuotaHolds`: the counter equals the cardinality of the
  principal's active jobs. The induction needs that a creation adds
  one new job to a finite set, that a terminalization removes exactly one, and that
  no other transaction changes who is active; the cap then follows from
  the admission guard.
* `ReceiptsHold`, `ExpiryHolds`, `PayloadsDie`, `GenerationsAreGuarded`:
  `NextIsTransaction` reduces the ten methods to what a transaction may do to one
  job - admit it, end it, rewrite it under its acceptance - and each property is
  proved of those three. A receipt needs the direction job to receipt as well,
  or an end of the job could close another's.
* `WorkersTypeCorrect`, `WorkersImplementRepository`: every step of attempts,
  heartbeats and environment is a transaction of the store or leaves it alone
  (step simulation with the identity mapping).
* `EpochsAreExclusive`: no two executing attempts of one job carry one epoch.
  The inductive invariant adds that an attempt's epoch never exceeds
  the document's, so a claim, which increments the latter, is new to everyone.
* `AnswersAreJustified`, `SupersededAttemptsArePowerless`: what an attempt may
  still say or write, by its epoch against the document's; both rest on the
  theorems above, brought over by the refinement.
* `DeliveryImplementsWorkers`: queue, producers, reconcilers, operators and polls take
  only steps that `TicketWorkers` leaves to its most general environment.
  `DInv` is the invariant it needs: what a caller inside `ensure_enqueued`
  (`EnsureOK`) and a reconciler with its snapshot (`ReconcileOK`) still know of
  tasks and document, which others change between any two of their steps. It holds for
  any number of reconcilers, whose runs may overlap; the runs of TLC have one.
* `ConfirmationsAreTrue`, `RecheckIsSafe`: from `DInv`; task names are
  never unused, so what a reconciler saw gone is gone when it burns the name.

**Inside an attempt.**

* `ExecutionKeepsItsBooks`, `RepliesAreWhole`, `NothingIsSkipped`,
  `RetriesAreSafe`: one inductive invariant (`XInv`). The verdict is a function of
  a set of entries and forgets whose they are; what it promises of each inquiry
  needs that an entry was made under the job's mode and its inquiry's route
  (`EntryOK`), that the loop leaves no index behind without one (`Passed`), and
  that the plan is short of the total only at the cap (`PlanOK`). That a retryable
  error hides no final one is `FirstRanks`: the minimum over the priority list,
  whose existence `MinFound` draws from the well-foundedness of `<`.
* `ClientKeepsItsTable`, `OwnersKeepTheirTask`, `ProbesSettle`,
  `KeysShareTheirTask`, `SubmitsAreOwned`: `ClientInv` says what each request's
  record promises by itself (`RequestOK`) and how the records agree with the table
  of shared submissions (`TableOK`, `SharedIsListed`), with their callers
  (`WaitsForStarted`) and with the circuit.
* `EffectsTypeCorrect`, `EveryEffectIsReserved`, `ReceiptsEndPosting`,
  `ObservationsAreReceipted`, `EvidenceLasts`: all from one inductive invariant
  (`IInv`). The properties are not inductive: that a receipt ends posting
  needs that two attempts never share an epoch and that no intent is newer than
  the lease (`Epochs`); that observation means receipt needs that a submission
  which is to be persisted is held by the service, which needs that whoever posts asks
  for something (`Fits`, one clause per point of the code). Most steps change
  one submission and leave the ledger alone (`Calm`, `CalmButOne`); `Taken` covers the steps in
  which the service takes a post; `Prepare`, `Persist` and `Claim`, which write
  the ledger and the epochs, are proved by themselves.

**The console and the release.**

* `BatchesTypeCorrect`, `RunsAreBounded`, `BatchesImplementLease`: `CallShapes`
  reduces every request to one of four things it can do to the lease of its batch
  (`KeepsLease`, `Acquires`, `Renews`, `Drops`), and the theorems are proved of
  those. `RunIsBounded` is inductive with `TypeOK`; the refinement needs
  `WithinWindow`: no lease reaches further than one window from now, or a renewal might
  cut it by more than its reading is old, and each was claimed in the past and ends
  after its claim, or a claim over it might be the same. A reading is at most `Delay`
  old (`ReadingsAreRecent`), and what it grants still runs at the commit because
  `Delay < Lease`.
* `RetentionKeepsItsOrder`, `NothingIsOrphaned`, `AuditOutlivesProduct`,
  `HoldsAreHonoured`: a purge looks outside its transactions and deletes inside
  others. `RInv` says what of the look is still true at the deletion
  (`PageIsWhole`, `EventsAreOfTombs`, `LedgerIsEmpty`); `Keeps` is what any
  other actor, another run included, may do in between, and every action is
  shown to be one. It rests on `Delay < ReviewTTL`: an edit that commits with an
  old clock still makes its review young.
* `ImportsKeepTheirBooks`, `CountersStayTrue`, `RowsStayApplied`: a delivery counts
  what it saw and adds it up in a later transaction, perhaps next to another delivery
  of the same chunk. `ImportBooks` says why the sum is right: a committed row has its
  key, a row in conflict or refused is `Shut` - its version has passed, or nobody may
  send the patch at the current one - and `Grows` says that both stay so, because
  every write raises the version. With that, what a delivery that has no row left did is
  what has committed of the chunk (`SummarizeStep`), and a row that commits belongs
  to a chunk not yet counted (`CommitStep`). All of it holds only until the first key
  may lapse (`now < KeyTTL`): a chunk sent again after `IDEMPOTENCY_TTL_S` is counted
  again, and the two properties now say so.
* `ApplyKeepsItsChecks`, `PromotionPrecedesProduction`, `StagingIsNotResumed`: what
  an apply checked before its first command stays true of the plan it holds,
  because plans and promotions are only ever added.
  `PromotionsRestOnEvidence` is the same of manifests, artifacts and images.
* `WalksMissNothing`: what a walk of a listing has shown and the rows its cursor has
  still before it are together what the query reads, but for what was edited since it
  began. Newest first, then by id, is shown to be a total order (`RowsAreOrdered`),
  and a page its first rows (`PageParts`).

**Inside an answer.**

* `CallsAreBounded`, `ListingsAreHonest`: `CallsOK` says what was spent before the
  page under way and what is spent on it, and that a call that is to claim
  completeness has what DevRev sent so far (`KeptRows`). Both are needed at every
  point of a retry loop inside a paging loop.
* `RoutesAgree`: one case per article the profile may pick, over every text and every
  set of known facts.
* `BoostsAreNoEvidence`: `SearchInv` says that a chunk in hand carries the raw score
  the index gave it, wherever it was cached, boosted, merged, capped or promoted in
  between. A list of chunks is followed through comprehensions, stable sorts and merges
  (`Picking`, `Sorting`, `Merging`).
* `ContextsAreFull`: a chunk once refused stays refused, because tokens and counts
  only grow while a context is packed (`TokensGrow`, `CountsGrow`, `NoRoomLater`),
  and every chunk at hand is tried in some tier or type (`TiersCover`, `TypesCover`).
* `StricterIntentsBlock`: one more chunk never loses a blocking intent (`Recording`),
  and a missing datum is resolved to the strictest intent recorded (`Resolving`).

The lists of these modules are built by recursive functions. Their inductions are
arguments by the least counterexample, which the well-foundedness of `<` gives
(`Least`); `Along` and `Loops` state them once for what a loop keeps.

Three things came out of these proofs. The first version of `ReviewRetention` let a
run that lists one review delete the children of another it had listed before;
`NoOrphans` was not inductive, and the code indeed works on one candidate at a time
(`purge_expired`, `cur` in the model). And a `CASE` of TLA+ whose arms overlap is
not the `elif` of the code: tables and ladders with overlapping arms
(`Code`, `Aggregate`, `PublicError`, `Drafts`, `Levels`, caps of `RagContext`) are now
written so that one arm applies. And `ExclusiveLease` first let a holder acquire its own
elapsed lease again, which is a prolongation under another name: a store whose
`renew_lease` forgets the expiry implemented it. It now asks for another holder.

Proved and in no run any more: `RunningIffOwned`, `EpochIdentifiesAttempt`,
`QuotaRespected`, `PayloadNeverRevives`, `OutboxGenerationGuard`,
`EvidenceIsPermanent`, `NoOwnerlessSubmit`, `HeldIsKept` and the type invariants.

Every invariant and action property of the passing runs has its theorem. Only
model-checked are `EveryJobIsExecuted`, `EveryJobEnds` and `SentChunksGetThrough`:
liveness under fairness, which the prover does not do.

## 5. Findings

1. `requeue_ticket_job.py` promises to reject jobs with a live lease, but judges
   the lease in one transaction and burns the generation in another
   (`delivery_requeue_race`).
2. A response that cannot be read must release the half-open probe, as a test
   demands of `resume_job`. `_submit_and_poll` has no such handler: a probe whose
   POST raises an `httpx.RequestError` that is not a `TransportError` leaves the
   circuit half open for good (`client_wedged`).
3. `_aggregate_public_error` means a possibly accepted effect to dominate every
   retryable failure, but looks only at the flags of the last entries, not at
   the intents kept in them: an accepted submission of an earlier attempt and a
   transient failure of the last one yield a retryable verdict (`effects_doubt`).
4. `extend_lease` says that an elapsed lease "is reclaimed, never extended", but compares
   with a clock it read before its transaction. If Firestore retries the transaction,
   the extension may commit after the lease has elapsed (`batch_lease_retry`);
   `heartbeat_batch` renews in the same way.

Stated in the modules and refuted by TLC when checked, without a run of their own:

* `AckMeansDone` (TicketWorkers): `ticket_job_task` promises that 200 means executed
  or duplicate. If the attempt fails and the store refuses the failure's update as
  well, the record read back is still running and is answered with 200. The
  reconciler repairs it after the lease.
* `TerminalBatchIsFinal`, `ReadyIsClaimable` (ReviewBatches): `release_batch` does not
  look its edge up, so a completed batch whose lease still runs goes back to
  ready; a batch moved from blocked to ready by a human keeps its elapsed lease, and a
  claim then needs an edge from ready to expired, which there is not.
* `LinkedIsThere` (ReviewRetention): a run that began to delete the links of an expired
  review goes on after somebody edited it back to life between two pages.
* `DarkQueueIsPaused` (ReleaseApply): the runbook wants queues paused in dark phases;
  a platform apply that makes a container managed and dark while a build dies, or a
  producer's task waiting, leaves the queue as the last command left it.
* `TechnicalSignalCounts` (TicketExecution): some technical failures (a fallback that
  was taken for an answer) leave no signal in the diagnostics.
* `JudgedOnOwnBoosts` (RagRetrieval): a second request boosts the cached
  dictionaries of the first a second time.
* `RelaxedReachesContext`, `FailureDoesNotProceed` (RagAnswer): the exact context
  drops again what relaxing the exclusions has brought; a failed generation may be
  rescued to `can_proceed` by the legacy termination path.

Noted on the way:

* The tombstone path of `ensure_enqueued` bumps without an expected generation
  and may burn a live newer task (it then creates the next one).
* `acquire_recovery_lock` is never released except by expiry or the job's end.
* Outcomes and cancellations of requests admitted before the circuit opened
  clear `_half_open_inflight`, so a second probe may start next to the first
  (comment at `forusbots_client.py:640`).
* A keyed submit whose first try was applied but lost and whose next try failed
  before it was sent has `crossed` reset and may be cancelled, or ends as a plain
  `ForusBotsError` without `needs_reconciliation` (comments at 943-949,
  docstring at 119-120).
* A caller that joins a cancelled task after its end and before its done
  callback is answered with that `CancelledError`.
* A retry that maps fewer modules, meets an open circuit or runs out of budget
  leaves an earlier attempt's effect unflagged, like finding 3.
* A receipt that arrives after the next attempt took the intent over is refused
  (the docstring at repository 1333 has only the expiry of the lease in mind);
  the successor's replay under the same key finds the job again.
* After an unexpected exception of one operation the other goes on, may still
  post, and its `prepare` turns the terminal entry back to "running".
* `patch_batch` digests a dictionary that its own transaction function extends: the
  second try of a transaction stores another digest, and a client's retry is then a
  conflict (`PatchDigest`).
* `claim_batch` replays from a receipt that lives for seven days, long after the lease.
* `unlink` looks its idempotency key up and never records it; the digest of
  `_simple_review_field_update` leaves the expected version out.
* The status of an import is not looked at when its rows are applied.
* `verify_audit_chain` orders by `occurred_at`, which is read before the transaction:
  two edits that commit in the other order break the check and not the chain.
* Evidence is filed under the commit alone: after an upgrade of the controller the
  candidate can be neither attested again nor promoted.
* `_scrape_all` leaves its second operation running when the first one raises.

## 6. Not modelled

* LLM router (a primary and a fallback, one try each), rate limiter (one counter per
  window), the uploader's breaker and the ingestion scripts: one process each,
  sequential, without state that another actor sees.
* Authentication, validation, configuration, middleware, metrics, logging, redaction,
  parsing of models' JSON, prompts, token counting: pure functions or I/O.
* The reconciler's scan cursor (repository 2024), a page behind a shared cursor: an
  assumption of the fairness of `TicketDelivery`.
* In the console: actors and saved facets, the sanitizing of text, the chain across
  all reviews. In the release controller: bootstrap, scans, hashing, signatures.
* Infrastructure, workflows, pages, articles, evaluation.

## 7. Plan

`ReconcilerScan`: the page of the reconciler's scan and its cursor, which the
fairness of `TicketDelivery` assumes.

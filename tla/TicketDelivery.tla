--------------------------- MODULE TicketDelivery ---------------------------
(***************************************************************************)
(* How a job gets to a worker and what repairs it when it does not: the    *)
(* named Cloud Tasks of CloudTasksTicketQueue (ticket_task_queue.py), the  *)
(* producer's outbox (_accept_ticket_job of api/main.py), the reconciler   *)
(* (ticket_reconciler.py) and the administrative requeue                   *)
(* (scripts/requeue_ticket_job.py), composed with the attempts of          *)
(* TicketWorkers and the store of TicketRepository.                        *)
(*                                                                         *)
(* Producers, reconciler runs and operators are processes ("callers"): one *)
(* step per call to the store or to the queue, with what they read before  *)
(* kept in their local state.  The reconciler of this module treats one    *)
(* document per scan; the documents of one page share the snapshot and the *)
(* owner but no step relates them.                                         *)
(*                                                                         *)
(* Time.  The clock is bounded, so liveness needs an end of time at which  *)
(* nothing is cut off: from LastTick on nobody starts anything until all are *)
(* idle, then the clock runs on to MaxTime, when every lease and lock has  *)
(* lapsed, and everybody may act again, without faults.                    *)
(***************************************************************************)
EXTENDS TicketWorkers

CONSTANTS
    Producers,      \* API instances that accept or replay requests
    Reconcilers,    \* concurrent runs of the reconciler
    Operators,      \* people at the requeue CLI, each uses it once
    LastTick,       \* from here on nothing starts until MaxTime
    QueueFaults,    \* subset of {"drop", "exhaust"}
    MaxQueueFaults  \* bound on their number

ASSUME LastTickBeforeEnd == LastTick \in Nat /\ LastTick < MaxTime
ASSUME QueueFaultsAreKnown ==
    QueueFaults \subseteq {"drop", "exhaust"} /\ MaxQueueFaults \in Nat

Callers == Producers \cup Reconcilers \cup Operators

VARIABLES
    tasks,          \* per job and generation: "none", "queued" or "gone"
    callers,        \* the local state of every caller
    queueFaults     \* queue faults spent so far

deliveryVars == <<tasks, callers, queueFaults>>
systemVars == <<vars, workerVars, deliveryVars>>

-----------------------------------------------------------------------------
\* The name of a task is burnt when the task is gone (acknowledged, or its
\* retries exhausted): get_task then answers NotFound, create_task
\* AlreadyExists.
TaskStates == {"none", "queued", "gone"}

\* ensure_enqueued       create, probe, rebump
\* mark_enqueued         mark
\* reconciler            lock, overdue, inspect, expire, fence, exists, bump
\* operator              requeue, done
CallerPcs ==
    {"idle", "create", "probe", "rebump", "mark", "lock", "overdue",
     "inspect", "expire", "fence", "exists", "bump", "requeue", "done"}

\* What the reconciler uses of the control document it scanned.
Snapshot ==
    [state : States, lease_epoch : Nat, lease_expires_at : Nat,
     job_deadline_at : Nat, enqueue_generation : Nat,
     enqueue_state : {"pending", "enqueued"}]

SnapshotOf(c) == [f \in {"state", "lease_epoch", "lease_expires_at",
                         "job_deadline_at", "enqueue_generation",
                         "enqueue_state"} |-> c[f]]

\* The generation ensure_enqueued works on is gen, the one mark_enqueued will
\* require is expect, None when it is read from the task's name; tries counts
\* the loop of ensure_enqueued.
Caller ==
    [pc : CallerPcs, job : Jobs \cup {None}, gen : Nat,
     expect : Nat \cup {None}, tries : 0..3, seen : Snapshot \cup {None},
     at : Nat, owner : Recoverers \cup {None}]

Rest(pc) == [pc |-> pc, job |-> None, gen |-> 0, expect |-> None,
             tries |-> 0, seen |-> None, at |-> 0, owner |-> None]

DInit ==
    /\ WInit
    /\ tasks = [j \in Jobs |-> [g \in Generations |-> "none"]]
    /\ callers = [c \in Callers |-> Rest("idle")]
    /\ queueFaults = 0

CallerAt(c, pc) == callers[c].pc = pc
CallerJob(c) == callers[c].job
Seen(c) == callers[c].seen

CallerGoto(c, pc) == callers' = [callers EXCEPT ![c].pc = pc]

\* An operator is done after one use, everybody else starts again.
CallerRests(c) ==
    callers' = [callers EXCEPT
        ![c] = Rest(IF c \in Operators THEN "done" ELSE "idle")]

\* Something new may start: before LastTick and at the end of time.
Busy == now < LastTick \/ now = MaxTime

Quiet ==
    /\ \A a \in Attempts : At(a, {"idle"})
    /\ \A c \in Callers : callers[c].pc \in {"idle", "done"}

SpendQueueFault(kind) ==
    /\ kind \in QueueFaults
    /\ queueFaults < MaxQueueFaults
    /\ now <= LastTick
    /\ queueFaults' = queueFaults + 1

StoreSame == UNCHANGED vars
WorkersSame == UNCHANGED workerVars

-----------------------------------------------------------------------------
(* ensure_enqueued and mark_enqueued.                                      *)

EnterEnsure(c, j, g, expect) ==
    callers' = [callers EXCEPT ![c] =
        [@ EXCEPT !.pc = "create", !.job = j, !.gen = g, !.expect = expect,
                  !.tries = 0, !.seen = None, !.at = 0]]

\* Mutant of CreateTask: the task takes over the state of the outbox.
CreateTaskAsPending(c) ==
    /\ CallerAt(c, "create")
    /\ tasks' = [tasks EXCEPT ![CallerJob(c)][callers[c].gen] =
                    jobs[CallerJob(c)].enqueue_state]
    /\ CallerGoto(c, "mark")
    /\ StoreSame

\* create_task: a name used before is refused.
CreateTask(c) ==
    LET j == CallerJob(c)
        g == callers[c].gen
    IN  /\ CallerAt(c, "create")
        /\ IF tasks[j][g] = "none"
           THEN /\ tasks' = [tasks EXCEPT ![j][g] = "queued"]
                /\ CallerGoto(c, "mark")
           ELSE /\ CallerGoto(c, "probe")
                /\ UNCHANGED tasks
        /\ StoreSame

\* Mutant of ProbeTask: a name that exists is taken for a live task.
ProbeSkipped(c) ==
    /\ CallerAt(c, "probe")
    /\ CallerGoto(c, "mark")
    /\ UNCHANGED tasks
    /\ StoreSame

\* get_task: a live task is a benign replay, a tombstone is not.
ProbeTask(c) ==
    /\ CallerAt(c, "probe")
    /\ CallerGoto(c, IF tasks[CallerJob(c)][callers[c].gen] = "queued"
                     THEN "mark" ELSE "rebump")
    /\ UNCHANGED tasks
    /\ StoreSame

\* bump_enqueue_generation refuses: the job has ended, or ends now because its
\* payload is gone.
BumpRefused(j) == (~Active(j) /\ StoreSame) \/ TerminalizeExpired(j)

\* The tombstone path: a new generation without precondition; the third one is
\* not created any more (TicketQueueError).
Rebump(c) ==
    /\ CallerAt(c, "rebump")
    /\ \/ /\ BumpGeneration(CallerJob(c))
          /\ IF callers[c].tries = 2 THEN CallerRests(c)
             ELSE callers' = [callers EXCEPT
                    ![c].pc = "create",
                    ![c].gen = jobs[CallerJob(c)].enqueue_generation + 1,
                    ![c].tries = @ + 1]
       \/ BumpRefused(CallerJob(c)) /\ CallerRests(c)
    /\ UNCHANGED tasks

Expected(c) == IF callers[c].expect = None THEN callers[c].gen
               ELSE callers[c].expect

\* Mutant of Confirm: the current generation is confirmed, whichever task was
\* created.
ConfirmWhatever(c) ==
    \/ MarkEnqueued(CallerJob(c), jobs[CallerJob(c)].enqueue_generation)
    \/ TerminalizeExpired(CallerJob(c))

Confirm(c) ==
    \/ MarkEnqueued(CallerJob(c), Expected(c))
    \/ /\ jobs[CallerJob(c)].enqueue_generation # Expected(c)
       /\ Active(CallerJob(c)) => PayloadLive(CallerJob(c))
       /\ StoreSame
    \/ TerminalizeExpired(CallerJob(c))

Mark(c) ==
    /\ CallerAt(c, "mark")
    /\ Confirm(c)
    /\ CallerRests(c)
    /\ UNCHANGED tasks

EnsureStep(c) == CreateTask(c) \/ ProbeTask(c) \/ Rebump(c) \/ Mark(c)

-----------------------------------------------------------------------------
(* The producer: _accept_ticket_job.                                       *)

Accept(c, j) ==
    /\ CallerAt(c, "idle") /\ now < LastTick
    /\ \E p \in Principals, k \in Keys \cup {None}, r \in Requests :
          Create(j, p, k, r, now)
    /\ EnterEnsure(c, j, 0, None)
    /\ UNCHANGED tasks

\* A replay under the idempotency key repairs a pending outbox entry.
Replay(c, j) ==
    /\ CallerAt(c, "idle") /\ Busy
    /\ Active(j)
    /\ Replays(jobs[j].principal, jobs[j].idempotency_key, jobs[j].request, j)
    /\ jobs[j].enqueue_state = "pending"
    /\ EnterEnsure(c, j, jobs[j].enqueue_generation, None)
    /\ UNCHANGED tasks
    /\ StoreSame

-----------------------------------------------------------------------------
(* The operator: requeue.                                                  *)

\* The record is read and judged here, the generation changed in Requeues.
LeaseIsLive(j) ==
    jobs[j].lease_expires_at # 0 /\ now <= jobs[j].lease_expires_at

ReadForRequeue(c, j) ==
    /\ CallerAt(c, "idle") /\ Busy
    /\ Active(j)
    /\ ~LeaseIsLive(j)
    /\ callers' = [callers EXCEPT ![c].pc = "requeue", ![c].job = j]
    /\ UNCHANGED tasks
    /\ StoreSame

Requeues(c) ==
    /\ CallerAt(c, "requeue")
    /\ \/ /\ BumpGeneration(CallerJob(c))
          /\ EnterEnsure(c, CallerJob(c),
                         jobs[CallerJob(c)].enqueue_generation + 1, None)
       \/ BumpRefused(CallerJob(c)) /\ CallerRests(c)
    /\ UNCHANGED tasks

-----------------------------------------------------------------------------
(* The reconciler: run_once for one document.                              *)

\* Mutant of BurnGeneration: the bump without the generation it is meant for.
BurnWhatever(c) ==
    LET j == CallerJob(c)
        g == jobs[j].enqueue_generation
    IN  /\ CallerAt(c, "bump")
        /\ \/ BumpGeneration(j) /\ EnterEnsure(c, j, g + 1, g + 1)
           \/ BumpRefused(j) /\ CallerRests(c)
        /\ UNCHANGED tasks

\* A run's owner name is new: no document and no other run holds it.
FreshOwner(o) ==
    /\ \A j \in Jobs : Present(j) => jobs[j].recovery_lock_owner # o
    /\ \A c \in Callers : callers[c].owner # o

Scan(c, j) ==
    /\ CallerAt(c, "idle") /\ Busy
    /\ Active(j)
    /\ \E o \in Recoverers :
          /\ FreshOwner(o)
          /\ callers' = [callers EXCEPT ![c] =
                [@ EXCEPT !.pc = "lock", !.job = j, !.seen = SnapshotOf(jobs[j]),
                          !.at = now, !.owner = o]]
    /\ UNCHANGED tasks
    /\ StoreSame

Lock(c) ==
    LET j == CallerJob(c)
    IN  /\ CallerAt(c, "lock")
        /\ \/ /\ AcquireRecoveryLock(j, callers[c].owner)
              /\ CallerGoto(c, IF callers[c].at > Seen(c).job_deadline_at
                               THEN "overdue" ELSE "inspect")
           \/ /\ jobs[j].recovery_lock_owner \notin {None, callers[c].owner}
              /\ now <= jobs[j].recovery_lock_expires_at
              /\ CallerRests(c)
              /\ StoreSame
        /\ UNCHANGED tasks

\* Mutant of EndOverdue: an overdue job is counted and left as it is.
OverdueSkipped(c) ==
    /\ CallerAt(c, "overdue")
    /\ CallerRests(c)
    /\ UNCHANGED tasks
    /\ StoreSame

SnapshotHolds(c) ==
    RecoverySnapshotHolds(CallerJob(c), callers[c].owner, Seen(c).state,
                          Seen(c).lease_epoch)

EndOverdue(c) ==
    /\ CallerAt(c, "overdue")
    /\ \/ TerminalizeOverdue(CallerJob(c), callers[c].owner, Seen(c).state,
                             Seen(c).lease_epoch, callers[c].at)
       \/ ~SnapshotHolds(c) /\ StoreSame
    /\ CallerRests(c)
    /\ UNCHANGED tasks

\* Mutant of NeedsRecheck: a confirmed task is trusted for ever.
ConfirmedIsTrusted(c) == FALSE

\* The snapshot shows a running job whose lease had run out at the scan.
LapsedWhenSeen(c) ==
    /\ Seen(c).state = "running"
    /\ callers[c].at > Seen(c).lease_expires_at

PendingWhenSeen(c) ==
    Seen(c).state = "queued" /\ Seen(c).enqueue_state = "pending"

NeedsRecheck(c) ==
    Seen(c).state = "queued" /\ Seen(c).enqueue_state = "enqueued"

\* get_with_payload_state, and the choice of the repair from the snapshot.  A
\* confirmed task is looked at when the record has not changed for 60 s, which
\* may or may not be the case until the end of time.
Inspect(c) ==
    /\ CallerAt(c, "inspect")
    /\ \/ ~PayloadLive(CallerJob(c)) /\ CallerGoto(c, "expire")
       \/ /\ PayloadLive(CallerJob(c))
          /\ \/ LapsedWhenSeen(c) /\ CallerGoto(c, "fence")
             \/ /\ PendingWhenSeen(c)
                /\ EnterEnsure(c, CallerJob(c), Seen(c).enqueue_generation,
                               Seen(c).enqueue_generation)
             \/ NeedsRecheck(c) /\ CallerGoto(c, "exists")
             \/ NeedsRecheck(c) /\ now < MaxTime /\ CallerRests(c)
             \/ /\ ~LapsedWhenSeen(c) /\ ~PendingWhenSeen(c)
                /\ ~NeedsRecheck(c)
                /\ CallerRests(c)
    /\ UNCHANGED tasks
    /\ StoreSame

EndPayloadMissing(c) ==
    /\ CallerAt(c, "expire")
    /\ \/ TerminalizePayloadMissing(CallerJob(c), callers[c].owner,
              Seen(c).state, Seen(c).lease_epoch, callers[c].at)
       \/ /\ ~SnapshotHolds(c) \/ PayloadLiveAt(CallerJob(c), callers[c].at)
          /\ StoreSame
    /\ CallerRests(c)
    /\ UNCHANGED tasks

FenceStillApplies(c) ==
    SnapshotHolds(c)
      /\ jobs[CallerJob(c)].lease_expires_at = Seen(c).lease_expires_at

\* Mutant of Fence: the requeue written from the snapshot, without its CAS.
FenceUnchecked(c) ==
    /\ CallerAt(c, "fence")
    /\ Active(CallerJob(c))
    /\ jobs' = [jobs EXCEPT ![CallerJob(c)] = Fenced(@)]
    /\ EnterEnsure(c, CallerJob(c), Seen(c).enqueue_generation + 1,
                   Seen(c).enqueue_generation + 1)
    /\ UNCHANGED <<now, payloads, receipts, counters, windows, tasks>>

Fence(c) ==
    LET j == CallerJob(c)
        g == jobs[j].enqueue_generation + 1
    IN  /\ CallerAt(c, "fence")
        /\ \/ /\ FenceAndRequeue(j, callers[c].owner, Seen(c).lease_epoch,
                                 Seen(c).lease_expires_at, callers[c].at)
              /\ EnterEnsure(c, j, g, g)
           \/ /\ \/ ~FenceStillApplies(c) /\ StoreSame
                 \/ FenceStillApplies(c) /\ TerminalizeExpired(j)
              /\ CallerRests(c)
        /\ UNCHANGED tasks

\* task_exists: only a tombstone (or a name never used) is repaired.
LookForTask(c) ==
    /\ CallerAt(c, "exists")
    /\ IF tasks[CallerJob(c)][Seen(c).enqueue_generation] = "queued"
       THEN CallerRests(c) ELSE CallerGoto(c, "bump")
    /\ UNCHANGED tasks
    /\ StoreSame

BurnGeneration(c) ==
    LET j == CallerJob(c)
        g == Seen(c).enqueue_generation
    IN  /\ CallerAt(c, "bump")
        /\ \/ BumpGenerationIf(j, g, "queued") /\ EnterEnsure(c, j, g + 1, g + 1)
           \/ /\ \/ /\ \/ ~Active(j)
                       \/ jobs[j].enqueue_generation # g
                       \/ jobs[j].state # "queued"
                    /\ StoreSame
                 \/ TerminalizeExpired(j)
              /\ CallerRests(c)
        /\ UNCHANGED tasks

ReconcilerStep(c) ==
    \/ Lock(c) \/ EndOverdue(c) \/ Inspect(c) \/ EndPayloadMissing(c)
    \/ Fence(c) \/ LookForTask(c) \/ BurnGeneration(c)

\* A call fails, or the process dies: the caller gives up where it is.
Drop(c) ==
    /\ ~CallerAt(c, "idle") /\ ~CallerAt(c, "done")
    /\ SpendQueueFault("drop")
    /\ CallerRests(c)
    /\ UNCHANGED tasks
    /\ StoreSame

-----------------------------------------------------------------------------
(* The queue.                                                              *)

\* At-least-once: a task may be dispatched while an earlier dispatch of it is
\* still being worked on.
Dispatch(a, j, g) ==
    /\ Busy
    /\ tasks[j][g] = "queued"
    /\ \E w \in Workers : Receive(a, j, w, g)
    /\ UNCHANGED tasks

\* A 2xx ends the task; after the last retry an error ends it too.
Settle(a) ==
    LET j == JobOf(a)
        g == attempts[a].gen
    IN  /\ Close(a)
        /\ \/ /\ At(a, {"acked"})
              /\ tasks' = [tasks EXCEPT ![j][g] = "gone"]
              /\ UNCHANGED queueFaults
           \/ At(a, {"nacked"}) /\ UNCHANGED <<tasks, queueFaults>>
           \/ /\ At(a, {"nacked"})
              /\ SpendQueueFault("exhaust")
              /\ tasks' = [tasks EXCEPT ![j][g] = "gone"]

-----------------------------------------------------------------------------
CallerStep(c) ==
    /\ EnsureStep(c) \/ Requeues(c) \/ ReconcilerStep(c)
    /\ WorkersSame /\ UNCHANGED queueFaults

CallerStart(c, j) ==
    /\ \/ c \in Producers /\ (Accept(c, j) \/ Replay(c, j))
       \/ c \in Operators /\ ReadForRequeue(c, j)
       \/ c \in Reconcilers /\ Scan(c, j)
    /\ WorkersSame /\ UNCHANGED queueFaults

Clock ==
    /\ now < LastTick \/ Quiet
    /\ Tick
    /\ WorkersSame /\ UNCHANGED deliveryVars

\* Polls of clients and Firestore's TTL.
Ambient(j) ==
    /\ PurgePayload(j) \/ PollStep(j)
    /\ WorkersSame /\ UNCHANGED deliveryVars

DNext ==
    \/ Clock
    \/ \E j \in Jobs : Ambient(j)
    \/ \E c \in Callers :
          \/ \E j \in Jobs : CallerStart(c, j)
          \/ CallerStep(c)
          \/ Drop(c) /\ WorkersSame
    \/ \E a \in Attempts :
          \/ \E j \in Jobs, g \in Generations :
                Dispatch(a, j, g) /\ UNCHANGED <<callers, queueFaults>>
          \/ AttemptStep(a) /\ UNCHANGED deliveryVars
          \/ now <= LastTick /\ FaultStep(a) /\ UNCHANGED deliveryVars
          \/ Settle(a) /\ UNCHANGED callers

\* An attempt goes on: _execute ends within the attempt budget, the endpoint
\* answers.
Advance(a) ==
    /\ \/ Start(a) \/ Complete(a) \/ Return(a) \/ StaleStop(a) \/ Requeue(a)
       \/ Answer(a)
    /\ UNCHANGED deliveryVars

\* Time passes; every process that has begun goes on; Cloud Scheduler starts
\* reconciler runs for ever and the scan's cursor comes round to every active
\* job; Cloud Tasks dispatches what it holds.
Fairness ==
    /\ WF_systemVars(Clock)
    /\ \A c \in Callers : WF_systemVars(CallerStep(c))
    /\ \A c \in Reconcilers, j \in Jobs :
          SF_systemVars(CallerStart(c, j))
    /\ \A a \in Attempts : WF_systemVars(Advance(a))
    /\ \A a \in Attempts : WF_systemVars(Settle(a) /\ UNCHANGED callers)
    /\ \A j \in Jobs : SF_systemVars(\E a \in Attempts, g \in Generations :
          Dispatch(a, j, g) /\ UNCHANGED <<callers, queueFaults>>)

DSpec == DInit /\ [][DNext]_systemVars
FairDSpec == DSpec /\ Fairness

\* Every concrete process does only what TicketWorkers allows its environment.
ImplementsWorkers == WSpec

-----------------------------------------------------------------------------
(* Properties.                                                             *)

\* Types of the queue and the callers.
DTypeOK ==
    /\ tasks \in [Jobs -> [Generations -> TaskStates]]
    /\ callers \in [Callers -> Caller]
    /\ queueFaults \in Nat

\* The outbox tells the truth: a job is marked enqueued only when a task of its
\* present generation was created, however producers, replays, reconcilers and
\* operators confirm across one another (mark_enqueued's generation check).
ConfirmedMeansCreated ==
    \A j \in Jobs : Present(j) /\ jobs[j].enqueue_state = "enqueued" =>
        tasks[j][jobs[j].enqueue_generation] # "none"

\* The reconciler's recheck burns dead names only: between task_exists and the
\* bump another caller may have made and confirmed a newer task, which is left
\* alone (expected_generation).  The tombstone path of ensure_enqueued has no
\* such precondition and may burn a live task; it then creates the next one.
RecheckBurnsOnlyDeadNames ==
    [][\A c \in Reconcilers, j \in Jobs :
          (/\ CallerAt(c, "bump") /\ ~CallerAt(c, "bump")'
           /\ Present(j)
           /\ jobs'[j].enqueue_generation # jobs[j].enqueue_generation)
          => tasks[j][jobs[j].enqueue_generation] # "queued"]_systemVars

\* An administrative requeue leaves a job with a live execution lease alone
\* (docstring of requeue_ticket_job.py).
RequeueSparesLiveLease ==
    [][\A c \in Operators :
          (/\ CallerAt(c, "requeue") /\ CallerAt(c, "create")'
           /\ jobs'[CallerJob(c)] # jobs[CallerJob(c)])
          => ~LeaseIsLive(CallerJob(c))]_systemVars

\* No job stays active for ever, whatever was lost on the way.
EveryJobEnds == \A j \in Jobs : Active(j) ~> ~Active(j)

\* Nor does a job whose deadline and payload never run out: some attempt
\* executes it to a verdict.
EveryJobIsExecuted ==
    \A j \in Jobs : Active(j) ~>
        (Present(j) /\ ~Active(j)
           /\ jobs[j].error \notin {"TOTAL_JOB_TIMEOUT", "EXPIRED_PAYLOAD"})

=============================================================================

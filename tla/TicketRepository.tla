-------------------------- MODULE TicketRepository --------------------------
(***************************************************************************)
(* The durable store of the ticket pipeline                                *)
(* (data_pipeline/ticket_job_repository.py).  Every method of              *)
(* TicketJobRepository is one Firestore transaction over the control       *)
(* document of a job, its payload document, the idempotency receipt, the   *)
(* per-principal counter and the rate window; every method is one atomic   *)
(* action here.  The arguments a caller passes (an epoch, a generation, a  *)
(* lease expiry it saw in a scan) are parameters of the action, so the     *)
(* specification of this module is the store under the most general        *)
(* client: whatever holds of it holds under every interleaving of workers, *)
(* producers, reconcilers and operators.                                   *)
(*                                                                         *)
(* A rejected call (StaleLeaseEpoch, StaleEnqueueGeneration, a refused     *)
(* claim) writes nothing and is the absence of a step.  Field names are    *)
(* those of TicketJobRecord.  claimed_by/claimed_at are always written     *)
(* together with lease_owner/lease_expires_at and are not kept apart; an   *)
(* absent expiry is 0 and an absent owner, key, error or document is None. *)
(* Fields no transaction reads back (attempt, next_action, retryable,      *)
(* timestamps for display, updated_at) are left out.                       *)
(***************************************************************************)
EXTENDS Integers, FiniteSets

CONSTANTS
    Jobs,             \* job ids (uuid4: Create never reuses one)
    Principals,       \* authenticated callers, the unit of quota
    Keys,             \* idempotency keys, already hashed with the API version
    Requests,         \* fingerprint and tenant of a request
    Workers,          \* worker ids (a hash of task name and retry count)
    Recoverers,       \* owners of the recovery lock, one per reconciler run
    None,             \* the absent value
    MaxOutstanding,   \* active jobs allowed to a principal, 0 = no cap
    RateLimit,        \* new jobs per window and principal, 0 = no limit
    RateWindow,       \* length of a rate window
    ClockLag,         \* how old a clock reading may be when it is used
    LeaseTime,        \* TICKET_WORKER_LEASE_S
    RecoveryLockTime, \* lock_s of acquire_recovery_lock
    PayloadTTL,       \* TICKET_JOB_RETENTION_S, the life of a payload
    JobDeadline,      \* TICKET_JOB_DEADLINE_S
    MaxTime,          \* bound on the clock
    MaxEpoch,         \* bound on lease_epoch for claims and fences
    MaxGeneration     \* bound on enqueue_generation

ASSUME JobsFinite == IsFiniteSet(Jobs)
ASSUME NoneIsNoValue ==
    /\ None \notin Jobs \cup Keys \cup Workers \cup Recoverers
    /\ None \notin {"WORKER_CANCELLED", "TOTAL_JOB_TIMEOUT",
                    "EXPIRED_PAYLOAD", "WORK_ERROR"}
    /\ None \notin Workers \X Nat
ASSUME LimitsAreNaturals ==
    /\ {MaxOutstanding, RateLimit, ClockLag, MaxEpoch, MaxGeneration,
        MaxTime} \subseteq Nat
    /\ {RateWindow, LeaseTime, RecoveryLockTime, PayloadTTL, JobDeadline}
         \subseteq Nat \ {0}

VARIABLES
    now,        \* the clock read by utcnow()
    jobs,       \* ticket_jobs: control document of a job or None
    payloads,   \* ticket_job_payloads: expires_at, 0 when there is no document
    receipts,   \* ticket_idempotency_receipts
    counters,   \* ticket_active_counters: active_jobs of a principal
    windows     \* ticket_rate_windows: count of a principal in a window

vars == <<now, jobs, payloads, receipts, counters, windows>>

-----------------------------------------------------------------------------
TerminalStates == {"succeeded", "partial", "failed", "timeout", "cancelled"}
States == {"queued", "running"} \cup TerminalStates

ValidTransitions ==
    [s \in States |->
        CASE s = "queued"  -> {"running", "cancelled", "failed"}
          [] s = "running" -> {"queued"} \cup TerminalStates
          [] OTHER         -> {}]

\* WORK_ERROR stands for every code a worker closes a job with.
ErrorCodes == {"WORKER_CANCELLED", "TOTAL_JOB_TIMEOUT", "EXPIRED_PAYLOAD",
               "WORK_ERROR"}

Control ==
    [principal : Principals, idempotency_key : Keys \cup {None},
     request : Requests, state : States, error : ErrorCodes \cup {None},
     lease_epoch : Nat, lease_owner : Workers \cup {None},
     lease_expires_at : Nat, enqueue_generation : Nat,
     enqueue_state : {"pending", "enqueued"},
     recovery_lock_owner : Recoverers \cup {None},
     recovery_lock_expires_at : Nat, job_deadline_at : Nat,
     active_slot_released : BOOLEAN]

Receipt == [job_id : Jobs, request : Requests, state : States]

ASSUME NoneIsNoDocument == None \notin Control /\ None \notin Receipt

Present(j) == jobs[j] # None
Active(j)  == Present(j) /\ jobs[j].state \notin TerminalStates

\* A payload document whose expires_at has passed is absent, whether or not
\* Firestore's TTL has deleted it.
PayloadLiveAt(j, t) == payloads[j] > t
PayloadLive(j) == PayloadLiveAt(j, now)

Init ==
    /\ now = 1
    /\ jobs = [j \in Jobs |-> None]
    /\ payloads = [j \in Jobs |-> 0]
    /\ receipts = [pk \in Principals \X Keys |-> None]
    /\ counters = [p \in Principals |-> 0]
    /\ windows = [p \in Principals |-> [w \in 0..MaxTime |-> 0]]

Tick ==
    /\ now < MaxTime
    /\ now' = now + 1
    /\ UNCHANGED <<jobs, payloads, receipts, counters, windows>>

\* Firestore's TTL deletes a payload some time after its expiry.
PurgePayload(j) ==
    /\ payloads[j] # 0
    /\ ~PayloadLive(j)
    /\ payloads' = [payloads EXCEPT ![j] = 0]
    /\ UNCHANGED <<now, jobs, receipts, counters, windows>>

-----------------------------------------------------------------------------
(* Admission.                                                              *)

ReceiptFor(p, k) == receipts[<<p, k>>]

WithinRate(p, t) ==
    RateLimit > 0 => windows[p][t \div RateWindow] < RateLimit

\* Mutant of WithinQuota: the cap compared with > instead of >=.
WithinQuotaOffByOne(p) == MaxOutstanding > 0 => counters[p] <= MaxOutstanding

WithinQuota(p) == MaxOutstanding > 0 => counters[p] < MaxOutstanding

NewControl(p, k, r, t) ==
    [principal |-> p, idempotency_key |-> k, request |-> r,
     state |-> "queued", error |-> None, lease_epoch |-> 0,
     lease_owner |-> None, lease_expires_at |-> 0,
     enqueue_generation |-> 0, enqueue_state |-> "pending",
     recovery_lock_owner |-> None, recovery_lock_expires_at |-> 0,
     job_deadline_at |-> t + JobDeadline,
     active_slot_released |-> FALSE]

\* create_or_get answering CREATED.  The clock is read before the admission
\* lock and the transaction, so t may lie in the past.
Create(j, p, k, r, t) ==
    /\ ~Present(j)
    /\ t \in Nat /\ t <= now /\ now <= t + ClockLag
    /\ k # None => ReceiptFor(p, k) = None
    /\ WithinRate(p, t)
    /\ WithinQuota(p)
    /\ jobs' = [jobs EXCEPT ![j] = NewControl(p, k, r, t)]
    /\ payloads' = [payloads EXCEPT ![j] = t + PayloadTTL]
    /\ receipts' = IF k = None THEN receipts
                   ELSE [receipts EXCEPT ![<<p, k>>] =
                           [job_id |-> j, request |-> r, state |-> "queued"]]
    /\ counters' = [counters EXCEPT ![p] = @ + 1]
    /\ windows' = IF RateLimit = 0 THEN windows
                  ELSE [windows EXCEPT ![p][t \div RateWindow] = @ + 1]
    /\ UNCHANGED now

\* create_or_get and peek_idempotent answering REPLAYED: nothing is written.
Replays(p, k, r, j) ==
    /\ k # None
    /\ ReceiptFor(p, k) # None
    /\ ReceiptFor(p, k).request = r
    /\ ReceiptFor(p, k).job_id = j

-----------------------------------------------------------------------------
(* Terminal states.                                                        *)

\* Mutant of CloseReceipt: the receipt keeps the state of admission.
ReceiptLeftOpen(j, st) == UNCHANGED receipts

CloseReceipt(j, st) ==
    LET pk == <<jobs[j].principal, jobs[j].idempotency_key>>
    IN  receipts' = IF jobs[j].idempotency_key = None \/ receipts[pk] = None
                    THEN receipts
                    ELSE [receipts EXCEPT ![pk].state = st]

\* Mutant of ReleaseSlot: a terminalization that forgets the counter.
SlotLeaked(j) == UNCHANGED counters

\* The slot is given back once; a counter document at 0 is deleted.
ReleaseSlot(j) ==
    counters' = IF jobs[j].active_slot_released THEN counters
                ELSE [counters EXCEPT ![jobs[j].principal] =
                        IF @ > 0 THEN @ - 1 ELSE 0]

\* Mutant of DropDeadPayload: the payload written back with a fresh expiry.
PayloadRewritten(j, t) ==
    payloads' = [payloads EXCEPT ![j] = now + PayloadTTL]

DropDeadPayload(j, t) ==
    payloads' = IF PayloadLiveAt(j, t) THEN payloads
                ELSE [payloads EXCEPT ![j] = 0]

\* The control document _stage_terminalization writes: fenced, without locks.
Terminalized(c, st, code) ==
    [c EXCEPT !.state = st, !.error = code, !.lease_epoch = @ + 1,
              !.lease_owner = None, !.lease_expires_at = 0,
              !.recovery_lock_owner = None, !.recovery_lock_expires_at = 0,
              !.active_slot_released = TRUE]

\* _stage_terminalization; the caller's clock reading is t.
Terminalize(j, st, code, t) ==
    /\ jobs' = [jobs EXCEPT ![j] = Terminalized(@, st, code)]
    /\ CloseReceipt(j, st)
    /\ ReleaseSlot(j)
    /\ DropDeadPayload(j, t)
    /\ UNCHANGED <<now, windows>>

\* What update, record_inquiry_result, reserve_forusbots_submit_intent, claim,
\* renew_lease, mark_enqueued, bump_enqueue_generation and fence_and_requeue do
\* instead of their own work when the payload of an active job is gone.
TerminalizeExpired(j) ==
    /\ Active(j)
    /\ ~PayloadLive(j)
    /\ Terminalize(j, "failed", "EXPIRED_PAYLOAD", now)

\* Mutant of TerminalizeIfUnrecoverable: a deadline also ends finished jobs.
DeadlineEndsAnyJob(j, t) ==
    /\ Present(j)
    /\ t \in Nat /\ t <= now /\ now <= t + ClockLag
    /\ jobs[j].job_deadline_at <= t
    /\ Terminalize(j, "timeout", "TOTAL_JOB_TIMEOUT", t)

\* The poll of an authorised client (lazy terminalization); it reads its clock
\* before the transaction, at t.
TerminalizeIfUnrecoverable(j, t) ==
    /\ Active(j)
    /\ t \in Nat /\ t <= now /\ now <= t + ClockLag
    /\ \/ /\ jobs[j].job_deadline_at <= t
          /\ Terminalize(j, "timeout", "TOTAL_JOB_TIMEOUT", t)
       \/ /\ jobs[j].job_deadline_at > t
          /\ ~PayloadLiveAt(j, t)
          /\ Terminalize(j, "failed", "EXPIRED_PAYLOAD", t)

-----------------------------------------------------------------------------
(* The execution lease: claim, heartbeat and the writes fenced by it.      *)

\* Mutant of LeaseLapsed: the lease is taken at the instant of its expiry.
LeaseLapsedEarly(c) == c.lease_owner # None => now >= c.lease_expires_at

\* The lease of a control document has run out for claim.
LeaseLapsed(c) == c.lease_owner # None => now > c.lease_expires_at

\* The test update and record_inquiry_result make of the epoch of a writer.
HoldsLease(j, e) ==
    /\ Active(j)
    /\ jobs[j].lease_epoch = e
    /\ jobs[j].lease_owner # None
    /\ now < jobs[j].lease_expires_at

\* The test of renew_lease, assert_active_lease and the ForusBots intents.
OwnsLease(j, w, e) == HoldsLease(j, e) /\ jobs[j].lease_owner = w

\* Mutant of Claimed: a takeover that does not raise the epoch.
ClaimedSameEpoch(c, w) ==
    [c EXCEPT !.state = "running", !.lease_owner = w,
              !.lease_expires_at = now + LeaseTime]

\* The control document claim writes.
Claimed(c, w) ==
    [c EXCEPT !.state = "running", !.lease_epoch = @ + 1, !.lease_owner = w,
              !.lease_expires_at = now + LeaseTime]

\* claim: g is the generation of the delivering Cloud Task.
Claim(j, w, g) ==
    /\ Active(j)
    /\ PayloadLive(j)
    /\ jobs[j].enqueue_generation = g
    /\ LeaseLapsed(jobs[j])
    /\ jobs[j].lease_epoch < MaxEpoch
    /\ jobs' = [jobs EXCEPT ![j] = Claimed(@, w)]
    /\ UNCHANGED <<now, payloads, receipts, counters, windows>>

\* Mutant of RenewLease: owner and epoch are compared, the expiry is not.
RenewLapsed(j, w, e) ==
    /\ Active(j)
    /\ PayloadLive(j)
    /\ jobs[j].lease_owner = w /\ jobs[j].lease_epoch = e
    /\ jobs' = [jobs EXCEPT ![j].lease_expires_at = now + LeaseTime]
    /\ UNCHANGED <<now, payloads, receipts, counters, windows>>

RenewLease(j, w, e) ==
    /\ OwnsLease(j, w, e)
    /\ PayloadLive(j)
    /\ jobs' = [jobs EXCEPT ![j].lease_expires_at = now + LeaseTime]
    /\ UNCHANGED <<now, payloads, receipts, counters, windows>>

\* update and record_inquiry_result of a lease holder that keep the state:
\* progress, execution plan, inquiry checkpoint.  They write only fields this
\* module leaves out.
Progress(j, e) ==
    /\ HoldsLease(j, e)
    /\ PayloadLive(j)
    /\ UNCHANGED vars

\* Mutants of Requeued: the lease stays with the cancelled attempt; the outbox
\* state written into the job state.
RequeuedWithLease(c) ==
    [c EXCEPT !.state = "queued", !.error = "WORKER_CANCELLED"]

RequeuedAsPending(c) ==
    [c EXCEPT !.state = "pending", !.error = "WORKER_CANCELLED",
              !.lease_owner = None, !.lease_expires_at = 0]

\* The control document a cancelled attempt leaves: it gives the lease back and
\* keeps the epoch and the outbox as they are.
Requeued(c) ==
    [c EXCEPT !.state = "queued", !.error = "WORKER_CANCELLED",
              !.lease_owner = None, !.lease_expires_at = 0]

\* update(state=QUEUED) of a cancelled attempt.
RequeueCancelled(j, e) ==
    /\ HoldsLease(j, e)
    /\ PayloadLive(j)
    /\ "queued" \in ValidTransitions[jobs[j].state]
    /\ jobs' = [jobs EXCEPT ![j] = Requeued(@)]
    /\ UNCHANGED <<now, payloads, receipts, counters, windows>>

\* The control document of a job its lease holder closes.  The epoch stays (it
\* is how the heartbeat of the attempt recognises its own end) and so does the
\* recovery lock.
Finished(c, st, code) ==
    [c EXCEPT !.state = st, !.error = code, !.lease_owner = None,
              !.lease_expires_at = 0, !.active_slot_released = TRUE]

\* update(state=<terminal>) of a lease holder.
Finish(j, e, st, code) ==
    /\ HoldsLease(j, e)
    /\ PayloadLive(j)
    /\ st \in TerminalStates \cap ValidTransitions[jobs[j].state]
    /\ jobs' = [jobs EXCEPT ![j] = Finished(@, st, code)]
    /\ CloseReceipt(j, st)
    /\ ReleaseSlot(j)
    /\ UNCHANGED <<now, payloads, windows>>

-----------------------------------------------------------------------------
(* The outbox: which generation of the Cloud Task is the current one.      *)

\* A confirmation is taken for a terminal job too.
MarkEnqueued(j, g) ==
    /\ Present(j)
    /\ Active(j) => PayloadLive(j)
    /\ jobs[j].enqueue_generation = g
    /\ jobs' = [jobs EXCEPT ![j].enqueue_state = "enqueued"]
    /\ UNCHANGED <<now, payloads, receipts, counters, windows>>

\* A new generation: the name of the old task is burnt.
Bumped(c) ==
    [c EXCEPT !.enqueue_generation = @ + 1, !.enqueue_state = "pending"]

\* bump_enqueue_generation without preconditions: the tombstone path of
\* ensure_enqueued and the administrative requeue.
BumpGeneration(j) ==
    /\ Active(j)
    /\ PayloadLive(j)
    /\ jobs[j].enqueue_generation < MaxGeneration
    /\ jobs' = [jobs EXCEPT ![j] = Bumped(@)]
    /\ UNCHANGED <<now, payloads, receipts, counters, windows>>

\* bump_enqueue_generation with the reconciler's expected_generation and
\* expected_state.
BumpGenerationIf(j, g, st) ==
    /\ jobs[j].enqueue_generation = g
    /\ jobs[j].state = st
    /\ BumpGeneration(j)

-----------------------------------------------------------------------------
(* Recovery.                                                               *)

HoldsRecoveryLock(j, o) ==
    /\ jobs[j].recovery_lock_owner = o
    /\ now <= jobs[j].recovery_lock_expires_at

\* The control document acquire_recovery_lock writes.
Locked(c, o) ==
    [c EXCEPT !.recovery_lock_owner = o,
              !.recovery_lock_expires_at = now + RecoveryLockTime]

\* There is no test of the state: a terminal job can be locked.
AcquireRecoveryLock(j, o) ==
    /\ Present(j)
    /\ \/ jobs[j].recovery_lock_owner \in {None, o}
       \/ now > jobs[j].recovery_lock_expires_at
    /\ jobs' = [jobs EXCEPT ![j] = Locked(@, o)]
    /\ UNCHANGED <<now, payloads, receipts, counters, windows>>

\* Mutant of Fenced: the outbox of the fenced job stays confirmed.
FencedWithoutOutbox(c) ==
    [c EXCEPT !.state = "queued", !.lease_epoch = @ + 1, !.lease_owner = None,
              !.lease_expires_at = 0, !.enqueue_generation = @ + 1]

\* The control document fence_and_requeue writes.
Fenced(c) ==
    [c EXCEPT !.state = "queued", !.lease_epoch = @ + 1, !.lease_owner = None,
              !.lease_expires_at = 0, !.enqueue_generation = @ + 1,
              !.enqueue_state = "pending"]

\* fence_and_requeue: e and x are the epoch and the lease expiry of the
\* reconciler's snapshot and t the time of its scan.
FenceAndRequeue(j, o, e, x, t) ==
    /\ Active(j)
    /\ HoldsRecoveryLock(j, o)
    /\ jobs[j].lease_epoch = e
    /\ jobs[j].state = "running"
    /\ jobs[j].lease_expires_at = x
    /\ t > x
    /\ PayloadLive(j)
    /\ jobs[j].lease_epoch < MaxEpoch
    /\ jobs[j].enqueue_generation < MaxGeneration
    /\ jobs' = [jobs EXCEPT ![j] = Fenced(@)]
    /\ UNCHANGED <<now, payloads, receipts, counters, windows>>

\* terminalize_recovery of a job whose state s and epoch e were seen at t.
RecoverySnapshotHolds(j, o, s, e) ==
    /\ Active(j)
    /\ HoldsRecoveryLock(j, o)
    /\ jobs[j].state = s
    /\ jobs[j].lease_epoch = e

TerminalizeOverdue(j, o, s, e, t) ==
    /\ RecoverySnapshotHolds(j, o, s, e)
    /\ t > jobs[j].job_deadline_at
    /\ Terminalize(j, "timeout", "TOTAL_JOB_TIMEOUT", now)

\* Mutant of TerminalizePayloadMissing: the absence of the payload is taken
\* from the reconciler's earlier read.
TerminalizeUnchecked(j, o, s, e, t) ==
    /\ RecoverySnapshotHolds(j, o, s, e)
    /\ Terminalize(j, "failed", "EXPIRED_PAYLOAD", now)

TerminalizePayloadMissing(j, o, s, e, t) ==
    /\ RecoverySnapshotHolds(j, o, s, e)
    /\ ~PayloadLiveAt(j, t)
    /\ Terminalize(j, "failed", "EXPIRED_PAYLOAD", now)

-----------------------------------------------------------------------------
(* The most general client.                                                *)

Epochs == 1..MaxEpoch
Generations == 0..MaxGeneration

\* The state and error a worker closes a job with.  An unsafe reply makes a job
\* partial without any error; a shadow job and a ticket without an actionable
\* inquiry succeed without writing the error field.
WorkerVerdicts(j) ==
    {<<"succeeded", None>>, <<"succeeded", jobs[j].error>>}
      \cup ({"partial", "failed", "timeout"} \X {None, "WORK_ERROR"})

Admission ==
    \E j \in Jobs, p \in Principals, k \in Keys \cup {None}, r \in Requests,
       t \in 0..now : Create(j, p, k, r, t)

LeaseHolderStep(j) ==
    \E e \in Epochs :
        \/ \E w \in Workers : RenewLease(j, w, e)
        \/ RequeueCancelled(j, e)
        \/ /\ Active(j)
           /\ \E v \in WorkerVerdicts(j) : Finish(j, e, v[1], v[2])

OutboxStep(j) ==
    \/ \E g \in Generations : MarkEnqueued(j, g)
    \/ BumpGeneration(j)

RecoveryStep(j) ==
    \E o \in Recoverers :
        \/ AcquireRecoveryLock(j, o)
        \/ \E e \in 0..MaxEpoch, t \in 0..now :
              \/ \E x \in 0..now : FenceAndRequeue(j, o, e, x, t)
              \/ \E s \in {"queued", "running"} :
                    \/ TerminalizeOverdue(j, o, s, e, t)
                    \/ TerminalizePayloadMissing(j, o, s, e, t)

PollStep(j) == \E t \in 0..now : TerminalizeIfUnrecoverable(j, t)

Next ==
    \/ Tick
    \/ Admission
    \/ \E j \in Jobs :
        \/ PurgePayload(j)
        \/ TerminalizeExpired(j)
        \/ \E w \in Workers, g \in Generations : Claim(j, w, g)
        \/ LeaseHolderStep(j)
        \/ OutboxStep(j)
        \/ RecoveryStep(j)
        \/ PollStep(j)

Spec == Init /\ [][Next]_vars

-----------------------------------------------------------------------------
(* Properties.                                                             *)

\* Types of the store.
TypeOK ==
    /\ now \in Nat
    /\ jobs \in [Jobs -> Control \cup {None}]
    /\ payloads \in [Jobs -> Nat]
    /\ receipts \in [Principals \X Keys -> Receipt \cup {None}]
    /\ counters \in [Principals -> Nat]
    /\ windows \in [Principals -> [0..MaxTime -> Nat]]

ActiveJobsOf(p) == {j \in Jobs : Active(j) /\ jobs[j].principal = p}

\* Quota accounting: the counter of a principal is the number of its jobs that
\* are not terminal, however many paths may terminalize one job (worker,
\* reconciler, poll, expired payload); a slot is never leaked nor given back
\* twice (create_or_get, update, _stage_terminalization).
SlotAccounting ==
    /\ \A p \in Principals : counters[p] = Cardinality(ActiveJobsOf(p))
    /\ \A j \in Jobs : Present(j) =>
          (jobs[j].active_slot_released <=> ~Active(j))

\* The cap on outstanding jobs holds of the jobs themselves, not only of the
\* counter that create_or_get reads.
QuotaRespected ==
    MaxOutstanding > 0 =>
        \A p \in Principals : Cardinality(ActiveJobsOf(p)) <= MaxOutstanding

\* A job is running exactly while somebody owns its lease: no transaction
\* leaves a running job that nobody owns and the reconciler (which looks for an
\* expiry) would never repair, nor an owner on a job anyone may claim.
RunningIffOwned ==
    \A j \in Jobs : Present(j) =>
        /\ jobs[j].state = "running" <=> jobs[j].lease_owner # None
        /\ jobs[j].lease_owner = None <=> jobs[j].lease_expires_at = 0
        /\ jobs[j].lease_owner # None => jobs[j].lease_epoch > 0

\* Idempotency: a key names one job, its receipt repeats the request the job
\* was accepted for, and after any terminalization the receipt shows the state
\* the job ended in (create_or_get, CloseReceipt's two call sites).
ReceiptsBindOneJob ==
    /\ \A p \in Principals, k \in Keys : ReceiptFor(p, k) # None =>
          LET c == jobs[ReceiptFor(p, k).job_id]
          IN  /\ c # None
              /\ c.principal = p /\ c.idempotency_key = k
              /\ c.request = ReceiptFor(p, k).request
              /\ ReceiptFor(p, k).state =
                    IF c.state \in TerminalStates THEN c.state ELSE "queued"
    /\ \A j \in Jobs : Present(j) /\ jobs[j].idempotency_key # None =>
          /\ ReceiptFor(jobs[j].principal, jobs[j].idempotency_key) # None
          /\ ReceiptFor(jobs[j].principal, jobs[j].idempotency_key).job_id = j

\* A client is told that a payload expired only when it has: whichever of the
\* ten transactions closed the job, on whatever stale reading, the payload is
\* gone for every later reader, and nobody relabels the job (_live_payload and
\* the recheck of terminalize_recovery).
ExpiryIsTruthful ==
    \A j \in Jobs : Present(j) /\ jobs[j].error = "EXPIRED_PAYLOAD" =>
        jobs[j].state = "failed" /\ ~PayloadLive(j)

\* A terminal state is final and stays unowned: no late worker, reconciler or
\* confirmation moves a job out of it, rewrites its verdict or its epoch.
TerminalIsFinal ==
    [][\A j \in Jobs : (Present(j) /\ ~Active(j)) =>
          /\ jobs'[j] # None
          /\ jobs'[j].state = jobs[j].state
          /\ jobs'[j].error = jobs[j].error
          /\ jobs'[j].lease_epoch = jobs[j].lease_epoch
          /\ jobs'[j].lease_owner = None]_vars

\* Fencing: lease_epoch never decreases, and whoever comes to own a job (the
\* same worker id after a redelivery included) owns it under a new epoch, so
\* that a number identifies one attempt for ever.
EpochIdentifiesAttempt ==
    [][\A j \in Jobs : Active(j) =>
          /\ jobs'[j].lease_epoch >= jobs[j].lease_epoch
          /\ (jobs'[j].lease_owner # None
                /\ jobs'[j].lease_owner # jobs[j].lease_owner)
              => jobs'[j].lease_epoch > jobs[j].lease_epoch]_vars

\* A live lease is not taken away: another worker or the reconciler ends it
\* only after its expiry, when the holder's own writes are refused too; before
\* that only its holder gives it up (same epoch) or the job ends.
LiveLeaseIsNotStolen ==
    [][\A j \in Jobs :
          (Active(j) /\ jobs[j].lease_owner # None
             /\ jobs'[j].lease_epoch # jobs[j].lease_epoch
             /\ jobs'[j].state \notin TerminalStates)
          => now > jobs[j].lease_expires_at]_vars

\* Who executes a job, by worker and epoch, and until when.
LeaseHolder(j) ==
    IF Present(j) /\ jobs[j].lease_owner # None
    THEN <<jobs[j].lease_owner, jobs[j].lease_epoch>> ELSE None

LeaseEnd(j) == IF Present(j) THEN jobs[j].lease_expires_at ELSE 0

\* The leases of jobs keep the promise of every lease: a claim never displaces
\* an attempt within its time, and a heartbeat that comes too late, or from an
\* attempt of another epoch, never prolongs (claim, renew_lease, update,
\* fence_and_requeue and whatever ends the job).
Leases ==
    INSTANCE ExclusiveLease WITH
        Things <- Jobs, Holders <- Workers \X Nat, Nobody <- None,
        holder <- [j \in Jobs |-> LeaseHolder(j)],
        until  <- [j \in Jobs |-> LeaseEnd(j)],
        clock  <- now, Lag <- 0     \* read inside the transaction

ImplementsLease == Leases!Spec

\* What a job's lease is worth to its holder, all together: the promise of
\* every lease, and that within its time only the holder or the end of the job
\* ends it, however stale the epochs, snapshots and clocks of the callers are.
LeasesAreRespected == ImplementsLease /\ LiveLeaseIsNotStolen

\* A payload is gone for good: once expired or deleted no transaction brings it
\* back or extends it, whatever the caller wrote (the 24 h privacy limit).
PayloadNeverRevives ==
    [][\A j \in Jobs : Present(j) => payloads'[j] \in {0, payloads[j]}]_vars

\* A confirmation of an old task never hides a newer outbox entry: a pending
\* job becomes enqueued only without a change of generation, and a generation
\* is burnt only into pending.
OutboxGenerationGuard ==
    [][\A j \in Jobs : Present(j) =>
          /\ jobs'[j].enqueue_generation >= jobs[j].enqueue_generation
          /\ jobs'[j].enqueue_generation # jobs[j].enqueue_generation
               => jobs'[j].enqueue_state = "pending"]_vars

=============================================================================

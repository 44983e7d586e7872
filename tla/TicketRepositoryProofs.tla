----------------------- MODULE TicketRepositoryProofs -----------------------
(* Proofs about the durable store, for every set of jobs, principals and    *)
(* workers and every value of the limits.                                   *)
EXTENDS TicketRepository, FiniteSetTheorems, TLAPS

-----------------------------------------------------------------------------
(* Types.                                                                   *)

\* Every control document a transaction writes is well formed.
LEMMA ControlTypes ==
    ASSUME now \in Nat, NEW c \in Control
    PROVE  /\ \A st \in TerminalStates, code \in ErrorCodes \cup {None} :
                /\ Terminalized(c, st, code) \in Control
                /\ Finished(c, st, code) \in Control
           /\ \A w \in Workers : Claimed(c, w) \in Control
           /\ \A o \in Recoverers : Locked(c, o) \in Control
           /\ Requeued(c) \in Control
           /\ Bumped(c) \in Control
           /\ Fenced(c) \in Control
           /\ [c EXCEPT !.enqueue_state = "enqueued"] \in Control
           /\ [c EXCEPT !.lease_expires_at = now + LeaseTime] \in Control
<1>1. /\ c.lease_epoch + 1 \in Nat
      /\ c.enqueue_generation + 1 \in Nat
      /\ now + LeaseTime \in Nat
      /\ now + RecoveryLockTime \in Nat
      /\ 0 \in Nat
  BY LimitsAreNaturals DEF Control
<1>2. /\ TerminalStates \subseteq States
      /\ "queued" \in States
      /\ "running" \in States
      /\ "WORKER_CANCELLED" \in ErrorCodes
  BY DEF States, TerminalStates, ErrorCodes
<1>3. ASSUME NEW st \in TerminalStates, NEW code \in ErrorCodes \cup {None}
      PROVE  Terminalized(c, st, code) \in Control
  BY <1>1, <1>2, ZenonT(60) DEF Terminalized, Control
<1>4. ASSUME NEW st \in TerminalStates, NEW code \in ErrorCodes \cup {None}
      PROVE  Finished(c, st, code) \in Control
  BY <1>1, <1>2, ZenonT(60) DEF Finished, Control
<1>5. ASSUME NEW w \in Workers
      PROVE  Claimed(c, w) \in Control
  BY <1>1, <1>2, ZenonT(60) DEF Claimed, Control
<1>6. ASSUME NEW o \in Recoverers
      PROVE  Locked(c, o) \in Control
  BY <1>1, ZenonT(60) DEF Locked, Control
<1>7. Requeued(c) \in Control
  BY <1>1, <1>2, ZenonT(60) DEF Requeued, Control
<1>8. Bumped(c) \in Control
  BY <1>1, ZenonT(60) DEF Bumped, Control
<1>9. Fenced(c) \in Control
  BY <1>1, <1>2, ZenonT(60) DEF Fenced, Control
<1>10. /\ [c EXCEPT !.enqueue_state = "enqueued"] \in Control
       /\ [c EXCEPT !.lease_expires_at = now + LeaseTime] \in Control
  BY <1>1 DEF Control
<1> QED BY <1>3, <1>4, <1>5, <1>6, <1>7, <1>8, <1>9, <1>10

\* Closing a receipt keeps the receipts well formed.
LEMMA ReceiptTypes ==
    ASSUME TypeOK, NEW j \in Jobs, jobs[j] \in Control,
           NEW st \in TerminalStates, CloseReceipt(j, st)
    PROVE  receipts' \in [Principals \X Keys -> Receipt \cup {None}]
<1> DEFINE pk == <<jobs[j].principal, jobs[j].idempotency_key>>
<1>1. CASE jobs[j].idempotency_key = None \/ receipts[pk] = None
  BY <1>1 DEF TypeOK, CloseReceipt
<1>2. CASE jobs[j].idempotency_key # None /\ receipts[pk] # None
  <2>1. pk \in Principals \X Keys
    BY <1>2 DEF Control
  <2>2. receipts[pk] \in Receipt
    BY <2>1, <1>2 DEF TypeOK
  <2>3. [receipts[pk] EXCEPT !.state = st] \in Receipt
    BY <2>2 DEF Receipt, States
  <2>4. receipts' = [receipts EXCEPT ![pk] = [receipts[pk] EXCEPT !.state = st]]
    BY <1>2 DEF CloseReceipt
  <2> QED BY <2>1, <2>3, <2>4 DEF TypeOK
<1> QED BY <1>1, <1>2

\* Giving a slot back keeps the counters natural.
LEMMA CounterTypes ==
    ASSUME TypeOK, NEW j \in Jobs, jobs[j] \in Control, ReleaseSlot(j)
    PROVE  counters' \in [Principals -> Nat]
BY DEF TypeOK, ReleaseSlot, Control

\* _stage_terminalization keeps the types of the store.
LEMMA TerminalizeTypes ==
    ASSUME TypeOK, NEW j \in Jobs, Active(j), NEW st \in TerminalStates,
           NEW code \in ErrorCodes, NEW t, Terminalize(j, st, code, t)
    PROVE  TypeOK'
<1>1. jobs[j] \in Control
  BY DEF TypeOK, Active, Present
<1>2. Terminalized(jobs[j], st, code) \in Control
  BY <1>1, ControlTypes DEF TypeOK
<1>3. jobs' \in [Jobs -> Control \cup {None}]
  BY <1>2 DEF TypeOK, Terminalize
<1>4. receipts' \in [Principals \X Keys -> Receipt \cup {None}]
  BY <1>1, ReceiptTypes DEF Terminalize
<1>5. counters' \in [Principals -> Nat]
  BY <1>1, CounterTypes DEF Terminalize
<1>6. payloads' \in [Jobs -> Nat]
  BY DEF TypeOK, Terminalize, DropDeadPayload
<1> QED BY <1>3, <1>4, <1>5, <1>6 DEF TypeOK, Terminalize

\* A counter raised by one stays a family of natural numbers.
LEMMA IncrementType ==
    ASSUME NEW S, NEW f \in [S -> Nat], NEW x
    PROVE  [f EXCEPT ![x] = @ + 1] \in [S -> Nat]
<1>1. CASE x \in S
  <2>1. f[x] + 1 \in Nat
    BY <1>1
  <2> QED BY <2>1, Zenon
<1>2. CASE x \notin S
  BY <1>2, Zenon
<1> QED BY <1>1, <1>2

\* The document of a new job is well formed.
LEMMA NewControlType ==
    ASSUME NEW p \in Principals, NEW k \in Keys \cup {None},
           NEW r \in Requests, NEW t \in Nat
    PROVE  NewControl(p, k, r, t) \in Control
<1>1. t + JobDeadline \in Nat /\ 0 \in Nat
  BY LimitsAreNaturals
<1>2. "queued" \in States
  BY DEF States
<1> QED BY <1>1, <1>2, ZenonT(60) DEF NewControl, Control

\* create_or_get writes well-formed documents.
LEMMA CreateTypes ==
    ASSUME TypeOK, NEW j \in Jobs, NEW p \in Principals,
           NEW k \in Keys \cup {None}, NEW r \in Requests, NEW t,
           Create(j, p, k, r, t)
    PROVE  TypeOK'
<1>1. NewControl(p, k, r, t) \in Control
  BY NewControlType DEF Create
<1>2. jobs' \in [Jobs -> Control \cup {None}]
  BY <1>1 DEF TypeOK, Create
<1>3. payloads' \in [Jobs -> Nat]
  <2>1. t + PayloadTTL \in Nat
    BY LimitsAreNaturals DEF Create
  <2> QED BY <2>1 DEF TypeOK, Create
<1>4. receipts' \in [Principals \X Keys -> Receipt \cup {None}]
  <2>1. CASE k = None
    BY <2>1 DEF TypeOK, Create
  <2>2. CASE k # None
    <3>1. [job_id |-> j, request |-> r, state |-> "queued"] \in Receipt
      BY DEF Receipt, States
    <3>2. receipts' = [receipts EXCEPT ![<<p, k>>] =
                         [job_id |-> j, request |-> r, state |-> "queued"]]
      BY <2>2 DEF Create
    <3> QED BY <3>1, <3>2 DEF TypeOK
  <2> QED BY <2>1, <2>2
<1>5. counters' \in [Principals -> Nat]
  BY DEF TypeOK, Create
<1>6. windows' \in [Principals -> [0..MaxTime -> Nat]]
  <2>1. CASE RateLimit = 0
    BY <2>1 DEF TypeOK, Create
  <2>2. CASE RateLimit # 0
    <3>1. windows' = [windows EXCEPT ![p] =
                        [windows[p] EXCEPT ![t \div RateWindow] = @ + 1]]
      BY <2>2 DEF Create
    <3>2. windows[p] \in [0..MaxTime -> Nat]
      BY DEF TypeOK
    <3>3. [windows[p] EXCEPT ![t \div RateWindow] = @ + 1] \in [0..MaxTime -> Nat]
      BY <3>2, IncrementType
    <3> QED BY <3>1, <3>3 DEF TypeOK
  <2> QED BY <2>1, <2>2
<1>7. now' \in Nat
  BY DEF TypeOK, Create
<1> QED BY <1>2, <1>3, <1>4, <1>5, <1>6, <1>7 DEF TypeOK

\* Closing a job as the lease holder keeps the types of the store.
LEMMA FinishTypes ==
    ASSUME TypeOK, NEW j \in Jobs, NEW e, NEW v \in WorkerVerdicts(j),
           Finish(j, e, v[1], v[2])
    PROVE  TypeOK'
<1>1. jobs[j] \in Control
  BY DEF TypeOK, Finish, HoldsLease, Active, Present
<1>2. v[1] \in TerminalStates /\ v[2] \in ErrorCodes \cup {None}
  BY <1>1 DEF WorkerVerdicts, Control, TerminalStates, ErrorCodes
<1>3. Finished(jobs[j], v[1], v[2]) \in Control
  BY <1>1, <1>2, ControlTypes DEF TypeOK
<1>4. jobs' \in [Jobs -> Control \cup {None}]
  BY <1>3 DEF TypeOK, Finish
<1>5. receipts' \in [Principals \X Keys -> Receipt \cup {None}]
  BY <1>1, <1>2, ReceiptTypes DEF Finish
<1>6. counters' \in [Principals -> Nat]
  BY <1>1, CounterTypes DEF Finish
<1> QED BY <1>4, <1>5, <1>6 DEF TypeOK, Finish

\* A transaction that writes one control document and nothing else.
LEMMA ControlWriteTypes ==
    ASSUME TypeOK, NEW j \in Jobs, NEW d \in Control,
           jobs' = [jobs EXCEPT ![j] = d],
           UNCHANGED <<now, payloads, receipts, counters, windows>>
    PROVE  TypeOK'
BY DEF TypeOK

\* Every step of the store keeps its types.
LEMMA NextTypes == TypeOK /\ [Next]_vars => TypeOK'
<1> SUFFICES ASSUME TypeOK, [Next]_vars
             PROVE  TypeOK'
  OBVIOUS
<1>1. \A j \in Jobs : Present(j) => jobs[j] \in Control
  BY DEF TypeOK, Present
<1>2. ASSUME NEW c \in Control
      PROVE  /\ \A w \in Workers : Claimed(c, w) \in Control
             /\ \A o \in Recoverers : Locked(c, o) \in Control
             /\ Requeued(c) \in Control
             /\ Bumped(c) \in Control
             /\ Fenced(c) \in Control
             /\ [c EXCEPT !.enqueue_state = "enqueued"] \in Control
             /\ [c EXCEPT !.lease_expires_at = now + LeaseTime] \in Control
  BY ControlTypes DEF TypeOK
<1>3. CASE Tick
  BY <1>3 DEF TypeOK, Tick
<1>4. CASE Admission
  BY <1>4, CreateTypes DEF Admission
<1>5. ASSUME NEW j \in Jobs, PurgePayload(j)
      PROVE  TypeOK'
  BY <1>5 DEF TypeOK, PurgePayload
<1>6. ASSUME NEW j \in Jobs, TerminalizeExpired(j)
      PROVE  TypeOK'
  BY <1>6, TerminalizeTypes DEF TerminalizeExpired, TerminalStates, ErrorCodes
<1>7. ASSUME NEW j \in Jobs, NEW w \in Workers, NEW g, Claim(j, w, g)
      PROVE  TypeOK'
  <2>1. Claimed(jobs[j], w) \in Control
    BY <1>1, <1>2, <1>7 DEF Claim, Active
  <2> QED BY <1>7, <2>1, ControlWriteTypes DEF Claim
<1>8. ASSUME NEW j \in Jobs, LeaseHolderStep(j)
      PROVE  TypeOK'
  <2> PICK e \in Epochs :
         \/ \E w \in Workers : RenewLease(j, w, e)
         \/ RequeueCancelled(j, e)
         \/ /\ Active(j)
            /\ \E v \in WorkerVerdicts(j) : Finish(j, e, v[1], v[2])
    BY <1>8 DEF LeaseHolderStep
  <2>1. ASSUME NEW w \in Workers, RenewLease(j, w, e)
        PROVE  TypeOK'
    <3>1. [jobs[j] EXCEPT !.lease_expires_at = now + LeaseTime] \in Control
      BY <1>1, <1>2, <2>1 DEF RenewLease, OwnsLease, HoldsLease, Active
    <3> QED BY <2>1, <3>1, ControlWriteTypes DEF RenewLease
  <2>2. CASE RequeueCancelled(j, e)
    <3>1. Requeued(jobs[j]) \in Control
      BY <1>1, <1>2, <2>2 DEF RequeueCancelled, HoldsLease, Active
    <3> QED BY <2>2, <3>1, ControlWriteTypes DEF RequeueCancelled
  <2>3. ASSUME NEW v \in WorkerVerdicts(j), Finish(j, e, v[1], v[2])
        PROVE  TypeOK'
    BY <2>3, FinishTypes
  <2> QED BY <2>1, <2>2, <2>3
<1>9. ASSUME NEW j \in Jobs, OutboxStep(j)
      PROVE  TypeOK'
  <2>1. ASSUME NEW g, MarkEnqueued(j, g)
        PROVE  TypeOK'
    <3>1. [jobs[j] EXCEPT !.enqueue_state = "enqueued"] \in Control
      BY <1>1, <1>2, <2>1 DEF MarkEnqueued
    <3> QED BY <2>1, <3>1, ControlWriteTypes DEF MarkEnqueued
  <2>2. CASE BumpGeneration(j)
    <3>1. Bumped(jobs[j]) \in Control
      BY <1>1, <1>2, <2>2 DEF BumpGeneration, Active
    <3> QED BY <2>2, <3>1, ControlWriteTypes DEF BumpGeneration
  <2> QED BY <1>9, <2>1, <2>2 DEF OutboxStep
<1>10. ASSUME NEW j \in Jobs, RecoveryStep(j)
       PROVE  TypeOK'
  <2>1. ASSUME NEW o \in Recoverers, AcquireRecoveryLock(j, o)
        PROVE  TypeOK'
    <3>1. Locked(jobs[j], o) \in Control
      BY <1>1, <1>2, <2>1 DEF AcquireRecoveryLock
    <3> QED BY <2>1, <3>1, ControlWriteTypes DEF AcquireRecoveryLock
  <2>2. ASSUME NEW o, NEW e, NEW x, NEW t, FenceAndRequeue(j, o, e, x, t)
        PROVE  TypeOK'
    <3>1. Fenced(jobs[j]) \in Control
      BY <1>1, <1>2, <2>2 DEF FenceAndRequeue, Active
    <3> QED BY <2>2, <3>1, ControlWriteTypes DEF FenceAndRequeue
  <2>3. ASSUME NEW o, NEW s, NEW e, NEW t,
               \/ TerminalizeOverdue(j, o, s, e, t)
               \/ TerminalizePayloadMissing(j, o, s, e, t)
        PROVE  TypeOK'
    BY <2>3, TerminalizeTypes
       DEF TerminalizeOverdue, TerminalizePayloadMissing,
           RecoverySnapshotHolds, TerminalStates, ErrorCodes
  <2> QED BY <1>10, <2>1, <2>2, <2>3 DEF RecoveryStep
<1>11. ASSUME NEW j \in Jobs, PollStep(j)
       PROVE  TypeOK'
  BY <1>11, TerminalizeTypes
     DEF PollStep, TerminalizeIfUnrecoverable, TerminalStates, ErrorCodes
<1>12. CASE UNCHANGED vars
  BY <1>12 DEF TypeOK, vars
<1> QED BY <1>3, <1>4, <1>5, <1>6, <1>7, <1>8, <1>9, <1>10, <1>11, <1>12
        DEF Next

LEMMA InitTypes == Init => TypeOK
BY DEF Init, TypeOK

\* Type correctness of the store: every document of ticket_job_repository.py is
\* well formed in every reachable state.
THEOREM TypeCorrect == Spec => []TypeOK
BY InitTypes, NextTypes, PTL DEF Spec

-----------------------------------------------------------------------------
(* What a step may do to one control document.  The invariants of a single  *)
(* job need nothing else of Next.                                           *)

JobClosed(j) ==
    /\ Active(j)
    /\ \/ jobs'[j] = Terminalized(jobs[j], "timeout", "TOTAL_JOB_TIMEOUT")
       \/ jobs'[j] = Terminalized(jobs[j], "failed", "EXPIRED_PAYLOAD")
       \/ /\ jobs[j].lease_owner # None
          /\ \E v \in WorkerVerdicts(j) : jobs'[j] = Finished(jobs[j], v[1], v[2])

JobClaimed(j) ==
    /\ Active(j)
    /\ LeaseLapsed(jobs[j])
    /\ jobs[j].lease_epoch < MaxEpoch
    /\ \E w \in Workers : jobs'[j] = Claimed(jobs[j], w)

JobRenewed(j) ==
    /\ Active(j)
    /\ jobs[j].lease_owner # None
    /\ now < jobs[j].lease_expires_at
    /\ jobs'[j] = [jobs[j] EXCEPT !.lease_expires_at = now + LeaseTime]

JobRequeued(j) ==
    /\ Active(j)
    /\ \/ jobs'[j] = Requeued(jobs[j])
       \/ /\ now > jobs[j].lease_expires_at
          /\ jobs[j].lease_epoch < MaxEpoch
          /\ jobs[j].enqueue_generation < MaxGeneration
          /\ jobs'[j] = Fenced(jobs[j])

JobMarked(j) ==
    /\ Present(j)
    /\ \/ jobs'[j] = [jobs[j] EXCEPT !.enqueue_state = "enqueued"]
       \/ /\ Active(j)
          /\ jobs[j].enqueue_generation < MaxGeneration
          /\ jobs'[j] = Bumped(jobs[j])
       \/ \E o \in Recoverers : jobs'[j] = Locked(jobs[j], o)

JobCreated(j) ==
    /\ ~Present(j)
    /\ \E p \in Principals, k \in Keys \cup {None}, r \in Requests, t \in Nat :
          jobs'[j] = NewControl(p, k, r, t)

JobStep(j) ==
    \/ jobs'[j] = jobs[j]
    \/ JobCreated(j)
    \/ JobClosed(j)
    \/ JobClaimed(j)
    \/ JobRenewed(j)
    \/ JobRequeued(j)
    \/ JobMarked(j)

\* A transaction on one job leaves the documents of the others alone.
LEMMA OtherJobs ==
    ASSUME TypeOK, NEW j \in Jobs, NEW d, jobs' = [jobs EXCEPT ![j] = d],
           NEW i \in Jobs
    PROVE  jobs'[i] = IF i = j THEN d ELSE jobs[i]
BY DEF TypeOK

LEMMA NextIsJobStep ==
    ASSUME TypeOK, [Next]_vars, NEW i \in Jobs
    PROVE  JobStep(i)
<1> USE DEF JobStep
<1>1. CASE UNCHANGED jobs
  BY <1>1
<1>2. ASSUME NEW j \in Jobs, NEW p \in Principals, NEW k \in Keys \cup {None},
             NEW r \in Requests, NEW t, Create(j, p, k, r, t)
      PROVE  JobStep(i)
  BY <1>2, OtherJobs DEF Create, JobCreated
<1>3. ASSUME NEW j \in Jobs, NEW t,
             \/ Terminalize(j, "timeout", "TOTAL_JOB_TIMEOUT", t)
             \/ Terminalize(j, "failed", "EXPIRED_PAYLOAD", t),
             Active(j)
      PROVE  JobStep(i)
  BY <1>3, OtherJobs DEF Terminalize, JobClosed
<1>4. ASSUME NEW j \in Jobs, NEW w \in Workers, NEW g, Claim(j, w, g)
      PROVE  JobStep(i)
  BY <1>4, OtherJobs DEF Claim, JobClaimed
<1>5. ASSUME NEW j \in Jobs, LeaseHolderStep(j)
      PROVE  JobStep(i)
  <2> PICK e \in Epochs :
         \/ \E w \in Workers : RenewLease(j, w, e)
         \/ RequeueCancelled(j, e)
         \/ /\ Active(j)
            /\ \E v \in WorkerVerdicts(j) : Finish(j, e, v[1], v[2])
    BY <1>5 DEF LeaseHolderStep
  <2>1. ASSUME NEW w \in Workers, RenewLease(j, w, e)
        PROVE  JobStep(i)
    <3>1. jobs' = [jobs EXCEPT ![j] =
                     [jobs[j] EXCEPT !.lease_expires_at = now + LeaseTime]]
      BY <2>1 DEF RenewLease
    <3> QED BY <2>1, <3>1, OtherJobs DEF RenewLease, OwnsLease, HoldsLease, JobRenewed
  <2>2. CASE RequeueCancelled(j, e)
    BY <2>2, OtherJobs DEF RequeueCancelled, HoldsLease, JobRequeued
  <2>3. ASSUME NEW v \in WorkerVerdicts(j), Finish(j, e, v[1], v[2])
        PROVE  JobStep(i)
    <3>1. jobs'[i] = IF i = j THEN Finished(jobs[j], v[1], v[2]) ELSE jobs[i]
      BY <2>3, OtherJobs DEF Finish
    <3> QED BY <2>3, <3>1 DEF Finish, HoldsLease, JobClosed
  <2> QED BY <2>1, <2>2, <2>3
<1>6. ASSUME NEW j \in Jobs, OutboxStep(j)
      PROVE  JobStep(i)
  <2>1. ASSUME NEW g, MarkEnqueued(j, g)
        PROVE  JobStep(i)
    <3>1. jobs' = [jobs EXCEPT ![j] =
                     [jobs[j] EXCEPT !.enqueue_state = "enqueued"]]
      BY <2>1 DEF MarkEnqueued
    <3> QED BY <2>1, <3>1, OtherJobs DEF MarkEnqueued, JobMarked
  <2>2. CASE BumpGeneration(j)
    BY <2>2, OtherJobs DEF BumpGeneration, JobMarked, Active
  <2> QED BY <1>6, <2>1, <2>2 DEF OutboxStep
<1>7. ASSUME NEW j \in Jobs, RecoveryStep(j)
      PROVE  JobStep(i)
  <2>1. ASSUME NEW o \in Recoverers, AcquireRecoveryLock(j, o)
        PROVE  JobStep(i)
    BY <2>1, OtherJobs DEF AcquireRecoveryLock, JobMarked
  <2>2. ASSUME NEW o, NEW e, NEW x \in 0..now, NEW t \in 0..now,
               FenceAndRequeue(j, o, e, x, t)
        PROVE  JobStep(i)
    <3>1. now > jobs[j].lease_expires_at
      BY <2>2 DEF FenceAndRequeue, TypeOK
    <3> QED BY <2>2, <3>1, OtherJobs DEF FenceAndRequeue, JobRequeued
  <2>3. ASSUME NEW o, NEW s, NEW e, NEW t,
               \/ TerminalizeOverdue(j, o, s, e, t)
               \/ TerminalizePayloadMissing(j, o, s, e, t)
        PROVE  JobStep(i)
    BY <2>3, <1>3 DEF TerminalizeOverdue, TerminalizePayloadMissing,
                      RecoverySnapshotHolds
  <2> QED BY <1>7, <2>1, <2>2, <2>3 DEF RecoveryStep
<1>8. ASSUME NEW j \in Jobs, TerminalizeExpired(j) \/ PollStep(j)
      PROVE  JobStep(i)
  BY <1>8, <1>3 DEF TerminalizeExpired, PollStep, TerminalizeIfUnrecoverable
<1>9. ASSUME Tick \/ (\E j \in Jobs : PurgePayload(j)) \/ UNCHANGED vars
      PROVE  UNCHANGED jobs
  BY <1>9 DEF Tick, PurgePayload, vars
<1> HIDE DEF JobStep
<1> QED BY <1>1, <1>2, <1>4, <1>5, <1>6, <1>7, <1>8, <1>9 DEF Next, Admission

\* The fields, of the documents the transactions write, that the invariants of a
\* job speak of.
LEMMA TerminalizedFields ==
    ASSUME NEW c \in Control, NEW st, NEW code
    PROVE  /\ Terminalized(c, st, code).principal = c.principal
           /\ Terminalized(c, st, code).state = st
           /\ Terminalized(c, st, code).error = code
           /\ Terminalized(c, st, code).lease_owner = None
           /\ Terminalized(c, st, code).lease_expires_at = 0
           /\ Terminalized(c, st, code).lease_epoch = c.lease_epoch + 1
           /\ Terminalized(c, st, code).active_slot_released
           /\ Terminalized(c, st, code).enqueue_generation = c.enqueue_generation
BY Zenon DEF Control, Terminalized

LEMMA FinishedFields ==
    ASSUME NEW c \in Control, NEW st, NEW code
    PROVE  /\ Finished(c, st, code).principal = c.principal
           /\ Finished(c, st, code).state = st
           /\ Finished(c, st, code).error = code
           /\ Finished(c, st, code).lease_owner = None
           /\ Finished(c, st, code).lease_expires_at = 0
           /\ Finished(c, st, code).lease_epoch = c.lease_epoch
           /\ Finished(c, st, code).active_slot_released
           /\ Finished(c, st, code).enqueue_generation = c.enqueue_generation
BY Zenon DEF Control, Finished

LEMMA ClaimedFields ==
    ASSUME NEW c \in Control, NEW w
    PROVE  /\ Claimed(c, w).principal = c.principal
           /\ Claimed(c, w).state = "running"
           /\ Claimed(c, w).error = c.error
           /\ Claimed(c, w).lease_owner = w
           /\ Claimed(c, w).lease_expires_at = now + LeaseTime
           /\ Claimed(c, w).lease_epoch = c.lease_epoch + 1
           /\ Claimed(c, w).active_slot_released = c.active_slot_released
           /\ Claimed(c, w).enqueue_generation = c.enqueue_generation
BY Zenon DEF Control, Claimed

LEMMA RequeuedFields ==
    ASSUME NEW c \in Control
    PROVE  /\ Requeued(c).principal = c.principal
           /\ Requeued(c).state = "queued"
           /\ Requeued(c).error = "WORKER_CANCELLED"
           /\ Requeued(c).lease_owner = None
           /\ Requeued(c).lease_expires_at = 0
           /\ Requeued(c).lease_epoch = c.lease_epoch
           /\ Requeued(c).active_slot_released = c.active_slot_released
           /\ Requeued(c).enqueue_generation = c.enqueue_generation
BY Zenon DEF Control, Requeued

LEMMA FencedFields ==
    ASSUME NEW c \in Control
    PROVE  /\ Fenced(c).principal = c.principal
           /\ Fenced(c).state = "queued"
           /\ Fenced(c).error = c.error
           /\ Fenced(c).lease_owner = None
           /\ Fenced(c).lease_expires_at = 0
           /\ Fenced(c).lease_epoch = c.lease_epoch + 1
           /\ Fenced(c).active_slot_released = c.active_slot_released
           /\ Fenced(c).enqueue_generation = c.enqueue_generation + 1
           /\ Fenced(c).enqueue_state = "pending"
BY Zenon DEF Control, Fenced

LEMMA BumpedFields ==
    ASSUME NEW c \in Control
    PROVE  /\ Bumped(c).principal = c.principal
           /\ Bumped(c).state = c.state
           /\ Bumped(c).error = c.error
           /\ Bumped(c).lease_owner = c.lease_owner
           /\ Bumped(c).lease_expires_at = c.lease_expires_at
           /\ Bumped(c).lease_epoch = c.lease_epoch
           /\ Bumped(c).active_slot_released = c.active_slot_released
           /\ Bumped(c).enqueue_generation = c.enqueue_generation + 1
           /\ Bumped(c).enqueue_state = "pending"
BY Zenon DEF Control, Bumped

LEMMA LockedFields ==
    ASSUME NEW c \in Control, NEW o
    PROVE  /\ Locked(c, o).principal = c.principal
           /\ Locked(c, o).state = c.state
           /\ Locked(c, o).error = c.error
           /\ Locked(c, o).lease_owner = c.lease_owner
           /\ Locked(c, o).lease_expires_at = c.lease_expires_at
           /\ Locked(c, o).lease_epoch = c.lease_epoch
           /\ Locked(c, o).active_slot_released = c.active_slot_released
           /\ Locked(c, o).enqueue_generation = c.enqueue_generation
BY Zenon DEF Control, Locked

-----------------------------------------------------------------------------
(* Leases.                                                                  *)

\* The inductive step of RunningIffOwned, one document at a time.
LEMMA LeaseStep ==
    ASSUME TypeOK, RunningIffOwned, [Next]_vars
    PROVE  RunningIffOwned'
<1> SUFFICES ASSUME NEW j \in Jobs, jobs'[j] # None
             PROVE  /\ jobs'[j].state = "running" <=> jobs'[j].lease_owner # None
                    /\ jobs'[j].lease_owner = None <=> jobs'[j].lease_expires_at = 0
                    /\ jobs'[j].lease_owner # None => jobs'[j].lease_epoch > 0
  BY DEF RunningIffOwned, Present
<1> DEFINE c == jobs[j]
<1>1. JobStep(j)
  BY NextIsJobStep
<1>2. Present(j) => /\ c \in Control
                    /\ c.state = "running" <=> c.lease_owner # None
                    /\ c.lease_owner = None <=> c.lease_expires_at = 0
                    /\ c.lease_owner # None => c.lease_epoch > 0
  BY DEF TypeOK, RunningIffOwned, Present
<1>3. c \in Control => c.lease_epoch \in Nat
  BY DEF Control
<1>4. now + LeaseTime \in Nat /\ now + LeaseTime # 0
  BY LimitsAreNaturals DEF TypeOK
<1>5. CASE jobs'[j] = jobs[j]
  BY <1>2, <1>5 DEF Present
<1>6. CASE JobCreated(j)
  BY <1>6 DEF JobCreated, NewControl
<1>7. CASE JobClosed(j)
  <2>1. PICK st, code : /\ st \in TerminalStates
                        /\ \/ jobs'[j] = Terminalized(c, st, code)
                           \/ jobs'[j] = Finished(c, st, code)
    BY <1>7 DEF JobClosed, TerminalStates, WorkerVerdicts
  <2>2. st # "running"
    BY <2>1 DEF TerminalStates
  <2>3. c \in Control
    BY <1>2, <1>7 DEF JobClosed, Active
  <2>4. /\ jobs'[j].state = st
        /\ jobs'[j].lease_owner = None
        /\ jobs'[j].lease_expires_at = 0
    <3>1. CASE jobs'[j] = Terminalized(c, st, code)
      <4> HIDE DEF c
      <4> QED BY <2>3, <3>1, TerminalizedFields
    <3>2. CASE jobs'[j] = Finished(c, st, code)
      <4> HIDE DEF c
      <4> QED BY <2>3, <3>2, FinishedFields
    <3> QED BY <2>1, <3>1, <3>2
  <2> QED BY <2>2, <2>4
<1>8. CASE JobClaimed(j)
  <2>1. PICK w \in Workers : jobs'[j] = Claimed(c, w)
    BY <1>8 DEF JobClaimed
  <2>2. c \in Control /\ w # None
    BY <1>2, <1>8, NoneIsNoValue DEF JobClaimed, Active
  <2> HIDE DEF c
  <2> QED BY <1>3, <1>4, <2>1, <2>2, ClaimedFields
<1>9. CASE JobRenewed(j)
  BY <1>2, <1>4, <1>9 DEF JobRenewed, Active, Control
<1>10. CASE JobRequeued(j)
  <2>1. c \in Control
    BY <1>2, <1>10 DEF JobRequeued, Active
  <2>2. jobs'[j] = Requeued(c) \/ jobs'[j] = Fenced(c)
    BY <1>10 DEF JobRequeued
  <2> HIDE DEF c
  <2> QED BY <2>1, <2>2, RequeuedFields, FencedFields
<1>11. CASE JobMarked(j)
  <2>1. Present(j) /\ c \in Control
    BY <1>2, <1>11 DEF JobMarked
  <2>2. CASE jobs'[j] = [c EXCEPT !.enqueue_state = "enqueued"]
    BY <1>2, <2>1, <2>2 DEF Control
  <2>3. ASSUME jobs'[j] = Bumped(c) \/ (\E o : jobs'[j] = Locked(c, o))
        PROVE  /\ jobs'[j].state = c.state
               /\ jobs'[j].lease_owner = c.lease_owner
               /\ jobs'[j].lease_expires_at = c.lease_expires_at
               /\ jobs'[j].lease_epoch = c.lease_epoch
    <3> HIDE DEF c
    <3> QED BY <2>1, <2>3, BumpedFields, LockedFields
  <2> QED BY <1>2, <1>11, <2>1, <2>2, <2>3 DEF JobMarked
<1> QED BY <1>1, <1>5, <1>6, <1>7, <1>8, <1>9, <1>10, <1>11 DEF JobStep

\* A job runs exactly while its lease has an owner: no transaction leaves a
\* running job nobody owns, which recovery (it looks for an expiry) would miss.
THEOREM RunningIsOwned == Spec => []RunningIffOwned
<1>1. Init => RunningIffOwned
  BY DEF Init, RunningIffOwned, Present
<1> QED BY <1>1, TypeCorrect, LeaseStep, PTL DEF Spec

\* The step of a job that is already terminal: only a confirmation or a
\* recovery lock may still be written.
LEMMA TerminalStep ==
    ASSUME TypeOK, RunningIffOwned, [Next]_vars, NEW j \in Jobs,
           Present(j), ~Active(j)
    PROVE  /\ jobs'[j] # None
           /\ jobs'[j].state = jobs[j].state
           /\ jobs'[j].error = jobs[j].error
           /\ jobs'[j].lease_epoch = jobs[j].lease_epoch
           /\ jobs'[j].lease_owner = None
<1> DEFINE c == jobs[j]
<1>1. c \in Control /\ c # None
  BY DEF TypeOK, Present
<1>2. c.lease_owner = None
  BY DEF RunningIffOwned, Active, TerminalStates, Present
<1>3. \/ jobs'[j] = c
      \/ jobs'[j] = [c EXCEPT !.enqueue_state = "enqueued"]
      \/ \E o \in Recoverers : jobs'[j] = Locked(c, o)
  BY NextIsJobStep DEF JobStep, JobCreated, JobClosed, JobClaimed, JobRenewed,
                       JobRequeued, JobMarked
<1> HIDE DEF c
<1>4. CASE jobs'[j] = c
  BY <1>1, <1>2, <1>4 DEF c
<1>5. CASE jobs'[j] = [c EXCEPT !.enqueue_state = "enqueued"]
  <2>1. jobs'[j] \in Control
    BY <1>1, <1>5, ControlTypes DEF TypeOK
  <2>2. /\ jobs'[j].state = c.state
        /\ jobs'[j].error = c.error
        /\ jobs'[j].lease_epoch = c.lease_epoch
        /\ jobs'[j].lease_owner = c.lease_owner
    BY <1>1, <1>5 DEF Control
  <2> QED BY <1>2, <2>1, <2>2, NoneIsNoDocument DEF c
<1>6. ASSUME NEW o \in Recoverers, jobs'[j] = Locked(c, o)
      PROVE  /\ jobs'[j] # None
             /\ jobs'[j].state = c.state
             /\ jobs'[j].error = c.error
             /\ jobs'[j].lease_epoch = c.lease_epoch
             /\ jobs'[j].lease_owner = None
  <2>1. jobs'[j] \in Control
    BY <1>1, <1>6, ControlTypes DEF TypeOK
  <2> QED BY <1>1, <1>2, <1>6, <2>1, LockedFields, NoneIsNoDocument
<1> QED BY <1>3, <1>4, <1>5, <1>6 DEF c

\* No late worker, reconciler or confirmation moves a job out of a terminal
\* state, rewrites its verdict or its epoch, or takes it over again.
THEOREM TerminalStatesAreFinal == Spec => TerminalIsFinal
<1>1. TypeOK /\ RunningIffOwned /\ [Next]_vars
      => [\A j \in Jobs : (Present(j) /\ ~Active(j)) =>
            /\ jobs'[j] # None
            /\ jobs'[j].state = jobs[j].state
            /\ jobs'[j].error = jobs[j].error
            /\ jobs'[j].lease_epoch = jobs[j].lease_epoch
            /\ jobs'[j].lease_owner = None]_vars
  BY TerminalStep
<1> QED BY <1>1, TypeCorrect, RunningIsOwned, PTL DEF Spec, TerminalIsFinal

\* What a step does to the lease of an active job.
LEMMA ActiveStep ==
    ASSUME TypeOK, [Next]_vars, NEW j \in Jobs, Active(j)
    PROVE  /\ jobs'[j].lease_epoch >= jobs[j].lease_epoch
           /\ (jobs'[j].lease_owner # None
                 /\ jobs'[j].lease_owner # jobs[j].lease_owner)
               => jobs'[j].lease_epoch > jobs[j].lease_epoch
           /\ (jobs[j].lease_owner # None
                 /\ jobs'[j].lease_epoch # jobs[j].lease_epoch
                 /\ jobs'[j].state \notin TerminalStates)
               => now > jobs[j].lease_expires_at
<1> DEFINE c == jobs[j]
<1>1. c \in Control /\ c.lease_epoch \in Nat
  BY DEF TypeOK, Active, Present, Control
<1>2. JobStep(j) /\ ~JobCreated(j)
  BY NextIsJobStep DEF JobCreated, Active
<1>3. CASE jobs'[j] = jobs[j]
  BY <1>1, <1>3
<1>4. CASE JobClosed(j)
  <2>1. PICK st, code : /\ st \in TerminalStates
                        /\ \/ jobs'[j] = Terminalized(c, st, code)
                           \/ jobs'[j] = Finished(c, st, code)
    BY <1>4 DEF JobClosed, TerminalStates, WorkerVerdicts
  <2>2. /\ jobs'[j].state = st
        /\ jobs'[j].lease_owner = None
        /\ jobs'[j].lease_epoch \in {c.lease_epoch, c.lease_epoch + 1}
    <3>1. CASE jobs'[j] = Terminalized(c, st, code)
      <4> HIDE DEF c
      <4> QED BY <1>1, <3>1, TerminalizedFields
    <3>2. CASE jobs'[j] = Finished(c, st, code)
      <4> HIDE DEF c
      <4> QED BY <1>1, <3>2, FinishedFields
    <3> QED BY <2>1, <3>1, <3>2
  <2> QED BY <1>1, <2>1, <2>2
<1>5. CASE JobClaimed(j)
  <2>1. PICK w \in Workers : jobs'[j] = Claimed(c, w)
    BY <1>5 DEF JobClaimed
  <2>2. jobs'[j].lease_epoch = c.lease_epoch + 1
    <3> HIDE DEF c
    <3> QED BY <1>1, <2>1, ClaimedFields
  <2>3. c.lease_owner # None => now > c.lease_expires_at
    BY <1>5 DEF JobClaimed, LeaseLapsed
  <2> QED BY <1>1, <2>2, <2>3
<1>6. CASE JobRenewed(j)
  BY <1>1, <1>6 DEF JobRenewed, Control
<1>7. CASE JobRequeued(j)
  <2>1. CASE jobs'[j] = Requeued(c)
    <3> HIDE DEF c
    <3>1. jobs'[j].lease_epoch = c.lease_epoch /\ jobs'[j].lease_owner = None
      BY <1>1, <2>1, RequeuedFields
    <3> QED BY <1>1, <3>1 DEF c
  <2>2. CASE jobs'[j] = Fenced(c) /\ now > c.lease_expires_at
    <3> HIDE DEF c
    <3>1. jobs'[j].lease_epoch = c.lease_epoch + 1 /\ jobs'[j].lease_owner = None
      BY <1>1, <2>2, FencedFields
    <3> QED BY <1>1, <2>2, <3>1 DEF c
  <2> QED BY <1>7, <2>1, <2>2 DEF JobRequeued
<1>8. CASE JobMarked(j)
  <2>1. /\ jobs'[j].lease_epoch = c.lease_epoch
        /\ jobs'[j].lease_owner = c.lease_owner
    <3>1. CASE jobs'[j] = [c EXCEPT !.enqueue_state = "enqueued"]
      BY <1>1, <3>1 DEF Control
    <3>2. ASSUME jobs'[j] = Bumped(c) \/ (\E o : jobs'[j] = Locked(c, o))
          PROVE  /\ jobs'[j].lease_epoch = c.lease_epoch
                 /\ jobs'[j].lease_owner = c.lease_owner
      <4> HIDE DEF c
      <4> QED BY <1>1, <3>2, BumpedFields, LockedFields
    <3> QED BY <1>8, <3>1, <3>2 DEF JobMarked
  <2> QED BY <1>1, <2>1
<1> QED BY <1>2, <1>3, <1>4, <1>5, <1>6, <1>7, <1>8 DEF JobStep

\* lease_epoch never decreases and a new owner has a new epoch, so that a pair
\* of a job and an epoch names one attempt for ever.
THEOREM EpochsNameAttempts == Spec => EpochIdentifiesAttempt
<1>1. TypeOK /\ [Next]_vars
      => [\A j \in Jobs : Active(j) =>
            /\ jobs'[j].lease_epoch >= jobs[j].lease_epoch
            /\ (jobs'[j].lease_owner # None
                  /\ jobs'[j].lease_owner # jobs[j].lease_owner)
                => jobs'[j].lease_epoch > jobs[j].lease_epoch]_vars
  BY ActiveStep
<1> QED BY <1>1, TypeCorrect, PTL DEF Spec, EpochIdentifiesAttempt

\* Another worker or the reconciler ends a lease only after its expiry.
THEOREM LeasesAreNotStolen == Spec => LiveLeaseIsNotStolen
<1>1. TypeOK /\ [Next]_vars
      => [\A j \in Jobs :
            (Active(j) /\ jobs[j].lease_owner # None
               /\ jobs'[j].lease_epoch # jobs[j].lease_epoch
               /\ jobs'[j].state \notin TerminalStates)
            => now > jobs[j].lease_expires_at]_vars
  BY ActiveStep
<1> QED BY <1>1, TypeCorrect, PTL DEF Spec, LiveLeaseIsNotStolen

-----------------------------------------------------------------------------
(* Quota.                                                                   *)

\* Two documents that count the same towards the quota.
SameSlot(c, d) ==
    /\ d.principal = c.principal
    /\ d.active_slot_released <=> c.active_slot_released
    /\ d.state \in TerminalStates <=> c.state \in TerminalStates

\* A transaction that neither admits nor ends a job keeps the accounting.
LEMMA SlotKept ==
    ASSUME TypeOK, SlotAccounting, NEW j \in Jobs, Present(j),
           NEW d \in Control, SameSlot(jobs[j], d),
           jobs' = [jobs EXCEPT ![j] = d], counters' = counters
    PROVE  SlotAccounting'
<1>1. d # None
  BY NoneIsNoDocument
<1>2. \A i \in Jobs : jobs'[i] = IF i = j THEN d ELSE jobs[i]
  BY DEF TypeOK
<1>3. \A i \in Jobs : Active(i)' <=> Active(i)
  BY <1>1, <1>2 DEF Active, Present, SameSlot
<1>4. \A p \in Principals : ActiveJobsOf(p)' = ActiveJobsOf(p)
  <2> SUFFICES ASSUME NEW p \in Principals, NEW i \in Jobs
               PROVE  (Active(i) /\ jobs[i].principal = p)
                      <=> (Active(i)' /\ jobs'[i].principal = p)
    BY DEF ActiveJobsOf
  <2> QED BY <1>2, <1>3 DEF SameSlot
<1>5. \A i \in Jobs : Present(i)' => (jobs'[i].active_slot_released <=> ~Active(i)')
  BY <1>2, <1>3 DEF SlotAccounting, SameSlot, Present
<1> QED BY <1>4, <1>5 DEF SlotAccounting

\* A transaction that ends a job gives back exactly its slot.
LEMMA SlotReleased ==
    ASSUME TypeOK, SlotAccounting, NEW j \in Jobs, Active(j),
           NEW d \in Control, d.state \in TerminalStates,
           d.principal = jobs[j].principal, d.active_slot_released,
           jobs' = [jobs EXCEPT ![j] = d], ReleaseSlot(j)
    PROVE  SlotAccounting'
<1> DEFINE q == jobs[j].principal
<1>1. /\ d # None
      /\ q \in Principals
      /\ ~jobs[j].active_slot_released
  BY NoneIsNoDocument DEF TypeOK, Control, SlotAccounting, Active, Present
<1>2. \A i \in Jobs : jobs'[i] = IF i = j THEN d ELSE jobs[i]
  BY DEF TypeOK
<1>3. \A i \in Jobs : Active(i)' <=> Active(i) /\ i # j
  BY <1>1, <1>2 DEF Active, Present
<1>4. \A p \in Principals : ActiveJobsOf(p)' = ActiveJobsOf(p) \ {j}
  <2> SUFFICES ASSUME NEW p \in Principals, NEW i \in Jobs
               PROVE  (Active(i) /\ jobs[i].principal = p /\ i # j)
                      <=> (Active(i)' /\ jobs'[i].principal = p)
    BY DEF ActiveJobsOf
  <2> QED BY <1>2, <1>3
<1>5. \A p \in Principals : IsFiniteSet(ActiveJobsOf(p))
  BY JobsFinite, FS_Subset DEF ActiveJobsOf
<1>6. j \in ActiveJobsOf(q)
  BY DEF ActiveJobsOf
<1>7. /\ Cardinality(ActiveJobsOf(q) \ {j}) = counters[q] - 1
      /\ counters[q] > 0
  <2>1. Cardinality(ActiveJobsOf(q) \ {j}) = Cardinality(ActiveJobsOf(q)) - 1
    BY <1>1, <1>5, <1>6, FS_RemoveElement
  <2>2. Cardinality(ActiveJobsOf(q) \ {j}) \in Nat
    BY <1>1, <1>5, FS_RemoveElement, FS_CardinalityType
  <2>3. counters[q] = Cardinality(ActiveJobsOf(q)) /\ counters[q] \in Nat
    BY <1>1 DEF SlotAccounting, TypeOK
  <2> QED BY <2>1, <2>2, <2>3
<1>8. counters' = [counters EXCEPT ![q] = counters[q] - 1]
  BY <1>1, <1>7 DEF ReleaseSlot
<1>9. ASSUME NEW p \in Principals
      PROVE  counters'[p] = Cardinality(ActiveJobsOf(p)')
  <2>1. CASE p = q
    BY <1>1, <1>4, <1>7, <1>8, <2>1 DEF TypeOK
  <2>2. CASE p # q
    <3>1. ActiveJobsOf(p) \ {j} = ActiveJobsOf(p)
      BY <2>2 DEF ActiveJobsOf
    <3>2. counters'[p] = counters[p]
      BY <1>1, <1>8, <2>2 DEF TypeOK
    <3> QED BY <1>4, <3>1, <3>2 DEF SlotAccounting
  <2> QED BY <2>1, <2>2
<1>10. \A i \in Jobs : Present(i)' => (jobs'[i].active_slot_released <=> ~Active(i)')
  BY <1>2, <1>3 DEF SlotAccounting, Present
<1> QED BY <1>9, <1>10 DEF SlotAccounting

\* Admission takes one slot of its principal, below the cap.
LEMMA SlotTaken ==
    ASSUME TypeOK, SlotAccounting, NEW j \in Jobs, NEW p \in Principals,
           NEW k \in Keys \cup {None}, NEW r \in Requests, NEW t,
           Create(j, p, k, r, t)
    PROVE  SlotAccounting'
<1> DEFINE d == NewControl(p, k, r, t)
<1>1. d.principal = p /\ d.state = "queued" /\ ~d.active_slot_released
  BY DEF NewControl
<1>2. d # None
  <2>1. d \in Control
    BY NewControlType DEF Create
  <2> QED BY <2>1, NoneIsNoDocument
<1> HIDE DEF d
<1>3. \A i \in Jobs : jobs'[i] = IF i = j THEN d ELSE jobs[i]
  BY DEF TypeOK, Create, d
<1>4. ~Active(j) /\ Active(j)'
  BY <1>1, <1>2, <1>3 DEF Create, Active, Present, TerminalStates
<1>5. \A i \in Jobs : i # j => (Active(i)' <=> Active(i))
  BY <1>3 DEF Active, Present
<1>6. ASSUME NEW q \in Principals
      PROVE  ActiveJobsOf(q)' =
               IF q = p THEN ActiveJobsOf(q) \cup {j} ELSE ActiveJobsOf(q)
  <2> SUFFICES ASSUME NEW i \in Jobs
               PROVE  (Active(i)' /\ jobs'[i].principal = q)
                      <=> \/ Active(i) /\ jobs[i].principal = q
                          \/ q = p /\ i = j
    BY DEF ActiveJobsOf
  <2> QED BY <1>1, <1>3, <1>4, <1>5
<1>7. counters' = [counters EXCEPT ![p] = counters[p] + 1]
  BY DEF Create
<1>8. ASSUME NEW q \in Principals
      PROVE  counters'[q] = Cardinality(ActiveJobsOf(q)')
  <2>1. IsFiniteSet(ActiveJobsOf(q)) /\ j \notin ActiveJobsOf(q)
    BY JobsFinite, FS_Subset, <1>4 DEF ActiveJobsOf
  <2>2. Cardinality(ActiveJobsOf(q) \cup {j}) = Cardinality(ActiveJobsOf(q)) + 1
    BY <2>1, FS_AddElement
  <2>3. counters[q] = Cardinality(ActiveJobsOf(q))
    BY DEF SlotAccounting
  <2> QED BY <1>6, <1>7, <2>2, <2>3 DEF TypeOK
<1>9. \A i \in Jobs : Present(i)' => (jobs'[i].active_slot_released <=> ~Active(i)')
  BY <1>1, <1>3, <1>4, <1>5 DEF SlotAccounting, Present
<1> QED BY <1>8, <1>9 DEF SlotAccounting

\* The documents of a live job count the same towards the quota.
LEMMA LiveDocumentsKeepSlot ==
    ASSUME now \in Nat, NEW c \in Control
    PROVE  /\ c.state \notin TerminalStates =>
                /\ \A w \in Workers : SameSlot(c, Claimed(c, w))
                /\ SameSlot(c, Requeued(c))
                /\ SameSlot(c, Fenced(c))
           /\ SameSlot(c, Bumped(c))
           /\ \A o \in Recoverers : SameSlot(c, Locked(c, o))
           /\ SameSlot(c, [c EXCEPT !.enqueue_state = "enqueued"])
           /\ SameSlot(c, [c EXCEPT !.lease_expires_at = now + LeaseTime])
<1>1. "running" \notin TerminalStates /\ "queued" \notin TerminalStates
  BY DEF TerminalStates
<1>2. ASSUME c.state \notin TerminalStates, NEW w \in Workers
      PROVE  SameSlot(c, Claimed(c, w))
  BY <1>1, <1>2, ClaimedFields DEF SameSlot
<1>3. ASSUME c.state \notin TerminalStates
      PROVE  SameSlot(c, Requeued(c)) /\ SameSlot(c, Fenced(c))
  BY <1>1, <1>3, RequeuedFields, FencedFields DEF SameSlot
<1>4. SameSlot(c, Bumped(c))
  BY BumpedFields DEF SameSlot
<1>5. ASSUME NEW o \in Recoverers
      PROVE  SameSlot(c, Locked(c, o))
  BY LockedFields DEF SameSlot
<1>6. /\ SameSlot(c, [c EXCEPT !.enqueue_state = "enqueued"])
      /\ SameSlot(c, [c EXCEPT !.lease_expires_at = now + LeaseTime])
  BY DEF SameSlot, Control
<1> QED BY <1>2, <1>3, <1>4, <1>5, <1>6

\* What a step does to the quota: it admits one job below the cap, or ends one,
\* or leaves the jobs that count alone.
LEMMA QuotaStep ==
    ASSUME TypeOK, SlotAccounting, [Next]_vars
    PROVE  /\ SlotAccounting'
           /\ \A p \in Principals :
                 counters'[p] > counters[p] =>
                    /\ WithinQuota(p)
                    /\ counters'[p] = counters[p] + 1
<1> DEFINE Capped == \A p \in Principals :
                       counters'[p] > counters[p] =>
                          WithinQuota(p) /\ counters'[p] = counters[p] + 1
<1> HIDE DEF Capped
<1>1. \A p \in Principals : counters[p] \in Nat
  BY DEF TypeOK
<1>2. \A j \in Jobs : Present(j) => jobs[j] \in Control
  BY DEF TypeOK, Present
<1>3. ASSUME NEW j \in Jobs, Active(j), NEW d \in Control,
             d.state \in TerminalStates, d.principal = jobs[j].principal,
             d.active_slot_released, jobs' = [jobs EXCEPT ![j] = d],
             ReleaseSlot(j)
      PROVE  SlotAccounting' /\ Capped
  <2>1. \A p \in Principals : counters'[p] <= counters[p]
    BY <1>1, <1>3 DEF ReleaseSlot, TypeOK
  <2>2. TypeOK'
    BY NextTypes
  <2>3. \A p \in Principals : counters'[p] \in Nat
    BY <2>2 DEF TypeOK
  <2>4. SlotAccounting'
    BY <1>3, SlotReleased
  <2> QED BY <1>1, <2>1, <2>3, <2>4 DEF Capped
<1>4. ASSUME NEW j \in Jobs, Active(j), NEW t, NEW st \in TerminalStates,
             NEW code \in ErrorCodes, Terminalize(j, st, code, t)
      PROVE  SlotAccounting' /\ Capped
  <2>1. jobs[j] \in Control
    BY <1>2, <1>4 DEF Active
  <2>2. Terminalized(jobs[j], st, code) \in Control
    BY <2>1, ControlTypes DEF TypeOK
  <2> QED BY <1>3, <1>4, <2>1, <2>2, TerminalizedFields DEF Terminalize
<1>5. ASSUME NEW j \in Jobs, Present(j), NEW d \in Control,
             SameSlot(jobs[j], d), jobs' = [jobs EXCEPT ![j] = d],
             counters' = counters
      PROVE  SlotAccounting' /\ Capped
  <2>1. SlotAccounting'
    BY <1>5, SlotKept
  <2>2. Capped
    BY <1>1, <1>5 DEF Capped
  <2> QED BY <2>1, <2>2
<1>6. ASSUME NEW c \in Control
      PROVE  /\ \A w \in Workers : Claimed(c, w) \in Control
             /\ \A o \in Recoverers : Locked(c, o) \in Control
             /\ Requeued(c) \in Control
             /\ Bumped(c) \in Control
             /\ Fenced(c) \in Control
             /\ [c EXCEPT !.enqueue_state = "enqueued"] \in Control
             /\ [c EXCEPT !.lease_expires_at = now + LeaseTime] \in Control
  BY ControlTypes DEF TypeOK
<1>7. ASSUME UNCHANGED <<jobs, counters>>
      PROVE  SlotAccounting' /\ Capped
  <2>1. SlotAccounting'
    BY <1>7 DEF SlotAccounting, ActiveJobsOf, Active, Present
  <2>2. Capped
    BY <1>1, <1>7 DEF Capped
  <2> QED BY <2>1, <2>2
<1>8. ASSUME NEW j \in Jobs, NEW p \in Principals, NEW k \in Keys \cup {None},
             NEW r \in Requests, NEW t, Create(j, p, k, r, t)
      PROVE  SlotAccounting' /\ Capped
  <2>1. Capped
    BY <1>1, <1>8 DEF Create, TypeOK, Capped
  <2> QED BY <1>8, <2>1, SlotTaken
<1>9. ASSUME NEW j \in Jobs, NEW w \in Workers, NEW g, Claim(j, w, g)
      PROVE  SlotAccounting' /\ Capped
  <2>1. Present(j) /\ jobs[j] \in Control /\ jobs[j].state \notin TerminalStates
    BY <1>2, <1>9 DEF Claim, Active
  <2>2. SameSlot(jobs[j], Claimed(jobs[j], w))
    BY <2>1, LiveDocumentsKeepSlot DEF TypeOK
  <2> QED BY <1>5, <1>6, <1>9, <2>1, <2>2 DEF Claim
<1>10. ASSUME NEW j \in Jobs, LeaseHolderStep(j)
       PROVE  SlotAccounting' /\ Capped
  <2> PICK e \in Epochs :
         \/ \E w \in Workers : RenewLease(j, w, e)
         \/ RequeueCancelled(j, e)
         \/ /\ Active(j)
            /\ \E v \in WorkerVerdicts(j) : Finish(j, e, v[1], v[2])
    BY <1>10 DEF LeaseHolderStep
  <2>1. Active(j) /\ Present(j) /\ jobs[j] \in Control
        /\ jobs[j].state \notin TerminalStates
    BY <1>2 DEF RenewLease, OwnsLease, RequeueCancelled, HoldsLease, Active
  <2>2. ASSUME NEW w \in Workers, RenewLease(j, w, e)
        PROVE  SlotAccounting' /\ Capped
    <3>1. SameSlot(jobs[j], [jobs[j] EXCEPT !.lease_expires_at = now + LeaseTime])
      BY <2>1, LiveDocumentsKeepSlot DEF TypeOK
    <3>2. [jobs[j] EXCEPT !.lease_expires_at = now + LeaseTime] \in Control
      BY <1>6, <2>1
    <3> QED BY <1>5, <2>1, <2>2, <3>1, <3>2 DEF RenewLease
  <2>3. CASE RequeueCancelled(j, e)
    <3>1. SameSlot(jobs[j], Requeued(jobs[j]))
      BY <2>1, LiveDocumentsKeepSlot DEF TypeOK
    <3> QED BY <1>5, <1>6, <2>1, <2>3, <3>1 DEF RequeueCancelled
  <2>4. ASSUME NEW v \in WorkerVerdicts(j), Finish(j, e, v[1], v[2])
        PROVE  SlotAccounting' /\ Capped
    <3>1. v[1] \in TerminalStates /\ v[2] \in ErrorCodes \cup {None}
      BY <2>1 DEF WorkerVerdicts, Control, TerminalStates, ErrorCodes
    <3>2. Finished(jobs[j], v[1], v[2]) \in Control
      BY <2>1, <3>1, ControlTypes DEF TypeOK
    <3> QED BY <1>3, <2>1, <2>4, <3>1, <3>2, FinishedFields DEF Finish
  <2> QED BY <2>2, <2>3, <2>4
<1>11. ASSUME NEW j \in Jobs, OutboxStep(j)
       PROVE  SlotAccounting' /\ Capped
  <2>1. Present(j) /\ jobs[j] \in Control
    BY <1>2, <1>11 DEF OutboxStep, MarkEnqueued, BumpGeneration, Active
  <2>2. SameSlot(jobs[j], [jobs[j] EXCEPT !.enqueue_state = "enqueued"])
        /\ SameSlot(jobs[j], Bumped(jobs[j]))
    BY <2>1, LiveDocumentsKeepSlot DEF TypeOK
  <2>3. ASSUME NEW g, MarkEnqueued(j, g)
        PROVE  SlotAccounting' /\ Capped
    <3>1. [jobs[j] EXCEPT !.enqueue_state = "enqueued"] \in Control
      BY <1>6, <2>1
    <3> QED BY <1>5, <2>1, <2>2, <2>3, <3>1 DEF MarkEnqueued
  <2>4. CASE BumpGeneration(j)
    BY <1>5, <1>6, <2>1, <2>2, <2>4 DEF BumpGeneration
  <2> QED BY <1>11, <2>3, <2>4 DEF OutboxStep
<1>12. ASSUME NEW j \in Jobs, RecoveryStep(j)
       PROVE  SlotAccounting' /\ Capped
  <2>1. ASSUME NEW o \in Recoverers, AcquireRecoveryLock(j, o)
        PROVE  SlotAccounting' /\ Capped
    <3>1. Present(j) /\ jobs[j] \in Control
      BY <1>2, <2>1 DEF AcquireRecoveryLock
    <3>2. SameSlot(jobs[j], Locked(jobs[j], o))
      BY <3>1, LiveDocumentsKeepSlot DEF TypeOK
    <3> QED BY <1>5, <1>6, <2>1, <3>1, <3>2 DEF AcquireRecoveryLock
  <2>2. ASSUME NEW o, NEW e, NEW x, NEW t, FenceAndRequeue(j, o, e, x, t)
        PROVE  SlotAccounting' /\ Capped
    <3>1. Present(j) /\ jobs[j] \in Control /\ jobs[j].state \notin TerminalStates
      BY <1>2, <2>2 DEF FenceAndRequeue, Active
    <3>2. SameSlot(jobs[j], Fenced(jobs[j]))
      BY <3>1, LiveDocumentsKeepSlot DEF TypeOK
    <3> QED BY <1>5, <1>6, <2>2, <3>1, <3>2 DEF FenceAndRequeue
  <2>3. ASSUME NEW o, NEW s, NEW e, NEW t,
               \/ TerminalizeOverdue(j, o, s, e, t)
               \/ TerminalizePayloadMissing(j, o, s, e, t)
        PROVE  SlotAccounting' /\ Capped
    BY <1>4, <2>3 DEF TerminalizeOverdue, TerminalizePayloadMissing,
                      RecoverySnapshotHolds, TerminalStates, ErrorCodes
  <2> QED BY <1>12, <2>1, <2>2, <2>3 DEF RecoveryStep
<1>13. ASSUME NEW j \in Jobs, TerminalizeExpired(j) \/ PollStep(j)
       PROVE  SlotAccounting' /\ Capped
  BY <1>4, <1>13 DEF TerminalizeExpired, PollStep, TerminalizeIfUnrecoverable,
                     TerminalStates, ErrorCodes
<1>14. ASSUME Tick \/ (\E j \in Jobs : PurgePayload(j)) \/ UNCHANGED vars
       PROVE  UNCHANGED <<jobs, counters>>
  BY <1>14 DEF Tick, PurgePayload, vars
<1>15. SlotAccounting' /\ Capped
  <2>1. CASE Tick \/ (\E j \in Jobs : PurgePayload(j)) \/ UNCHANGED vars
    BY <1>7, <1>14, <2>1
  <2>2. CASE Admission
    BY <1>8, <2>2 DEF Admission
  <2>3. ASSUME NEW j \in Jobs,
               \/ TerminalizeExpired(j) \/ PollStep(j)
               \/ \E w \in Workers, g \in Generations : Claim(j, w, g)
               \/ LeaseHolderStep(j) \/ OutboxStep(j) \/ RecoveryStep(j)
        PROVE  SlotAccounting' /\ Capped
    BY <1>9, <1>10, <1>11, <1>12, <1>13, <2>3
  <2> QED BY <2>1, <2>2, <2>3 DEF Next
<1> QED BY <1>15 DEF Capped

\* The counter of a principal is the number of its jobs that are not terminal,
\* whichever paths end them and however those interleave.
THEOREM SlotsAreCounted == Spec => []SlotAccounting
<1>1. Init => SlotAccounting
  <2> SUFFICES ASSUME Init
               PROVE  SlotAccounting
    OBVIOUS
  <2>1. \A j \in Jobs : ~Present(j) /\ ~Active(j)
    BY DEF Init, Present, Active
  <2>2. \A p \in Principals : ActiveJobsOf(p) = {}
    BY <2>1 DEF ActiveJobsOf
  <2> QED BY <2>1, <2>2, FS_EmptySet DEF Init, SlotAccounting
<1> QED BY <1>1, TypeCorrect, QuotaStep, PTL DEF Spec

\* A principal never has more unfinished jobs than the cap allows.
THEOREM QuotaHolds == Spec => []QuotaRespected
<1>1. Init /\ TypeOK /\ SlotAccounting => QuotaRespected
  BY LimitsAreNaturals DEF Init, QuotaRespected, SlotAccounting
<1>2. TypeOK /\ SlotAccounting /\ QuotaRespected /\ [Next]_vars => QuotaRespected'
  <2> SUFFICES ASSUME TypeOK, SlotAccounting, QuotaRespected, [Next]_vars,
                      MaxOutstanding > 0, NEW p \in Principals
               PROVE  Cardinality(ActiveJobsOf(p))' <= MaxOutstanding
    BY DEF QuotaRespected
  <2>1. counters[p] <= MaxOutstanding /\ counters[p] \in Nat
    BY DEF SlotAccounting, QuotaRespected, TypeOK
  <2>2. counters'[p] \in Nat
    BY NextTypes DEF TypeOK
  <2>3. counters'[p] <= MaxOutstanding
    BY <2>1, <2>2, QuotaStep, LimitsAreNaturals DEF WithinQuota
  <2>4. counters'[p] = Cardinality(ActiveJobsOf(p))'
    BY QuotaStep DEF SlotAccounting
  <2> QED BY <2>3, <2>4
<1> QED BY <1>1, <1>2, TypeCorrect, SlotsAreCounted, PTL DEF Spec

-----------------------------------------------------------------------------
(* Receipts and expiry.                                                     *)

\* Two documents of the same accepted request.
SameAcceptance(c, d) ==
    /\ d.principal = c.principal
    /\ d.idempotency_key = c.idempotency_key
    /\ d.request = c.request

\* No transaction rewrites what a job was accepted for.
LEMMA AcceptanceKept ==
    ASSUME NEW c \in Control
    PROVE  /\ \A st, code : /\ SameAcceptance(c, Terminalized(c, st, code))
                            /\ SameAcceptance(c, Finished(c, st, code))
           /\ \A w : SameAcceptance(c, Claimed(c, w))
           /\ \A o : SameAcceptance(c, Locked(c, o))
           /\ SameAcceptance(c, Requeued(c))
           /\ SameAcceptance(c, Bumped(c))
           /\ SameAcceptance(c, Fenced(c))
           /\ SameAcceptance(c, [c EXCEPT !.enqueue_state = "enqueued"])
           /\ \A x : SameAcceptance(c, [c EXCEPT !.lease_expires_at = x])
<1>1. \A st, code : /\ SameAcceptance(c, Terminalized(c, st, code))
                    /\ SameAcceptance(c, Finished(c, st, code))
  BY DEF SameAcceptance, Terminalized, Finished, Control
<1>2. /\ \A w : SameAcceptance(c, Claimed(c, w))
      /\ \A o : SameAcceptance(c, Locked(c, o))
  BY DEF SameAcceptance, Claimed, Locked, Control
<1>3. /\ SameAcceptance(c, Requeued(c))
      /\ SameAcceptance(c, Bumped(c))
      /\ SameAcceptance(c, Fenced(c))
  BY DEF SameAcceptance, Requeued, Bumped, Fenced, Control
<1>4. /\ SameAcceptance(c, [c EXCEPT !.enqueue_state = "enqueued"])
      /\ \A x : SameAcceptance(c, [c EXCEPT !.lease_expires_at = x])
  BY DEF SameAcceptance, Control
<1> QED BY <1>1, <1>2, <1>3, <1>4

\* A transaction ends job j: its document, its receipt and, if it says that the
\* payload expired, its payload.
Ended(j) ==
    /\ Active(j)
    /\ \E d \in Control :
          /\ d.state \in TerminalStates
          /\ SameAcceptance(jobs[j], d)
          /\ d.error = "EXPIRED_PAYLOAD" =>
                \/ jobs[j].error = "EXPIRED_PAYLOAD"
                \/ d.state = "failed" /\ ~PayloadLive(j)
          /\ jobs' = [jobs EXCEPT ![j] = d]
          /\ CloseReceipt(j, d.state)

\* A transaction writes the document of job j and does not end it.
Rewritten(j) ==
    /\ Present(j)
    /\ \E d \in Control :
          /\ SameAcceptance(jobs[j], d)
          /\ (d.state \in TerminalStates \/ jobs[j].state \in TerminalStates)
                => d.state = jobs[j].state
          /\ d.error \in {jobs[j].error, "WORKER_CANCELLED"}
          /\ jobs' = [jobs EXCEPT ![j] = d]
          /\ receipts' = receipts

\* What a step does to jobs and receipts.
Transaction ==
    \/ UNCHANGED <<jobs, receipts>>
    \/ Admission
    \/ \E j \in Jobs : Ended(j) \/ Rewritten(j)

\* Time passes and a payload only runs out.
PayloadsRunOut ==
    /\ now' >= now
    /\ \A j \in Jobs : Present(j) => payloads'[j] \in {0, payloads[j]}

\* _stage_terminalization ends a job, and says so of an expired payload only
\* when its caller has found it expired.
LEMMA TerminalizeEnds ==
    ASSUME TypeOK, NEW j \in Jobs, Active(j), NEW st \in TerminalStates,
           NEW code \in ErrorCodes, NEW t, Terminalize(j, st, code, t),
           code = "EXPIRED_PAYLOAD" => st = "failed" /\ ~PayloadLive(j)
    PROVE  Ended(j) /\ PayloadsRunOut
<1> DEFINE d == Terminalized(jobs[j], st, code)
<1>1. jobs[j] \in Control
  BY DEF TypeOK, Active, Present
<1>2. d \in Control
  BY <1>1, ControlTypes DEF TypeOK
<1>3. d.state = st /\ d.error = code
  BY <1>1 DEF Terminalized, Control
<1>8. SameAcceptance(jobs[j], d)
  BY <1>1, AcceptanceKept, Zenon
<1>4. jobs' = [jobs EXCEPT ![j] = d] /\ CloseReceipt(j, st)
  BY DEF Terminalize
<1>5. PayloadsRunOut
  BY DEF Terminalize, DropDeadPayload, PayloadsRunOut, TypeOK
<1> HIDE DEF d
<1> QED BY <1>2, <1>3, <1>8, <1>4, <1>5 DEF Ended

\* A write of one control document that keeps the job open, or its verdict.
LEMMA RewriteKeeps ==
    ASSUME TypeOK, NEW j \in Jobs, Present(j), NEW d \in Control,
           jobs' = [jobs EXCEPT ![j] = d],
           UNCHANGED <<now, payloads, receipts>>,
           SameAcceptance(jobs[j], d),
           d.error \in {jobs[j].error, "WORKER_CANCELLED"},
           \/ d.state = jobs[j].state
           \/ Active(j) /\ d.state \notin TerminalStates
    PROVE  Rewritten(j) /\ PayloadsRunOut
<1>1. PayloadsRunOut
  BY DEF PayloadsRunOut, TypeOK
<1>2. (d.state \in TerminalStates \/ jobs[j].state \in TerminalStates)
        => d.state = jobs[j].state
  BY DEF Active
<1> QED BY <1>1, <1>2 DEF Rewritten

\* Every transaction admits, ends or rewrites one job, or leaves documents and
\* receipts alone; none gives a payload a later expiry.
LEMMA NextIsTransaction ==
    ASSUME TypeOK, [Next]_vars
    PROVE  Transaction /\ PayloadsRunOut
<1>0. now \in Nat /\ "queued" \notin TerminalStates /\ "running" \notin TerminalStates
  BY DEF TypeOK, TerminalStates
<1>1. ASSUME NEW c \in Control
      PROVE  /\ \A w \in Workers : Claimed(c, w) \in Control
             /\ \A o \in Recoverers : Locked(c, o) \in Control
             /\ Requeued(c) \in Control
             /\ Bumped(c) \in Control
             /\ Fenced(c) \in Control
             /\ [c EXCEPT !.enqueue_state = "enqueued"] \in Control
             /\ [c EXCEPT !.lease_expires_at = now + LeaseTime] \in Control
  BY <1>0, ControlTypes
<1>2. \A j \in Jobs : Present(j) => jobs[j] \in Control
  BY DEF TypeOK, Present
<1>3. CASE Tick \/ UNCHANGED vars \/ \E j \in Jobs : PurgePayload(j)
  BY <1>0, <1>3 DEF Tick, vars, PurgePayload, Transaction, PayloadsRunOut, TypeOK
<1>4. CASE Admission
  <2>1. PayloadsRunOut
    BY <1>0, <1>4 DEF Admission, Create, PayloadsRunOut, TypeOK
  <2> QED BY <1>4, <2>1 DEF Transaction
<1>5. ASSUME NEW j \in Jobs, TerminalizeExpired(j)
      PROVE  Transaction /\ PayloadsRunOut
  BY <1>5, TerminalizeEnds
     DEF TerminalizeExpired, Transaction, TerminalStates, ErrorCodes
<1>6. ASSUME NEW j \in Jobs, NEW w \in Workers, NEW g, Claim(j, w, g)
      PROVE  Transaction /\ PayloadsRunOut
  <2> DEFINE d == Claimed(jobs[j], w)
  <2>1. Present(j) /\ Active(j) /\ jobs' = [jobs EXCEPT ![j] = d]
    BY <1>6 DEF Claim, Active
  <2>2. /\ d \in Control /\ SameAcceptance(jobs[j], d)
        /\ d.error = jobs[j].error /\ d.state = "running"
    <3>1. d \in Control /\ SameAcceptance(jobs[j], d)
      BY <1>1, <1>2, <2>1, AcceptanceKept, Zenon
    <3>2. d.error = jobs[j].error /\ d.state = "running"
      BY <1>2, <2>1, ClaimedFields, Zenon
    <3> QED BY <3>1, <3>2
  <2> HIDE DEF d
  <2>3. Rewritten(j) /\ PayloadsRunOut
    BY <1>0, <1>6, <2>1, <2>2, RewriteKeeps DEF Claim
  <2> QED BY <2>3 DEF Transaction
<1>7. ASSUME NEW j \in Jobs, LeaseHolderStep(j)
      PROVE  Transaction /\ PayloadsRunOut
  <2> PICK e \in Epochs :
         \/ \E w \in Workers : RenewLease(j, w, e)
         \/ RequeueCancelled(j, e)
         \/ /\ Active(j)
            /\ \E v \in WorkerVerdicts(j) : Finish(j, e, v[1], v[2])
    BY <1>7 DEF LeaseHolderStep
  <2>1. Active(j) /\ Present(j) /\ jobs[j] \in Control
    BY <1>2 DEF RenewLease, OwnsLease, RequeueCancelled, HoldsLease, Active
  <2>2. ASSUME NEW w \in Workers, RenewLease(j, w, e)
        PROVE  Transaction /\ PayloadsRunOut
    <3> DEFINE d == [jobs[j] EXCEPT !.lease_expires_at = now + LeaseTime]
    <3>1. jobs' = [jobs EXCEPT ![j] = d]
      BY <2>2 DEF RenewLease
    <3>2. d.error = jobs[j].error /\ d.state = jobs[j].state
      BY <2>1 DEF Control
    <3>3. d \in Control /\ SameAcceptance(jobs[j], d)
      BY <1>1, <2>1, AcceptanceKept
    <3> HIDE DEF d
    <3>4. Rewritten(j) /\ PayloadsRunOut
      BY <2>1, <2>2, <3>1, <3>2, <3>3, RewriteKeeps DEF RenewLease
    <3> QED BY <3>4 DEF Transaction
  <2>3. CASE RequeueCancelled(j, e)
    <3> DEFINE d == Requeued(jobs[j])
    <3>1. /\ d \in Control /\ SameAcceptance(jobs[j], d)
          /\ d.error = "WORKER_CANCELLED" /\ d.state = "queued"
      BY <1>1, <2>1, AcceptanceKept, RequeuedFields
    <3>2. jobs' = [jobs EXCEPT ![j] = d]
      BY <2>3 DEF RequeueCancelled
    <3> HIDE DEF d
    <3>3. Rewritten(j) /\ PayloadsRunOut
      BY <1>0, <2>1, <2>3, <3>1, <3>2, RewriteKeeps DEF RequeueCancelled
    <3> QED BY <3>3 DEF Transaction
  <2>4. ASSUME NEW v \in WorkerVerdicts(j), Finish(j, e, v[1], v[2])
        PROVE  Transaction /\ PayloadsRunOut
    <3> DEFINE d == Finished(jobs[j], v[1], v[2])
    <3>1. /\ v[1] \in TerminalStates /\ v[2] \in ErrorCodes \cup {None}
          /\ v[2] = "EXPIRED_PAYLOAD" => jobs[j].error = "EXPIRED_PAYLOAD"
      BY <2>1, NoneIsNoValue DEF WorkerVerdicts, Control, TerminalStates, ErrorCodes
    <3>2. /\ d \in Control /\ SameAcceptance(jobs[j], d)
          /\ d.state = v[1] /\ d.error = v[2]
      <4>1. d \in Control
        BY <1>0, <2>1, <3>1, ControlTypes
      <4>2. SameAcceptance(jobs[j], d)
        BY <2>1, AcceptanceKept, Zenon
      <4>3. d.state = v[1] /\ d.error = v[2]
        BY <2>1 DEF Finished, Control
      <4> QED BY <4>1, <4>2, <4>3
    <3>3. jobs' = [jobs EXCEPT ![j] = d] /\ CloseReceipt(j, v[1])
      BY <2>4 DEF Finish
    <3> HIDE DEF d
    <3>4. Ended(j)
      BY <2>1, <3>1, <3>2, <3>3 DEF Ended
    <3>5. PayloadsRunOut
      BY <1>0, <2>4 DEF Finish, PayloadsRunOut
    <3> QED BY <3>4, <3>5 DEF Transaction
  <2> QED BY <2>2, <2>3, <2>4
<1>8. ASSUME NEW j \in Jobs, OutboxStep(j)
      PROVE  Transaction /\ PayloadsRunOut
  <2>1. Present(j) /\ jobs[j] \in Control
    BY <1>2, <1>8 DEF OutboxStep, MarkEnqueued, BumpGeneration, Active
  <2>2. PICK d \in {[jobs[j] EXCEPT !.enqueue_state = "enqueued"], Bumped(jobs[j])} :
           jobs' = [jobs EXCEPT ![j] = d]
    BY <1>8 DEF OutboxStep, MarkEnqueued, BumpGeneration
  <2>3. d \in Control /\ SameAcceptance(jobs[j], d)
    BY <1>1, <2>1, AcceptanceKept
  <2>4. d.error = jobs[j].error /\ d.state = jobs[j].state
    <3>1. CASE d = [jobs[j] EXCEPT !.enqueue_state = "enqueued"]
      BY <2>1, <3>1 DEF Control
    <3>2. CASE d = Bumped(jobs[j])
      BY <2>1, <3>2, BumpedFields
    <3> QED BY <3>1, <3>2
  <2>5. UNCHANGED <<now, payloads, receipts>>
    BY <1>8 DEF OutboxStep, MarkEnqueued, BumpGeneration
  <2>6. Rewritten(j) /\ PayloadsRunOut
    BY <2>1, <2>2, <2>3, <2>4, <2>5, RewriteKeeps
  <2> QED BY <2>6 DEF Transaction
<1>9. ASSUME NEW j \in Jobs, RecoveryStep(j)
      PROVE  Transaction /\ PayloadsRunOut
  <2>1. ASSUME NEW o \in Recoverers, AcquireRecoveryLock(j, o)
        PROVE  Transaction /\ PayloadsRunOut
    <3> DEFINE d == Locked(jobs[j], o)
    <3>1. Present(j) /\ jobs' = [jobs EXCEPT ![j] = d]
      BY <2>1 DEF AcquireRecoveryLock
    <3>2. /\ d \in Control /\ SameAcceptance(jobs[j], d)
          /\ d.error = jobs[j].error /\ d.state = jobs[j].state
      BY <1>1, <1>2, <3>1, AcceptanceKept, LockedFields
    <3> HIDE DEF d
    <3>3. Rewritten(j) /\ PayloadsRunOut
      BY <2>1, <3>1, <3>2, RewriteKeeps DEF AcquireRecoveryLock
    <3> QED BY <3>3 DEF Transaction
  <2>2. ASSUME NEW o, NEW e, NEW x, NEW t, FenceAndRequeue(j, o, e, x, t)
        PROVE  Transaction /\ PayloadsRunOut
    <3> DEFINE d == Fenced(jobs[j])
    <3>1. Present(j) /\ Active(j) /\ jobs' = [jobs EXCEPT ![j] = d]
      BY <2>2 DEF FenceAndRequeue, Active
    <3>2. /\ d \in Control /\ SameAcceptance(jobs[j], d)
          /\ d.error = jobs[j].error /\ d.state = "queued"
      BY <1>1, <1>2, <3>1, AcceptanceKept, FencedFields
    <3> HIDE DEF d
    <3>3. Rewritten(j) /\ PayloadsRunOut
      BY <1>0, <2>2, <3>1, <3>2, RewriteKeeps DEF FenceAndRequeue
    <3> QED BY <3>3 DEF Transaction
  <2>3. ASSUME NEW o, NEW s, NEW e, NEW t, TerminalizeOverdue(j, o, s, e, t)
        PROVE  Transaction /\ PayloadsRunOut
    BY <2>3, TerminalizeEnds DEF TerminalizeOverdue, RecoverySnapshotHolds,
                                 Transaction, TerminalStates, ErrorCodes
  <2>4. ASSUME NEW o, NEW s, NEW e, NEW t \in 0..now,
               TerminalizePayloadMissing(j, o, s, e, t)
        PROVE  Transaction /\ PayloadsRunOut
    <3>1. ~PayloadLive(j)
      BY <1>0, <2>4 DEF TerminalizePayloadMissing, PayloadLive, PayloadLiveAt, TypeOK
    <3> QED BY <2>4, <3>1, TerminalizeEnds
            DEF TerminalizePayloadMissing, RecoverySnapshotHolds, Transaction,
                TerminalStates, ErrorCodes
  <2> QED BY <1>9, <2>1, <2>2, <2>3, <2>4 DEF RecoveryStep
<1>10. ASSUME NEW j \in Jobs, PollStep(j)
       PROVE  Transaction /\ PayloadsRunOut
  <2> PICK t \in 0..now : TerminalizeIfUnrecoverable(j, t)
    BY <1>10 DEF PollStep
  <2>1. ~PayloadLiveAt(j, t) => ~PayloadLive(j)
    BY <1>0 DEF PayloadLive, PayloadLiveAt, TypeOK
  <2>2. Active(j)
    BY DEF TerminalizeIfUnrecoverable
  <2>3. \/ Terminalize(j, "timeout", "TOTAL_JOB_TIMEOUT", t)
        \/ Terminalize(j, "failed", "EXPIRED_PAYLOAD", t) /\ ~PayloadLive(j)
    BY <2>1 DEF TerminalizeIfUnrecoverable
  <2>4. Ended(j) /\ PayloadsRunOut
    BY <2>2, <2>3, TerminalizeEnds DEF TerminalStates, ErrorCodes
  <2> QED BY <2>4 DEF Transaction
<1> QED BY <1>3, <1>4, <1>5, <1>6, <1>7, <1>8, <1>9, <1>10 DEF Next

\* Closing the receipt of a job changes the state of that receipt alone.
LEMMA ReceiptClosed ==
    ASSUME TypeOK, NEW j \in Jobs, jobs[j] \in Control,
           NEW st \in TerminalStates, CloseReceipt(j, st),
           NEW p \in Principals, NEW k \in Keys
    PROVE  /\ ReceiptFor(p, k)' = None <=> ReceiptFor(p, k) = None
           /\ ReceiptFor(p, k) # None =>
                /\ ReceiptFor(p, k)'.job_id = ReceiptFor(p, k).job_id
                /\ ReceiptFor(p, k)'.request = ReceiptFor(p, k).request
                /\ ReceiptFor(p, k)'.state =
                      IF jobs[j].principal = p /\ jobs[j].idempotency_key = k
                      THEN st ELSE ReceiptFor(p, k).state
<1> DEFINE pk == <<jobs[j].principal, jobs[j].idempotency_key>>
<1>1. /\ receipts \in [Principals \X Keys -> Receipt \cup {None}]
      /\ <<p, k>> \in Principals \X Keys
      /\ k # None
  BY NoneIsNoValue DEF TypeOK
<1>2. pk = <<p, k>> <=> jobs[j].principal = p /\ jobs[j].idempotency_key = k
  OBVIOUS
<1>3. CASE jobs[j].idempotency_key = None \/ receipts[pk] = None
  <2>1. receipts' = receipts
    BY <1>3 DEF CloseReceipt
  <2>2. ReceiptFor(p, k) # None => pk # <<p, k>>
    BY <1>1, <1>3 DEF ReceiptFor
  <2> QED BY <1>2, <2>1, <2>2 DEF ReceiptFor
<1>4. CASE ~(jobs[j].idempotency_key = None \/ receipts[pk] = None)
  <2>1. receipts' = [receipts EXCEPT ![pk].state = st]
    BY <1>4 DEF CloseReceipt
  <2>2. CASE pk # <<p, k>>
    <3>1. receipts'[<<p, k>>] = receipts[<<p, k>>]
      BY <1>1, <2>1, <2>2
    <3> QED BY <1>2, <2>2, <3>1 DEF ReceiptFor
  <2>3. CASE pk = <<p, k>>
    <3> DEFINE rc == receipts[<<p, k>>]
    <3>1. rc \in Receipt /\ rc # None
      BY <1>1, <1>4, <2>3
    <3>2. receipts'[<<p, k>>] = [rc EXCEPT !.state = st]
      BY <1>1, <2>1, <2>3
    <3> HIDE DEF rc
    <3>3. /\ [rc EXCEPT !.state = st].job_id = rc.job_id
          /\ [rc EXCEPT !.state = st].request = rc.request
          /\ [rc EXCEPT !.state = st].state = st
      BY <3>1 DEF Receipt
    <3>4. [rc EXCEPT !.state = st] # None
      <4>1. st \in States
        BY DEF States
      <4>2. [rc EXCEPT !.state = st] \in Receipt
        BY <3>1, <4>1 DEF Receipt
      <4> QED BY <4>2, NoneIsNoDocument
    <3> QED BY <1>2, <2>3, <3>1, <3>2, <3>3, <3>4 DEF ReceiptFor, rc
  <2> QED BY <2>2, <2>3
<1> QED BY <1>3, <1>4

\* The two halves of ReceiptsBindOneJob: a receipt tells the truth about its
\* job, and a job accepted under a key has its receipt.
ReceiptTrue(p, k) ==
    ReceiptFor(p, k) # None =>
        LET c == jobs[ReceiptFor(p, k).job_id]
        IN  /\ c # None
            /\ c.principal = p /\ c.idempotency_key = k
            /\ c.request = ReceiptFor(p, k).request
            /\ ReceiptFor(p, k).state =
                  IF c.state \in TerminalStates THEN c.state ELSE "queued"

ReceiptKept(j) ==
    Present(j) /\ jobs[j].idempotency_key # None =>
        /\ ReceiptFor(jobs[j].principal, jobs[j].idempotency_key) # None
        /\ ReceiptFor(jobs[j].principal, jobs[j].idempotency_key).job_id = j

\* The receipts bind one job when every receipt and every job is in order.
LEMMA ReceiptHalves ==
    ReceiptsBindOneJob <=>
        /\ \A p \in Principals, k \in Keys : ReceiptTrue(p, k)
        /\ \A j \in Jobs : ReceiptKept(j)
BY DEF ReceiptsBindOneJob, ReceiptTrue, ReceiptKept

\* An admission writes a receipt where there was none, of a job there was not.
LEMMA ReceiptsOfAdmission ==
    ASSUME TypeOK, ReceiptsBindOneJob, Admission
    PROVE  ReceiptsBindOneJob'
<1> PICK j \in Jobs, p \in Principals, k \in Keys \cup {None}, r \in Requests, t \in 0..now :
       Create(j, p, k, r, t)
  BY DEF Admission
<1> DEFINE d == NewControl(p, k, r, t)
           rc == [job_id |-> j, request |-> r, state |-> "queued"]
<1>1. /\ d.principal = p /\ d.idempotency_key = k /\ d.request = r
      /\ d.state = "queued" /\ "queued" \notin TerminalStates
  BY DEF NewControl, TerminalStates
<1>2. d # None /\ rc # None
  <2>1. d \in Control
    BY NewControlType DEF TypeOK
  <2>2. rc \in Receipt
    BY DEF Receipt, States
  <2> QED BY <2>1, <2>2, NoneIsNoDocument
<1>3. /\ jobs' = [jobs EXCEPT ![j] = d] /\ jobs[j] = None
      /\ receipts' = IF k = None THEN receipts
                     ELSE [receipts EXCEPT ![<<p, k>>] = rc]
      /\ k # None => ReceiptFor(p, k) = None
  BY DEF Create, Present
<1>4. rc.job_id = j /\ rc.request = r /\ rc.state = "queued"
  OBVIOUS
<1> HIDE DEF d, rc
<1>5. jobs'[j] = d /\ \A i \in Jobs \ {j} : jobs'[i] = jobs[i]
  BY <1>3 DEF TypeOK
<1>6. /\ k # None => ReceiptFor(p, k)' = rc
      /\ \A q \in Principals, l \in Keys :
            <<q, l>> # <<p, k>> => ReceiptFor(q, l)' = ReceiptFor(q, l)
  BY <1>3 DEF TypeOK, ReceiptFor
<1>7. ASSUME NEW q \in Principals, NEW l \in Keys
      PROVE  ReceiptTrue(q, l)'
  <2>1. CASE <<q, l>> = <<p, k>>
    <3>1. ReceiptFor(q, l)' = rc
      BY <1>6, <2>1, NoneIsNoValue
    <3> QED BY <1>1, <1>2, <1>4, <1>5, <2>1, <3>1 DEF ReceiptTrue
  <2>2. CASE <<q, l>> # <<p, k>> /\ ReceiptFor(q, l) # None
    <3>1. ReceiptFor(q, l)' = ReceiptFor(q, l) /\ ReceiptTrue(q, l)
      BY <1>6, <2>2, ReceiptHalves
    <3>2. ReceiptFor(q, l).job_id \in Jobs \ {j}
      BY <1>3, <2>2, <3>1 DEF ReceiptTrue, ReceiptFor, TypeOK, Receipt
    <3>3. jobs'[ReceiptFor(q, l).job_id] = jobs[ReceiptFor(q, l).job_id]
      BY <1>5, <3>2
    <3> QED BY <3>1, <3>3 DEF ReceiptTrue
  <2>3. CASE <<q, l>> # <<p, k>> /\ ReceiptFor(q, l) = None
    BY <1>6, <2>3 DEF ReceiptTrue
  <2> QED BY <2>1, <2>2, <2>3
<1>8. ASSUME NEW i \in Jobs
      PROVE  ReceiptKept(i)'
  <2>1. CASE i = j
    BY <1>1, <1>2, <1>4, <1>5, <1>6, <2>1 DEF ReceiptKept
  <2>2. CASE i # j /\ jobs[i] # None /\ jobs[i].idempotency_key # None
    <3>1. jobs'[i] = jobs[i] /\ ReceiptKept(i)
      BY <1>5, <2>2, ReceiptHalves
    <3>2. jobs[i].principal \in Principals /\ jobs[i].idempotency_key \in Keys
      BY <2>2 DEF TypeOK, Control
    <3>3. <<jobs[i].principal, jobs[i].idempotency_key>> # <<p, k>>
      BY <1>3, <2>2, <3>1 DEF ReceiptKept, Present
    <3> QED BY <1>6, <3>1, <3>2, <3>3 DEF ReceiptKept, Present
  <2>3. CASE i # j /\ ~(jobs[i] # None /\ jobs[i].idempotency_key # None)
    BY <1>5, <2>3 DEF ReceiptKept, Present
  <2> QED BY <2>1, <2>2, <2>3
<1> QED BY <1>7, <1>8 DEF ReceiptsBindOneJob, ReceiptTrue, ReceiptKept

\* The end of a job reaches its receipt and no other.
LEMMA ReceiptsOfEnd ==
    ASSUME TypeOK, ReceiptsBindOneJob, NEW j \in Jobs, Ended(j)
    PROVE  ReceiptsBindOneJob'
<1> PICK d \in Control :
       /\ d.state \in TerminalStates
       /\ SameAcceptance(jobs[j], d)
       /\ jobs' = [jobs EXCEPT ![j] = d]
       /\ CloseReceipt(j, d.state)
  BY DEF Ended
<1>1. jobs[j] \in Control /\ jobs[j] # None /\ d # None
  BY NoneIsNoDocument DEF Ended, Active, Present, TypeOK
<1>2. jobs'[j] = d /\ \A i \in Jobs \ {j} : jobs'[i] = jobs[i]
  BY DEF TypeOK
<1>3. ASSUME NEW q \in Principals, NEW l \in Keys, ReceiptFor(q, l) # None
      PROVE  ReceiptTrue(q, l)'
  <2> DEFINE i == ReceiptFor(q, l).job_id
  <2>1. ReceiptTrue(q, l) /\ ReceiptKept(j) /\ i \in Jobs
    BY <1>3, ReceiptHalves DEF ReceiptFor, TypeOK, Receipt
  <2>2. /\ ReceiptFor(q, l)' # None /\ ReceiptFor(q, l)'.job_id = i
        /\ ReceiptFor(q, l)'.request = ReceiptFor(q, l).request
        /\ ReceiptFor(q, l)'.state =
              IF jobs[j].principal = q /\ jobs[j].idempotency_key = l
              THEN d.state ELSE ReceiptFor(q, l).state
    BY <1>1, <1>3, ReceiptClosed
  <2> HIDE DEF i
  <2>3. CASE i = j
    <3>1. jobs[j].principal = q /\ jobs[j].idempotency_key = l
      BY <1>3, <2>1, <2>3 DEF ReceiptTrue, i
    <3> QED BY <1>1, <1>2, <1>3, <2>1, <2>2, <2>3, <3>1
            DEF ReceiptTrue, SameAcceptance, i
  <2>4. CASE i # j
    <3>1. ~(jobs[j].principal = q /\ jobs[j].idempotency_key = l)
      BY <1>1, <2>1, <2>4, NoneIsNoValue DEF ReceiptKept, Present, i
    <3>2. jobs'[i] = jobs[i]
      BY <1>2, <2>1, <2>4
    <3> QED BY <1>3, <2>1, <2>2, <3>1, <3>2 DEF ReceiptTrue, i
  <2> QED BY <2>3, <2>4
<1>4. ASSUME NEW q \in Principals, NEW l \in Keys, ReceiptFor(q, l) = None
      PROVE  ReceiptTrue(q, l)'
  <2>1. ReceiptFor(q, l)' = None
    BY <1>1, <1>4, ReceiptClosed
  <2> QED BY <2>1 DEF ReceiptTrue
<1>5. ASSUME NEW i \in Jobs
      PROVE  ReceiptKept(i)'
  <2>1. /\ jobs'[i] # None <=> jobs[i] # None
        /\ jobs[i] # None => SameAcceptance(jobs[i], jobs'[i])
    BY <1>1, <1>2 DEF SameAcceptance
  <2>2. CASE jobs[i] # None /\ jobs[i].idempotency_key # None
    <3>1. /\ jobs[i].principal \in Principals
          /\ jobs[i].idempotency_key \in Keys
      BY <2>2 DEF TypeOK, Control
    <3>2. ReceiptKept(i)
      BY ReceiptHalves
    <3> QED BY <1>1, <2>1, <2>2, <3>1, <3>2, ReceiptClosed
            DEF ReceiptKept, Present, SameAcceptance
  <2>3. CASE ~(jobs[i] # None /\ jobs[i].idempotency_key # None)
    BY <2>1, <2>3 DEF ReceiptKept, Present, SameAcceptance
  <2> QED BY <2>2, <2>3
<1> QED BY <1>3, <1>4, <1>5 DEF ReceiptsBindOneJob, ReceiptTrue, ReceiptKept

\* A write that keeps the state as a receipt shows it.
LEMMA ReceiptsOfRewrite ==
    ASSUME TypeOK, ReceiptsBindOneJob, NEW j \in Jobs, Rewritten(j)
    PROVE  ReceiptsBindOneJob'
<1> PICK d \in Control :
       /\ SameAcceptance(jobs[j], d)
       /\ (d.state \in TerminalStates \/ jobs[j].state \in TerminalStates)
             => d.state = jobs[j].state
       /\ jobs' = [jobs EXCEPT ![j] = d]
       /\ receipts' = receipts
  BY DEF Rewritten
<1>1. \A i \in Jobs : /\ jobs'[i] # None <=> jobs[i] # None
                      /\ jobs[i] # None =>
                           /\ SameAcceptance(jobs[i], jobs'[i])
                           /\ (\/ jobs'[i].state \in TerminalStates
                               \/ jobs[i].state \in TerminalStates)
                                 => jobs'[i].state = jobs[i].state
  BY NoneIsNoDocument DEF Rewritten, Present, TypeOK, SameAcceptance
<1>2. \A q \in Principals, l \in Keys : ReceiptFor(q, l)' = ReceiptFor(q, l)
  BY DEF ReceiptFor
<1>3. ASSUME NEW q \in Principals, NEW l \in Keys
      PROVE  ReceiptTrue(q, l)'
  <2>1. ReceiptFor(q, l) # None => ReceiptFor(q, l).job_id \in Jobs
    BY DEF ReceiptFor, TypeOK, Receipt
  <2>2. ReceiptTrue(q, l)
    BY ReceiptHalves
  <2> QED BY <1>1, <1>2, <2>1, <2>2 DEF ReceiptTrue, SameAcceptance
<1>4. ASSUME NEW i \in Jobs
      PROVE  ReceiptKept(i)'
  <2>1. jobs[i] # None /\ jobs[i].idempotency_key # None =>
          jobs[i].principal \in Principals /\ jobs[i].idempotency_key \in Keys
    BY DEF TypeOK, Control
  <2>2. ReceiptKept(i)
    BY ReceiptHalves
  <2> QED BY <1>1, <1>2, <2>1, <2>2 DEF ReceiptKept, Present, SameAcceptance
<1> QED BY <1>3, <1>4 DEF ReceiptsBindOneJob, ReceiptTrue, ReceiptKept

\* Idempotency: under any interleaving of callers a key names one job for ever,
\* and its receipt repeats the request that job was accepted for and the state
\* it ended in, whichever transaction ended it (create_or_get, update,
\* _stage_terminalization).
THEOREM ReceiptsHold == Spec => []ReceiptsBindOneJob
<1>1. Init => ReceiptsBindOneJob
  BY DEF Init, ReceiptsBindOneJob, ReceiptFor, Present
<1>2. TypeOK /\ ReceiptsBindOneJob /\ [Next]_vars => ReceiptsBindOneJob'
  <2> SUFFICES ASSUME TypeOK, ReceiptsBindOneJob, [Next]_vars
               PROVE  ReceiptsBindOneJob'
    OBVIOUS
  <2>1. CASE UNCHANGED <<jobs, receipts>>
    BY <2>1 DEF ReceiptsBindOneJob, ReceiptFor, Present
  <2> QED BY <2>1, NextIsTransaction, ReceiptsOfAdmission, ReceiptsOfEnd,
             ReceiptsOfRewrite DEF Transaction
<1> QED BY <1>1, <1>2, TypeCorrect, PTL DEF Spec

\* Whatever transaction closed a job as an expired payload, on whatever clock
\* reading its caller took before the transaction, the payload has expired for
\* every later reader and no later write relabels the job (_live_payload,
\* terminalize_recovery's recheck, terminalize_if_unrecoverable).
THEOREM ExpiryHolds == Spec => []ExpiryIsTruthful
<1>1. Init => ExpiryIsTruthful
  BY DEF Init, ExpiryIsTruthful, Present
<1>2. TypeOK /\ ExpiryIsTruthful /\ [Next]_vars => ExpiryIsTruthful'
  <2> SUFFICES ASSUME TypeOK, ExpiryIsTruthful, [Next]_vars, NEW i \in Jobs,
                      Present(i)', jobs'[i].error = "EXPIRED_PAYLOAD"
               PROVE  jobs'[i].state = "failed" /\ ~PayloadLive(i)'
    BY DEF ExpiryIsTruthful
  <2>1. Transaction /\ PayloadsRunOut
    BY NextIsTransaction
  <2>2. now \in Nat /\ now' >= now /\ payloads \in [Jobs -> Nat]
    BY <2>1 DEF PayloadsRunOut, TypeOK
  <2>3. TypeOK'
    BY NextTypes
  <2>4. Present(i) /\ ~PayloadLive(i) => ~PayloadLive(i)'
    <3>1. payloads[i] \in Nat /\ now' \in Nat
      BY <2>2, <2>3 DEF TypeOK
    <3>2. Present(i) => payloads'[i] \in {0, payloads[i]}
      BY <2>1 DEF PayloadsRunOut
    <3> QED BY <2>2, <3>1, <3>2 DEF PayloadLive, PayloadLiveAt
  <2>5. CASE jobs'[i] = jobs[i]
    BY <2>4, <2>5 DEF ExpiryIsTruthful, Present
  <2>6. CASE Admission
    <3> PICK j \in Jobs : \E p, k, r, t : Create(j, p, k, r, t)
      BY <2>6 DEF Admission
    <3>1. jobs'[j].error = None /\ \A m \in Jobs \ {j} : jobs'[m] = jobs[m]
      BY DEF Create, NewControl, TypeOK
    <3> QED BY <2>5, <3>1, NoneIsNoValue
  <2>7. ASSUME NEW j \in Jobs, Ended(j)
        PROVE  jobs'[i].state = "failed" /\ ~PayloadLive(i)'
    <3> PICK d \in Control :
           /\ d.error = "EXPIRED_PAYLOAD" =>
                 \/ jobs[j].error = "EXPIRED_PAYLOAD"
                 \/ d.state = "failed" /\ ~PayloadLive(j)
           /\ jobs' = [jobs EXCEPT ![j] = d]
      BY <2>7 DEF Ended
    <3>1. jobs[j].error # "EXPIRED_PAYLOAD"
      BY <2>7 DEF Ended, Active, ExpiryIsTruthful, TerminalStates
    <3>2. jobs'[j] = d /\ \A m \in Jobs \ {j} : jobs'[m] = jobs[m]
      BY DEF TypeOK
    <3>3. Present(j)
      BY <2>7 DEF Ended, Active
    <3> QED BY <2>4, <2>5, <3>1, <3>2, <3>3
  <2>8. ASSUME NEW j \in Jobs, Rewritten(j)
        PROVE  jobs'[i].state = "failed" /\ ~PayloadLive(i)'
    <3> PICK d \in Control :
           /\ (d.state \in TerminalStates \/ jobs[j].state \in TerminalStates)
                 => d.state = jobs[j].state
           /\ d.error \in {jobs[j].error, "WORKER_CANCELLED"}
           /\ jobs' = [jobs EXCEPT ![j] = d]
      BY <2>8 DEF Rewritten
    <3>1. jobs'[j] = d /\ \A m \in Jobs \ {j} : jobs'[m] = jobs[m]
      BY DEF TypeOK
    <3>2. Present(j)
      BY <2>8 DEF Rewritten
    <3> QED BY <2>4, <2>5, <3>1, <3>2 DEF ExpiryIsTruthful, TerminalStates
  <2> QED BY <2>1, <2>5, <2>6, <2>7, <2>8 DEF Transaction
<1> QED BY <1>1, <1>2, TypeCorrect, PTL DEF Spec

-----------------------------------------------------------------------------
(* Payloads and generations.                                                *)

\* The 24 h privacy limit: once a payload has expired or is deleted nothing
\* brings it back, and nothing extends one (only create_or_get writes it).
THEOREM PayloadsDie == Spec => PayloadNeverRevives
<1>1. TypeOK /\ [Next]_vars
      => [\A j \in Jobs : Present(j) => payloads'[j] \in {0, payloads[j]}]_vars
  BY NextIsTransaction DEF PayloadsRunOut
<1> QED BY <1>1, TypeCorrect, PTL DEF Spec, PayloadNeverRevives

\* What a step does to the outbox of a job.
LEMMA GenerationStep ==
    ASSUME TypeOK, [Next]_vars, NEW j \in Jobs, Present(j)
    PROVE  /\ jobs'[j].enqueue_generation >= jobs[j].enqueue_generation
           /\ jobs'[j].enqueue_generation # jobs[j].enqueue_generation
                => jobs'[j].enqueue_state = "pending"
<1> DEFINE c == jobs[j]
           d == jobs'[j]
           Kept == d.enqueue_generation = c.enqueue_generation
           Burnt == /\ d.enqueue_generation = c.enqueue_generation + 1
                    /\ d.enqueue_state = "pending"
<1>1. c \in Control /\ c.enqueue_generation \in Nat
  BY DEF TypeOK, Present, Control
<1>2. JobStep(j) /\ ~JobCreated(j)
  BY NextIsJobStep DEF JobCreated
<1>3. CASE d = c
  BY <1>1, <1>3
<1>4. CASE JobClosed(j) \/ JobClaimed(j) \/ JobRenewed(j)
  <2>1. \/ \E st, code : d = Terminalized(c, st, code) \/ d = Finished(c, st, code)
        \/ \E w \in Workers : d = Claimed(c, w)
        \/ d = [c EXCEPT !.lease_expires_at = now + LeaseTime]
    BY <1>4 DEF JobClosed, JobClaimed, JobRenewed
  <2>2. CASE d = [c EXCEPT !.lease_expires_at = now + LeaseTime]
    BY <1>1, <2>2 DEF Control
  <2> HIDE DEF c
  <2>3. ASSUME \/ \E st, code : d = Terminalized(c, st, code) \/ d = Finished(c, st, code)
               \/ \E w \in Workers : d = Claimed(c, w)
        PROVE  Kept
    BY <1>1, <2>3, TerminalizedFields, FinishedFields, ClaimedFields
  <2> QED BY <1>1, <2>1, <2>2, <2>3 DEF c
<1>5. CASE JobRequeued(j) \/ JobMarked(j)
  <2>1. \/ d = Requeued(c) \/ d = Fenced(c) \/ d = Bumped(c)
        \/ \E o \in Recoverers : d = Locked(c, o)
        \/ d = [c EXCEPT !.enqueue_state = "enqueued"]
    BY <1>5 DEF JobRequeued, JobMarked
  <2>2. CASE d = [c EXCEPT !.enqueue_state = "enqueued"]
    BY <1>1, <2>2 DEF Control
  <2> HIDE DEF c
  <2>3. ASSUME d = Requeued(c) \/ \E o \in Recoverers : d = Locked(c, o)
        PROVE  Kept
    BY <1>1, <2>3, RequeuedFields, LockedFields
  <2>4. ASSUME d = Fenced(c) \/ d = Bumped(c)
        PROVE  Burnt
    BY <1>1, <2>4, FencedFields, BumpedFields
  <2> QED BY <1>1, <2>1, <2>2, <2>3, <2>4 DEF c
<1> QED BY <1>2, <1>3, <1>4, <1>5 DEF JobStep

\* The name of a Cloud Task is never used again, and a burnt one always leaves
\* an outbox entry somebody has to publish (bump_enqueue_generation,
\* fence_and_requeue, mark_enqueued).
THEOREM GenerationsAreGuarded == Spec => OutboxGenerationGuard
<1>1. TypeOK /\ [Next]_vars
      => [\A j \in Jobs : Present(j) =>
            /\ jobs'[j].enqueue_generation >= jobs[j].enqueue_generation
            /\ jobs'[j].enqueue_generation # jobs[j].enqueue_generation
                 => jobs'[j].enqueue_state = "pending"]_vars
  <2> SUFFICES ASSUME TypeOK, [Next]_vars, vars' # vars, NEW j \in Jobs, Present(j)
               PROVE  /\ jobs'[j].enqueue_generation >= jobs[j].enqueue_generation
                      /\ jobs'[j].enqueue_generation # jobs[j].enqueue_generation
                           => jobs'[j].enqueue_state = "pending"
    OBVIOUS
  <2> QED BY GenerationStep
<1> QED BY <1>1, TypeCorrect, PTL DEF Spec, OutboxGenerationGuard

-----------------------------------------------------------------------------
(* The leases of jobs are exclusive leases.                                 *)

\* Who holds a job and until when, in its document.
HeldAs(j, owner, epoch, end) ==
    /\ LeaseHolder(j) = IF owner = None THEN None ELSE <<owner, epoch>>
    /\ LeaseEnd(j) = end

LEMMA HeldByDocument ==
    ASSUME NEW j \in Jobs
    PROVE  /\ Present(j) => HeldAs(j, jobs[j].lease_owner, jobs[j].lease_epoch,
                                   jobs[j].lease_expires_at)
           /\ Present(j)' => HeldAs(j, jobs[j].lease_owner, jobs[j].lease_epoch,
                                    jobs[j].lease_expires_at)'
           /\ ~Present(j) => HeldAs(j, None, 0, 0)
BY DEF HeldAs, LeaseHolder, LeaseEnd, Present

\* What a transaction may do to the lease of a job.
LeaseKept(j) == LeaseHolder(j)' = LeaseHolder(j) /\ LeaseEnd(j)' = LeaseEnd(j)

LeaseTaken(j) ==
    /\ LeaseHolder(j) = None \/ now >= LeaseEnd(j)
    /\ LeaseHolder(j)' \in Workers \X Nat /\ LeaseHolder(j)' # LeaseHolder(j)
    /\ LeaseEnd(j)' = now + LeaseTime

LeaseProlonged(j) ==
    /\ LeaseHolder(j) # None /\ now < LeaseEnd(j)
    /\ LeaseHolder(j)' = LeaseHolder(j) /\ LeaseEnd(j)' = now + LeaseTime

LeaseGiven(j) == LeaseHolder(j) # None /\ LeaseHolder(j)' = None /\ LeaseEnd(j)' = 0

\* A job whose document is there keeps it.
LEMMA DocumentsStay ==
    ASSUME TypeOK, [Next]_vars, NEW j \in Jobs, Present(j)
    PROVE  Present(j)'
<1>1. Transaction
  BY NextIsTransaction
<1>2. CASE UNCHANGED jobs
  BY <1>2 DEF Present
<1>3. CASE Admission
  BY <1>3, OtherJobs DEF Admission, Create, Present
<1>4. ASSUME NEW i \in Jobs, Ended(i) \/ Rewritten(i) PROVE Present(j)'
  BY <1>4, OtherJobs, NoneIsNoDocument DEF Ended, Rewritten, Present
<1> QED BY <1>1, <1>2, <1>3, <1>4 DEF Transaction

\* Claims are of lapsed leases and under a new epoch, renewals of running ones,
\* everything else that changes the owner leaves none.
LEMMA LeaseMoves ==
    ASSUME TypeOK, RunningIffOwned, [Next]_vars, NEW j \in Jobs
    PROVE  LeaseKept(j) \/ LeaseTaken(j) \/ LeaseProlonged(j) \/ LeaseGiven(j)
<1> USE DEF LeaseKept, LeaseTaken, LeaseProlonged, LeaseGiven
<1> DEFINE c == jobs[j]
           d == jobs'[j]
<1>1. JobStep(j)
  BY NextIsJobStep
<1>2. CASE d = c
  BY <1>2 DEF LeaseHolder, LeaseEnd, Present
<1>3. CASE JobCreated(j)
  <2>1. HeldAs(j, None, 0, 0)
    BY <1>3, HeldByDocument DEF JobCreated
  <2>2. d = None \/ (d.lease_owner = None /\ d.lease_expires_at = 0)
    BY <1>3 DEF JobCreated, NewControl
  <2> QED BY <2>1, <2>2 DEF HeldAs, LeaseHolder, LeaseEnd, Present
<1> SUFFICES ASSUME Present(j) PROVE LeaseKept(j) \/ LeaseTaken(j) \/ LeaseProlonged(j) \/ LeaseGiven(j)
  BY <1>1, <1>2, <1>3
     DEF JobStep, JobClosed, JobClaimed, JobRenewed, JobRequeued, JobMarked, Active
<1>4. /\ c \in Control /\ now \in Nat /\ c.lease_epoch \in Nat /\ c.lease_expires_at \in Nat
      /\ c.lease_owner \in Workers \cup {None}
      /\ c.lease_owner = None <=> c.lease_expires_at = 0
  BY DEF TypeOK, RunningIffOwned, Present, Control
<1>5. /\ LeaseHolder(j) = IF c.lease_owner = None THEN None ELSE <<c.lease_owner, c.lease_epoch>>
      /\ LeaseEnd(j) = c.lease_expires_at
  BY HeldByDocument DEF HeldAs
<1>6. /\ LeaseHolder(j)' = IF d.lease_owner = None THEN None ELSE <<d.lease_owner, d.lease_epoch>>
      /\ LeaseEnd(j)' = d.lease_expires_at
  BY DocumentsStay, HeldByDocument DEF HeldAs
<1>7. c.lease_owner # None => LeaseHolder(j) \in Workers \X Nat /\ LeaseHolder(j) # None
  BY <1>4, <1>5, NoneIsNoValue
<1>8. ASSUME d.lease_owner = c.lease_owner, d.lease_epoch = c.lease_epoch,
             d.lease_expires_at = c.lease_expires_at
      PROVE  LeaseKept(j)
  BY <1>5, <1>6, <1>8
<1>9. ASSUME d.lease_owner = None, d.lease_expires_at = 0
      PROVE  LeaseKept(j) \/ LeaseGiven(j)
  BY <1>4, <1>5, <1>6, <1>7, <1>9
<1> HIDE DEF LeaseKept, LeaseTaken, LeaseProlonged, LeaseGiven
<1>10. CASE JobClosed(j)
  <2>1. \E st, code : d = Terminalized(c, st, code) \/ d = Finished(c, st, code)
    BY <1>10 DEF JobClosed
  <2> HIDE DEF c, d
  <2>2. d.lease_owner = None /\ d.lease_expires_at = 0
    BY <1>4, <2>1, TerminalizedFields, FinishedFields
  <2> QED BY <1>9, <2>2
<1>11. CASE JobClaimed(j)
  <2>1. PICK w \in Workers : d = Claimed(c, w)
    BY <1>11 DEF JobClaimed
  <2>2. c.lease_owner # None => now > c.lease_expires_at
    BY <1>11 DEF JobClaimed, LeaseLapsed
  <2> HIDE DEF c, d
  <2>3. /\ d.lease_owner = w /\ d.lease_epoch = c.lease_epoch + 1
        /\ d.lease_expires_at = now + LeaseTime
    BY <1>4, <2>1, ClaimedFields
  <2>4. LeaseHolder(j)' = <<w, c.lease_epoch + 1>>
    BY <1>6, <2>3, NoneIsNoValue
  <2>5. LeaseHolder(j)' \in Workers \X Nat /\ LeaseHolder(j)' # LeaseHolder(j)
    <3>1. c.lease_epoch + 1 \in Nat /\ c.lease_epoch + 1 # c.lease_epoch
      BY <1>4
    <3>2. <<w, c.lease_epoch + 1>> \in Workers \X Nat
      BY <3>1
    <3>3. CASE c.lease_owner = None
      BY <1>5, <2>4, <3>2, <3>3, NoneIsNoValue
    <3>4. CASE c.lease_owner # None
      BY <1>5, <2>4, <3>1, <3>2, <3>4
    <3> QED BY <3>3, <3>4
  <2>6. LeaseHolder(j) = None \/ now >= LeaseEnd(j)
    BY <1>4, <1>5, <2>2
  <2> QED BY <1>6, <2>3, <2>5, <2>6 DEF LeaseTaken
<1>12. CASE JobRenewed(j)
  <2>1. /\ c.lease_owner # None /\ now < c.lease_expires_at
        /\ d.lease_owner = c.lease_owner /\ d.lease_epoch = c.lease_epoch
        /\ d.lease_expires_at = now + LeaseTime
    BY <1>4, <1>12 DEF JobRenewed, Control
  <2> HIDE DEF c, d
  <2> QED BY <1>5, <1>6, <1>7, <2>1 DEF LeaseProlonged
<1>13. CASE JobRequeued(j)
  <2>1. d = Requeued(c) \/ d = Fenced(c)
    BY <1>13 DEF JobRequeued
  <2> HIDE DEF c, d
  <2>2. d.lease_owner = None /\ d.lease_expires_at = 0
    BY <1>4, <2>1, RequeuedFields, FencedFields
  <2> QED BY <1>9, <2>2
<1>14. CASE JobMarked(j)
  <2>1. CASE d = [c EXCEPT !.enqueue_state = "enqueued"]
    <3>1. /\ d.lease_owner = c.lease_owner /\ d.lease_epoch = c.lease_epoch
          /\ d.lease_expires_at = c.lease_expires_at
      BY <1>4, <2>1 DEF Control
    <3> QED BY <1>8, <3>1
  <2>2. CASE d = Bumped(c) \/ \E o \in Recoverers : d = Locked(c, o)
    <3> HIDE DEF c, d
    <3>1. /\ d.lease_owner = c.lease_owner /\ d.lease_epoch = c.lease_epoch
          /\ d.lease_expires_at = c.lease_expires_at
      BY <1>4, <2>2, BumpedFields, LockedFields
    <3> QED BY <1>8, <3>1
  <2> QED BY <1>14, <2>1, <2>2 DEF JobMarked
<1> QED BY <1>1, <1>2, <1>3, <1>10, <1>11, <1>12, <1>13, <1>14 DEF JobStep, LeaseKept

\* A step leaves the clock or the documents alone, and of the documents all but
\* one.
LEMMA OneJobAtATime ==
    ASSUME TypeOK, [Next]_vars
    PROVE  \/ UNCHANGED jobs /\ (UNCHANGED now \/ now' = now + 1)
           \/ /\ UNCHANGED now
              /\ \E j \in Jobs : \A i \in Jobs : i # j => jobs'[i] = jobs[i]
<1>1. CASE Tick \/ UNCHANGED vars
  BY <1>1 DEF Tick, vars
<1>2. CASE ~Tick /\ ~UNCHANGED vars
  <2>1. UNCHANGED now
    <3>1. CASE Admission
      BY <3>1 DEF Admission, Create
    <3>2. ASSUME NEW j \in Jobs, LeaseHolderStep(j) PROVE UNCHANGED now
      BY <3>2 DEF LeaseHolderStep, RenewLease, RequeueCancelled, Finish
    <3>3. ASSUME NEW j \in Jobs, RecoveryStep(j) PROVE UNCHANGED now
      BY <3>3 DEF RecoveryStep, AcquireRecoveryLock, FenceAndRequeue, TerminalizeOverdue,
                  TerminalizePayloadMissing, Terminalize
    <3>4. ASSUME NEW j \in Jobs,
                 \/ PurgePayload(j) \/ TerminalizeExpired(j) \/ OutboxStep(j) \/ PollStep(j)
                 \/ \E w \in Workers, g \in Generations : Claim(j, w, g)
          PROVE  UNCHANGED now
      BY <3>4 DEF PurgePayload, TerminalizeExpired, Terminalize, OutboxStep, MarkEnqueued,
                  BumpGeneration, PollStep, TerminalizeIfUnrecoverable, Claim
    <3> QED BY <1>2, <3>1, <3>2, <3>3, <3>4 DEF Next
  <2>2. UNCHANGED jobs \/ \E j \in Jobs : \A i \in Jobs : i # j => jobs'[i] = jobs[i]
    <3>1. CASE Admission
      BY <3>1, OtherJobs DEF Admission, Create
    <3>2. ASSUME NEW j \in Jobs, Ended(j) \/ Rewritten(j)
          PROVE  \A i \in Jobs : i # j => jobs'[i] = jobs[i]
      BY <3>2, OtherJobs DEF Ended, Rewritten
    <3> QED BY <3>1, <3>2, NextIsTransaction DEF Transaction
  <2> QED BY <2>1, <2>2
<1> QED BY <1>1, <1>2

\* No lease reaches further than one LeaseTime from now; a renewal prolongs.
LeasesEndSoon == \A j \in Jobs : LeaseEnd(j) \in Nat /\ LeaseEnd(j) <= now + LeaseTime

LEMMA EndsSoonStep ==
    ASSUME TypeOK, RunningIffOwned, LeasesEndSoon, [Next]_vars
    PROVE  LeasesEndSoon'
<1> SUFFICES ASSUME NEW j \in Jobs
             PROVE  LeaseEnd(j)' \in Nat /\ LeaseEnd(j)' <= now' + LeaseTime
  BY DEF LeasesEndSoon
<1>1. /\ now \in Nat /\ LeaseTime \in Nat /\ now' \in {now, now + 1}
      /\ LeaseEnd(j) \in Nat /\ LeaseEnd(j) <= now + LeaseTime
  BY OneJobAtATime, LimitsAreNaturals DEF TypeOK, LeasesEndSoon
<1>2. LeaseEnd(j)' \in {LeaseEnd(j), 0} \/ (LeaseEnd(j)' = now + LeaseTime)
  BY LeaseMoves DEF LeaseKept, LeaseTaken, LeaseProlonged, LeaseGiven
<1> QED BY <1>1, <1>2

\* Every step of the store is a step of the lease of at most one job.
LEMMA LeaseImplements ==
    ASSUME TypeOK, RunningIffOwned, LeasesEndSoon, [Next]_vars
    PROVE  [Leases!Next]_(Leases!vars)
<1> DEFINE H == [j \in Jobs |-> LeaseHolder(j)]
           E == [j \in Jobs |-> LeaseEnd(j)]
<1>1. now \in Nat /\ LeaseTime \in Nat \ {0}
  BY LimitsAreNaturals DEF TypeOK
<1>2. ASSUME NEW i \in Jobs, jobs'[i] = jobs[i] PROVE LeaseKept(i)
  BY <1>2 DEF LeaseKept, LeaseHolder, LeaseEnd, Present
<1>3. CASE UNCHANGED jobs
  <2>1. H' = H /\ E' = E
    BY <1>2, <1>3 DEF LeaseKept
  <2>2. now' = now \/ now' = now + 1
    BY OneJobAtATime
  <2>3. CASE now' = now
    BY <2>1, <2>3 DEF Leases!vars
  <2>4. CASE now' = now + 1
    BY <1>1, <2>1, <2>4 DEF Leases!Next, Leases!Advance
  <2> QED BY <2>2, <2>3, <2>4
<1>4. ASSUME NEW j \in Jobs, UNCHANGED now, \A i \in Jobs : i # j => jobs'[i] = jobs[i]
      PROVE  [Leases!Next]_(Leases!vars)
  <2>1. H' = [H EXCEPT ![j] = H'[j]] /\ E' = [E EXCEPT ![j] = E'[j]]
    BY <1>2, <1>4 DEF LeaseKept
  <2>2. /\ H[j] = LeaseHolder(j) /\ H'[j] = LeaseHolder(j)'
        /\ E[j] = LeaseEnd(j) /\ E'[j] = LeaseEnd(j)'
        /\ LeaseEnd(j) \in Nat /\ LeaseEnd(j) <= now + LeaseTime
    BY DEF LeasesEndSoon
  <2>3. CASE LeaseKept(j)
    <3>1. H' = H /\ E' = E
      BY <1>2, <1>4, <2>3 DEF LeaseKept
    <3> QED BY <1>4, <3>1 DEF Leases!vars
  <2> HIDE DEF H, E
  <2>4. CASE LeaseTaken(j)
    <3>1. Leases!Acquire(j)
      BY <1>1, <1>4, <2>1, <2>2, <2>4
         DEF LeaseTaken, Leases!Acquire, Leases!Held, Leases!Retimes, H, E
    <3> QED BY <3>1 DEF Leases!Next
  <2>5. CASE LeaseProlonged(j)
    <3>1. H' = H
      BY <2>1, <2>2, <2>5 DEF LeaseProlonged, H
    <3>2. Leases!Renew(j)
      BY <1>1, <1>4, <2>1, <2>2, <2>5, <3>1
         DEF LeaseProlonged, Leases!Renew, Leases!Retimes, H, E
    <3> QED BY <3>2 DEF Leases!Next
  <2>6. CASE LeaseGiven(j)
    <3>1. Leases!Release(j)
      BY <1>1, <1>4, <2>1, <2>2, <2>6
         DEF LeaseGiven, Leases!Release, Leases!Retimes, H, E
    <3> QED BY <3>1 DEF Leases!Next
  <2> QED BY <2>3, <2>4, <2>5, <2>6, LeaseMoves
<1> QED BY <1>3, <1>4, OneJobAtATime

\* The leases of jobs keep the promise of every lease, whatever workers,
\* reconcilers, polls and the operator do with stale epochs and snapshots
\* (claim, renew_lease, update, fence_and_requeue, _stage_terminalization).
THEOREM JobsImplementLease == Spec => ImplementsLease
<1>1. Init => Leases!Init /\ LeasesEndSoon
  BY LimitsAreNaturals DEF Init, Leases!Init, LeasesEndSoon, LeaseHolder, LeaseEnd, Present
<1> QED BY <1>1, TypeCorrect, RunningIsOwned, EndsSoonStep, LeaseImplements, PTL
        DEF Spec, ImplementsLease, Leases!Spec

\* Nobody takes a running lease away, nobody prolongs one that is over, and a
\* takeover is always told from the lease it follows (claim, renew_lease,
\* fence_and_requeue).
THEOREM RespectForLeases == Spec => LeasesAreRespected
<1> QED BY JobsImplementLease, LeasesAreNotStolen DEF LeasesAreRespected

=============================================================================

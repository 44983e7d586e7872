---------------------------- MODULE TicketWorkers ----------------------------
(***************************************************************************)
(* The attempts to execute a job (api/ticket_worker.py): the endpoint that *)
(* Cloud Tasks calls, run_ticket_job, and the heartbeat that runs beside   *)
(* it.  An attempt reads the store, claims, works, writes and answers in   *)
(* separate steps, and everything else that touches the store              *)
(* (producers, reconciler, operator, polls, the clock) acts in between.    *)
(*                                                                         *)
(* Deliveries are the most general ones: any job and generation, at any    *)
(* time, as often as there are free attempts, all of them under the same   *)
(* worker id if Workers has one element (the id is a hash of task name and *)
(* retry count, so duplicated dispatches of one try do share it).          *)
(*                                                                         *)
(* What a fault of the environment does is an action that spends one of    *)
(* MaxFaults, of a kind in Faults:                                         *)
(*   crash       the process dies, or the claim's answer is lost           *)
(*   cancel      shutdown or the end of the dispatch deadline              *)
(*   miss        a renewal times out (it may have reached the store)       *)
(*   lost        the store fails under the requeue of a cancelled attempt  *)
(*   unrecorded  the attempt fails and the store fails under its update    *)
(***************************************************************************)
EXTENDS TicketRepository

CONSTANTS
    Attempts,   \* request slots of the worker service
    Faults,     \* the kinds of fault considered
    MaxFaults   \* bound on their number

ASSUME FaultsAreKnown ==
    /\ Faults \subseteq {"crash", "cancel", "miss", "lost", "unrecorded"}
    /\ MaxFaults \in Nat

VARIABLES
    attempts,   \* the local state of every attempt
    faults      \* faults spent so far

workerVars == <<attempts, faults>>
allVars == <<vars, workerVars>>

-----------------------------------------------------------------------------
\* accepted   past the endpoint's own check, the claim not yet made
\* running    claimed, heartbeat running
\* closing    the terminal write is in the store, the attempt still returns
\* cancelled  CancelledError caught, the job not yet given back
\* refused    run_ticket_job returned None
\* acked      the answer is a 2xx: Cloud Tasks forgets the task
\* nacked     the answer is an error or none: Cloud Tasks will retry
Pcs == {"idle", "accepted", "running", "closing", "cancelled", "refused",
        "acked", "nacked"}

\* _HEARTBEAT_MAX_CONSECUTIVE_FAILURES
MaxMisses == 2

Attempt ==
    [pc : Pcs, job : Jobs \cup {None}, gen : Generations,
     worker : Workers \cup {None}, epoch : 0..MaxEpoch, misses : 0..MaxMisses]

Idle == [pc |-> "idle", job |-> None, gen |-> 0, worker |-> None,
         epoch |-> 0, misses |-> 0]

WInit ==
    /\ Init
    /\ attempts = [a \in Attempts |-> Idle]
    /\ faults = 0

At(a, pcs) == attempts[a].pc \in pcs
JobOf(a)   == attempts[a].job
EpochOf(a) == attempts[a].epoch

Goto(a, pc) == attempts' = [attempts EXCEPT ![a].pc = pc]

Spend(kind) ==
    /\ kind \in Faults
    /\ faults < MaxFaults
    /\ faults' = faults + 1

Holds(a)  == HoldsLease(JobOf(a), EpochOf(a))

\* A conditional write of the attempt raises StaleLeaseEpoch and the store is
\* as before.
WriteRefused(a) ==
    /\ ~Holds(a)
    /\ Active(JobOf(a)) => PayloadLive(JobOf(a))
    /\ UNCHANGED vars

-----------------------------------------------------------------------------
(* The endpoint: ticket_job_task.                                          *)

Deliverable(j, g) == Active(j) /\ jobs[j].enqueue_generation = g

\* A task exists only for an accepted job and a generation it has reached.  The
\* pre-check answers 204 at once for a terminal job and a stale generation.
Receive(a, j, w, g) ==
    /\ At(a, {"idle"})
    /\ Present(j) /\ g <= jobs[j].enqueue_generation
    /\ attempts' = [attempts EXCEPT ![a] =
          [pc |-> IF Deliverable(j, g) THEN "accepted" ELSE "acked",
           job |-> j, gen |-> g, worker |-> w, epoch |-> 0, misses |-> 0]]
    /\ UNCHANGED <<vars, faults>>

\* Mutant of Answer: every refused delivery taken for a duplicate.
AnswerDuplicate(a) ==
    /\ At(a, {"refused"})
    /\ Goto(a, "acked")
    /\ UNCHANGED <<vars, faults>>

\* run_ticket_job returned None: a terminal job is a benign duplicate (200),
\* anything else is retried after the lease (503).
Answer(a) ==
    /\ At(a, {"refused"})
    /\ Goto(a, IF Active(JobOf(a)) THEN "nacked" ELSE "acked")
    /\ UNCHANGED <<vars, faults>>

Close(a) ==
    /\ At(a, {"acked", "nacked"})
    /\ attempts' = [attempts EXCEPT ![a] = Idle]
    /\ UNCHANGED <<vars, faults>>

-----------------------------------------------------------------------------
(* run_ticket_job.                                                         *)

\* Mutant of StartClaimed: the attempt keeps the epoch of the record it read
\* before the claim.
StartClaimedOldEpoch(a) ==
    /\ Claim(JobOf(a), attempts[a].worker, attempts[a].gen)
    /\ attempts' = [attempts EXCEPT ![a].pc = "running",
                       ![a].epoch = jobs[JobOf(a)].lease_epoch]

StartClaimed(a) ==
    /\ Claim(JobOf(a), attempts[a].worker, attempts[a].gen)
    /\ attempts' = [attempts EXCEPT ![a].pc = "running",
                       ![a].epoch = jobs[JobOf(a)].lease_epoch + 1]

\* The claim finds the payload gone: the job ends here.
StartExpired(a) ==
    /\ TerminalizeExpired(JobOf(a))
    /\ Goto(a, "refused")

StartRefused(a) ==
    /\ \/ ~Active(JobOf(a))
       \/ /\ PayloadLive(JobOf(a))
          /\ jobs[JobOf(a)].enqueue_generation = attempts[a].gen
          /\ ~LeaseLapsed(jobs[JobOf(a)])
    /\ Goto(a, "refused")
    /\ UNCHANGED vars

\* StaleEnqueueGeneration between the pre-check and the claim: 204.
StartStale(a) ==
    /\ Active(JobOf(a)) /\ PayloadLive(JobOf(a))
    /\ jobs[JobOf(a)].enqueue_generation # attempts[a].gen
    /\ Goto(a, "acked")
    /\ UNCHANGED vars

Start(a) ==
    /\ At(a, {"accepted"})
    /\ StartClaimed(a) \/ StartExpired(a) \/ StartRefused(a) \/ StartStale(a)
    /\ UNCHANGED faults

\* _execute ends and its terminal update is accepted.
Complete(a) ==
    /\ At(a, {"running"})
    /\ Active(JobOf(a))
    /\ \E v \in WorkerVerdicts(JobOf(a)) :
          Finish(JobOf(a), EpochOf(a), v[1], v[2])
    /\ Goto(a, "closing")
    /\ UNCHANGED faults

\* What follows the terminal write (execution log, metrics) and the answer.
Return(a) ==
    /\ At(a, {"closing"})
    /\ Goto(a, "acked")
    /\ UNCHANGED <<vars, faults>>

\* Some conditional write or lease check is refused: nothing more is written.
\* A lease check of the ForusBots effects finds a dead payload without ending
\* the job; every other write ends it.
StaleStop(a) ==
    /\ At(a, {"running"})
    /\ \/ WriteRefused(a)
       \/ ~PayloadLive(JobOf(a)) /\ UNCHANGED vars
       \/ TerminalizeExpired(JobOf(a))
    /\ Goto(a, "refused")
    /\ UNCHANGED faults

\* An unexpected exception whose update(FAILED) fails too: the handler logs
\* it, reads the record back, which is still running, and returns it.
FailUnrecorded(a) ==
    /\ At(a, {"running"})
    /\ Spend("unrecorded")
    /\ Goto(a, "acked")
    /\ UNCHANGED vars

\* Mutant of Requeue: the CancelledError handler writes without the epoch of
\* its attempt.
RequeueUnfenced(a) ==
    /\ At(a, {"cancelled"})
    /\ Active(JobOf(a))
    /\ RequeueCancelled(JobOf(a), jobs[JobOf(a)].lease_epoch)
    /\ Goto(a, "nacked")
    /\ UNCHANGED faults

\* The CancelledError handler gives the job back if it still can.
Requeue(a) ==
    /\ At(a, {"cancelled"})
    /\ \/ /\ \/ RequeueCancelled(JobOf(a), EpochOf(a))
             \/ TerminalizeExpired(JobOf(a))
             \/ WriteRefused(a)
          /\ UNCHANGED faults
       \/ Spend("lost") /\ UNCHANGED vars
    /\ Goto(a, "nacked")

Cancel(a) ==
    /\ At(a, {"running", "closing"})
    /\ Spend("cancel")
    /\ Goto(a, "cancelled")
    /\ UNCHANGED vars

Crash(a) ==
    /\ At(a, {"accepted", "running", "closing", "cancelled", "refused"})
    /\ Spend("crash")
    /\ Goto(a, "nacked")
    /\ UNCHANGED vars

-----------------------------------------------------------------------------
(* _heartbeat_loop.                                                        *)

\* The loop runs until it has cancelled its attempt or seen the job's end; it is
\* then over, which MaxMisses stands for.  While the CancelledError handler of
\* a shutdown writes, it still beats.
Beating(a) ==
    /\ At(a, {"running", "closing", "cancelled"})
    /\ attempts[a].misses < MaxMisses

\* _cancel_owner: inside the CancelledError handler the second cancellation
\* interrupts the handler's own write.
CancelOwner(a) ==
    attempts' = [attempts EXCEPT
        ![a].misses = MaxMisses,
        ![a].pc = IF At(a, {"cancelled"}) THEN "nacked" ELSE "cancelled"]

\* Mutant of OwnEnd: every refused renewal is a lost lease.
NoOwnEnd(a) == FALSE

\* renew_lease answered False and the record read next is that of a job the
\* attempt itself has closed: no cancellation.
OwnEnd(a) ==
    /\ Present(JobOf(a)) /\ ~Active(JobOf(a))
    /\ jobs[JobOf(a)].lease_epoch = EpochOf(a)

\* Mutant of BeatRenewed: the lease is extended without the owner's check.
BeatForced(a) ==
    /\ Active(JobOf(a))
    /\ jobs' = [jobs EXCEPT ![JobOf(a)].lease_expires_at = now + LeaseTime]
    /\ attempts' = [attempts EXCEPT ![a].misses = 0]
    /\ UNCHANGED <<now, payloads, receipts, counters, windows>>

BeatRenewed(a) ==
    /\ RenewLease(JobOf(a), attempts[a].worker, EpochOf(a))
    /\ attempts' = [attempts EXCEPT ![a].misses = 0]

BeatExpired(a) ==
    /\ TerminalizeExpired(JobOf(a))
    /\ CancelOwner(a)

BeatLost(a) ==
    /\ ~OwnsLease(JobOf(a), attempts[a].worker, EpochOf(a))
    /\ Active(JobOf(a)) => PayloadLive(JobOf(a))
    /\ IF OwnEnd(a) THEN attempts' = [attempts EXCEPT ![a].misses = MaxMisses]
       ELSE CancelOwner(a)
    /\ UNCHANGED vars

Beat(a) ==
    /\ Beating(a)
    /\ BeatRenewed(a) \/ BeatExpired(a) \/ BeatLost(a)
    /\ UNCHANGED faults

\* A renewal that times out: nobody knows whether it was applied.
MissBeat(a) ==
    /\ Beating(a)
    /\ Spend("miss")
    /\ \/ RenewLease(JobOf(a), attempts[a].worker, EpochOf(a))
       \/ UNCHANGED vars
    /\ IF attempts[a].misses + 1 >= MaxMisses THEN CancelOwner(a)
       ELSE attempts' = [attempts EXCEPT ![a].misses = @ + 1]

-----------------------------------------------------------------------------
AttemptStep(a) ==
    \/ Start(a) \/ Complete(a) \/ Return(a) \/ StaleStop(a) \/ Requeue(a)
    \/ Beat(a) \/ Answer(a)

FaultStep(a) == FailUnrecorded(a) \/ Cancel(a) \/ Crash(a) \/ MissBeat(a)

\* Everybody else who touches the store.
OthersStep ==
    \/ Tick
    \/ Admission
    \/ \E j \in Jobs : \/ PurgePayload(j)
                       \/ TerminalizeExpired(j)
                       \/ OutboxStep(j)
                       \/ RecoveryStep(j)
                       \/ PollStep(j)

WNext ==
    \/ \E a \in Attempts :
          \/ \E j \in Jobs, w \in Workers, g \in Generations :
                Receive(a, j, w, g)
          \/ AttemptStep(a)
          \/ FaultStep(a)
          \/ Close(a)
    \/ OthersStep /\ UNCHANGED workerVars

WSpec == WInit /\ [][WNext]_allVars

\* What the attempts and their environment do to the store is what the store
\* of TicketRepository allows: its theorems hold of the composition.
ImplementsRepository == Spec

-----------------------------------------------------------------------------
(* Properties.                                                             *)

\* Types of the attempts.
WTypeOK ==
    /\ attempts \in [Attempts -> Attempt]
    /\ faults \in Nat
    /\ \A a \in Attempts : ~At(a, {"idle"}) =>
          /\ attempts[a].job # None /\ attempts[a].worker # None
          /\ ~At(a, {"accepted", "acked", "nacked", "refused"})
               => attempts[a].epoch > 0

\* The attempts that believe they execute a job.
Executing(a) == At(a, {"running", "cancelled", "closing"})

\* Fencing seen from the workers: however deliveries are duplicated, delayed or
\* overlapped, no two attempts that believe they execute a job carry the same
\* epoch, and none carries an epoch the store has not reached; of several, at
\* most one can still write (claim, update).
ExclusiveEpochs ==
    \A a, b \in Attempts :
        /\ Executing(a) => /\ Present(JobOf(a))
                           /\ EpochOf(a) <= jobs[JobOf(a)].lease_epoch
        /\ a # b /\ Executing(a) /\ Executing(b) /\ JobOf(a) = JobOf(b)
             => EpochOf(a) # EpochOf(b)

\* An attempt whose verdict is stored is not cancelled by its own heartbeat,
\* which finds the lease gone before the attempt has returned (the window the
\* comment in _heartbeat_loop names): without a fault it answers 2xx.
HeartbeatSparesTheFinished ==
    [][\A a \in Attempts : At(a, {"closing"}) /\ faults' = faults =>
          attempts'[a].pc \in {"closing", "acked"}]_allVars

\* A superseded attempt is powerless: once another attempt executes the job
\* under a later epoch, whatever the older one still does (heartbeat, verdict,
\* the CancelledError handler) leaves the control document as it is, unless the
\* payload has run out, which any of them reports.
SupersededIsPowerless ==
    [][\A a, b \in Attempts :
          (/\ Executing(a) /\ attempts'[a] # attempts[a]
           /\ Executing(b) /\ JobOf(b) = JobOf(a) /\ EpochOf(b) > EpochOf(a))
          => \/ jobs'[JobOf(a)] = jobs[JobOf(a)]
             \/ jobs'[JobOf(a)].error = "EXPIRED_PAYLOAD"]_allVars

\* A delivery is answered 2xx, and its task forgotten, only if there is nothing
\* left to do under it: the job has ended or a newer generation exists
\* (docstring of ticket_job_task).
AckMeansDone ==
    \A a \in Attempts : At(a, {"acked"}) =>
        ~Active(JobOf(a)) \/ jobs[JobOf(a)].enqueue_generation # attempts[a].gen

\* The same of every delivery that never got the job: a duplicate, a stale
\* generation or a refused claim is never forgotten while there is work left. An
\* attempt that did claim is exempt, because one that failed and could not store
\* its failure is answered 2xx all the same.
AckMeansDoneOrUnrecorded ==
    \A a \in Attempts : At(a, {"acked"}) =>
        \/ ~Active(JobOf(a))
        \/ jobs[JobOf(a)].enqueue_generation # attempts[a].gen
        \/ EpochOf(a) # 0

=============================================================================

------------------------- MODULE TicketDeliveryProofs -------------------------
(* Proofs about the attempts and the delivery path, for every number of      *)
(* attempts, worker ids, faults, producers, reconciler runs and operators.   *)
(* The attempts, with their environment, implement the store, whose theorems *)
(* therefore hold of them, and epochs separate them.  The delivery path uses *)
(* the attempts and the store only as TicketWorkers allows, and the outbox   *)
(* agrees with the queue.                                                    *)
EXTENDS TicketDelivery, TicketRepositoryProofs

-----------------------------------------------------------------------------
(* The attempts (TicketWorkers).                                             *)

\* What the type invariant says of an attempt that is not idle.
LEMMA BusyAttempt ==
    ASSUME WTypeOK, NEW a \in Attempts, ~At(a, {"idle"})
    PROVE  /\ JobOf(a) \in Jobs
           /\ attempts[a].worker \in Workers
           /\ attempts[a].gen \in Generations
           /\ At(a, {"running", "closing", "cancelled"}) => EpochOf(a) \in Epochs
<1>1. attempts[a] \in Attempt
  BY DEF WTypeOK
<1>2. /\ attempts[a].job # None /\ attempts[a].worker # None
      /\ ~At(a, {"accepted", "acked", "nacked", "refused"})
           => attempts[a].epoch > 0
  BY DEF WTypeOK
<1>3. At(a, {"running", "closing", "cancelled"})
        => ~At(a, {"accepted", "acked", "nacked", "refused"})
  BY DEF At
<1>4. MaxEpoch \in Nat
  BY LimitsAreNaturals
<1> QED BY <1>1, <1>2, <1>3, <1>4 DEF Attempt, JobOf, EpochOf, Epochs

-----------------------------------------------------------------------------
(* The store under the attempts is the store of TicketRepository.            *)

\* A step of an attempt does to the store what one transaction may do.
LEMMA AttemptIsStoreStep ==
    ASSUME WTypeOK, NEW a \in Attempts, AttemptStep(a)
    PROVE  [Next]_vars
<1> DEFINE j == JobOf(a)
           e == EpochOf(a)
<1>0. ~At(a, {"idle"})
  BY DEF AttemptStep, Start, Complete, Return, StaleStop, Requeue, Beat, Answer,
         Beating, At
<1>1. /\ j \in Jobs /\ attempts[a].worker \in Workers
      /\ attempts[a].gen \in Generations
      /\ At(a, {"running", "closing", "cancelled"}) => e \in Epochs
  BY <1>0, BusyAttempt
<1>2. TerminalizeExpired(j) => Next
  BY <1>1 DEF Next
<1>3. CASE Start(a)
  <2>1. StartClaimed(a) => Next
    BY <1>1 DEF StartClaimed, Next
  <2>2. StartExpired(a) => Next
    BY <1>2 DEF StartExpired
  <2>3. StartRefused(a) \/ StartStale(a) => UNCHANGED vars
    BY DEF StartRefused, StartStale
  <2> QED BY <1>3, <2>1, <2>2, <2>3 DEF Start
<1>4. CASE Complete(a)
  <2>1. e \in Epochs
    BY <1>1, <1>4 DEF Complete, At
  <2>2. PICK v \in WorkerVerdicts(j) : Finish(j, e, v[1], v[2])
    BY <1>4 DEF Complete
  <2>3. Active(j)
    BY <1>4 DEF Complete
  <2>4. LeaseHolderStep(j)
    BY <2>1, <2>2, <2>3 DEF LeaseHolderStep
  <2> QED BY <1>1, <2>4 DEF Next
<1>5. CASE Return(a) \/ Answer(a)
  BY <1>5 DEF Return, Answer
<1>6. CASE StaleStop(a)
  BY <1>2, <1>6 DEF StaleStop, WriteRefused
<1>7. CASE Requeue(a)
  <2>1. e \in Epochs
    BY <1>1, <1>7 DEF Requeue, At
  <2>2. RequeueCancelled(j, e) => Next
    BY <1>1, <2>1 DEF LeaseHolderStep, Next
  <2> QED BY <1>2, <1>7, <2>2 DEF Requeue, WriteRefused
<1>8. CASE Beat(a)
  <2>1. e \in Epochs
    BY <1>1, <1>8 DEF Beat, Beating, At
  <2>2. RenewLease(j, attempts[a].worker, e) => Next
    BY <1>1, <2>1 DEF LeaseHolderStep, Next
  <2> QED BY <1>2, <1>8, <2>2 DEF Beat, BeatRenewed, BeatExpired, BeatLost
<1> QED BY <1>3, <1>4, <1>5, <1>6, <1>7, <1>8 DEF AttemptStep

LEMMA FaultIsStoreStep ==
    ASSUME WTypeOK, NEW a \in Attempts, FaultStep(a)
    PROVE  [Next]_vars
<1>1. CASE FailUnrecorded(a) \/ Cancel(a) \/ Crash(a)
  BY <1>1 DEF FailUnrecorded, Cancel, Crash
<1>2. CASE MissBeat(a)
  <2>1. ~At(a, {"idle"}) /\ At(a, {"running", "closing", "cancelled"})
    BY <1>2 DEF MissBeat, Beating, At
  <2>2. /\ JobOf(a) \in Jobs /\ attempts[a].worker \in Workers
        /\ EpochOf(a) \in Epochs
    BY <2>1, BusyAttempt
  <2>3. RenewLease(JobOf(a), attempts[a].worker, EpochOf(a)) => Next
    BY <2>2 DEF LeaseHolderStep, Next
  <2> QED BY <1>2, <2>3 DEF MissBeat
<1> QED BY <1>1, <1>2 DEF FaultStep

LEMMA WStepIsStoreStep == WTypeOK /\ [WNext]_allVars => [Next]_vars
<1> SUFFICES ASSUME WTypeOK, [WNext]_allVars
             PROVE  [Next]_vars
  OBVIOUS
<1>1. CASE UNCHANGED allVars
  BY <1>1 DEF allVars
<1>2. ASSUME NEW a \in Attempts,
             \/ \E j \in Jobs, w \in Workers, g \in Generations : Receive(a, j, w, g)
             \/ Close(a)
      PROVE  [Next]_vars
  BY <1>2 DEF Receive, Close
<1>3. ASSUME OthersStep
      PROVE  [Next]_vars
  BY <1>3 DEF OthersStep, Next
<1> QED BY <1>1, <1>2, <1>3, AttemptIsStoreStep, FaultIsStoreStep DEF WNext

-----------------------------------------------------------------------------
(* Types of the attempts.                                                    *)

\* What the type invariant asks of the state r of one attempt.
WellFormed(r) ==
    /\ r \in Attempt
    /\ r.pc # "idle" =>
          /\ r.job # None /\ r.worker # None
          /\ r.pc \in {"running", "closing", "cancelled"} => r.epoch > 0

LEMMA WTypeOKByAttempt ==
    ASSUME attempts \in [Attempts -> Attempt]
    PROVE  WTypeOK <=> /\ faults \in Nat
                       /\ \A a \in Attempts : WellFormed(attempts[a])
BY DEF WTypeOK, WellFormed, At, Attempt, Pcs

\* A change of the place or of the missed beats of an attempt.
LEMMA MovedAttempt ==
    ASSUME NEW r \in Attempt, WellFormed(r), NEW pc \in Pcs \ {"idle"},
           r.pc # "idle",
           pc \in {"running", "closing", "cancelled"} =>
               r.pc \in {"running", "closing", "cancelled"},
           NEW n \in 0..MaxMisses
    PROVE  /\ WellFormed([r EXCEPT !.pc = pc])
           /\ WellFormed([r EXCEPT !.misses = n])
           /\ WellFormed([r EXCEPT !.misses = n, !.pc = pc])
<1>1. /\ [r EXCEPT !.pc = pc] \in Attempt
      /\ [r EXCEPT !.misses = n] \in Attempt
      /\ [r EXCEPT !.misses = n, !.pc = pc] \in Attempt
  BY ZenonT(60) DEF Attempt
<1>2. \A q \in {[r EXCEPT !.pc = pc], [r EXCEPT !.misses = n],
               [r EXCEPT !.misses = n, !.pc = pc]} :
         /\ q.job = r.job /\ q.worker = r.worker /\ q.epoch = r.epoch
         /\ q.pc \in {r.pc, pc}
  BY DEF Attempt
<1> QED BY <1>1, <1>2 DEF WellFormed

LEMMA IdleIsWellFormed == WellFormed(Idle)
BY LimitsAreNaturals DEF WellFormed, Idle, Attempt, Pcs, Generations, MaxMisses

\* A delivery, and a claim that is granted.
LEMMA NewAttempt ==
    ASSUME NEW j \in Jobs, NEW w \in Workers, NEW g \in Generations,
           NEW pc \in {"accepted", "acked"}
    PROVE  WellFormed([pc |-> pc, job |-> j, gen |-> g, worker |-> w,
                       epoch |-> 0, misses |-> 0])
<1>1. /\ pc \in Pcs /\ 0 \in 0..MaxEpoch /\ 0 \in 0..MaxMisses
      /\ j # None /\ w # None
  BY LimitsAreNaturals, NoneIsNoValue DEF Pcs, MaxMisses
<1>2. [pc |-> pc, job |-> j, gen |-> g, worker |-> w, epoch |-> 0,
       misses |-> 0] \in Attempt
  BY <1>1, Zenon DEF Attempt
<1> QED BY <1>1, <1>2 DEF WellFormed

LEMMA ClaimingAttempt ==
    ASSUME NEW r \in Attempt, WellFormed(r), r.pc # "idle", NEW e \in 1..MaxEpoch
    PROVE  WellFormed([r EXCEPT !.pc = "running", !.epoch = e])
<1>0. e \in 0..MaxEpoch /\ e > 0 /\ "running" \in Pcs
  BY LimitsAreNaturals DEF Pcs
<1>1. [r EXCEPT !.pc = "running", !.epoch = e] \in Attempt
  BY <1>0, ZenonT(60) DEF Attempt
<1>2. /\ [r EXCEPT !.pc = "running", !.epoch = e].job = r.job
      /\ [r EXCEPT !.pc = "running", !.epoch = e].worker = r.worker
      /\ [r EXCEPT !.pc = "running", !.epoch = e].epoch = e
  BY DEF Attempt
<1> QED BY <1>0, <1>1, <1>2 DEF WellFormed

\* One attempt changes, well formed again, and faults stay a number.
OneMoves ==
    /\ faults' \in Nat
    /\ \/ UNCHANGED attempts
       \/ \E a \in Attempts : \E r :
             attempts' = [attempts EXCEPT ![a] = r] /\ WellFormed(r)

LEMMA OneMovesKeepsTypes == WTypeOK /\ OneMoves => WTypeOK'
<1> SUFFICES ASSUME WTypeOK, OneMoves
             PROVE  WTypeOK'
  OBVIOUS
<1>0. attempts \in [Attempts -> Attempt] /\ \A a \in Attempts : WellFormed(attempts[a])
  BY WTypeOKByAttempt DEF WTypeOK
<1>1. attempts' \in [Attempts -> Attempt]
      /\ \A a \in Attempts : WellFormed(attempts'[a])
  <2>1. CASE UNCHANGED attempts
    BY <1>0, <2>1
  <2>2. ASSUME NEW a \in Attempts, NEW r, WellFormed(r),
               attempts' = [attempts EXCEPT ![a] = r]
        PROVE  attempts' \in [Attempts -> Attempt]
               /\ \A b \in Attempts : WellFormed(attempts'[b])
    <3>1. r \in Attempt
      BY <2>2 DEF WellFormed
    <3> QED BY <1>0, <2>2, <3>1
  <2> QED BY <2>1, <2>2 DEF OneMoves
<1>2. faults' \in Nat
  BY DEF OneMoves
<1> QED BY <1>1, <1>2 DEF WTypeOK, WellFormed, At, Attempt, Pcs

LEMMA GotoMoves ==
    ASSUME WTypeOK, NEW a \in Attempts, NEW pc \in Pcs \ {"idle"},
           ~At(a, {"idle"}),
           pc \in {"running", "closing", "cancelled"} =>
               At(a, {"running", "closing", "cancelled"}),
           faults' \in Nat, NEW n \in 0..MaxMisses,
           \/ attempts' = [attempts EXCEPT ![a].pc = pc]
           \/ attempts' = [attempts EXCEPT ![a].misses = n]
           \/ attempts' = [attempts EXCEPT ![a].misses = n, ![a].pc = pc]
    PROVE  OneMoves
<1> DEFINE r == attempts[a]
<1>1. r \in Attempt /\ WellFormed(r) /\ r.pc # "idle"
  BY WTypeOKByAttempt DEF WTypeOK, At
<1>2. pc \in {"running", "closing", "cancelled"} =>
         r.pc \in {"running", "closing", "cancelled"}
  BY DEF At
<1>3. /\ WellFormed([r EXCEPT !.pc = pc])
      /\ WellFormed([r EXCEPT !.misses = n])
      /\ WellFormed([r EXCEPT !.misses = n, !.pc = pc])
  <2> HIDE DEF r
  <2> QED BY <1>1, <1>2, MovedAttempt
<1>4. \/ attempts' = [attempts EXCEPT ![a] = [r EXCEPT !.pc = pc]]
      \/ attempts' = [attempts EXCEPT ![a] = [r EXCEPT !.misses = n]]
      \/ attempts' = [attempts EXCEPT ![a] = [r EXCEPT !.misses = n, !.pc = pc]]
  BY <1>1 DEF WTypeOK
<1> QED BY <1>3, <1>4 DEF OneMoves

\* Every action of the composition moves at most one attempt.
LEMMA ReceiveMoves ==
    ASSUME WTypeOK, NEW a \in Attempts, NEW j \in Jobs, NEW w \in Workers,
           NEW g \in Generations, Receive(a, j, w, g)
    PROVE  OneMoves
<1> DEFINE pc == IF Deliverable(j, g) THEN "accepted" ELSE "acked"
           r == [pc |-> pc, job |-> j, gen |-> g, worker |-> w,
                 epoch |-> 0, misses |-> 0]
<1>1. pc \in {"accepted", "acked"}
  OBVIOUS
<1>2. WellFormed(r)
  <2> HIDE DEF pc
  <2> QED BY <1>1, NewAttempt
<1>3. attempts' = [attempts EXCEPT ![a] = r] /\ faults' = faults
  BY DEF Receive
<1>4. faults' \in Nat
  BY <1>3 DEF WTypeOK
<1> HIDE DEF r
<1> QED BY <1>2, <1>3, <1>4 DEF OneMoves

LEMMA CloseMoves ==
    ASSUME WTypeOK, NEW a \in Attempts, Close(a)
    PROVE  OneMoves
BY IdleIsWellFormed DEF Close, OneMoves, WTypeOK

LEMMA CancelOwnerMoves ==
    ASSUME WTypeOK, NEW a \in Attempts,
           At(a, {"running", "closing", "cancelled"}), CancelOwner(a),
           faults' \in Nat
    PROVE  OneMoves
<1> DEFINE pc == IF At(a, {"cancelled"}) THEN "nacked" ELSE "cancelled"
<1>1. pc \in Pcs \ {"idle"} /\ ~At(a, {"idle"}) /\ MaxMisses \in 0..MaxMisses
  BY DEF Pcs, At, MaxMisses
<1>2. attempts' = [attempts EXCEPT ![a].misses = MaxMisses, ![a].pc = pc]
  BY DEF CancelOwner
<1> HIDE DEF pc
<1> QED BY <1>1, <1>2, GotoMoves

LEMMA AttemptMoves ==
    ASSUME TypeOK, WTypeOK, NEW a \in Attempts, AttemptStep(a)
    PROVE  OneMoves
<1>0. faults \in Nat /\ 0 \in 0..MaxMisses /\ MaxMisses \in 0..MaxMisses
  BY DEF WTypeOK, MaxMisses
<1>1. CASE Start(a)
  <2>0. At(a, {"accepted"}) /\ ~At(a, {"idle"}) /\ faults' \in Nat
    BY <1>0, <1>1 DEF Start, At
  <2>1. ASSUME StartClaimed(a) PROVE OneMoves
    <3> DEFINE r == attempts[a]
               e == jobs[JobOf(a)].lease_epoch + 1
    <3>1. r \in Attempt /\ WellFormed(r) /\ r.pc # "idle" /\ JobOf(a) \in Jobs
      BY <2>0, WTypeOKByAttempt, BusyAttempt DEF WTypeOK, At
    <3>2. e \in 1..MaxEpoch
      <4>1. Present(JobOf(a)) /\ jobs[JobOf(a)].lease_epoch < MaxEpoch
        BY <2>1 DEF StartClaimed, Claim, Active
      <4>2. jobs[JobOf(a)] \in Control
        BY <3>1, <4>1 DEF Present, TypeOK
      <4>3. jobs[JobOf(a)].lease_epoch \in Nat
        BY <4>2 DEF Control
      <4> QED BY <4>1, <4>3, LimitsAreNaturals
    <3>3. attempts' = [attempts EXCEPT ![a] =
                          [r EXCEPT !.pc = "running", !.epoch = e]]
      BY <2>1 DEF StartClaimed, WTypeOK
    <3> HIDE DEF r, e
    <3>4. WellFormed([r EXCEPT !.pc = "running", !.epoch = e])
      BY <3>1, <3>2, ClaimingAttempt
    <3> QED BY <2>0, <3>3, <3>4 DEF OneMoves
  <2>2. ASSUME StartExpired(a) \/ StartRefused(a) \/ StartStale(a)
        PROVE  OneMoves
    <3>1. PICK pc \in {"refused", "acked"} : Goto(a, pc)
      BY <2>2 DEF StartExpired, StartRefused, StartStale
    <3>2. pc \in Pcs \ {"idle"} /\ pc \notin {"running", "closing", "cancelled"}
      BY DEF Pcs
    <3> QED BY <1>0, <2>0, <3>1, <3>2, GotoMoves DEF Goto
  <2> QED BY <1>1, <2>1, <2>2 DEF Start
<1>2. CASE Complete(a) \/ Return(a) \/ StaleStop(a) \/ Requeue(a) \/ Answer(a)
  <2>1. PICK pc \in {"closing", "acked", "refused", "nacked"} : Goto(a, pc)
    BY <1>2 DEF Complete, Return, StaleStop, Requeue, Answer
  <2>2. pc \in Pcs \ {"idle"}
    BY DEF Pcs
  <2>3. ~At(a, {"idle"})
    BY <1>2 DEF Complete, Return, StaleStop, Requeue, Answer, At
  <2>4. Complete(a) \/ pc # "closing"
    <3>1. ASSUME pc = "closing", ~Complete(a) PROVE FALSE
      <4>1. attempts'[a].pc = "closing"
        BY <2>1, <3>1 DEF Goto, WTypeOK, Attempt
      <4>2. PICK q \in {"acked", "refused", "nacked"} : Goto(a, q)
        BY <1>2, <3>1 DEF Return, StaleStop, Requeue, Answer
      <4>3. attempts'[a].pc = q
        BY <4>2 DEF Goto, WTypeOK, Attempt
      <4> QED BY <4>1, <4>3
    <3> QED BY <3>1
  <2>5. pc \in {"running", "closing", "cancelled"}
          => At(a, {"running", "closing", "cancelled"})
    BY <2>4 DEF Complete, At
  <2>6. faults' \in Nat
    BY <1>0, <1>2 DEF Complete, Return, StaleStop, Requeue, Answer, Spend
  <2> QED BY <1>0, <2>1, <2>2, <2>3, <2>5, <2>6, GotoMoves DEF Goto
<1>3. CASE Beat(a)
  <2>1. At(a, {"running", "closing", "cancelled"}) /\ faults' \in Nat
    BY <1>0, <1>3 DEF Beat, Beating
  <2>2. ASSUME CancelOwner(a) PROVE OneMoves
    BY <2>1, <2>2, CancelOwnerMoves
  <2>3. ASSUME NEW n \in {0, MaxMisses},
               attempts' = [attempts EXCEPT ![a].misses = n]
        PROVE  OneMoves
    <3>1. n \in 0..MaxMisses /\ ~At(a, {"idle"})
      BY <1>0, <2>1 DEF At
    <3>2. "refused" \in Pcs \ {"idle"}
      BY DEF Pcs
    <3> QED BY <2>1, <2>3, <3>1, <3>2, GotoMoves
  <2> QED BY <1>3, <2>2, <2>3 DEF Beat, BeatRenewed, BeatExpired, BeatLost
<1> QED BY <1>1, <1>2, <1>3 DEF AttemptStep

LEMMA FaultMoves ==
    ASSUME WTypeOK, NEW a \in Attempts, FaultStep(a)
    PROVE  OneMoves
<1>0. /\ faults \in Nat /\ 0 \in 0..MaxMisses
      /\ attempts[a] \in Attempt
  BY DEF WTypeOK, MaxMisses
<1>1. faults' \in Nat
  BY <1>0 DEF FaultStep, FailUnrecorded, Cancel, Crash, MissBeat, Spend
<1>2. CASE FailUnrecorded(a) \/ Cancel(a) \/ Crash(a)
  <2>1. ~At(a, {"idle"})
    BY <1>2 DEF FailUnrecorded, Cancel, Crash, At
  <2>2. /\ {"acked", "nacked", "cancelled"} \subseteq Pcs \ {"idle"}
        /\ {"acked", "nacked"} \cap {"running", "closing", "cancelled"} = {}
    BY DEF Pcs
  <2>3. CASE FailUnrecorded(a)
    BY <1>0, <1>1, <2>1, <2>2, <2>3, GotoMoves DEF FailUnrecorded, Goto
  <2>4. CASE Crash(a)
    BY <1>0, <1>1, <2>1, <2>2, <2>4, GotoMoves DEF Crash, Goto
  <2>5. CASE Cancel(a)
    <3>1. At(a, {"running", "closing", "cancelled"})
      BY <2>5 DEF Cancel, At
    <3> QED BY <1>0, <1>1, <2>1, <2>2, <2>5, <3>1, GotoMoves DEF Cancel, Goto
  <2> QED BY <1>2, <2>3, <2>4, <2>5
<1>3. CASE MissBeat(a)
  <2>1. At(a, {"running", "closing", "cancelled"}) /\ ~At(a, {"idle"})
    BY <1>3 DEF MissBeat, Beating, At
  <2>2. ASSUME CancelOwner(a) PROVE OneMoves
    BY <1>1, <2>1, <2>2, CancelOwnerMoves
  <2>3. ASSUME attempts[a].misses + 1 < MaxMisses,
               attempts' = [attempts EXCEPT ![a].misses = @ + 1]
        PROVE  OneMoves
    <3> DEFINE n == attempts[a].misses + 1
    <3>1. n \in 0..MaxMisses
      BY <1>0, <2>3 DEF Attempt, MaxMisses
    <3>2. attempts' = [attempts EXCEPT ![a].misses = n]
      BY <2>3
    <3>3. "refused" \in Pcs \ {"idle"}
      BY DEF Pcs
    <3> HIDE DEF n
    <3> QED BY <1>1, <2>1, <3>1, <3>2, <3>3, GotoMoves
  <2>4. attempts[a].misses \in Nat
    BY <1>0 DEF Attempt, MaxMisses
  <2> QED BY <1>3, <2>2, <2>3, <2>4 DEF MissBeat, MaxMisses
<1> QED BY <1>2, <1>3 DEF FaultStep

LEMMA WNextTypes == TypeOK /\ WTypeOK /\ [WNext]_allVars => WTypeOK'
<1> SUFFICES ASSUME TypeOK, WTypeOK, [WNext]_allVars
             PROVE  OneMoves
  BY OneMovesKeepsTypes
<1>1. CASE UNCHANGED workerVars
  BY <1>1 DEF workerVars, OneMoves, WTypeOK
<1>2. CASE WNext /\ ~UNCHANGED workerVars
  BY <1>2, ReceiveMoves, CloseMoves, AttemptMoves, FaultMoves DEF WNext
<1> QED BY <1>1, <1>2 DEF allVars

\* The initial states are well typed.
LEMMA WorkersInitTypes == WInit => TypeOK /\ WTypeOK
<1> SUFFICES ASSUME WInit PROVE TypeOK /\ WTypeOK
  OBVIOUS
<1>1. TypeOK
  BY InitTypes DEF WInit
<1>2. attempts \in [Attempts -> Attempt] /\ faults \in Nat
  BY IdleIsWellFormed DEF WInit, WellFormed
<1>3. \A a \in Attempts : attempts[a] = Idle
  BY DEF WInit
<1> QED BY <1>1, <1>2, <1>3, IdleIsWellFormed, WTypeOKByAttempt

\* Whatever is delivered, however often, the store and the attempts keep their
\* types; in particular an attempt that works has a claim's epoch.
THEOREM WorkersTypeCorrect == WSpec => [](TypeOK /\ WTypeOK)
<1>1. WInit => TypeOK /\ WTypeOK
  BY WorkersInitTypes
<1>2. TypeOK /\ WTypeOK /\ [WNext]_allVars => (TypeOK /\ WTypeOK)'
  BY WNextTypes, WStepIsStoreStep, NextTypes
<1> QED BY <1>1, <1>2, PTL DEF WSpec

\* The attempts, their heartbeats and their environment use the store only
\* through its transactions: every behaviour of the composition is one of
\* TicketRepository, so its theorems hold of the running system.
THEOREM WorkersImplementRepository == WSpec => ImplementsRepository
<1>1. WInit => Init
  BY DEF WInit
<1>2. WTypeOK /\ [WNext]_allVars => [Next]_vars
  BY WStepIsStoreStep
<1> QED BY <1>1, <1>2, WorkersTypeCorrect, PTL DEF WSpec, ImplementsRepository, Spec

-----------------------------------------------------------------------------
(* Fencing between attempts.                                                 *)

\* A control document stays and its epoch does not decrease.
LEMMA DocumentStays ==
    ASSUME TypeOK, RunningIffOwned, [Next]_vars, NEW j \in Jobs, Present(j)
    PROVE  Present(j)' /\ jobs'[j].lease_epoch >= jobs[j].lease_epoch
<1> DEFINE c == jobs[j]
<1>1. c \in Control /\ c.lease_epoch \in Nat
  BY DEF TypeOK, Present, Control
<1>2. CASE ~Active(j)
  <2>1. jobs'[j] # None /\ jobs'[j].lease_epoch = c.lease_epoch
    BY <1>2, TerminalStep
  <2> QED BY <1>1, <2>1 DEF Present
<1>3. CASE Active(j)
  <2>1. jobs'[j].lease_epoch >= c.lease_epoch
    BY <1>3, ActiveStep
  <2>2. TypeOK'
    BY NextTypes
  <2>3. JobStep(j) /\ ~JobCreated(j)
    BY <1>3, NextIsJobStep DEF JobCreated
  <2>4. now \in Nat
    BY DEF TypeOK
  <2>5. jobs'[j] \in Control
    <3>1. CASE JobClosed(j)
      <4>1. PICK st, code : /\ st \in TerminalStates
                            /\ code \in ErrorCodes \cup {None}
                            /\ \/ jobs'[j] = Terminalized(c, st, code)
                               \/ jobs'[j] = Finished(c, st, code)
        <5>1. c.error \in ErrorCodes \cup {None}
          BY <1>1 DEF Control
        <5> QED BY <3>1, <5>1
                DEF JobClosed, TerminalStates, WorkerVerdicts, ErrorCodes
      <4> HIDE DEF c
      <4> QED BY <1>1, <2>4, <4>1, ControlTypes
    <3>2. CASE JobClaimed(j) \/ JobRenewed(j) \/ JobRequeued(j) \/ JobMarked(j)
      BY <1>1, <2>4, <3>2, ControlTypes
         DEF JobClaimed, JobRenewed, JobRequeued, JobMarked
    <3> QED BY <1>1, <2>3, <3>1, <3>2 DEF JobStep
  <2> QED BY <2>1, <2>5, NoneIsNoDocument DEF Present
<1> QED BY <1>2, <1>3

\* What an attempt that executes after a step was before it: at the same job
\* and epoch, or claiming.
Continues(a) ==
    /\ Executing(a)
    /\ attempts'[a].job = attempts[a].job
    /\ attempts'[a].epoch = attempts[a].epoch

OneExecutes ==
    \/ \A a \in Attempts : Executing(a)' => Continues(a)
    \/ \E b \in Attempts :
          /\ ~At(b, {"idle"})
          /\ StartClaimed(b)
          /\ \A a \in Attempts \ {b} : attempts'[a] = attempts[a]

LEMMA StepExecutes ==
    ASSUME WTypeOK, [WNext]_allVars
    PROVE  OneExecutes
<1>0. attempts \in [Attempts -> Attempt]
  BY DEF WTypeOK
<1>1. ASSUME UNCHANGED attempts
      PROVE  OneExecutes
  BY <1>1 DEF OneExecutes, Continues, Executing, At, JobOf, EpochOf
<1>2. ASSUME NEW b \in Attempts, NEW r, attempts' = [attempts EXCEPT ![b] = r],
             \/ r.pc \notin {"running", "cancelled", "closing"}
             \/ /\ Executing(b)
                /\ r.job = JobOf(b) /\ r.epoch = EpochOf(b)
      PROVE  OneExecutes
  <2>1. \A a \in Attempts : attempts'[a] = IF a = b THEN r ELSE attempts[a]
    BY <1>0, <1>2
  <2> QED BY <1>2, <2>1
          DEF OneExecutes, Continues, Executing, At, JobOf, EpochOf
<1>3. ASSUME NEW b \in Attempts, NEW pc, Goto(b, pc),
             pc \notin {"running", "cancelled", "closing"} \/ Executing(b)
      PROVE  OneExecutes
  <2> DEFINE r == [attempts[b] EXCEPT !.pc = pc]
  <2>1. attempts' = [attempts EXCEPT ![b] = r]
    BY <1>3 DEF Goto
  <2>2. r.pc = pc /\ r.job = JobOf(b) /\ r.epoch = EpochOf(b)
    BY <1>0 DEF Attempt, JobOf, EpochOf
  <2> HIDE DEF r
  <2> QED BY <1>2, <1>3, <2>1, <2>2
<1>4. ASSUME NEW b \in Attempts, NEW n, NEW pc, Executing(b),
             \/ attempts' = [attempts EXCEPT ![b].misses = n]
             \/ attempts' = [attempts EXCEPT ![b].misses = n, ![b].pc = pc]
      PROVE  OneExecutes
  <2> DEFINE r1 == [attempts[b] EXCEPT !.misses = n]
             r2 == [attempts[b] EXCEPT !.misses = n, !.pc = pc]
  <2>1. \/ attempts' = [attempts EXCEPT ![b] = r1]
        \/ attempts' = [attempts EXCEPT ![b] = r2]
    BY <1>0, <1>4
  <2>2. /\ r1.job = JobOf(b) /\ r1.epoch = EpochOf(b)
        /\ r2.job = JobOf(b) /\ r2.epoch = EpochOf(b)
    BY <1>0 DEF Attempt, JobOf, EpochOf
  <2> HIDE DEF r1, r2
  <2> QED BY <1>2, <1>4, <2>1, <2>2
<1>5. ASSUME NEW b \in Attempts, Beat(b) \/ MissBeat(b)
      PROVE  OneExecutes
  <2>1. Executing(b)
    BY <1>5 DEF Beat, MissBeat, Beating, Executing, At
  <2> QED BY <1>4, <1>5, <2>1
          DEF Beat, BeatRenewed, BeatExpired, BeatLost, MissBeat, CancelOwner
<1>6. ASSUME NEW b \in Attempts,
             Complete(b) \/ Return(b) \/ StaleStop(b) \/ Requeue(b) \/ Answer(b)
               \/ FaultStep(b)
      PROVE  OneExecutes
  <2>1. CASE Complete(b) \/ Cancel(b)
    <3>1. Executing(b)
      BY <2>1 DEF Complete, Cancel, Executing, At
    <3> QED BY <1>3, <2>1, <3>1 DEF Complete, Cancel
  <2>2. ASSUME Return(b) \/ StaleStop(b) \/ Requeue(b) \/ Answer(b)
                 \/ FailUnrecorded(b) \/ Crash(b)
        PROVE  OneExecutes
    <3>1. PICK pc \in {"acked", "refused", "nacked"} : Goto(b, pc)
      BY <2>2 DEF Return, StaleStop, Requeue, Answer, FailUnrecorded, Crash
    <3> QED BY <1>3, <3>1
  <2> QED BY <1>5, <1>6, <2>1, <2>2 DEF FaultStep
<1>7. ASSUME NEW b \in Attempts, Start(b)
      PROVE  OneExecutes
  <2>1. ASSUME StartClaimed(b) PROVE OneExecutes
    <3>1. ~At(b, {"idle"})
      BY <1>7 DEF Start, At
    <3>2. \A a \in Attempts \ {b} : attempts'[a] = attempts[a]
      BY <1>0, <2>1 DEF StartClaimed
    <3> QED BY <2>1, <3>1, <3>2 DEF OneExecutes
  <2>2. ASSUME StartExpired(b) \/ StartRefused(b) \/ StartStale(b)
        PROVE  OneExecutes
    <3>1. PICK pc \in {"acked", "refused"} : Goto(b, pc)
      BY <2>2 DEF StartExpired, StartRefused, StartStale
    <3> QED BY <1>3, <3>1
  <2> QED BY <1>7, <2>1, <2>2 DEF Start
<1>8. ASSUME NEW b \in Attempts, NEW j \in Jobs, NEW w \in Workers,
             NEW g \in Generations, Receive(b, j, w, g)
      PROVE  OneExecutes
  <2> DEFINE r == [pc |-> IF Deliverable(j, g) THEN "accepted" ELSE "acked",
                   job |-> j, gen |-> g, worker |-> w, epoch |-> 0,
                   misses |-> 0]
  <2>1. attempts' = [attempts EXCEPT ![b] = r]
    BY <1>8 DEF Receive
  <2>2. r.pc \notin {"running", "cancelled", "closing"}
    OBVIOUS
  <2> HIDE DEF r
  <2> QED BY <1>2, <2>1, <2>2
<1>9. ASSUME NEW b \in Attempts, Close(b)
      PROVE  OneExecutes
  BY <1>2, <1>9 DEF Close, Idle
<1>10. ASSUME WNext PROVE OneExecutes
  BY <1>1, <1>5, <1>6, <1>7, <1>8, <1>9, <1>10 DEF WNext, AttemptStep, workerVars
<1> QED BY <1>1, <1>10 DEF allVars, workerVars

LEMMA ExclusiveStep ==
    ASSUME TypeOK, WTypeOK, RunningIffOwned, ExclusiveEpochs, [WNext]_allVars
    PROVE  ExclusiveEpochs'
<1>0. [Next]_vars
  BY WStepIsStoreStep
<1>1. \A a \in Attempts : Executing(a) =>
         /\ JobOf(a) \in Jobs /\ Present(JobOf(a))
         /\ EpochOf(a) \in Nat
         /\ EpochOf(a) <= jobs[JobOf(a)].lease_epoch
  <2> SUFFICES ASSUME NEW a \in Attempts, Executing(a)
               PROVE  /\ JobOf(a) \in Jobs /\ Present(JobOf(a))
                      /\ EpochOf(a) \in Nat
                      /\ EpochOf(a) <= jobs[JobOf(a)].lease_epoch
    OBVIOUS
  <2>1. ~At(a, {"idle"}) /\ At(a, {"running", "closing", "cancelled"})
    BY DEF Executing, At
  <2>2. EpochOf(a) \in Epochs /\ JobOf(a) \in Jobs
    BY <2>1, BusyAttempt
  <2> QED BY <2>2, LimitsAreNaturals DEF Epochs, ExclusiveEpochs
<1>2. \A j \in Jobs : Present(j) =>
         /\ Present(j)'
         /\ jobs[j].lease_epoch \in Nat
         /\ jobs'[j].lease_epoch \in Nat
         /\ jobs'[j].lease_epoch >= jobs[j].lease_epoch
  <2> SUFFICES ASSUME NEW j \in Jobs, Present(j)
               PROVE  /\ Present(j)'
                      /\ jobs[j].lease_epoch \in Nat
                      /\ jobs'[j].lease_epoch \in Nat
                      /\ jobs'[j].lease_epoch >= jobs[j].lease_epoch
    OBVIOUS
  <2>1. Present(j)' /\ jobs'[j].lease_epoch >= jobs[j].lease_epoch
    BY <1>0, DocumentStays
  <2>2. TypeOK'
    BY <1>0, NextTypes
  <2>3. jobs[j] \in Control /\ jobs'[j] \in Control
    BY <2>1, <2>2 DEF TypeOK, Present
  <2> QED BY <2>1, <2>3 DEF Control
<1>3. CASE \A a \in Attempts : Executing(a)' => Continues(a)
  <2>1. \A a \in Attempts : Executing(a)' =>
           /\ jobs'[attempts'[a].job] # None
           /\ attempts'[a].epoch <= jobs'[attempts'[a].job].lease_epoch
    BY <1>1, <1>2, <1>3 DEF Continues, Present, JobOf, EpochOf
  <2>2. \A a, b \in Attempts :
           a # b /\ Executing(a)' /\ Executing(b)'
             /\ attempts'[a].job = attempts'[b].job
             => attempts'[a].epoch # attempts'[b].epoch
    BY <1>3 DEF Continues, ExclusiveEpochs, JobOf, EpochOf
  <2> QED BY <2>1, <2>2 DEF ExclusiveEpochs, Present, JobOf, EpochOf
<1>4. ASSUME NEW b \in Attempts, ~At(b, {"idle"}), StartClaimed(b),
             \A a \in Attempts \ {b} : attempts'[a] = attempts[a]
      PROVE  ExclusiveEpochs'
  <2> DEFINE j == JobOf(b)
  <2>1. j \in Jobs /\ Present(j)
    BY <1>4, BusyAttempt DEF StartClaimed, Claim, Active
  <2>2. attempts'[b].job = j /\ attempts'[b].epoch = jobs[j].lease_epoch + 1
    <3>1. /\ attempts' = [attempts EXCEPT ![b] = [attempts[b] EXCEPT
                !.pc = "running", !.epoch = jobs[j].lease_epoch + 1]]
          /\ attempts[b] \in Attempt
      BY <1>4 DEF StartClaimed, WTypeOK
    <3>2. attempts'[b] = [attempts[b] EXCEPT
                !.pc = "running", !.epoch = jobs[j].lease_epoch + 1]
      BY <3>1 DEF WTypeOK
    <3> HIDE DEF j
    <3> QED BY <3>1, <3>2 DEF JobOf, EpochOf, Attempt, j
  <2>3. jobs'[j].lease_epoch = jobs[j].lease_epoch + 1
    <3>1. jobs'[j] = Claimed(jobs[j], attempts[b].worker)
      BY <1>4, <2>1 DEF StartClaimed, Claim, TypeOK
    <3>2. jobs[j] \in Control
      BY <2>1 DEF TypeOK, Present
    <3> QED BY <3>1, <3>2, ClaimedFields
  <2> HIDE DEF j
  <2>4. \A a \in Attempts \ {b} : Executing(a)' =>
           /\ Executing(a)
           /\ attempts'[a].job = JobOf(a) /\ attempts'[a].epoch = EpochOf(a)
    BY <1>4 DEF Executing, At, JobOf, EpochOf
  <2>5. \A a \in Attempts : Executing(a)' =>
           /\ jobs'[attempts'[a].job] # None
           /\ attempts'[a].epoch <= jobs'[attempts'[a].job].lease_epoch
    BY <1>1, <1>2, <2>1, <2>2, <2>3, <2>4 DEF Present
  <2>6. \A a \in Attempts \ {b} : Executing(a)' /\ attempts'[a].job = j =>
           attempts'[a].epoch # jobs[j].lease_epoch + 1
    BY <1>1, <1>2, <2>1, <2>4
  <2>7. \A a, d \in Attempts :
           a # d /\ Executing(a)' /\ Executing(d)'
             /\ attempts'[a].job = attempts'[d].job
             => attempts'[a].epoch # attempts'[d].epoch
    BY <2>2, <2>4, <2>6 DEF ExclusiveEpochs
  <2> QED BY <2>5, <2>7 DEF ExclusiveEpochs, Present, JobOf, EpochOf
<1> QED BY <1>3, <1>4, StepExecutes DEF OneExecutes

\* However deliveries of a job are duplicated, delayed or retried, whatever
\* worker ids they carry: two attempts that believe they execute it never carry
\* the same epoch, so that the epoch check of the store separates them.
THEOREM EpochsAreExclusive == WSpec => []ExclusiveEpochs
<1>1. WInit => ExclusiveEpochs
  BY DEF WInit, ExclusiveEpochs, Executing, At, Idle
<1>2. WSpec => []RunningIffOwned
  BY WorkersImplementRepository, RunningIsOwned, PTL DEF ImplementsRepository
<1>3. TypeOK /\ WTypeOK /\ RunningIffOwned /\ ExclusiveEpochs /\ [WNext]_allVars
      => ExclusiveEpochs'
  BY ExclusiveStep
<1> QED BY <1>1, <1>2, <1>3, WorkersTypeCorrect, PTL DEF WSpec

-----------------------------------------------------------------------------
(* Answers.                                                                  *)

\* What a step does to the task of attempt a: it is delivered, it is forgotten,
\* or the attempt keeps it and acknowledges it only after executing the job or
\* on finding nothing to execute.
TaskStep(a) ==
    \/ attempts'[a].pc = "idle"
    \/ /\ UNCHANGED jobs
       /\ Present(attempts'[a].job)
       /\ attempts'[a].job \in Jobs
       /\ attempts'[a].gen <= jobs[attempts'[a].job].enqueue_generation
       /\ attempts'[a].pc = "acked" =>
             ~Deliverable(attempts'[a].job, attempts'[a].gen)
    \/ /\ ~At(a, {"idle"})
       /\ attempts'[a].job = JobOf(a)
       /\ attempts'[a].gen = attempts[a].gen
       /\ attempts'[a].pc = "acked" =>
             \/ At(a, {"acked"}) /\ attempts'[a].epoch = EpochOf(a)
             \/ attempts'[a].epoch # 0
             \/ UNCHANGED jobs /\ ~Deliverable(JobOf(a), attempts[a].gen)

\* A step of attempt b that writes its place or its missed beats.
LEMMA PlaceKeepsTask ==
    ASSUME WTypeOK, NEW b \in Attempts, ~At(b, {"idle"}), NEW n, NEW pc,
           \/ attempts' = [attempts EXCEPT ![b].pc = pc]
           \/ attempts' = [attempts EXCEPT ![b].misses = n]
           \/ attempts' = [attempts EXCEPT ![b].misses = n, ![b].pc = pc]
    PROVE  /\ attempts'[b].job = JobOf(b)
           /\ attempts'[b].gen = attempts[b].gen
           /\ attempts'[b].epoch = EpochOf(b)
           /\ attempts'[b].pc \in {attempts[b].pc, pc}
           /\ \A a \in Attempts \ {b} : attempts'[a] = attempts[a]
<1>0. attempts \in [Attempts -> Attempt]
  BY DEF WTypeOK
<1> DEFINE c  == attempts[b]
           r1 == [c EXCEPT !.pc = pc]
           r2 == [c EXCEPT !.misses = n]
           r3 == [c EXCEPT !.misses = n, !.pc = pc]
<1>1. \E r \in {r1, r2, r3} : attempts' = [attempts EXCEPT ![b] = r]
  BY <1>0
<1>2. \A r \in {r1, r2, r3} : /\ r.job = c.job /\ r.gen = c.gen
                              /\ r.epoch = c.epoch /\ r.pc \in {c.pc, pc}
  <2>1. c \in Attempt
    BY <1>0
  <2> HIDE DEF c
  <2> QED BY <2>1 DEF Attempt
<1> HIDE DEF r1, r2, r3
<1> QED BY <1>0, <1>1, <1>2 DEF JobOf, EpochOf

\* Every action moves one attempt, so that the others keep their tasks.
LEMMA TaskOfOthers ==
    ASSUME NEW a \in Attempts, attempts'[a] = attempts[a]
    PROVE  TaskStep(a)
BY DEF TaskStep, At, JobOf, EpochOf

LEMMA StepKeepsTask ==
    ASSUME WTypeOK, [WNext]_allVars, NEW a \in Attempts
    PROVE  TaskStep(a)
<1>0. attempts \in [Attempts -> Attempt]
  BY DEF WTypeOK
<1>1. CASE UNCHANGED attempts
  BY <1>1, TaskOfOthers
<1>2. ASSUME NEW b \in Attempts, ~At(b, {"idle"}), NEW n, NEW pc,
             \/ attempts' = [attempts EXCEPT ![b].pc = pc]
             \/ attempts' = [attempts EXCEPT ![b].misses = n]
             \/ attempts' = [attempts EXCEPT ![b].misses = n, ![b].pc = pc],
             pc = "acked" =>
                \/ At(b, {"running", "closing"})
                \/ UNCHANGED jobs /\ ~Deliverable(JobOf(b), attempts[b].gen)
      PROVE  TaskStep(a)
  <2>1. /\ attempts'[b].job = JobOf(b)
        /\ attempts'[b].gen = attempts[b].gen
        /\ attempts'[b].epoch = EpochOf(b)
        /\ attempts'[b].pc \in {attempts[b].pc, pc}
        /\ a # b => attempts'[a] = attempts[a]
    BY <1>2, PlaceKeepsTask
  <2>2. At(b, {"running", "closing"}) => EpochOf(b) # 0
    BY <1>2, BusyAttempt, LimitsAreNaturals DEF At, Epochs
  <2>3. TaskStep(b)
    BY <1>2, <2>1, <2>2 DEF TaskStep, At
  <2> QED BY <2>1, <2>3, TaskOfOthers
<1>3. ASSUME NEW b \in Attempts, NEW j \in Jobs, NEW w, NEW g,
             Receive(b, j, w, g)
      PROVE  TaskStep(a)
  <2> DEFINE r == [pc |-> IF Deliverable(j, g) THEN "accepted" ELSE "acked",
                   job |-> j, gen |-> g, worker |-> w, epoch |-> 0, misses |-> 0]
  <2>1. /\ r.job = j /\ r.gen = g
        /\ r.pc = "acked" => ~Deliverable(j, g)
    OBVIOUS
  <2>2. attempts' = [attempts EXCEPT ![b] = r] /\ UNCHANGED jobs
    BY <1>3 DEF Receive, vars
  <2>3. Present(j) /\ g <= jobs[j].enqueue_generation
    BY <1>3 DEF Receive
  <2> HIDE DEF r
  <2>4. TaskStep(b)
    BY <1>0, <2>1, <2>2, <2>3 DEF TaskStep
  <2> QED BY <1>0, <2>2, <2>4, TaskOfOthers
<1>4. ASSUME NEW b \in Attempts, Close(b)
      PROVE  TaskStep(a)
  <2>1. attempts'[b].pc = "idle" /\ (a # b => attempts'[a] = attempts[a])
    BY <1>0, <1>4 DEF Close, Idle
  <2> QED BY <2>1, TaskOfOthers DEF TaskStep
<1>5. ASSUME NEW b \in Attempts, Start(b)
      PROVE  TaskStep(a)
  <2>1. ~At(b, {"idle"})
    BY <1>5 DEF Start, At
  <2>2. CASE StartClaimed(b)
    <3> DEFINE c == attempts[b]
               e == jobs[JobOf(b)].lease_epoch + 1
    <3>1. c \in Attempt
      BY <1>0
    <3>2. attempts' = [attempts EXCEPT ![b] = [c EXCEPT !.pc = "running", !.epoch = e]]
      BY <1>0, <2>2 DEF StartClaimed
    <3>3. /\ attempts'[b] = [c EXCEPT !.pc = "running", !.epoch = e]
          /\ a # b => attempts'[a] = attempts[a]
      BY <1>0, <3>2
    <3> HIDE DEF c, e
    <3>4. /\ attempts'[b].job = c.job /\ attempts'[b].gen = c.gen
          /\ attempts'[b].pc = "running"
      BY <3>1, <3>3 DEF Attempt
    <3> QED BY <2>1, <3>3, <3>4, TaskOfOthers DEF TaskStep, JobOf, c
  <2>3. CASE StartExpired(b) \/ StartRefused(b)
    BY <1>2, <2>1, <2>3 DEF StartExpired, StartRefused, Goto
  <2>4. CASE StartStale(b)
    BY <1>2, <2>1, <2>4 DEF StartStale, Goto, Deliverable, vars
  <2> QED BY <1>5, <2>2, <2>3, <2>4 DEF Start
<1>6. ASSUME NEW b \in Attempts,
             \/ Complete(b) \/ StaleStop(b) \/ Requeue(b)
             \/ Cancel(b) \/ Crash(b)
      PROVE  TaskStep(a)
  <2>1. PICK pc \in {"closing", "refused", "nacked", "cancelled"} : Goto(b, pc)
    BY <1>6 DEF Complete, StaleStop, Requeue, Cancel, Crash
  <2>2. ~At(b, {"idle"})
    BY <1>6 DEF Complete, StaleStop, Requeue, Cancel, Crash, At
  <2> QED BY <1>2, <2>1, <2>2 DEF Goto
<1>7. ASSUME NEW b \in Attempts, Return(b) \/ FailUnrecorded(b)
      PROVE  TaskStep(a)
  <2>1. ~At(b, {"idle"}) /\ At(b, {"running", "closing"})
    BY <1>7 DEF Return, FailUnrecorded, At
  <2> QED BY <1>2, <1>7, <2>1 DEF Return, FailUnrecorded, Goto
<1>8. ASSUME NEW b \in Attempts, Answer(b)
      PROVE  TaskStep(a)
  <2>1. ~At(b, {"idle"}) /\ UNCHANGED jobs
    BY <1>8 DEF Answer, At, vars
  <2>2. CASE Active(JobOf(b))
    BY <1>2, <1>8, <2>1, <2>2 DEF Answer, Goto
  <2>3. CASE ~Active(JobOf(b))
    BY <1>2, <1>8, <2>1, <2>3 DEF Answer, Goto, Deliverable
  <2> QED BY <2>2, <2>3
<1>9. ASSUME NEW b \in Attempts, Beat(b) \/ MissBeat(b)
      PROVE  TaskStep(a)
  <2>1. ~At(b, {"idle"})
    BY <1>9 DEF Beat, MissBeat, Beating, At
  <2>2. \/ attempts' = [attempts EXCEPT ![b].misses = 0]
        \/ attempts' = [attempts EXCEPT ![b].misses = MaxMisses]
        \/ attempts' = [attempts EXCEPT ![b].misses = @ + 1]
        \/ \E pc \in {"nacked", "cancelled"} :
              attempts' = [attempts EXCEPT ![b].misses = MaxMisses, ![b].pc = pc]
    BY <1>9 DEF Beat, BeatRenewed, BeatExpired, BeatLost, MissBeat, CancelOwner
  <2> QED BY <1>2, <2>1, <2>2
<1>10. CASE WNext
  BY <1>1, <1>3, <1>4, <1>5, <1>6, <1>7, <1>8, <1>9, <1>10
     DEF WNext, AttemptStep, FaultStep, workerVars
<1> QED BY <1>1, <1>10 DEF allVars, workerVars

\* Every delivery in flight is of an accepted job and of a generation the job has
\* reached.
TasksAreKnown ==
    \A a \in Attempts : ~At(a, {"idle"}) =>
        /\ Present(JobOf(a))
        /\ attempts[a].gen <= jobs[JobOf(a)].enqueue_generation

\* What ends the work under a generation ends it for good.
LEMMA UndeliverableStays ==
    ASSUME TypeOK, RunningIffOwned, [Next]_vars, NEW j \in Jobs, Present(j),
           NEW g \in Generations, g <= jobs[j].enqueue_generation
    PROVE  /\ Present(j)' /\ g <= jobs'[j].enqueue_generation
           /\ ~Deliverable(j, g) => ~Deliverable(j, g)'
<1>1. Present(j)' /\ TypeOK'
  BY DocumentStays, NextTypes
<1>2. jobs[j] \in Control /\ jobs'[j] \in Control
  BY <1>1 DEF TypeOK, Present
<1>3. /\ jobs[j].enqueue_generation \in Nat /\ jobs'[j].enqueue_generation \in Nat
      /\ jobs'[j].enqueue_generation >= jobs[j].enqueue_generation
      /\ g \in Nat
  BY <1>2, GenerationStep, LimitsAreNaturals DEF Control, Generations
<1>4. ~Active(j) => ~Active(j)'
  BY TerminalStep DEF Active
<1> QED BY <1>1, <1>3, <1>4 DEF Deliverable

LEMMA AnswersStep ==
    ASSUME TypeOK, WTypeOK, RunningIffOwned, TasksAreKnown,
           AckMeansDoneOrUnrecorded, [WNext]_allVars
    PROVE  (TasksAreKnown /\ AckMeansDoneOrUnrecorded)'
<1>0. [Next]_vars /\ WTypeOK'
  BY WStepIsStoreStep, WNextTypes
<1> SUFFICES ASSUME NEW a \in Attempts, ~At(a, {"idle"})'
             PROVE  /\ Present(JobOf(a))'
                    /\ attempts'[a].gen <= jobs'[JobOf(a)'].enqueue_generation
                    /\ At(a, {"acked"})' =>
                          ~Deliverable(JobOf(a), attempts[a].gen)' \/ EpochOf(a)' # 0
  BY DEF TasksAreKnown, AckMeansDoneOrUnrecorded, Deliverable, At
<1> DEFINE i == attempts'[a].job
           g == attempts'[a].gen
<1>1. attempts'[a].pc # "idle" /\ TaskStep(a)
  BY StepKeepsTask DEF At
<1>2. g \in Generations
  BY <1>0 DEF WTypeOK, Attempt
<1>3. CASE /\ UNCHANGED jobs /\ Present(i) /\ i \in Jobs
           /\ g <= jobs[i].enqueue_generation
           /\ attempts'[a].pc = "acked" => ~Deliverable(i, g)
  BY <1>3 DEF Present, Deliverable, Active, At, JobOf
<1>4. CASE /\ ~At(a, {"idle"}) /\ i = JobOf(a) /\ g = attempts[a].gen
           /\ attempts'[a].pc = "acked" =>
                 \/ At(a, {"acked"}) /\ attempts'[a].epoch = EpochOf(a)
                 \/ attempts'[a].epoch # 0
                 \/ UNCHANGED jobs /\ ~Deliverable(JobOf(a), attempts[a].gen)
  <2>1. i \in Jobs /\ Present(i) /\ g <= jobs[i].enqueue_generation
    BY <1>4, BusyAttempt DEF TasksAreKnown
  <2>2. /\ jobs'[i] # None /\ g <= jobs'[i].enqueue_generation
        /\ ~Deliverable(i, g) =>
              ~(/\ jobs'[i] # None /\ jobs'[i].state \notin TerminalStates
                /\ jobs'[i].enqueue_generation = g)
    <3> HIDE DEF i, g
    <3> QED BY <1>0, <1>2, <2>1, UndeliverableStays
            DEF Deliverable, Active, Present
  <2>3. At(a, {"acked"}) => ~Deliverable(i, g) \/ EpochOf(a) # 0
    BY <1>4 DEF AckMeansDoneOrUnrecorded, Deliverable
  <2> QED BY <1>4, <2>2, <2>3 DEF Present, Deliverable, Active, At, JobOf, EpochOf
<1> QED BY <1>1, <1>3, <1>4 DEF TaskStep

\* Cloud Tasks forgets a task only when there is nothing left to do under it,
\* whatever happens between the pre-check of the endpoint, the claim and the
\* answer; the one exception is an attempt that executed the job, failed and
\* could not store its failure.
THEOREM AnswersAreJustified == WSpec => []AckMeansDoneOrUnrecorded
<1>1. WInit => TasksAreKnown /\ AckMeansDoneOrUnrecorded
  BY DEF WInit, TasksAreKnown, AckMeansDoneOrUnrecorded, At, Idle
<1>2. WSpec => []RunningIffOwned
  BY WorkersImplementRepository, RunningIsOwned, PTL DEF ImplementsRepository
<1>3. /\ TypeOK /\ WTypeOK /\ RunningIffOwned
      /\ TasksAreKnown /\ AckMeansDoneOrUnrecorded /\ [WNext]_allVars
      => (TasksAreKnown /\ AckMeansDoneOrUnrecorded)'
  BY AnswersStep
<1> QED BY <1>1, <1>2, <1>3, WorkersTypeCorrect, PTL DEF WSpec

-----------------------------------------------------------------------------
(* Superseded attempts.                                                      *)

\* A step moves attempt a only if it is its own.
LEMMA OwnSteps ==
    ASSUME WTypeOK, [WNext]_allVars, NEW a \in Attempts, Executing(a),
           attempts'[a] # attempts[a]
    PROVE  AttemptStep(a) \/ FaultStep(a)
<1>0. attempts \in [Attempts -> Attempt]
  BY DEF WTypeOK
<1>1. attempts' # attempts /\ WNext
  BY DEF allVars, workerVars
<1>2. PICK b \in Attempts :
         \/ \E j \in Jobs, w \in Workers, g \in Generations : Receive(b, j, w, g)
         \/ AttemptStep(b)
         \/ FaultStep(b)
         \/ Close(b)
  BY <1>1 DEF WNext, workerVars
<1>3. \A c \in Attempts \ {b} : attempts'[c] = attempts[c]
  <2>1. ASSUME NEW n, NEW pc,
               \/ attempts' = [attempts EXCEPT ![b].pc = pc]
               \/ attempts' = [attempts EXCEPT ![b].misses = n]
               \/ attempts' = [attempts EXCEPT ![b].misses = n, ![b].pc = pc]
        PROVE  \A c \in Attempts \ {b} : attempts'[c] = attempts[c]
    <3> DEFINE r1 == [attempts[b] EXCEPT !.pc = pc]
               r2 == [attempts[b] EXCEPT !.misses = n]
               r3 == [attempts[b] EXCEPT !.misses = n, !.pc = pc]
    <3>1. \E r \in {r1, r2, r3} : attempts' = [attempts EXCEPT ![b] = r]
      BY <1>0, <2>1
    <3> HIDE DEF r1, r2, r3
    <3> QED BY <1>0, <3>1
  <2>2. CASE AttemptStep(b)
    <3>1. CASE Start(b)
      BY <1>0, <3>1 DEF Start, StartClaimed, StartExpired, StartRefused, StartStale, Goto
    <3>2. CASE Beat(b)
      BY <2>1, <3>2 DEF Beat, BeatRenewed, BeatExpired, BeatLost, CancelOwner
    <3>3. CASE Complete(b) \/ Return(b) \/ StaleStop(b) \/ Requeue(b) \/ Answer(b)
      BY <2>1, <3>3 DEF Complete, Return, StaleStop, Requeue, Answer, Goto
    <3> QED BY <2>2, <3>1, <3>2, <3>3 DEF AttemptStep
  <2>3. CASE FaultStep(b)
    <3>1. CASE MissBeat(b)
      BY <1>0, <3>1 DEF MissBeat, CancelOwner
    <3>2. CASE FailUnrecorded(b) \/ Cancel(b) \/ Crash(b)
      BY <2>1, <3>2 DEF FailUnrecorded, Cancel, Crash, Goto
    <3> QED BY <2>3, <3>1, <3>2 DEF FaultStep
  <2> QED BY <1>0, <1>2, <2>2, <2>3 DEF Receive, Close
<1>4. a = b
  BY <1>3
<1>5. At(a, {"running", "cancelled", "closing"})
  BY DEF Executing
<1> QED BY <1>2, <1>4, <1>5 DEF Receive, Close, At

\* Whoever finds the payload gone reports it, at any epoch.
LEMMA ExpiryIsReported ==
    ASSUME TypeOK, NEW j \in Jobs, TerminalizeExpired(j)
    PROVE  jobs'[j].error = "EXPIRED_PAYLOAD"
<1>1. jobs[j] \in Control
  BY DEF TerminalizeExpired, Active, Present, TypeOK
<1>2. jobs'[j] = Terminalized(jobs[j], "failed", "EXPIRED_PAYLOAD")
  BY DEF TerminalizeExpired, Terminalize, TypeOK
<1> QED BY <1>1, <1>2 DEF Terminalized, Control

\* Without the lease an attempt writes nothing but an expiry.
LEMMA FencedOut ==
    ASSUME TypeOK, WTypeOK, NEW a \in Attempts, Executing(a), ~Holds(a),
           AttemptStep(a) \/ FaultStep(a)
    PROVE  \/ jobs'[JobOf(a)] = jobs[JobOf(a)]
           \/ jobs'[JobOf(a)].error = "EXPIRED_PAYLOAD"
<1>1. ~At(a, {"accepted", "refused"}) /\ JobOf(a) \in Jobs
  BY BusyAttempt DEF Executing, At
<1>2. UNCHANGED jobs \/ TerminalizeExpired(JobOf(a))
  <2>1. CASE AttemptStep(a)
    <3>1. ~Start(a) /\ ~Answer(a) /\ ~Complete(a)
      BY <1>1 DEF Start, Answer, Complete, Finish, Holds, At
    <3>2. CASE Return(a) \/ StaleStop(a)
      BY <3>2 DEF Return, StaleStop, WriteRefused, vars
    <3>3. CASE Requeue(a)
      BY <3>3 DEF Requeue, WriteRefused, RequeueCancelled, Holds, vars
    <3>4. CASE Beat(a)
      BY <3>4 DEF Beat, BeatRenewed, BeatExpired, BeatLost, RenewLease,
                  OwnsLease, Holds, vars
    <3> QED BY <2>1, <3>1, <3>2, <3>3, <3>4 DEF AttemptStep
  <2>2. CASE FaultStep(a)
    BY <2>2 DEF FaultStep, FailUnrecorded, Cancel, Crash, MissBeat, RenewLease,
                OwnsLease, Holds, vars
  <2> QED BY <2>1, <2>2
<1> QED BY <1>1, <1>2, ExpiryIsReported

\* Once another attempt executes the job under a later epoch, a heartbeat, a
\* verdict or a cancellation of the older one leaves the control document as it
\* is; only the end of its payload, which any of them finds, is still reported.
THEOREM SupersededAttemptsArePowerless == WSpec => SupersededIsPowerless
<1>1. TypeOK /\ WTypeOK /\ ExclusiveEpochs /\ [WNext]_allVars
      => [\A a, b \in Attempts :
            (/\ Executing(a) /\ attempts'[a] # attempts[a]
             /\ Executing(b) /\ JobOf(b) = JobOf(a) /\ EpochOf(b) > EpochOf(a))
            => \/ jobs'[JobOf(a)] = jobs[JobOf(a)]
               \/ jobs'[JobOf(a)].error = "EXPIRED_PAYLOAD"]_allVars
  <2> SUFFICES ASSUME TypeOK, WTypeOK, ExclusiveEpochs, [WNext]_allVars,
                      NEW a \in Attempts, NEW b \in Attempts,
                      Executing(a), attempts'[a] # attempts[a],
                      Executing(b), JobOf(b) = JobOf(a), EpochOf(b) > EpochOf(a)
               PROVE  \/ jobs'[JobOf(a)] = jobs[JobOf(a)]
                      \/ jobs'[JobOf(a)].error = "EXPIRED_PAYLOAD"
    OBVIOUS
  <2>1. AttemptStep(a) \/ FaultStep(a)
    BY OwnSteps
  <2>2. /\ EpochOf(a) \in Nat /\ EpochOf(b) \in Nat /\ JobOf(a) \in Jobs
    <3>1. /\ At(a, {"running", "closing", "cancelled"}) /\ ~At(a, {"idle"})
          /\ At(b, {"running", "closing", "cancelled"}) /\ ~At(b, {"idle"})
      BY DEF Executing, At
    <3> QED BY <3>1, BusyAttempt, LimitsAreNaturals DEF Epochs
  <2>3. Present(JobOf(a)) /\ EpochOf(b) <= jobs[JobOf(a)].lease_epoch
    BY DEF ExclusiveEpochs
  <2>4. jobs[JobOf(a)].lease_epoch \in Nat
    BY <2>2, <2>3 DEF TypeOK, Present, Control
  <2>5. ~Holds(a)
    BY <2>2, <2>3, <2>4 DEF Holds, HoldsLease
  <2> QED BY <2>1, <2>5, FencedOut
<1> QED BY <1>1, WorkersTypeCorrect, EpochsAreExclusive, PTL
        DEF WSpec, SupersededIsPowerless

-----------------------------------------------------------------------------
(* The delivery path (TicketDelivery).                                     *)

-----------------------------------------------------------------------------
(* The inductive invariant.                                                  *)

\* The bounds of the model on epochs and generations.
StoreBounds ==
    \A j \in Jobs : Present(j) =>
        /\ jobs[j].enqueue_generation \in Generations
        /\ Active(j) => jobs[j].lease_epoch <= MaxEpoch

EnsurePcs == {"create", "probe", "rebump", "mark"}
ReconcilePcs == {"lock", "overdue", "inspect", "expire", "fence", "exists", "bump"}

\* A caller inside ensure_enqueued, over the tasks tk: past create_task the name
\* it works on has been used, and so has the one it will confirm.
EnsureOK(r, tk) ==
    /\ r.gen \in Generations
    /\ r.tries \in 0..2
    /\ r.expect \in Generations \cup {None}
    /\ r.pc # "create" => tk[r.job][r.gen] # "none"
    /\ r.expect \notin {None, r.gen} => tk[r.job][r.expect] # "none"

\* A reconciler with its snapshot, over the tasks tk at time t: it saw a
\* confirmed task only where there was one, and it burns a name only after it
\* has found the task gone.
ReconcileOK(r, tk, t) ==
    /\ r.seen \in Snapshot
    /\ r.owner \in Recoverers
    /\ r.at \in 0..t
    /\ r.seen.enqueue_generation \in Generations
    /\ r.seen.enqueue_state = "enqueued" =>
          tk[r.job][r.seen.enqueue_generation] # "none"
    /\ r.pc \in {"exists", "bump"} => r.seen.enqueue_state = "enqueued"
    /\ r.pc = "bump" => tk[r.job][r.seen.enqueue_generation] = "gone"

CallerOK(r, tk, t) ==
    /\ r \in Caller
    /\ r.pc \notin {"idle", "done"} => r.job \in Jobs
    /\ r.pc \in EnsurePcs => EnsureOK(r, tk)
    /\ r.pc \in ReconcilePcs => ReconcileOK(r, tk, t)

DInv ==
    /\ StoreBounds
    /\ DTypeOK
    /\ ConfirmedMeansCreated
    /\ \A c \in Callers : CallerOK(callers[c], tasks, now)

-----------------------------------------------------------------------------
(* The store: bounds, and who confirms an outbox entry.                      *)

\* No transaction passes the bounds of the model.
LEMMA BoundsStep ==
    ASSUME TypeOK, StoreBounds, [Next]_vars
    PROVE  StoreBounds'
<1> SUFFICES ASSUME NEW j \in Jobs, Present(j)'
             PROVE  /\ jobs'[j].enqueue_generation \in Generations
                    /\ jobs'[j].state \notin TerminalStates =>
                          jobs'[j].lease_epoch <= MaxEpoch
  BY DEF StoreBounds, Active
<1> DEFINE c == jobs[j]
           d == jobs'[j]
           SameCounts == /\ d.enqueue_generation = c.enqueue_generation
                         /\ d.lease_epoch = c.lease_epoch
                         /\ d.state \notin TerminalStates => c.state \notin TerminalStates
<1>0. MaxEpoch \in Nat /\ MaxGeneration \in Nat
  BY LimitsAreNaturals
<1>1. JobStep(j)
  BY NextIsJobStep
<1>2. Present(j) => c \in Control /\ c.enqueue_generation \in Generations
  BY DEF TypeOK, Present, StoreBounds
<1>3. Present(j) /\ SameCounts => /\ d.enqueue_generation \in Generations
                                  /\ d.state \notin TerminalStates => d.lease_epoch <= MaxEpoch
  BY DEF StoreBounds, Active
<1>4. CASE d = c
  BY <1>3, <1>4 DEF Present
<1>5. CASE JobCreated(j)
  BY <1>0, <1>5 DEF JobCreated, NewControl, Generations
<1>6. CASE JobClosed(j)
  <2>1. PICK st, code : /\ st \in TerminalStates
                        /\ d = Terminalized(c, st, code) \/ d = Finished(c, st, code)
    BY <1>6 DEF JobClosed, TerminalStates, WorkerVerdicts
  <2>2. c \in Control /\ c.enqueue_generation \in Generations
    BY <1>2, <1>6 DEF JobClosed, Active
  <2> HIDE DEF c
  <2>3. d.state = st /\ d.enqueue_generation = c.enqueue_generation
    BY <2>1, <2>2, TerminalizedFields, FinishedFields
  <2> QED BY <2>1, <2>2, <2>3
<1>7. CASE JobClaimed(j)
  <2>1. PICK w \in Workers : d = Claimed(c, w)
    BY <1>7 DEF JobClaimed
  <2>2. /\ c \in Control /\ c.enqueue_generation \in Generations
        /\ c.lease_epoch < MaxEpoch /\ c.lease_epoch \in Nat
    BY <1>2, <1>7 DEF JobClaimed, Active, Control
  <2> HIDE DEF c
  <2>3. d.lease_epoch = c.lease_epoch + 1 /\ d.enqueue_generation = c.enqueue_generation
    BY <2>1, <2>2, ClaimedFields
  <2> QED BY <1>0, <2>2, <2>3
<1>8. CASE JobRenewed(j)
  <2>1. c \in Control /\ Present(j)
    BY <1>2, <1>8 DEF JobRenewed, Active
  <2>2. SameCounts
    BY <1>8, <2>1 DEF JobRenewed, Control
  <2> QED BY <1>3, <2>1, <2>2
<1>9. CASE JobRequeued(j)
  <2>1. c \in Control /\ Active(j) /\ Present(j) /\ c.state \notin TerminalStates
    BY <1>2, <1>9 DEF JobRequeued, Active
  <2>2. CASE d = Requeued(c)
    <3>1. d.enqueue_generation = c.enqueue_generation /\ d.lease_epoch = c.lease_epoch
      <4> HIDE DEF c
      <4> QED BY <2>1, <2>2, RequeuedFields
    <3> QED BY <1>3, <2>1, <3>1
  <2>3. CASE d = Fenced(c) /\ c.lease_epoch < MaxEpoch /\ c.enqueue_generation < MaxGeneration
    <3>1. c.lease_epoch \in Nat /\ c.enqueue_generation \in Nat
      BY <2>1 DEF Control
    <3> HIDE DEF c
    <3>2. /\ d.enqueue_generation = c.enqueue_generation + 1
          /\ d.lease_epoch = c.lease_epoch + 1
      BY <2>1, <2>3, FencedFields
    <3> QED BY <1>0, <2>3, <3>1, <3>2 DEF Generations
  <2> QED BY <1>9, <2>2, <2>3 DEF JobRequeued
<1>10. CASE JobMarked(j)
  <2>1. c \in Control /\ Present(j)
    BY <1>2, <1>10 DEF JobMarked
  <2>2. CASE d = [c EXCEPT !.enqueue_state = "enqueued"]
    <3>1. SameCounts
      BY <2>1, <2>2 DEF Control
    <3> QED BY <1>3, <2>1, <3>1
  <2>3. CASE d = Bumped(c) /\ Active(j) /\ c.enqueue_generation < MaxGeneration
    <3>1. c.enqueue_generation \in Nat /\ c.lease_epoch <= MaxEpoch
      BY <2>1, <2>3 DEF Control, StoreBounds
    <3> HIDE DEF c
    <3>2. d.enqueue_generation = c.enqueue_generation + 1 /\ d.lease_epoch = c.lease_epoch
      BY <2>1, <2>3, BumpedFields
    <3> QED BY <1>0, <2>3, <3>1, <3>2 DEF Generations
  <2>4. CASE \E o \in Recoverers : d = Locked(c, o)
    <3>1. SameCounts
      <4> HIDE DEF c
      <4> QED BY <2>1, <2>4, LockedFields
    <3> QED BY <1>3, <2>1, <3>1
  <2> QED BY <1>10, <2>2, <2>3, <2>4 DEF JobMarked
<1> QED BY <1>1, <1>4, <1>5, <1>6, <1>7, <1>8, <1>9, <1>10 DEF JobStep

\* A step that confirms no outbox entry: what is enqueued after it was enqueued
\* before it, under the same generation.
NoConfirmation ==
    \A j \in Jobs : Present(j)' /\ jobs'[j].enqueue_state = "enqueued" =>
        /\ Present(j) /\ jobs[j].enqueue_state = "enqueued"
        /\ jobs'[j].enqueue_generation = jobs[j].enqueue_generation

SameOutbox(c, d) ==
    /\ d.enqueue_state = c.enqueue_state
    /\ d.enqueue_generation = c.enqueue_generation

\* The transactions that leave the outbox of a job as it is.
LEMMA OutboxKept ==
    ASSUME NEW c \in Control
    PROVE  /\ \A st, code : /\ SameOutbox(c, Terminalized(c, st, code))
                            /\ SameOutbox(c, Finished(c, st, code))
           /\ \A w : SameOutbox(c, Claimed(c, w))
           /\ \A o : SameOutbox(c, Locked(c, o))
           /\ SameOutbox(c, Requeued(c))
           /\ \A x : SameOutbox(c, [c EXCEPT !.lease_expires_at = x])
<1>1. \A st, code : /\ SameOutbox(c, Terminalized(c, st, code))
                    /\ SameOutbox(c, Finished(c, st, code))
  BY DEF SameOutbox, Terminalized, Finished, Control
<1>2. /\ \A w : SameOutbox(c, Claimed(c, w))
      /\ \A o : SameOutbox(c, Locked(c, o))
      /\ SameOutbox(c, Requeued(c))
  BY DEF SameOutbox, Claimed, Locked, Requeued, Control
<1>3. \A x : SameOutbox(c, [c EXCEPT !.lease_expires_at = x])
  BY DEF SameOutbox, Control
<1> QED BY <1>1, <1>2, <1>3

\* A transaction that writes one document and leaves its outbox confirms nothing.
LEMMA OneDocument ==
    ASSUME TypeOK, NEW i \in Jobs, NEW d, jobs' = [jobs EXCEPT ![i] = d],
           (Present(i) /\ SameOutbox(jobs[i], d)) \/ d.enqueue_state = "pending"
    PROVE  NoConfirmation
BY DEF NoConfirmation, SameOutbox, Present, TypeOK

\* The transactions that confirm no task: all but mark_enqueued.
LEMMA QuietTransactions ==
    ASSUME TypeOK, NEW j \in Jobs,
           \/ Admission
           \/ \E st, code, t : Active(j) /\ Terminalize(j, st, code, t)
           \/ \E w \in Workers : \E g : Claim(j, w, g)
           \/ \E w, e : RenewLease(j, w, e)
           \/ \E e : RequeueCancelled(j, e)
           \/ \E e, st, code : Finish(j, e, st, code)
           \/ BumpGeneration(j)
           \/ \E o : AcquireRecoveryLock(j, o)
           \/ \E o, e, x, t : FenceAndRequeue(j, o, e, x, t)
    PROVE  NoConfirmation
<1>0. Present(j) => jobs[j] \in Control
  BY DEF TypeOK, Present
<1>1. CASE Admission
  <2> PICK i \in Jobs, p \in Principals, k \in Keys \cup {None}, r \in Requests, t \in 0..now :
         Create(i, p, k, r, t)
    BY <1>1 DEF Admission
  <2>1. jobs' = [jobs EXCEPT ![i] = NewControl(p, k, r, t)]
    BY DEF Create
  <2>2. NewControl(p, k, r, t).enqueue_state = "pending"
    BY DEF NewControl
  <2> QED BY <2>1, <2>2, OneDocument
<1>2. ASSUME NEW st, NEW code, NEW t, Active(j), Terminalize(j, st, code, t)
      PROVE  NoConfirmation
  <2>1. Present(j) /\ jobs' = [jobs EXCEPT ![j] = Terminalized(jobs[j], st, code)]
    BY <1>2 DEF Terminalize, Active
  <2>2. SameOutbox(jobs[j], Terminalized(jobs[j], st, code))
    BY <1>0, <2>1, OutboxKept
  <2> QED BY <2>1, <2>2, OneDocument
<1>3. ASSUME NEW w \in Workers, NEW g, Claim(j, w, g)
      PROVE  NoConfirmation
  <2>1. Present(j) /\ jobs' = [jobs EXCEPT ![j] = Claimed(jobs[j], w)]
    BY <1>3 DEF Claim, Active
  <2>2. SameOutbox(jobs[j], Claimed(jobs[j], w))
    BY <1>0, <2>1, OutboxKept
  <2> QED BY <2>1, <2>2, OneDocument
<1>4. ASSUME NEW w, NEW e, RenewLease(j, w, e)
      PROVE  NoConfirmation
  <2> DEFINE d == [jobs[j] EXCEPT !.lease_expires_at = now + LeaseTime]
  <2>1. Present(j) /\ jobs' = [jobs EXCEPT ![j] = d]
    BY <1>4 DEF RenewLease, OwnsLease, HoldsLease, Active
  <2>2. SameOutbox(jobs[j], d)
    BY <1>0, <2>1, OutboxKept
  <2> HIDE DEF d
  <2> QED BY <2>1, <2>2, OneDocument
<1>5. ASSUME NEW e, RequeueCancelled(j, e)
      PROVE  NoConfirmation
  <2>1. Present(j) /\ jobs' = [jobs EXCEPT ![j] = Requeued(jobs[j])]
    BY <1>5 DEF RequeueCancelled, HoldsLease, Active
  <2>2. SameOutbox(jobs[j], Requeued(jobs[j]))
    BY <1>0, <2>1, OutboxKept
  <2> QED BY <2>1, <2>2, OneDocument
<1>6. ASSUME NEW e, NEW st, NEW code, Finish(j, e, st, code)
      PROVE  NoConfirmation
  <2>1. Present(j) /\ jobs' = [jobs EXCEPT ![j] = Finished(jobs[j], st, code)]
    BY <1>6 DEF Finish, HoldsLease, Active
  <2>2. SameOutbox(jobs[j], Finished(jobs[j], st, code))
    BY <1>0, <2>1, OutboxKept
  <2> QED BY <2>1, <2>2, OneDocument
<1>7. CASE BumpGeneration(j)
  <2>1. Present(j) /\ jobs' = [jobs EXCEPT ![j] = Bumped(jobs[j])]
    BY <1>7 DEF BumpGeneration, Active
  <2>2. Bumped(jobs[j]).enqueue_state = "pending"
    BY <1>0, <2>1, BumpedFields
  <2> QED BY <2>1, <2>2, OneDocument
<1>8. ASSUME NEW o, AcquireRecoveryLock(j, o)
      PROVE  NoConfirmation
  <2>1. Present(j) /\ jobs' = [jobs EXCEPT ![j] = Locked(jobs[j], o)]
    BY <1>8 DEF AcquireRecoveryLock
  <2>2. SameOutbox(jobs[j], Locked(jobs[j], o))
    BY <1>0, <2>1, OutboxKept
  <2> QED BY <2>1, <2>2, OneDocument
<1>9. ASSUME NEW o, NEW e, NEW x, NEW t, FenceAndRequeue(j, o, e, x, t)
      PROVE  NoConfirmation
  <2>1. Present(j) /\ jobs' = [jobs EXCEPT ![j] = Fenced(jobs[j])]
    BY <1>9 DEF FenceAndRequeue, Active
  <2>2. Fenced(jobs[j]).enqueue_state = "pending"
    BY <1>0, <2>1, FencedFields
  <2> QED BY <2>1, <2>2, OneDocument
<1> QED BY <1>1, <1>2, <1>3, <1>4, <1>5, <1>6, <1>7, <1>8, <1>9

\* Attempts confirm nothing.
LEMMA AttemptsConfirmNothing ==
    ASSUME TypeOK, WTypeOK, NEW a \in Attempts, AttemptStep(a) \/ FaultStep(a)
    PROVE  NoConfirmation
<1> DEFINE j == JobOf(a)
<1>1. UNCHANGED jobs => NoConfirmation
  BY DEF NoConfirmation, Present
<1>2. ~At(a, {"idle"})
  BY DEF AttemptStep, Start, Complete, Return, StaleStop, Requeue, Beat, Answer,
         Beating, At, FaultStep, FailUnrecorded, Cancel, Crash, MissBeat
<1>3. j \in Jobs /\ attempts[a].worker \in Workers
  BY <1>2, BusyAttempt
<1>4. \/ UNCHANGED jobs
      \/ TerminalizeExpired(j)
      \/ Claim(j, attempts[a].worker, attempts[a].gen)
      \/ RenewLease(j, attempts[a].worker, EpochOf(a))
      \/ RequeueCancelled(j, EpochOf(a))
      \/ \E st, code : Finish(j, EpochOf(a), st, code)
  <2>1. CASE Start(a)
    BY <2>1 DEF Start, StartClaimed, StartExpired, StartRefused, StartStale, vars
  <2>2. CASE Complete(a) \/ Return(a) \/ StaleStop(a) \/ Requeue(a) \/ Answer(a)
    BY <2>2 DEF Complete, Return, StaleStop, Requeue, Answer, WriteRefused, vars
  <2>3. CASE Beat(a) \/ FaultStep(a)
    BY <2>3 DEF Beat, BeatRenewed, BeatExpired, BeatLost, FaultStep,
                FailUnrecorded, Cancel, Crash, MissBeat, vars
  <2> QED BY <2>1, <2>2, <2>3 DEF AttemptStep
<1> HIDE DEF j
<1>5. TerminalizeExpired(j) => NoConfirmation
  BY <1>3, QuietTransactions DEF TerminalizeExpired
<1> QED BY <1>1, <1>3, <1>4, <1>5, QuietTransactions

-----------------------------------------------------------------------------
(* The records of the callers.                                               *)

\* A caller placed at a step of the code has the fields it was placed with.
LEMMA PlacedCaller ==
    ASSUME NEW r \in Caller, NEW pc \in CallerPcs
    PROVE  /\ [r EXCEPT !.pc = pc] \in Caller
           /\ [r EXCEPT !.pc = pc].pc = pc
           /\ [r EXCEPT !.pc = pc].job = r.job
           /\ [r EXCEPT !.pc = pc].gen = r.gen
           /\ [r EXCEPT !.pc = pc].expect = r.expect
           /\ [r EXCEPT !.pc = pc].tries = r.tries
           /\ [r EXCEPT !.pc = pc].seen = r.seen
           /\ [r EXCEPT !.pc = pc].at = r.at
           /\ [r EXCEPT !.pc = pc].owner = r.owner
BY ZenonT(60) DEF Caller

\* The record EnterEnsure writes.
Entering(r, j, g, x) ==
    [r EXCEPT !.pc = "create", !.job = j, !.gen = g, !.expect = x,
              !.tries = 0, !.seen = None, !.at = 0]

\* A caller that enters ensure_enqueued knows only the generation it read.
LEMMA EnteringCaller ==
    ASSUME NEW r \in Caller, NEW j \in Jobs, NEW g \in Generations,
           NEW x \in {None, g}, NEW tk, NEW t
    PROVE  CallerOK(Entering(r, j, g, x), tk, t)
<1> DEFINE q == Entering(r, j, g, x)
<1>1. /\ "create" \in CallerPcs /\ j \in Jobs \cup {None}
      /\ g \in Nat /\ x \in Nat \cup {None} /\ x \in Generations \cup {None}
      /\ 0 \in 0..3 /\ None \in Snapshot \cup {None} /\ 0 \in Nat
  BY LimitsAreNaturals DEF CallerPcs, Generations
<1>2. q \in Caller
  BY <1>1, ZenonT(60) DEF Caller, Entering
<1>3. /\ q.pc = "create" /\ q.job = j /\ q.gen = g /\ q.expect = x /\ q.tries = 0
  BY Zenon DEF Caller, Entering
<1> HIDE DEF q
<1>4. "create" \notin ReconcilePcs
  BY DEF ReconcilePcs
<1>5. CallerOK(q, tk, t)
  BY <1>1, <1>2, <1>3, <1>4 DEF CallerOK, EnsureOK
<1> QED BY <1>5 DEF q

\* A caller that ends its call keeps nothing of it.
LEMMA RestingCaller ==
    ASSUME NEW pc \in {"idle", "done"}, NEW tk, NEW t
    PROVE  CallerOK(Rest(pc), tk, t)
<1>1. /\ pc \in CallerPcs /\ None \in Jobs \cup {None}
      /\ 0 \in Nat /\ None \in Nat \cup {None}
      /\ 0 \in 0..3 /\ None \in Snapshot \cup {None}
      /\ None \in Recoverers \cup {None}
  BY DEF CallerPcs
<1>2. Rest(pc) \in Caller
  BY <1>1, ZenonT(60) DEF Caller, Rest
<1>3. Rest(pc).pc = pc /\ pc \notin EnsurePcs /\ pc \notin ReconcilePcs
  BY DEF Rest, EnsurePcs, ReconcilePcs
<1> QED BY <1>2, <1>3 DEF CallerOK

-----------------------------------------------------------------------------
(* The queue: a name that was used stays used, a tombstone stays.            *)

QueueForward ==
    /\ tasks' \in [Jobs -> [Generations -> TaskStates]]
    /\ \A j \in Jobs, g \in Generations :
          /\ tasks[j][g] # "none" => tasks'[j][g] # "none"
          /\ tasks[j][g] = "gone" => tasks'[j][g] = "gone"

\* create_task and the queue's own moves only take a task forward.
LEMMA TaskWrite ==
    ASSUME DTypeOK, NEW j \in Jobs, NEW g \in Generations,
           NEW st \in {"queued", "gone"},
           st = "queued" => tasks[j][g] = "none",
           tasks' = [tasks EXCEPT ![j][g] = st]
    PROVE  QueueForward /\ tasks'[j][g] = st
<1>1. tasks[j] \in [Generations -> TaskStates] /\ st \in TaskStates
  BY DEF DTypeOK, TaskStates
<1>2. [tasks[j] EXCEPT ![g] = st] \in [Generations -> TaskStates]
  BY <1>1
<1>3. tasks' = [tasks EXCEPT ![j] = [tasks[j] EXCEPT ![g] = st]]
  OBVIOUS
<1>4. tasks' \in [Jobs -> [Generations -> TaskStates]]
  BY <1>2, <1>3 DEF DTypeOK
<1>5. \A i \in Jobs, h \in Generations :
         tasks'[i][h] = IF i = j /\ h = g THEN st ELSE tasks[i][h]
  BY <1>1, <1>3 DEF DTypeOK
<1> QED BY <1>4, <1>5 DEF QueueForward

\* The queue goes forward when it stays as it is.
LEMMA QueueSame == DTypeOK /\ UNCHANGED tasks => QueueForward
BY DEF DTypeOK, QueueForward

\* What was true of a caller stays true while the others act.
LEMMA CallerStays ==
    ASSUME QueueForward, now \in Nat, now' \in Nat, now' >= now,
           NEW r, CallerOK(r, tasks, now)
    PROVE  CallerOK(r, tasks', now')
<1>1. r.pc \in EnsurePcs => r.job \in Jobs
  BY DEF CallerOK, EnsurePcs
<1>2. r.pc \in ReconcilePcs => r.job \in Jobs
  BY DEF CallerOK, ReconcilePcs
<1>3. ASSUME r.pc \in EnsurePcs
      PROVE  EnsureOK(r, tasks')
  BY <1>1, <1>3 DEF CallerOK, EnsureOK, QueueForward
<1>4. ASSUME r.pc \in ReconcilePcs
      PROVE  ReconcileOK(r, tasks', now')
  BY <1>2, <1>4 DEF CallerOK, ReconcileOK, QueueForward
<1> QED BY <1>3, <1>4 DEF CallerOK

-----------------------------------------------------------------------------
(* The steps of the callers.                                                 *)

\* Caller c alone moves, to a record in order, and the queue goes forward.
CallerMoves(c) ==
    /\ QueueForward
    /\ \E r : /\ callers' = [callers EXCEPT ![c] = r]
              /\ CallerOK(r, tasks', now)

\* A caller that rests moves as a caller may.
LEMMA RestMoves ==
    ASSUME QueueForward, NEW c, CallerRests(c)
    PROVE  CallerMoves(c)
BY RestingCaller DEF CallerRests, CallerMoves

\* A caller that enters ensure_enqueued moves as a caller may.
LEMMA EnterMoves ==
    ASSUME DInv, QueueForward, NEW c \in Callers, NEW j \in Jobs,
           NEW g \in Generations, NEW x \in {None, g}, EnterEnsure(c, j, g, x)
    PROVE  CallerMoves(c)
<1>1. callers[c] \in Caller
  BY DEF DInv, DTypeOK
<1>2. callers' = [callers EXCEPT ![c] = Entering(callers[c], j, g, x)]
  BY DEF EnterEnsure, Entering
<1>3. CallerOK(Entering(callers[c], j, g, x), tasks', now)
  BY <1>1, EnteringCaller
<1> QED BY <1>2, <1>3 DEF CallerMoves

\* A caller in ensure_enqueued goes on to pc, past create_task.
LEMMA EnsureGoes ==
    ASSUME DInv, QueueForward, NEW c \in Callers, callers[c].pc \in EnsurePcs,
           NEW pc \in EnsurePcs, CallerGoto(c, pc),
           tasks'[callers[c].job][callers[c].gen] # "none"
    PROVE  CallerMoves(c)
<1> DEFINE r == callers[c]
           q == [r EXCEPT !.pc = pc]
<1>1. /\ r \in Caller /\ r.job \in Jobs /\ EnsureOK(r, tasks)
      /\ pc \in CallerPcs /\ pc \notin ReconcilePcs
  BY DEF DInv, CallerOK, EnsurePcs, ReconcilePcs, CallerPcs
<1>2. callers' = [callers EXCEPT ![c] = q]
  BY DEF CallerGoto
<1> HIDE DEF r
<1>3. /\ q \in Caller /\ q.pc = pc /\ q.job = r.job /\ q.gen = r.gen
      /\ q.expect = r.expect /\ q.tries = r.tries
  BY <1>1, PlacedCaller
<1> HIDE DEF q
<1>4. EnsureOK(q, tasks')
  BY <1>1, <1>3 DEF EnsureOK, QueueForward, r
<1> QED BY <1>1, <1>2, <1>3, <1>4 DEF CallerOK, CallerMoves

\* A reconciler goes on to pc: past its first look at the job only for a
\* confirmed task, to the bump only for a dead one.
LEMMA ReconcileGoes ==
    ASSUME DInv, UNCHANGED tasks, NEW c \in Callers, callers[c].pc \in ReconcilePcs,
           NEW pc \in ReconcilePcs, CallerGoto(c, pc),
           pc \in {"exists", "bump"} => Seen(c).enqueue_state = "enqueued",
           pc = "bump" => tasks[CallerJob(c)][Seen(c).enqueue_generation] = "gone"
    PROVE  CallerMoves(c)
<1> DEFINE r == callers[c]
           q == [r EXCEPT !.pc = pc]
<1>1. /\ r \in Caller /\ r.job \in Jobs /\ ReconcileOK(r, tasks, now)
      /\ pc \in CallerPcs /\ pc \notin EnsurePcs
  BY DEF DInv, CallerOK, EnsurePcs, ReconcilePcs, CallerPcs
<1>2. callers' = [callers EXCEPT ![c] = q]
  BY DEF CallerGoto
<1> HIDE DEF r
<1>3. /\ q \in Caller /\ q.pc = pc /\ q.job = r.job /\ q.seen = r.seen
      /\ q.at = r.at /\ q.owner = r.owner
  BY <1>1, PlacedCaller
<1> HIDE DEF q
<1>4. ReconcileOK(q, tasks', now)
  BY <1>1, <1>3 DEF ReconcileOK, Seen, CallerJob, r
<1>5. QueueForward
  BY QueueSame DEF DInv
<1> QED BY <1>1, <1>2, <1>3, <1>4, <1>5 DEF CallerOK, CallerMoves

\* Every step of ensure_enqueued moves its caller as a caller may.
LEMMA EnsureMoves ==
    ASSUME DInv, NEW c \in Callers, EnsureStep(c)
    PROVE  CallerMoves(c)
<1> DEFINE r == callers[c]
           j == r.job
           g == r.gen
<1>1. /\ r.pc \in EnsurePcs /\ r \in Caller /\ j \in Jobs /\ EnsureOK(r, tasks)
      /\ g \in Generations
  <2>1. r.pc \in EnsurePcs
    BY DEF EnsureStep, CreateTask, ProbeTask, Rebump, Mark, CallerAt, EnsurePcs
  <2>2. CallerOK(r, tasks, now)
    BY DEF DInv
  <2> QED BY <2>1, <2>2 DEF CallerOK, EnsureOK, EnsurePcs
<1>2. DTypeOK /\ (UNCHANGED tasks => QueueForward)
  BY QueueSame DEF DInv
<1>3. CASE CreateTask(c)
  <2>1. CASE tasks[j][g] = "none"
    <3>1. tasks' = [tasks EXCEPT ![j][g] = "queued"] /\ CallerGoto(c, "mark")
      BY <1>3, <2>1 DEF CreateTask, CallerJob
    <3>2. QueueForward /\ tasks'[j][g] = "queued"
      BY <1>1, <1>2, <2>1, <3>1, TaskWrite
    <3> QED BY <1>1, <3>1, <3>2, EnsureGoes DEF EnsurePcs
  <2>2. CASE tasks[j][g] # "none"
    <3>1. UNCHANGED tasks /\ CallerGoto(c, "probe")
      BY <1>3, <2>2 DEF CreateTask, CallerJob
    <3> QED BY <1>1, <1>2, <2>2, <3>1, EnsureGoes DEF EnsurePcs
  <2> QED BY <2>1, <2>2
<1>4. CASE ProbeTask(c)
  <2>1. tasks[j][g] # "none" /\ UNCHANGED tasks
    BY <1>1, <1>4 DEF ProbeTask, CallerAt, EnsureOK
  <2>2. CallerGoto(c, "mark") \/ CallerGoto(c, "rebump")
    BY <1>4 DEF ProbeTask
  <2> QED BY <1>1, <1>2, <2>1, <2>2, EnsureGoes DEF EnsurePcs
<1>5. CASE Rebump(c)
  <2>1. UNCHANGED tasks /\ r.pc = "rebump"
    BY <1>5 DEF Rebump, CallerAt
  <2>2. CASE CallerRests(c)
    BY <1>2, <2>1, <2>2, RestMoves
  <2>3. CASE /\ BumpGeneration(j) /\ r.tries # 2
             /\ callers' = [callers EXCEPT
                    ![c].pc = "create",
                    ![c].gen = jobs[j].enqueue_generation + 1,
                    ![c].tries = @ + 1]
    <3> DEFINE h == jobs[j].enqueue_generation + 1
               n == r.tries + 1
               q == [r EXCEPT !.pc = "create", !.gen = h, !.tries = n]
    <3>1. h \in Generations /\ h \in Nat
      <4>1. Present(j) /\ jobs[j].enqueue_generation < MaxGeneration
        BY <2>3 DEF BumpGeneration, Active
      <4>2. jobs[j].enqueue_generation \in Generations
        BY <1>1, <4>1 DEF DInv, StoreBounds
      <4> QED BY <4>1, <4>2, LimitsAreNaturals DEF Generations
    <3>2. n \in 0..2 /\ n \in 0..3
      BY <1>1, <2>3 DEF EnsureOK
    <3>3. callers' = [callers EXCEPT ![c] = q]
      BY <2>3 DEF DInv, DTypeOK
    <3>4. "create" \in CallerPcs /\ "create" \in EnsurePcs /\ "create" \notin ReconcilePcs
      BY DEF CallerPcs, EnsurePcs, ReconcilePcs
    <3>5. /\ q \in Caller /\ q.pc = "create" /\ q.job = j /\ q.gen = h
          /\ q.tries = n /\ q.expect = r.expect
      <4> HIDE DEF r, h, n
      <4>1. q \in Caller
        BY <1>1, <3>1, <3>2, <3>4, ZenonT(60) DEF Caller
      <4>2. /\ q.pc = "create" /\ q.job = r.job /\ q.gen = h
            /\ q.tries = n /\ q.expect = r.expect
        BY <1>1 DEF Caller
      <4> QED BY <4>1, <4>2
    <3> HIDE DEF q, h, n
    <3>6. EnsureOK(q, tasks')
      BY <1>1, <2>1, <3>1, <3>2, <3>5 DEF EnsureOK
    <3> QED BY <1>1, <1>2, <2>1, <3>3, <3>4, <3>5, <3>6 DEF CallerOK, CallerMoves
  <2> QED BY <1>5, <2>2, <2>3 DEF Rebump, CallerJob
<1>6. CASE Mark(c)
  BY <1>2, <1>6, RestMoves DEF Mark
<1> QED BY <1>3, <1>4, <1>5, <1>6 DEF EnsureStep

\* The generation a bump creates.
LEMMA NextGeneration ==
    ASSUME StoreBounds, NEW j \in Jobs, Active(j),
           jobs[j].enqueue_generation < MaxGeneration
    PROVE  jobs[j].enqueue_generation + 1 \in Generations
<1>1. jobs[j].enqueue_generation \in Generations
  BY DEF StoreBounds, Active
<1> QED BY <1>1, LimitsAreNaturals DEF Generations

\* The end of the operator's requeue moves its caller as a caller may.
LEMMA RequeueMoves ==
    ASSUME DInv, NEW c \in Callers, Requeues(c)
    PROVE  CallerMoves(c)
<1>1. CallerJob(c) \in Jobs
  BY DEF DInv, CallerOK, Requeues, CallerAt, CallerJob
<1>2. QueueForward
  BY QueueSame DEF DInv, Requeues
<1>3. CASE CallerRests(c)
  BY <1>2, <1>3, RestMoves
<1>4. CASE /\ BumpGeneration(CallerJob(c))
           /\ EnterEnsure(c, CallerJob(c), jobs[CallerJob(c)].enqueue_generation + 1, None)
  <2>1. jobs[CallerJob(c)].enqueue_generation + 1 \in Generations
    BY <1>1, <1>4, NextGeneration DEF DInv, BumpGeneration
  <2> QED BY <1>1, <1>2, <1>4, <2>1, EnterMoves
<1> QED BY <1>3, <1>4 DEF Requeues

\* Every step of the reconciler moves its caller as a caller may.
LEMMA ReconcilerMoves ==
    ASSUME DInv, NEW c \in Callers, ReconcilerStep(c)
    PROVE  CallerMoves(c)
<1> DEFINE j == CallerJob(c)
<1>1. callers[c].pc \in ReconcilePcs
  BY DEF ReconcilerStep, Lock, EndOverdue, Inspect, EndPayloadMissing, Fence,
         LookForTask, BurnGeneration, CallerAt, ReconcilePcs
<1>2. j \in Jobs /\ ReconcileOK(callers[c], tasks, now)
  <2>1. CallerOK(callers[c], tasks, now)
    BY DEF DInv
  <2> QED BY <1>1, <2>1 DEF CallerOK, ReconcilePcs, CallerJob
<1>3. UNCHANGED tasks /\ QueueForward
  <2>1. UNCHANGED tasks
    BY DEF ReconcilerStep, Lock, EndOverdue, Inspect, EndPayloadMissing, Fence,
           LookForTask, BurnGeneration
  <2> QED BY <2>1, QueueSame DEF DInv
<1>4. ASSUME CallerRests(c) PROVE CallerMoves(c)
  BY <1>3, <1>4, RestMoves
<1>5. CASE Lock(c)
  <2>1. CASE CallerGoto(c, "overdue") \/ CallerGoto(c, "inspect")
    BY <1>1, <1>3, <2>1, ReconcileGoes DEF ReconcilePcs
  <2> QED BY <1>4, <1>5, <2>1 DEF Lock
<1>6. CASE EndOverdue(c) \/ EndPayloadMissing(c)
  BY <1>4, <1>6 DEF EndOverdue, EndPayloadMissing
<1>7. CASE Inspect(c)
  <2>1. CASE CallerGoto(c, "expire") \/ CallerGoto(c, "fence")
    BY <1>1, <1>3, <2>1, ReconcileGoes DEF ReconcilePcs
  <2>2. CASE NeedsRecheck(c) /\ CallerGoto(c, "exists")
    BY <1>1, <1>3, <2>2, ReconcileGoes DEF ReconcilePcs, NeedsRecheck
  <2>3. CASE EnterEnsure(c, j, Seen(c).enqueue_generation, Seen(c).enqueue_generation)
    BY <1>2, <1>3, <2>3, EnterMoves DEF ReconcileOK, Seen
  <2> QED BY <1>4, <1>7, <2>1, <2>2, <2>3 DEF Inspect
<1>8. CASE Fence(c)
  <2>1. CASE /\ \E o, e, x, t : FenceAndRequeue(j, o, e, x, t)
             /\ EnterEnsure(c, j, jobs[j].enqueue_generation + 1,
                            jobs[j].enqueue_generation + 1)
    <3>1. jobs[j].enqueue_generation + 1 \in Generations
      BY <1>2, <2>1, NextGeneration DEF DInv, FenceAndRequeue
    <3> HIDE DEF j
    <3> QED BY <1>2, <1>3, <2>1, <3>1, EnterMoves
  <2> QED BY <1>4, <1>8, <2>1 DEF Fence
<1>9. CASE LookForTask(c)
  <2>1. CASE /\ tasks[j][Seen(c).enqueue_generation] # "queued"
             /\ CallerGoto(c, "bump")
    <3>1. /\ Seen(c).enqueue_state = "enqueued"
          /\ Seen(c).enqueue_generation \in Generations
          /\ tasks[j][Seen(c).enqueue_generation] # "none"
      BY <1>2, <1>9 DEF ReconcileOK, LookForTask, CallerAt, Seen, CallerJob
    <3>2. tasks[j][Seen(c).enqueue_generation] \in TaskStates
      BY <1>2, <3>1 DEF DInv, DTypeOK
    <3>3. tasks[j][Seen(c).enqueue_generation] = "gone"
      BY <2>1, <3>1, <3>2 DEF TaskStates
    <3> QED BY <1>1, <1>3, <2>1, <3>1, <3>3, ReconcileGoes DEF ReconcilePcs
  <2> QED BY <1>4, <1>9, <2>1 DEF LookForTask
<1>10. CASE BurnGeneration(c)
  <2> DEFINE g == Seen(c).enqueue_generation
  <2>1. CASE BumpGenerationIf(j, g, "queued") /\ EnterEnsure(c, j, g + 1, g + 1)
    <3>1. g + 1 \in Generations
      BY <1>2, <2>1, NextGeneration DEF DInv, BumpGenerationIf, BumpGeneration
    <3> HIDE DEF g, j
    <3> QED BY <1>2, <1>3, <2>1, <3>1, EnterMoves
  <2> QED BY <1>4, <1>10, <2>1 DEF BurnGeneration
<1> QED BY <1>5, <1>6, <1>7, <1>8, <1>9, <1>10 DEF ReconcilerStep

\* The start of a producer, a requeue or a reconciliation moves its caller so.
LEMMA StartMoves ==
    ASSUME TypeOK, DInv, NEW c \in Callers, NEW j \in Jobs, CallerStart(c, j)
    PROVE  CallerMoves(c)
<1>1. callers[c] \in Caller /\ callers \in [Callers -> Caller] /\ DTypeOK
  BY DEF DInv, DTypeOK
<1>2. UNCHANGED tasks /\ QueueForward
  BY <1>1, QueueSame DEF CallerStart, Accept, Replay, ReadForRequeue, Scan
<1>3. CASE Accept(c, j)
  BY <1>2, <1>3, EnterMoves, LimitsAreNaturals DEF Accept, Generations
<1>4. CASE Replay(c, j)
  <2>1. jobs[j].enqueue_generation \in Generations
    BY <1>4 DEF Replay, DInv, StoreBounds, Active
  <2> QED BY <1>2, <1>4, <2>1, EnterMoves DEF Replay
<1>5. CASE ReadForRequeue(c, j)
  <2> DEFINE r == callers[c]
             q == [r EXCEPT !.pc = "requeue", !.job = j]
  <2>1. callers' = [callers EXCEPT ![c] = q]
    BY <1>1, <1>5 DEF ReadForRequeue
  <2>2. /\ "requeue" \in CallerPcs /\ "requeue" \notin EnsurePcs
        /\ "requeue" \notin ReconcilePcs
    BY DEF CallerPcs, EnsurePcs, ReconcilePcs
  <2>3. q \in Caller /\ q.pc = "requeue" /\ q.job = j
    <3> HIDE DEF r
    <3>1. q \in Caller
      BY <1>1, <2>2, ZenonT(60) DEF Caller, r
    <3>2. q.pc = "requeue" /\ q.job = j
      BY <1>1 DEF Caller, r
    <3> QED BY <3>1, <3>2
  <2> HIDE DEF q
  <2> QED BY <1>2, <2>1, <2>2, <2>3 DEF CallerOK, CallerMoves
<1>6. CASE Scan(c, j)
  <2> PICK o \in Recoverers :
         callers' = [callers EXCEPT ![c] =
            [callers[c] EXCEPT !.pc = "lock", !.job = j, !.seen = SnapshotOf(jobs[j]),
                               !.at = now, !.owner = o]]
    BY <1>6 DEF Scan
  <2> DEFINE r == callers[c]
             s == SnapshotOf(jobs[j])
             q == [r EXCEPT !.pc = "lock", !.job = j, !.seen = s, !.at = now, !.owner = o]
  <2>1. Present(j) /\ jobs[j] \in Control /\ now \in Nat
    BY <1>6 DEF Scan, Active, Present, TypeOK
  <2>2. /\ s \in Snapshot
        /\ s.enqueue_state = jobs[j].enqueue_state
        /\ s.enqueue_generation = jobs[j].enqueue_generation
    BY <2>1 DEF SnapshotOf, Snapshot, Control
  <2>3. /\ "lock" \in CallerPcs /\ "lock" \in ReconcilePcs /\ "lock" \notin EnsurePcs
        /\ s \in Snapshot \cup {None} /\ o \in Recoverers \cup {None}
        /\ j \in Jobs \cup {None}
    BY <2>2 DEF CallerPcs, EnsurePcs, ReconcilePcs
  <2> HIDE DEF r, s
  <2>4. /\ q \in Caller /\ q.pc = "lock" /\ q.job = j /\ q.seen = s
        /\ q.at = now /\ q.owner = o
    <3>1. q \in Caller
      BY <1>1, <2>1, <2>3, ZenonT(60) DEF Caller, r
    <3>2. /\ q.pc = "lock" /\ q.job = j /\ q.seen = s
          /\ q.at = now /\ q.owner = o
      BY <1>1 DEF Caller, r
    <3> QED BY <3>1, <3>2
  <2>5. callers' = [callers EXCEPT ![c] = q]
    BY DEF r, s
  <2> HIDE DEF q
  <2>6. ReconcileOK(q, tasks', now)
    <3>1. s.enqueue_generation \in Generations
      BY <2>1, <2>2 DEF DInv, StoreBounds
    <3>2. s.enqueue_state = "enqueued" => tasks[j][s.enqueue_generation] # "none"
      BY <2>1, <2>2 DEF DInv, ConfirmedMeansCreated
    <3> QED BY <1>2, <2>1, <2>2, <2>4, <3>1, <3>2 DEF ReconcileOK
  <2> QED BY <1>2, <2>3, <2>4, <2>5, <2>6 DEF CallerOK, CallerMoves
<1> QED BY <1>3, <1>4, <1>5, <1>6 DEF CallerStart

-----------------------------------------------------------------------------
(* Callers, queue and clock are the environment TicketWorkers allows.        *)

\* What a reconciler knows of a job it still holds a valid snapshot of lies
\* within the parameters of RecoveryStep.
LEMMA SnapshotInRange ==
    ASSUME TypeOK, DInv, NEW j \in Jobs, Active(j)
    PROVE  /\ jobs[j].state \in {"queued", "running"}
           /\ jobs[j].lease_epoch \in 0..MaxEpoch
           /\ jobs[j].lease_expires_at \in Nat
<1>1. Present(j) /\ jobs[j] \in Control /\ jobs[j].lease_epoch <= MaxEpoch
  BY DEF Active, Present, TypeOK, DInv, StoreBounds
<1> QED BY <1>1, LimitsAreNaturals DEF Active, Control, States

\* What ensure_enqueued writes is a step of TicketWorkers.
LEMMA EnsureIsStoreStep ==
    ASSUME DInv, NEW c \in Callers, EnsureStep(c) \/ Requeues(c)
    PROVE  OthersStep \/ UNCHANGED vars
<1> DEFINE j == CallerJob(c)
<1>1. j \in Jobs
  BY DEF DInv, CallerOK, EnsureStep, CreateTask, ProbeTask, Rebump, Mark,
         Requeues, CallerAt, CallerJob
<1>2. TerminalizeExpired(j) => OthersStep
  BY <1>1 DEF OthersStep
<1>3. BumpGeneration(j) => OthersStep
  BY <1>1 DEF OthersStep, OutboxStep
<1>4. ASSUME NEW g, MarkEnqueued(j, g) PROVE OthersStep
  <2>1. g \in Generations
    BY <1>1, <1>4 DEF MarkEnqueued, DInv, StoreBounds
  <2> QED BY <1>1, <1>4, <2>1 DEF OthersStep, OutboxStep
<1> HIDE DEF j
<1>5. CASE CreateTask(c) \/ ProbeTask(c)
  BY <1>5 DEF CreateTask, ProbeTask, StoreSame
<1>6. CASE Rebump(c) \/ Requeues(c)
  BY <1>2, <1>3, <1>6 DEF Rebump, Requeues, BumpRefused, StoreSame, j
<1>7. CASE Mark(c)
  BY <1>2, <1>4, <1>7 DEF Mark, Confirm, StoreSame, j
<1> QED BY <1>5, <1>6, <1>7 DEF EnsureStep

\* What the reconciler writes is a step of TicketWorkers.
LEMMA ReconcilerIsStoreStep ==
    ASSUME TypeOK, DInv, NEW c \in Callers, ReconcilerStep(c)
    PROVE  OthersStep \/ UNCHANGED vars
<1> DEFINE j == CallerJob(c)
           o == callers[c].owner
           t == callers[c].at
<1>1. /\ j \in Jobs /\ o \in Recoverers /\ t \in 0..now
      /\ CallerOK(callers[c], tasks, now)
  <2>1. callers[c].pc \in ReconcilePcs
    BY DEF ReconcilerStep, Lock, EndOverdue, Inspect, EndPayloadMissing, Fence,
           LookForTask, BurnGeneration, CallerAt, ReconcilePcs
  <2>2. CallerOK(callers[c], tasks, now)
    BY DEF DInv
  <2> QED BY <2>1, <2>2 DEF CallerOK, ReconcileOK, ReconcilePcs, CallerJob
<1>2. TerminalizeExpired(j) => OthersStep
  BY <1>1 DEF OthersStep
<1>3. RecoveryStep(j) => OthersStep
  BY <1>1 DEF OthersStep
<1> HIDE DEF j, o, t
<1>4. CASE Lock(c)
  BY <1>1, <1>3, <1>4 DEF Lock, RecoveryStep, StoreSame, j, o
<1>5. CASE EndOverdue(c)
  <2>1. CASE TerminalizeOverdue(j, o, Seen(c).state, Seen(c).lease_epoch, t)
    <3>1. /\ Seen(c).state \in {"queued", "running"}
          /\ Seen(c).lease_epoch \in 0..MaxEpoch
      BY <1>1, <2>1, SnapshotInRange DEF TerminalizeOverdue, RecoverySnapshotHolds
    <3>2. RecoveryStep(j)
      BY <1>1, <2>1, <3>1 DEF RecoveryStep
    <3> QED BY <1>3, <3>2
  <2> QED BY <1>5, <2>1 DEF EndOverdue, StoreSame, j, o, t
<1>6. CASE EndPayloadMissing(c)
  <2>1. CASE TerminalizePayloadMissing(j, o, Seen(c).state, Seen(c).lease_epoch, t)
    <3>1. /\ Seen(c).state \in {"queued", "running"}
          /\ Seen(c).lease_epoch \in 0..MaxEpoch
      BY <1>1, <2>1, SnapshotInRange
         DEF TerminalizePayloadMissing, RecoverySnapshotHolds
    <3>2. RecoveryStep(j)
      BY <1>1, <2>1, <3>1 DEF RecoveryStep
    <3> QED BY <1>3, <3>2
  <2> QED BY <1>6, <2>1 DEF EndPayloadMissing, StoreSame, j, o, t
<1>7. CASE Fence(c)
  <2> DEFINE e == Seen(c).lease_epoch
             x == Seen(c).lease_expires_at
  <2>1. CASE FenceAndRequeue(j, o, e, x, t)
    <3>1. /\ Active(j) /\ jobs[j].lease_epoch = e /\ jobs[j].lease_expires_at = x
          /\ t > x
      BY <2>1 DEF FenceAndRequeue
    <3>2. e \in 0..MaxEpoch /\ x \in Nat
      BY <1>1, <3>1, SnapshotInRange
    <3> HIDE DEF e, x
    <3>3. now \in Nat
      BY DEF TypeOK
    <3>4. x \in 0..now
      BY <1>1, <3>1, <3>2, <3>3
    <3>5. RecoveryStep(j)
      BY <1>1, <2>1, <3>2, <3>4 DEF RecoveryStep
    <3> QED BY <1>3, <3>5
  <2> QED BY <1>2, <1>7, <2>1 DEF Fence, StoreSame, j, o, t
<1>8. CASE Inspect(c) \/ LookForTask(c)
  BY <1>8 DEF Inspect, LookForTask, StoreSame
<1>9. CASE BurnGeneration(c)
  <2>1. BumpGeneration(j) => OthersStep
    BY <1>1 DEF OthersStep, OutboxStep
  <2> QED BY <1>2, <1>9, <2>1 DEF BurnGeneration, BumpGenerationIf, StoreSame, j
<1> QED BY <1>4, <1>5, <1>6, <1>7, <1>8, <1>9 DEF ReconcilerStep

\* What a starting caller writes is a step of TicketWorkers.
LEMMA StartIsStoreStep ==
    ASSUME TypeOK, NEW c, NEW j \in Jobs, CallerStart(c, j)
    PROVE  OthersStep \/ UNCHANGED vars
<1>1. CASE Accept(c, j)
  <2>1. now \in 0..now
    BY DEF TypeOK
  <2> QED BY <1>1, <2>1 DEF Accept, OthersStep, Admission
<1>2. CASE Replay(c, j) \/ ReadForRequeue(c, j) \/ Scan(c, j)
  BY <1>2 DEF Replay, ReadForRequeue, Scan, StoreSame
<1> QED BY <1>1, <1>2 DEF CallerStart

\* Every step of the system is a step of TicketWorkers or writes nothing of its.
LEMMA DStepIsWorkersStep ==
    ASSUME TypeOK, DInv, [DNext]_systemVars
    PROVE  [WNext]_allVars
<1> USE DEF WorkersSame
<1>1. ASSUME OthersStep \/ UNCHANGED vars, UNCHANGED workerVars
      PROVE  [WNext]_allVars
  BY <1>1 DEF WNext, allVars
<1>2. CASE UNCHANGED systemVars
  BY <1>1, <1>2 DEF systemVars
<1>3. CASE Clock \/ \E j \in Jobs : Ambient(j)
  BY <1>1, <1>3 DEF Clock, Ambient, OthersStep
<1>4. ASSUME NEW c \in Callers,
             \/ \E j \in Jobs : CallerStart(c, j)
             \/ CallerStep(c)
             \/ Drop(c) /\ WorkersSame
      PROVE  [WNext]_allVars
  <2>1. CASE Drop(c) /\ WorkersSame
    BY <1>1, <2>1 DEF Drop, StoreSame
  <2>2. CASE CallerStep(c)
    <3>1. OthersStep \/ UNCHANGED vars
      BY <2>2, EnsureIsStoreStep, ReconcilerIsStoreStep DEF CallerStep
    <3> QED BY <1>1, <2>2, <3>1 DEF CallerStep
  <2>3. ASSUME NEW j \in Jobs, CallerStart(c, j)
        PROVE  [WNext]_allVars
    <3>1. OthersStep \/ UNCHANGED vars
      BY <2>3, StartIsStoreStep
    <3> QED BY <1>1, <2>3, <3>1 DEF CallerStart
  <2> QED BY <1>4, <2>1, <2>2, <2>3
<1>5. ASSUME NEW a \in Attempts,
             \/ \E j \in Jobs, g \in Generations : Dispatch(a, j, g)
             \/ AttemptStep(a) \/ FaultStep(a) \/ Settle(a)
      PROVE  [WNext]_allVars
  BY <1>5 DEF Dispatch, Settle, WNext
<1> QED BY <1>2, <1>3, <1>4, <1>5 DEF DNext

-----------------------------------------------------------------------------
(* The invariant is inductive.                                               *)

\* A confirmation is of a task that was created; nothing else confirms.
Confirmation ==
    \/ NoConfirmation
    \/ \E j \in Jobs, g \in Generations :
          MarkEnqueued(j, g) /\ tasks[j][g] # "none"

\* A step that leaves the documents confirms nothing.
LEMMA NothingWritten == UNCHANGED jobs => NoConfirmation
BY DEF NoConfirmation, Present

\* terminalize_expired confirms nothing.
LEMMA ExpiryConfirmsNothing ==
    ASSUME TypeOK, NEW j \in Jobs, TerminalizeExpired(j)
    PROVE  NoConfirmation
BY QuietTransactions DEF TerminalizeExpired

\* ensure_enqueued confirms only a generation whose task was created.
LEMMA EnsureConfirms ==
    ASSUME TypeOK, DInv, NEW c \in Callers, EnsureStep(c) \/ Requeues(c)
    PROVE  Confirmation
<1> DEFINE j == CallerJob(c)
<1>1. j \in Jobs
  BY DEF DInv, CallerOK, EnsureStep, CreateTask, ProbeTask, Rebump, Mark,
         Requeues, CallerAt, CallerJob
<1>2. TerminalizeExpired(j) => NoConfirmation
  BY <1>1, ExpiryConfirmsNothing
<1>3. BumpGeneration(j) => NoConfirmation
  BY <1>1, QuietTransactions
<1>4. UNCHANGED vars => NoConfirmation
  BY NothingWritten DEF vars
<1> HIDE DEF j
<1>5. CASE CreateTask(c) \/ ProbeTask(c) \/ Rebump(c) \/ Requeues(c)
  BY <1>2, <1>3, <1>4, <1>5
     DEF CreateTask, ProbeTask, Rebump, Requeues, BumpRefused, StoreSame, j,
         Confirmation
<1>6. CASE Mark(c)
  <2>1. CASE MarkEnqueued(j, Expected(c))
    <3>1. /\ callers[c].pc \in EnsurePcs /\ callers[c].pc = "mark"
          /\ callers[c].job = j
      BY <1>6 DEF Mark, CallerAt, EnsurePcs, CallerJob, j
    <3>2. EnsureOK(callers[c], tasks)
      BY <3>1 DEF DInv, CallerOK
    <3>3. tasks[j][Expected(c)] # "none" /\ Expected(c) \in Generations
      BY <3>1, <3>2 DEF EnsureOK, Expected
    <3> QED BY <1>1, <2>1, <3>3 DEF Confirmation
  <2> QED BY <1>2, <1>4, <1>6, <2>1 DEF Mark, Confirm, StoreSame, j, Confirmation
<1> QED BY <1>5, <1>6 DEF EnsureStep

\* The reconciler confirms only a generation whose task was created.
LEMMA ReconcilerConfirms ==
    ASSUME TypeOK, DInv, NEW c \in Callers, ReconcilerStep(c)
    PROVE  NoConfirmation
<1> DEFINE j == CallerJob(c)
<1>1. j \in Jobs
  BY DEF DInv, CallerOK, ReconcilerStep, Lock, EndOverdue, Inspect,
         EndPayloadMissing, Fence, LookForTask, BurnGeneration, CallerAt, CallerJob
<1>2. TerminalizeExpired(j) => NoConfirmation
  BY <1>1, ExpiryConfirmsNothing
<1>3. BumpGeneration(j) => NoConfirmation
  BY <1>1, QuietTransactions
<1>4. UNCHANGED vars => NoConfirmation
  BY NothingWritten DEF vars
<1>5. ASSUME NEW o, NEW e, NEW x, NEW t,
             AcquireRecoveryLock(j, o) \/ FenceAndRequeue(j, o, e, x, t)
      PROVE  NoConfirmation
  BY <1>1, <1>5, QuietTransactions
<1>6. ASSUME NEW o, NEW s, NEW e, NEW t,
             TerminalizeOverdue(j, o, s, e, t) \/ TerminalizePayloadMissing(j, o, s, e, t)
      PROVE  NoConfirmation
  <2>1. \E st, code : Active(j) /\ Terminalize(j, st, code, now)
    BY <1>6 DEF TerminalizeOverdue, TerminalizePayloadMissing, RecoverySnapshotHolds
  <2> QED BY <1>1, <2>1, QuietTransactions
<1> HIDE DEF j
<1>7. CASE Lock(c)
  BY <1>4, <1>5, <1>7 DEF Lock, StoreSame, j
<1>8. CASE EndOverdue(c) \/ EndPayloadMissing(c)
  BY <1>4, <1>6, <1>8 DEF EndOverdue, EndPayloadMissing, StoreSame, j
<1>9. CASE Fence(c)
  BY <1>2, <1>4, <1>5, <1>9 DEF Fence, StoreSame, j
<1>10. CASE Inspect(c) \/ LookForTask(c)
  BY <1>4, <1>10 DEF Inspect, LookForTask, StoreSame
<1>11. CASE BurnGeneration(c)
  BY <1>2, <1>3, <1>4, <1>11 DEF BurnGeneration, BumpGenerationIf, StoreSame, j
<1> QED BY <1>7, <1>8, <1>9, <1>10, <1>11 DEF ReconcilerStep

\* What a step of the whole system does to queue and callers.
SystemMove ==
    /\ QueueForward
    /\ Confirmation
    /\ queueFaults' \in Nat
    /\ UNCHANGED callers \/ \E c \in Callers : CallerMoves(c)

\* Every step takes the queue forward, moves at most one caller and confirms
\* only what was created.
LEMMA DStepIsMove ==
    ASSUME TypeOK, WTypeOK, DInv, [DNext]_systemVars
    PROVE  SystemMove
<1>0. DTypeOK /\ queueFaults \in Nat /\ (UNCHANGED tasks => QueueForward)
  BY QueueSame DEF DInv, DTypeOK
<1>1. ASSUME UNCHANGED deliveryVars, NoConfirmation
      PROVE  SystemMove
  BY <1>0, <1>1 DEF SystemMove, deliveryVars, Confirmation
<1>2. CASE UNCHANGED systemVars
  BY <1>1, <1>2, NothingWritten DEF systemVars, vars
<1>3. CASE Clock
  BY <1>1, <1>3, NothingWritten DEF Clock, Tick
<1>4. ASSUME NEW j \in Jobs, Ambient(j)
      PROVE  SystemMove
  <2>1. PurgePayload(j) => NoConfirmation
    BY NothingWritten DEF PurgePayload
  <2>2. ASSUME PollStep(j) PROVE NoConfirmation
    <3>1. \E st, code, t : Active(j) /\ Terminalize(j, st, code, t)
      BY <2>2 DEF PollStep, TerminalizeIfUnrecoverable
    <3> QED BY <3>1, QuietTransactions
  <2> QED BY <1>1, <1>4, <2>1, <2>2 DEF Ambient
<1>5. ASSUME NEW c \in Callers, CallerStep(c)
      PROVE  SystemMove
  <2>1. CallerMoves(c)
    BY <1>5, EnsureMoves, RequeueMoves, ReconcilerMoves DEF CallerStep
  <2>2. Confirmation
    BY <1>5, EnsureConfirms, ReconcilerConfirms DEF CallerStep, Confirmation
  <2> QED BY <1>0, <1>5, <2>1, <2>2 DEF CallerStep, SystemMove, CallerMoves
<1>6. ASSUME NEW c \in Callers, NEW j \in Jobs, CallerStart(c, j)
      PROVE  SystemMove
  <2>1. CallerMoves(c)
    BY <1>6, StartMoves
  <2>2. NoConfirmation
    <3>1. CASE Accept(c, j)
      <4>1. Admission
        <5>1. now \in 0..now
          BY DEF TypeOK
        <5> QED BY <3>1, <5>1 DEF Accept, Admission
      <4> QED BY <4>1, QuietTransactions
    <3>2. CASE Replay(c, j) \/ ReadForRequeue(c, j) \/ Scan(c, j)
      BY <3>2, NothingWritten DEF Replay, ReadForRequeue, Scan, StoreSame, vars
    <3> QED BY <1>6, <3>1, <3>2 DEF CallerStart
  <2> QED BY <1>0, <1>6, <2>1, <2>2 DEF CallerStart, SystemMove, CallerMoves, Confirmation
<1>7. ASSUME NEW c \in Callers, Drop(c)
      PROVE  SystemMove
  <2>1. CallerMoves(c)
    BY <1>0, <1>7, RestMoves DEF Drop
  <2>2. NoConfirmation
    BY <1>7, NothingWritten DEF Drop, StoreSame, vars
  <2>3. queueFaults' \in Nat
    BY <1>0, <1>7 DEF Drop, SpendQueueFault
  <2> QED BY <2>1, <2>2, <2>3 DEF SystemMove, CallerMoves, Confirmation
<1>8. ASSUME NEW a \in Attempts, NEW j \in Jobs, NEW g \in Generations,
             Dispatch(a, j, g), UNCHANGED <<callers, queueFaults>>
      PROVE  SystemMove
  BY <1>1, <1>8, NothingWritten DEF Dispatch, Receive, vars, deliveryVars
<1>9. ASSUME NEW a \in Attempts, AttemptStep(a) \/ FaultStep(a),
             UNCHANGED deliveryVars
      PROVE  SystemMove
  BY <1>1, <1>9, AttemptsConfirmNothing
<1>10. ASSUME NEW a \in Attempts, Settle(a), UNCHANGED callers
       PROVE  SystemMove
  <2>1. /\ NoConfirmation /\ ~At(a, {"idle"})
    BY <1>10, NothingWritten DEF Settle, Close, vars, At
  <2>2. JobOf(a) \in Jobs /\ attempts[a].gen \in Generations
    BY <2>1, BusyAttempt
  <2>3. QueueForward
    <3>1. \/ UNCHANGED tasks
          \/ tasks' = [tasks EXCEPT ![JobOf(a)][attempts[a].gen] = "gone"]
      BY <1>10 DEF Settle
    <3> QED BY <1>0, <2>2, <3>1, TaskWrite
  <2>4. queueFaults' \in Nat
    BY <1>0, <1>10 DEF Settle, SpendQueueFault
  <2> QED BY <1>10, <2>1, <2>3, <2>4 DEF SystemMove, Confirmation
<1> QED BY <1>2, <1>3, <1>4, <1>5, <1>6, <1>7, <1>8, <1>9, <1>10 DEF DNext

\* DInv is inductive.
LEMMA DInvStep ==
    ASSUME TypeOK, WTypeOK, DInv, [DNext]_systemVars
    PROVE  DInv'
<1>1. [Next]_vars /\ SystemMove
  BY DStepIsWorkersStep, WStepIsStoreStep, DStepIsMove
<1>2. /\ StoreBounds' /\ TypeOK'
      /\ now \in Nat /\ now' \in Nat /\ now' >= now
  <2>1. StoreBounds' /\ TypeOK'
    BY <1>1, BoundsStep, NextTypes DEF DInv
  <2>2. now' >= now
    BY <1>1, NextIsTransaction DEF PayloadsRunOut
  <2> QED BY <2>1, <2>2 DEF TypeOK
<1>3. QueueForward
  BY <1>1 DEF SystemMove
<1>4. \A c \in Callers : CallerOK(callers[c], tasks', now')
  BY <1>2, <1>3, CallerStays DEF DInv
<1>5. /\ callers' \in [Callers -> Caller]
      /\ \A c \in Callers : CallerOK(callers'[c], tasks', now')
  <2>1. callers \in [Callers -> Caller]
    BY DEF DInv, DTypeOK
  <2>2. CASE UNCHANGED callers
    BY <1>4, <2>1, <2>2
  <2>3. ASSUME NEW c \in Callers, NEW r, callers' = [callers EXCEPT ![c] = r],
               CallerOK(r, tasks', now)
        PROVE  /\ callers' \in [Callers -> Caller]
               /\ \A d \in Callers : CallerOK(callers'[d], tasks', now')
    <3>1. CallerOK(r, tasks', now') /\ r \in Caller
      BY <1>2, <2>3 DEF CallerOK, ReconcileOK
    <3> QED BY <1>4, <2>1, <2>3, <3>1
  <2> QED BY <1>1, <2>2, <2>3 DEF SystemMove, CallerMoves
<1>6. DTypeOK'
  BY <1>1, <1>3, <1>5 DEF SystemMove, QueueForward, DTypeOK
<1>7. ConfirmedMeansCreated'
  <2> SUFFICES ASSUME NEW j \in Jobs, Present(j)', jobs'[j].enqueue_state = "enqueued"
               PROVE  tasks'[j][jobs'[j].enqueue_generation] # "none"
    BY DEF ConfirmedMeansCreated
  <2>1. CASE /\ Present(j) /\ jobs[j].enqueue_state = "enqueued"
             /\ jobs'[j].enqueue_generation = jobs[j].enqueue_generation
    <3>1. /\ tasks[j][jobs[j].enqueue_generation] # "none"
          /\ jobs[j].enqueue_generation \in Generations
      BY <2>1 DEF DInv, ConfirmedMeansCreated, StoreBounds
    <3> QED BY <1>3, <2>1, <3>1 DEF QueueForward
  <2>2. CASE NoConfirmation
    BY <2>1, <2>2 DEF NoConfirmation
  <2>3. ASSUME NEW i \in Jobs, NEW g \in Generations, MarkEnqueued(i, g),
               tasks[i][g] # "none"
        PROVE  tasks'[j][jobs'[j].enqueue_generation] # "none"
    <3>1. CASE i = j
      <4>1. jobs[j] \in Control /\ jobs[j].enqueue_generation = g
        BY <2>3, <3>1 DEF MarkEnqueued, Present, TypeOK
      <4>2. jobs'[j] = [jobs[j] EXCEPT !.enqueue_state = "enqueued"]
        BY <2>3, <3>1 DEF MarkEnqueued, TypeOK
      <4>3. jobs'[j].enqueue_generation = g
        BY <4>1, <4>2 DEF Control
      <4> QED BY <1>3, <2>3, <3>1, <4>3 DEF QueueForward
    <3>2. CASE i # j
      <4>1. jobs'[j] = jobs[j]
        BY <2>3, <3>2 DEF MarkEnqueued, TypeOK
      <4> QED BY <2>1, <4>1 DEF Present
    <3> QED BY <3>1, <3>2
  <2> QED BY <1>1, <2>2, <2>3 DEF SystemMove, Confirmation
<1> QED BY <1>2, <1>5, <1>6, <1>7 DEF DInv

\* DInv holds at the start.
LEMMA DInvInit == DInit => DInv
<1> SUFFICES ASSUME DInit PROVE DInv
  OBVIOUS
<1>1. StoreBounds /\ ConfirmedMeansCreated
  BY DEF DInit, WInit, Init, StoreBounds, ConfirmedMeansCreated, Present
<1>2. \A c \in Callers : callers[c] = Rest("idle")
  BY DEF DInit
<1>3. \A c \in Callers : CallerOK(callers[c], tasks, now)
  BY <1>2, RestingCaller
<1>4. Rest("idle") \in Caller
  BY RestingCaller DEF CallerOK
<1>5. DTypeOK
  BY <1>4 DEF DInit, DTypeOK, TaskStates
<1> QED BY <1>1, <1>3, <1>5 DEF DInv

\* Producers, replays, reconcilers, operators and the queue keep their types and
\* the inductive invariant, and use the attempts and the store only as
\* TicketWorkers allows: every behaviour of the system is one of TicketWorkers,
\* whose theorems, and those of TicketRepository, hold of it.
THEOREM DeliveryImplementsWorkers == DSpec => ImplementsWorkers /\ [](TypeOK /\ WTypeOK /\ DInv)
<1>1. DInit => WInit /\ TypeOK /\ WTypeOK /\ DInv
  <2>1. DInit => WInit /\ DInv
    BY DInvInit DEF DInit
  <2>2. WInit => TypeOK /\ WTypeOK
    BY WorkersInitTypes
  <2> QED BY <2>1, <2>2
<1>2. TypeOK /\ WTypeOK /\ DInv /\ [DNext]_systemVars
        => [WNext]_allVars /\ (TypeOK /\ WTypeOK /\ DInv)'
  <2> SUFFICES ASSUME TypeOK, WTypeOK, DInv, [DNext]_systemVars
               PROVE  [WNext]_allVars /\ TypeOK' /\ WTypeOK' /\ DInv'
    OBVIOUS
  <2>1. [WNext]_allVars
    BY DStepIsWorkersStep
  <2> QED BY <2>1, WNextTypes, WStepIsStoreStep, NextTypes, DInvStep
<1> QED BY <1>1, <1>2, PTL DEF DSpec, WSpec, ImplementsWorkers

\* The outbox tells the truth: however producers, replays, reconcilers and
\* operators confirm across one another, a job is marked enqueued only when a
\* task of its present generation was created (mark_enqueued, ensure_enqueued).
THEOREM ConfirmationsAreTrue == DSpec => []ConfirmedMeansCreated
<1>1. DInv => ConfirmedMeansCreated
  BY DEF DInv
<1> QED BY <1>1, DeliveryImplementsWorkers, PTL

\* Between task_exists and the bump of a recheck any caller may create, confirm
\* or burn tasks; the bump still changes the generation only if its task is
\* gone, so that a live task is never orphaned by the reconciler.
THEOREM RecheckIsSafe == DSpec => RecheckBurnsOnlyDeadNames
<1>1. TypeOK /\ WTypeOK /\ DInv /\ [DNext]_systemVars
      => [\A c \in Reconcilers, j \in Jobs :
            (/\ CallerAt(c, "bump") /\ ~CallerAt(c, "bump")'
             /\ Present(j)
             /\ jobs'[j].enqueue_generation # jobs[j].enqueue_generation)
            => tasks[j][jobs[j].enqueue_generation] # "queued"]_systemVars
  <2> SUFFICES ASSUME TypeOK, WTypeOK, DInv, DNext,
                      NEW c \in Reconcilers, NEW j \in Jobs,
                      CallerAt(c, "bump"), ~CallerAt(c, "bump")', Present(j),
                      jobs'[j].enqueue_generation # jobs[j].enqueue_generation
               PROVE  tasks[j][jobs[j].enqueue_generation] # "queued"
    OBVIOUS
  <2>0. c \in Callers /\ callers \in [Callers -> Caller] /\ callers[c].pc = "bump"
    BY DEF Callers, DInv, DTypeOK, CallerAt
  <2>1. jobs' # jobs /\ callers'[c] # callers[c]
    BY DEF CallerAt
  <2>2. CallerStep(c)
    <3>1. PICK d \in Callers :
             \/ \E i \in Jobs : CallerStart(d, i)
             \/ CallerStep(d)
             \/ Drop(d)
      BY <2>1 DEF DNext, Clock, Ambient, deliveryVars
    <3>2. CallerMoves(d)
      <4>1. CASE Drop(d)
        <5>1. QueueForward
          BY <4>1, QueueSame DEF Drop, DInv
        <5> QED BY <4>1, <5>1, RestMoves DEF Drop
      <4> QED BY <3>1, <4>1, StartMoves, EnsureMoves, RequeueMoves, ReconcilerMoves
              DEF CallerStep
    <3>3. d = c
      BY <2>0, <2>1, <3>2 DEF CallerMoves
    <3>4. ~Drop(d)
      BY <2>1 DEF Drop, StoreSame, vars
    <3>5. ~\E i \in Jobs : CallerStart(d, i)
      BY <2>0, <3>3 DEF CallerStart, Accept, Replay, ReadForRequeue, Scan, CallerAt
    <3> QED BY <3>1, <3>3, <3>4, <3>5
  <2>3. BurnGeneration(c)
    BY <2>0, <2>2 DEF CallerStep, EnsureStep, CreateTask, ProbeTask, Rebump, Mark,
                      Requeues, ReconcilerStep, Lock, EndOverdue, Inspect,
                      EndPayloadMissing, Fence, LookForTask, CallerAt
  <2> DEFINE i == CallerJob(c)
             g == Seen(c).enqueue_generation
  <2>4. i \in Jobs /\ tasks[i][g] = "gone"
    <3>1. CallerOK(callers[c], tasks, now)
      BY <2>0 DEF DInv
    <3> QED BY <2>0, <3>1 DEF CallerOK, ReconcileOK, ReconcilePcs, CallerJob, Seen
  <2>5. CASE BumpGenerationIf(i, g, "queued")
    <3>1. jobs[i].enqueue_generation = g /\ jobs' = [jobs EXCEPT ![i] = Bumped(jobs[i])]
      BY <2>5 DEF BumpGenerationIf, BumpGeneration
    <3>2. j = i
      BY <2>4, <3>1 DEF TypeOK
    <3> QED BY <2>4, <3>1, <3>2
  <2>6. CASE TerminalizeExpired(i)
    <3>1. Present(i) /\ jobs' = [jobs EXCEPT ![i] = Terminalized(jobs[i], "failed", "EXPIRED_PAYLOAD")]
      BY <2>6 DEF TerminalizeExpired, Terminalize, Active
    <3>2. jobs[i] \in Control
      BY <2>4, <3>1 DEF TypeOK, Present
    <3>3. jobs'[i].enqueue_generation = jobs[i].enqueue_generation
      BY <2>4, <3>1, <3>2, TerminalizedFields DEF TypeOK
    <3>4. \A m \in Jobs \ {i} : jobs'[m] = jobs[m]
      BY <3>1 DEF TypeOK
    <3> QED BY <3>3, <3>4
  <2> QED BY <2>1, <2>3, <2>5, <2>6 DEF BurnGeneration, StoreSame, vars
<1> QED BY <1>1, DeliveryImplementsWorkers, PTL DEF DSpec, RecheckBurnsOnlyDeadNames

=============================================================================

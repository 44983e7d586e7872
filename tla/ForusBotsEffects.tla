-------------------------- MODULE ForusBotsEffects --------------------------
(***************************************************************************)
(* The effect ledger of one generate_response inquiry: what attempts of the *)
(* worker submit to the scraping service, across lost leases, lost answers, *)
(* cancellations and crashes, and what the store remembers of it.           *)
(*                                                                          *)
(* Before an operation is posted prepare_forusbots_operation writes an      *)
(* intent; once the service answered with a job id the observer writes a    *)
(* receipt; record_inquiry_result writes the outcome and keeps both.        *)
(*                                                                          *)
(* The lease is abstracted to its epoch, its owner and whether it is live   *)
(* (TicketRepository has the clock), the circuit and the semaphore of       *)
(* the client to a refusal (ForusBotsClient has them).                      *)
(***************************************************************************)
EXTENDS Naturals, FiniteSets

CONSTANTS
    Ops,           \* the operations of an inquiry: participant, plan
    Attempts,      \* deliveries, each claims once
    Mappings,      \* modules a field mapping may ask of one operation
    Tries,         \* http_retries
    None

ASSUME EffectParameters == Tries \in Nat \ {0}
ASSUME NoneIsNoMapping == None \notin Mappings \cup Attempts

VARIABLES
    job,           \* of the control document: lease, end, verdict
    entry,         \* the inquiry's checkpoint but for the evidence in it
    intents,       \* forusbots_submit_intents: operation -> lease_epoch, 0 if none
    receipts,      \* forusbots_external_jobs: operation -> job or None
    attempts,      \* the worker's attempts
    subs,          \* their submissions
    service        \* the scraping service: key of an operation -> its job

effectVars == <<job, entry, intents, receipts, attempts, subs, service>>

-----------------------------------------------------------------------------
\* A job of the service is named by the modules it was asked for: a key has at
\* most one job, whatever is posted under it.
Job == [epoch : Nat, owner : Attempts \cup {None}, live : BOOLEAN,
        verdict : {"none", "answered", "retryable", "final", "reconcile"}]

\* How an operation ends: doubtful are the errors with needs_reconciliation,
\* refused those without it, failed a job the service says has failed.
Results == {"ok", "failed", "refused", "doubtful"}

\* execution_status, error (what _aggregate_public_error makes of it) and
\* manual_reconciliation_required.
Entry == [status : {"none", "running", "succeeded", "failed", "timeout",
                    "unprocessed"},
          error : {"none", "retryable", "final"},
          manual : BOOLEAN]

\* planning  before the field mapping     timedout  wait_for has expired
\* scraping  in _scrape_all and after     closing   the entry is terminal
\* gone      the attempt is over, tasks it left may go on
\* crashed   the process is
AttemptPcs == {"idle", "planning", "scraping", "timedout", "closing", "gone",
               "crashed"}
Attempt == [pc : AttemptPcs, epoch : Nat]

\* unsent and doubted are the back-off after a try that provably was not sent
\* and after one that may have been.
Posting == {"ready", "sent", "unsent", "doubted"}
\* escaped is any other exception.
Ended == Results \cup {"escaped"}
Sub == [pc : {"none", "prepare", "persist", "polling", "resuming"}
              \cup Posting \cup Ended,
        asks : Mappings \cup {None}, tries : 0..Tries, orphan : BOOLEAN]

NoSub == [pc |-> "none", asks |-> None, tries |-> 0, orphan |-> FALSE]

Init ==
    /\ job = [epoch |-> 0, owner |-> None, live |-> FALSE, verdict |-> "none"]
    /\ entry = [status |-> "none", error |-> "none", manual |-> FALSE]
    /\ intents = [op \in Ops |-> 0]
    /\ receipts = [op \in Ops |-> None]
    /\ attempts = [a \in Attempts |->
          [pc |-> "idle", epoch |-> 0]]
    /\ subs = [a \in Attempts |-> [op \in Ops |-> NoSub]]
    /\ service = [op \in Ops |-> None]

Pc(a) == attempts[a].pc
AttemptGoto(a, pc) == attempts' = [attempts EXCEPT ![a].pc = pc]
SubPc(a, op) == subs[a][op].pc
SubGoto(a, op, pc) == subs' = [subs EXCEPT ![a][op].pc = pc]
Asks(a, op) == subs[a][op].asks

\* An operation ends; unless its attempt still waits for it nobody cares how.
SubEnds(a, op, result) ==
    subs' = [subs EXCEPT ![a][op] =
        IF Pc(a) = "scraping" THEN [NoSub EXCEPT !.pc = result] ELSE NoSub]

Alive(a) == Pc(a) # "crashed"

JobEnded == job.verdict # "none"
Holds(a) == /\ job.owner = a /\ job.epoch = attempts[a].epoch
            /\ job.live /\ ~JobEnded

\* done_indexes: an entry with one of these is not executed again.
Terminal == {"succeeded", "failed", "timeout"}

-----------------------------------------------------------------------------
(* The lease.                                                              *)

Claim(a) ==
    /\ Pc(a) = "idle"
    /\ ~job.live /\ ~JobEnded
    /\ job' = [job EXCEPT !.epoch = @ + 1, !.owner = a, !.live = TRUE]
    /\ attempts' = [attempts EXCEPT
          ![a].epoch = job.epoch + 1,
          ![a].pc = IF entry.status \in Terminal THEN "closing" ELSE "planning"]
    /\ UNCHANGED <<entry, intents, receipts, subs, service>>

\* The heart beat fails for as long as the lease lasts.
Lapse ==
    /\ job.live /\ ~JobEnded
    /\ job' = [job EXCEPT !.live = FALSE]
    /\ UNCHANGED <<entry, intents, receipts, attempts, subs, service>>

\* Recovery ends a job nobody holds: deadline, payload, attempts used up.
EndByRecovery ==
    /\ ~job.live /\ ~JobEnded
    /\ job' = [job EXCEPT !.verdict = "final", !.owner = None]
    /\ UNCHANGED <<entry, intents, receipts, attempts, subs, service>>

-----------------------------------------------------------------------------
(* An operation: _run_operation, _observed_submit, _submit_and_poll.        *)

\* What outlives the attempt that waited for it.
Waiting(a) == [op \in Ops |-> IF SubPc(a, op) \in Ended THEN NoSub
                              ELSE subs[a][op]]

\* Mutant of Prepare: an attempt that lost its lease posts all the same.
PrepareUnfenced(a, op) ==
    /\ SubPc(a, op) = "prepare" /\ Alive(a)
    /\ IF intents[op] # 0 /\ receipts[op] # None
       THEN SubGoto(a, op, "resuming") /\ UNCHANGED intents
       ELSE SubGoto(a, op, "ready")
            /\ intents' = [intents EXCEPT ![op] = attempts[a].epoch]
    /\ UNCHANGED <<job, entry, receipts, attempts, service>>

\* Mutant of Prepare: a receipt of an earlier attempt is not looked up.
PrepareAgain(a, op) ==
    /\ SubPc(a, op) = "prepare" /\ Alive(a)
    /\ IF Holds(a)
       THEN /\ SubGoto(a, op, "ready")
            /\ intents' = [intents EXCEPT ![op] = attempts[a].epoch]
            /\ UNCHANGED attempts
       ELSE /\ subs' = [subs EXCEPT ![a][op] = NoSub]
            /\ AttemptGoto(a, "gone")
            /\ UNCHANGED intents
    /\ UNCHANGED <<job, entry, receipts, service>>

\* prepare_forusbots_operation: refused to anybody but the holder (the attempt
\* ends, the other operation goes on by itself); a receipt is resumed;
\* otherwise the intent is written, or taken over, under this epoch.  The
\* fingerprint is the job's, so it never differs between attempts.
Prepare(a, op) ==
    /\ SubPc(a, op) = "prepare" /\ Alive(a)
    /\ \/ /\ ~Holds(a)
          /\ subs' = [subs EXCEPT ![a] = [Waiting(a) EXCEPT ![op] = NoSub]]
          /\ AttemptGoto(a, IF Pc(a) = "scraping" THEN "gone" ELSE Pc(a))
          /\ UNCHANGED <<entry, intents>>
       \/ /\ Holds(a)
          /\ intents[op] # 0 /\ receipts[op] # None
          /\ SubGoto(a, op, "resuming")
          /\ UNCHANGED <<entry, intents, attempts>>
       \/ /\ Holds(a)
          /\ receipts[op] = None
          /\ SubGoto(a, op, "ready")
          /\ intents' = [intents EXCEPT ![op] = attempts[a].epoch]
          /\ entry' = [entry EXCEPT !.status = "running"]
          /\ UNCHANGED attempts
    /\ UNCHANGED <<job, receipts, service>>

\* The circuit is open: nothing is posted, or the job is not observed.
CircuitOpen(a, op) ==
    /\ Alive(a)
    /\ \/ SubPc(a, op) = "ready" /\ SubEnds(a, op, "refused")
       \/ SubPc(a, op) = "resuming" /\ SubEnds(a, op, "doubtful")
    /\ UNCHANGED <<job, entry, intents, receipts, attempts, service>>

Send(a, op) ==
    /\ Alive(a) /\ SubPc(a, op) \in {"ready", "unsent", "doubted"}
    /\ subs' = [subs EXCEPT ![a][op].pc = "sent", ![a][op].tries = @ + 1]
    /\ UNCHANGED <<job, entry, intents, receipts, attempts, service>>

\* The service takes what is posted under a new key.
Take(a, op) ==
    /\ service[op] = None
    /\ service' = [service EXCEPT ![op] = Asks(a, op)]

\* 202 with the id of the key's job.
Accepted(a, op) ==
    /\ Alive(a) /\ SubPc(a, op) = "sent"
    /\ \/ Take(a, op)
       \/ service[op] = Asks(a, op) /\ UNCHANGED service
    /\ SubGoto(a, op, "persist")
    /\ UNCHANGED <<job, entry, intents, receipts, attempts>>

\* 409: the key stands for another payload.
Conflict(a, op) ==
    /\ Alive(a) /\ SubPc(a, op) = "sent"
    /\ service[op] \notin {None, Asks(a, op)}
    /\ SubEnds(a, op, "doubtful")
    /\ UNCHANGED <<job, entry, intents, receipts, attempts, service>>

\* Mutant of Unheard: one try too many.
UnheardOnceMore(a, op) ==
    /\ Alive(a) /\ SubPc(a, op) = "sent"
    /\ Take(a, op) \/ UNCHANGED service
    /\ IF subs[a][op].tries <= Tries THEN SubGoto(a, op, "doubted")
       ELSE SubEnds(a, op, "doubtful")
    /\ UNCHANGED <<job, entry, intents, receipts, attempts>>

\* No answer, 408, 429 or 5xx, whether the service took it or not.
Unheard(a, op) ==
    /\ Alive(a) /\ SubPc(a, op) = "sent"
    /\ Take(a, op) \/ UNCHANGED service
    /\ IF subs[a][op].tries < Tries THEN SubGoto(a, op, "doubted")
       ELSE SubEnds(a, op, "doubtful")
    /\ UNCHANGED <<job, entry, intents, receipts, attempts>>

\* An error of _PRESEND_SAFE: nobody waits for a retry of an orphan.
Unsent(a, op) ==
    /\ Alive(a) /\ SubPc(a, op) = "sent"
    /\ IF subs[a][op].tries < Tries /\ ~subs[a][op].orphan
       THEN SubGoto(a, op, "unsent")
       ELSE SubEnds(a, op, "refused")
    /\ UNCHANGED <<job, entry, intents, receipts, attempts, service>>

\* 3xx, 4xx.
Refused(a, op) ==
    /\ Alive(a) /\ SubPc(a, op) = "sent"
    /\ SubEnds(a, op, "refused")
    /\ UNCHANGED <<job, entry, intents, receipts, attempts, service>>

\* Any other exception, of the store or of the transport, ends the operation
\* and the inquiry, not the other operation.
Escape(a, op) ==
    /\ Alive(a)
    /\ \/ SubPc(a, op) = "prepare" /\ UNCHANGED service
       \/ SubPc(a, op) = "sent" /\ (Take(a, op) \/ UNCHANGED service)
    /\ SubEnds(a, op, "escaped")
    /\ UNCHANGED <<job, entry, intents, receipts, attempts>>

\* A POST of a process that is no more arrives.
LateArrival(a, op) ==
    /\ ~Alive(a) /\ SubPc(a, op) = "sent"
    /\ Take(a, op)
    /\ subs' = [subs EXCEPT ![a][op] = NoSub]
    /\ UNCHANGED <<job, entry, intents, receipts, attempts>>

\* Mutant of Persist: a failure of the observer is ignored.
PersistOrNot(a, op) ==
    /\ Alive(a) /\ SubPc(a, op) = "persist"
    /\ SubGoto(a, op, "polling")
    /\ receipts' = [receipts EXCEPT ![op] =
          IF intents[op] = attempts[a].epoch THEN service[op] ELSE @]
    /\ UNCHANGED <<job, entry, intents, attempts, service>>

\* record_forusbots_external_job: the reservation, not the lease, has to be the
\* attempt's own.  A refusal or a failing store is ForusBotsCheckpointFailed.
Persist(a, op) ==
    /\ Alive(a) /\ SubPc(a, op) = "persist"
    /\ \/ /\ intents[op] = attempts[a].epoch
          /\ receipts[op] \in {None, service[op]}
          /\ receipts' = [receipts EXCEPT ![op] = service[op]]
          /\ SubGoto(a, op, "polling")
       \/ SubEnds(a, op, "doubtful") /\ UNCHANGED receipts
    /\ UNCHANGED <<job, entry, intents, attempts, service>>

\* The job's end is seen (a failure the service calls an interruption is in
\* doubt), or polling fails or lasts too long.
Poll(a, op) ==
    /\ Alive(a) /\ SubPc(a, op) \in {"polling", "resuming"}
    /\ \E end \in {"ok", "failed", "doubtful"} : SubEnds(a, op, end)
    /\ UNCHANGED <<job, entry, intents, receipts, attempts, service>>

OpStep(a, op) ==
    \/ Prepare(a, op) \/ CircuitOpen(a, op) \/ Send(a, op) \/ Accepted(a, op)
    \/ Conflict(a, op) \/ Unheard(a, op) \/ Unsent(a, op) \/ Refused(a, op)
    \/ Escape(a, op) \/ LateArrival(a, op) \/ Persist(a, op) \/ Poll(a, op)

-----------------------------------------------------------------------------
(* An attempt: _execute, _handle_gr and _scrape_all.                        *)

\* Mutant of Record: the new entry replaces the old one, evidence and all.
RecordOver(a, e) ==
    /\ IF Holds(a)
       THEN /\ entry' = e
            /\ intents' = [op \in Ops |-> 0]
            /\ receipts' = [op \in Ops |-> None]
            /\ AttemptGoto(a, "closing")
       ELSE AttemptGoto(a, "gone") /\ UNCHANGED <<entry, intents, receipts>>
    /\ subs' = [subs EXCEPT ![a] = Waiting(a)]
    /\ UNCHANGED <<job, service>>

\* record_inquiry_result with _merge_effect_checkpoint: the holder's entry is
\* written, the evidence stays.
Record(a, e) ==
    /\ IF Holds(a) THEN entry' = e /\ AttemptGoto(a, "closing")
       ELSE AttemptGoto(a, "gone") /\ UNCHANGED entry
    /\ subs' = [subs EXCEPT ![a] = Waiting(a)]
    /\ UNCHANGED <<job, intents, receipts, service>>

NewEntry(status, error, manual) ==
    [status |-> status, error |-> error, manual |-> manual]

\* The field mapping decides which operations are asked for what.
Scrape(a) ==
    /\ Pc(a) = "planning"
    /\ \E asks \in [Ops -> Mappings \cup {None}] :
          subs' = [subs EXCEPT ![a] = [op \in Ops |->
              IF asks[op] = None THEN NoSub
              ELSE [NoSub EXCEPT !.pc = "prepare", !.asks = asks[op]]]]
    /\ AttemptGoto(a, "scraping")
    /\ UNCHANGED <<job, entry, intents, receipts, service>>

\* Nothing is submitted: the required data are not to be had (the entry
\* succeeded, degraded), the diagnostics are no durable document, or the budget
\* is spent.
Unplanned(a) ==
    /\ Pc(a) = "planning"
    /\ \/ \E error \in {"retryable", "final"} :
             Record(a, NewEntry("succeeded", error, FALSE))
       \/ Record(a, NewEntry("failed", "final", FALSE))
       \/ Record(a, NewEntry("unprocessed", "retryable", FALSE))

Gathered(a) == \A op \in Ops : SubPc(a, op) \in Results \cup {"none"}

\* _one, _entry_from_outcome: a doubt asks for a human, a failed operation
\* degrades; without either the answer itself may fail, for good or not.
Answer(a) ==
    LET doubt == \E op \in Ops : SubPc(a, op) = "doubtful"
        short == \E op \in Ops : SubPc(a, op) \in {"failed", "refused"}
    IN  /\ Pc(a) = "scraping" /\ Gathered(a)
        /\ \E error \in IF doubt \/ short THEN {"final"}
                        ELSE {"none", "final", "retryable"} :
              Record(a, NewEntry("succeeded", error, doubt))

\* Any other exception, before or after the scrapes or in one of them: the
\* route alone asks for a human.
AnswerFails(a) ==
    /\ \/ Pc(a) = "planning"
       \/ /\ Pc(a) = "scraping"
          /\ Gathered(a) \/ \E op \in Ops : SubPc(a, op) = "escaped"
    /\ Record(a, NewEntry("failed", "final", TRUE))

\* Cancellation reaches the submissions: one whose POST may be out goes on
\* without its waiter, any other ends.
Cancelled(a) ==
    subs' = [subs EXCEPT ![a] = [op \in Ops |->
        IF SubPc(a, op) \in {"sent", "doubted", "persist", "polling"}
        THEN [subs[a][op] EXCEPT !.orphan = TRUE] ELSE NoSub]]

\* asyncio.wait_for expires; the checkpoint says so and asks for a human.
TimeOut(a) ==
    /\ Pc(a) \in {"planning", "scraping"}
    /\ Cancelled(a)
    /\ AttemptGoto(a, "timedout")
    /\ UNCHANGED <<job, entry, intents, receipts, service>>

RecordTimeOut(a) ==
    /\ Pc(a) = "timedout"
    /\ Record(a, NewEntry("timeout", "final", TRUE))

\* Shutdown or a lost lease: the holder gives the job back.
Cancel(a) ==
    /\ Pc(a) \in {"planning", "scraping", "timedout", "closing"}
    /\ IF Pc(a) = "closing" THEN UNCHANGED subs ELSE Cancelled(a)
    /\ AttemptGoto(a, "gone")
    /\ job' = IF Holds(a) THEN [job EXCEPT !.owner = None, !.live = FALSE]
              ELSE job
    /\ UNCHANGED <<entry, intents, receipts, service>>

\* The process ends; what it has sent is on its way.
Crash(a) ==
    /\ Pc(a) \notin {"idle", "crashed"}
    /\ Pc(a) = "gone" => \E op \in Ops : SubPc(a, op) # "none"
    /\ AttemptGoto(a, "crashed")
    /\ subs' = [subs EXCEPT ![a] = [op \in Ops |->
          IF SubPc(a, op) = "sent" THEN subs[a][op] ELSE NoSub]]
    /\ UNCHANGED <<job, entry, intents, receipts, service>>

\* aggregate_states and _aggregate_public_error of one inquiry.
Verdict ==
    IF entry.manual THEN "reconcile"
    ELSE IF entry.error = "none" THEN "answered" ELSE entry.error

Finish(a) ==
    /\ Pc(a) = "closing"
    /\ AttemptGoto(a, "gone")
    /\ job' = IF Holds(a)
              THEN [job EXCEPT !.verdict = Verdict, !.owner = None,
                               !.live = FALSE]
              ELSE job
    /\ UNCHANGED <<entry, intents, receipts, subs, service>>

AttemptStep(a) ==
    \/ Claim(a) \/ Scrape(a) \/ Unplanned(a) \/ Answer(a) \/ AnswerFails(a)
    \/ TimeOut(a) \/ RecordTimeOut(a) \/ Cancel(a) \/ Crash(a) \/ Finish(a)

Next ==
    \/ Lapse \/ EndByRecovery
    \/ \E a \in Attempts : AttemptStep(a)
    \/ \E a \in Attempts, op \in Ops : OpStep(a, op)

Spec == Init /\ [][Next]_effectVars

-----------------------------------------------------------------------------
(* Properties.                                                             *)

TypeOK ==
    /\ job \in Job /\ entry \in Entry
    /\ intents \in [Ops -> Nat]
    /\ receipts \in [Ops -> Mappings \cup {None}]
    /\ attempts \in [Attempts -> Attempt]
    /\ subs \in [Attempts -> [Ops -> Sub]]
    /\ service \in [Ops -> Mappings \cup {None}]

\* Nothing is posted without a durable intent at least as new as the poster, so
\* that whatever the service holds can be traced to the inquiry, however late a
\* POST arrives and whoever has died since.
EffectsAreReserved ==
    /\ \A a \in Attempts, op \in Ops : SubPc(a, op) \in Posting \cup {"persist"}
          => 0 < attempts[a].epoch /\ attempts[a].epoch <= intents[op]
    /\ \A op \in Ops : service[op] # None => intents[op] # 0

\* An operation with a receipt is resumed and never posted again: only attempts
\* superseded before the receipt was written may still be at it.
ReceiptedIsNotReposted ==
    \A a \in Attempts, op \in Ops :
        receipts[op] # None /\ SubPc(a, op) \in Posting
            => attempts[a].epoch < intents[op]

\* Results rest on jobs that are on record: whoever observes an operation, or
\* has observed it and answers by it, finds its receipt, and the receipt is true.
\* A receipt that could not be written is never passed over.
ObservedMeansReceipted ==
    \A a \in Attempts, op \in Ops :
        SubPc(a, op) \in {"polling", "resuming", "ok", "failed"}
            => receipts[op] # None /\ receipts[op] = service[op]

\* The evidence of an effect is permanent: checkpoints of later outcomes, late
\* receipts and new attempts never erase or replace it.
EvidenceIsPermanent ==
    [][\A op \in Ops : /\ intents[op] <= intents'[op]
                       /\ receipts[op] # None => receipts'[op] = receipts[op]
      ]_effectVars

\* What _aggregate_public_error says of itself: an effect that the service may
\* have accepted, here one that it has and that no receipt tells of, dominates
\* a retryable failure.
DoubtDominatesRetryable ==
    [][job.verdict = "none" /\ job'.verdict = "retryable" =>
          \A op \in Ops : service[op] # None => receipts[op] # None
      ]_effectVars

=============================================================================

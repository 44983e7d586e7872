--------------------------- MODULE TicketExecution ---------------------------
(***************************************************************************)
(* The body of a job (api/ticket_worker.py _execute) over its attempts:    *)
(* extraction, the plan that is stored once, one checkpoint per inquiry    *)
(* and the verdict drawn from the checkpoints.  Inside it the branches of  *)
(* the orchestrator, by which of their external calls fail.                *)
(*                                                                         *)
(* Attempts are serial here: a fenced attempt cannot write (TicketWorkers) *)
(* and the intents of the scraping service are in ForusBotsEffects.        *)
(***************************************************************************)
EXTENDS Naturals, Sequences, FiniteSets, SequencesExt, FiniteSetsExt

CONSTANTS
    MaxExtracted,   \* bound: inquiries one extraction yields
    MaxRelated,     \* TICKET_MAX_RELATED
    Modes,          \* ticket_handler_mode of the jobs considered
    MaxAttempts,    \* bound: claims of the job
    NoPlan          \* execution_plan is null

ASSUME ExecutionAssumption ==
    /\ MaxExtracted \in Nat /\ MaxRelated \in Nat /\ MaxAttempts \in Nat
    /\ Modes \subseteq {"shadow", "knowledge_only", "full"}

VARIABLES
    job,        \* mode, state, next_action, public_error_code
    plan,       \* execution_plan: total_inquiries and the classifications
    entries,    \* per_inquiry_status
    attempt,    \* the attempt under way
    attempts    \* claims so far

evars == <<job, plan, entries, attempt, attempts>>

Cap     == 1 + MaxRelated
Indices == 1 .. Cap

-----------------------------------------------------------------------------
(* Error codes, in the order of _PUBLIC_ERROR_PRIORITY.                    *)

Priority == <<"reconcile", "internal", "unsafe_query", "llm", "scrape",
              "kb_transient", "scrape_timeout", "inquiry_timeout",
              "total_timeout", "unprocessed">>

\* The codes an entry carries with retryable false.
Final == {"reconcile", "internal", "unsafe_query", "llm", "scrape"}

First(codes) == Priority[Min({n \in DOMAIN Priority : Priority[n] \in codes})]

-----------------------------------------------------------------------------
(* The outcome of an inquiry.  diag is what its diagnostics and metadata   *)
(* say went wrong, wrong whether some call of it did.                      *)

\* outcome_is_degraded: the first signal that is set names the code.
Signals ==
    <<<<{"manual"}, "reconcile">>,
      <<{"required_data_transient"}, "kb_transient">>,
      <<{"required_data"}, "internal">>,
      <<{"scrape_timeout"}, "scrape_timeout">>,
      <<{"scrape"}, "scrape">>,
      <<{"kq_synthesis", "gr_body", "field_mapping", "parse"}, "llm">>,
      <<{"unsafe_query"}, "unsafe_query">>,
      <<{"coverage_transient"}, "kb_transient">>,
      <<{"coverage"}, "internal">>,
      <<{"answer_transient"}, "kb_transient">>,
      <<{"knowledge_error"}, "internal">>,
      <<{"generate_error"}, "llm">>>>

Code(diag) ==
    IF diag = {} THEN "none"
    ELSE Signals[Min({n \in DOMAIN Signals : Signals[n][1] \cap diag # {}})][2]

\* classify: a pack that failed, a verdict that two models did not put into
\* JSON; low confidence and thin coverage end in needs_more_info.
PackSignals == {"none", "unsafe_query", "coverage", "coverage_transient"}

Classified(pack, verdict, confident, covered) ==
    LET route == IF \/ pack = "unsafe_query" \/ verdict = "unreadable" \/ ~confident
                    \/ verdict = "knowledge_question" /\ ~covered
                 THEN "needs_more_info" ELSE verdict
    IN  [route |-> route,
         diag  |-> ({pack} \ {"none"}) \cup
                   (IF verdict = "unreadable" /\ pack # "unsafe_query"
                    THEN {"parse"} ELSE {})]

\* An empty or failed pack has no top score.
Classifications ==
    {Classified(q[1], q[2], q[3], q[1] = "none" /\ q[4]) :
        q \in PackSignals \X {"knowledge_question", "generate_response",
                              "needs_more_info", "unreadable"}
              \X BOOLEAN \X BOOLEAN}

\* An execution_plan: the classifications of the inquiries under the cap.
PlanType == [total : Nat, cls : Seq(Classifications)]

ASSUME PlanAssumption == NoPlan \notin PlanType

\* _handle_kq and ask_knowledge_question. An answer the model left empty or
\* garbled is replaced by a sentence that says so.
KQOutcome(cls, synthesis, answer) ==
    CASE synthesis = "failed"       -> [diag |-> cls.diag \cup {"kq_synthesis"}, wrong |-> TRUE]
      [] synthesis = "insufficient" -> [diag |-> cls.diag, wrong |-> cls.diag # {}]
      [] OTHER ->
           [diag |-> cls.diag \cup
                     (CASE answer = "transient" -> {"answer_transient"}
                        [] answer = "error"     -> {"knowledge_error"}
                        [] OTHER                -> {}),
            wrong |-> cls.diag # {} \/ answer # "ok"]

\* The combined status of _scrape_all: the participant's dominates.
ScrapeStatus(ppt, pln) ==
    CASE ppt = "unasked"                    -> pln
      [] ppt = "ok" /\ pln \notin {"ok", "unasked"} -> "partial"
      [] OTHER                              -> ppt

ScrapeSignals(ppt, pln) ==
    LET status == ScrapeStatus(ppt, pln)
    IN  (IF {ppt, pln} \cap {"timeout", "doubtful"} # {} THEN {"manual"} ELSE {})
        \cup (CASE status \in {"ok", "unasked"} -> {}
                [] status = "timeout"           -> {"scrape_timeout"}
                [] OTHER                        -> {"scrape"})

\* _handle_gr, with _map_fields, _scrape_all, _extract_ticket_fields,
\* _build_gr_body and generate_response. mapped says how the fields were mapped:
\* by table, by the model, or by a model that failed.
GROutcome(cls, run) ==
    IF run.data # "ok"
    THEN [diag |-> cls.diag \cup {IF run.data = "transient" THEN "required_data_transient"
                                  ELSE "required_data"},
          wrong |-> TRUE]
    ELSE [diag |-> cls.diag
             \cup (IF run.mapped = "failed" THEN {"field_mapping"} ELSE {})
             \cup ScrapeSignals(run.ppt, run.pln)
             \cup (IF run.body = "failed" THEN {"gr_body"} ELSE {})
             \cup (CASE run.answer = "transient" -> {"answer_transient"}
                     [] run.answer = "error"     -> {"generate_error"}
                     [] OTHER                    -> {}),
          wrong |-> \/ cls.diag # {}
                    \/ run.mapped = "failed" \/ run.body = "failed"
                    \/ ScrapeSignals(run.ppt, run.pln) # {}
                    \/ run.extracted = "failed" /\ run.mapped # "table"
                    \/ run.answer # "ok"]

Scraped == {"unasked", "ok", "partial", "failed", "timeout", "doubtful"}
\* late, unreadable: the call timed out, or what it returned is no answer.
Answers == {"ok", "transient", "error", "late", "unreadable"}

GRRuns == [data : {"ok"}, mapped : {"table", "model", "failed"}, ppt : Scraped,
           pln : Scraped, extracted : {"ok", "failed"}, body : {"ok", "failed"},
           answer : Answers]
          \cup [data : {"transient", "broken"}, mapped : {"table"},
                ppt : {"unasked"}, pln : {"unasked"}, extracted : {"ok"},
                body : {"ok"}, answer : {"ok"}]

\* _entry_from_outcome; a reply is safe iff nothing is degraded.
Entry(status, code, safe, coerced, manual, wrong) ==
    [status |-> status, code |-> code, safe |-> safe, coerced |-> coerced,
     manual |-> manual, wrong |-> wrong]

OutcomeEntry(o) ==
    Entry("succeeded", Code(o.diag), o.diag = {}, FALSE, "manual" \in o.diag, o.wrong)

Outcomes(cls) ==
    CASE cls.route = "knowledge_question" ->
           {KQOutcome(cls, s, a) : s \in {"ok", "failed", "insufficient"}, a \in Answers \ {"late"}}
      [] cls.route = "generate_response" -> {GROutcome(cls, run) : run \in GRRuns}
      [] OTHER -> {[diag |-> cls.diag, wrong |-> cls.diag # {}]}

EntriesOf == [cls \in Classifications |-> {OutcomeEntry(o) : o \in Outcomes(cls)}]

NoEntry  == Entry("none", "none", FALSE, FALSE, FALSE, FALSE)
Unprocessed == Entry("unprocessed", "total_timeout", FALSE, FALSE, FALSE, TRUE)
TimedOut(cls, late) ==
    Entry("timeout", IF cls.route = "generate_response" THEN "reconcile"
                     ELSE IF late THEN "total_timeout" ELSE "inquiry_timeout",
          FALSE, FALSE, cls.route = "generate_response", TRUE)
\* A document that cannot be stored is noticed before anything is submitted.
Broken(cls, unsubmitted) ==
    Entry("failed", "internal", FALSE, FALSE,
          cls.route = "generate_response" /\ ~unsubmitted, TRUE)
Coerced(cls)  == Entry("succeeded", "none", FALSE, TRUE, FALSE, cls.diag # {})
Shadowed(cls) == Entry("succeeded", "none", FALSE, FALSE, FALSE, cls.diag # {})

-----------------------------------------------------------------------------
(* The verdict.                                                            *)

Planned == 1 .. Len(plan.cls)
Stored  == {i \in Planned : entries[i].status # "none"}

\* Mutant of Aggregate: what lies beyond the cap is forgotten.
AggregateCapped(all, beyond) ==
    IF all # {} /\ (\A e \in all : e.status = "succeeded" /\ e.safe)
    THEN <<"succeeded", "reply">> ELSE <<"partial", "legacy_or_human">>

\* aggregate_states over the stored entries.
Aggregate(all, beyond) ==
    LET whole == beyond = 0 /\ \A e \in all : e.status = "succeeded" /\ e.code = "none"
    IN  IF all = {} THEN <<"failed", "legacy_or_human">>
        ELSE IF whole /\ (\A e \in all : e.safe) THEN <<"succeeded", "reply">>
        ELSE IF whole /\ (\E e \in all : e.coerced) /\ (\A e \in all : e.safe \/ e.coerced)
        THEN <<"succeeded", "legacy">>
        ELSE <<IF \A e \in all : e.status = "timeout" THEN "timeout"
               ELSE IF \A e \in all : e.status # "succeeded" THEN "failed"
               ELSE "partial", "legacy_or_human">>

\* Mutant of PublicError: the first error found.
PublicErrorAny(all, beyond) ==
    LET codes == {e.code : e \in all} \ {"none"}
    IN  IF beyond > 0 THEN "unprocessed" ELSE IF codes = {} THEN "none" ELSE CHOOSE c \in codes : TRUE

\* _aggregate_public_error.
PublicError(all, beyond) ==
    LET codes == ({e.code : e \in all} \ {"none"})
                 \cup (IF beyond > 0 THEN {"unprocessed"} ELSE {})
    IN  IF \E e \in all : e.manual THEN "reconcile"
        ELSE IF codes = {} THEN "none" ELSE First(codes)

-----------------------------------------------------------------------------
Idle == [pc |-> "idle", i |-> 0, done |-> {}, draft |-> NoEntry, late |-> FALSE]

Init ==
    /\ job \in [mode : Modes, state : {"queued"}, next : {"none"}, error : {"none"}]
    /\ plan = NoPlan
    /\ entries = [i \in Indices |-> NoEntry]
    /\ attempt = Idle
    /\ attempts = 0

Goto(pc) == attempt' = [attempt EXCEPT !.pc = pc]

End(state, next, error) ==
    /\ job' = [job EXCEPT !.state = state, !.next = next, !.error = error]
    /\ attempt' = [attempt EXCEPT !.pc = "over"]

\* Mutant of DoneIndexes: whatever has an entry is left as it is.
DoneIndexesAll == {i \in Indices : entries[i].status # "none"}

\* done_indexes: unprocessed is not done.
DoneIndexes == {i \in Indices : entries[i].status \notin {"none", "unprocessed"}}

Claim ==
    /\ job.state = "queued" /\ attempts < MaxAttempts
    /\ attempts' = attempts + 1
    /\ job' = [job EXCEPT !.state = "running"]
    /\ attempt' = [Idle EXCEPT !.pc = "planning"]
    /\ UNCHANGED <<plan, entries>>

\* The job's deadline has passed before this attempt begins.
Overdue ==
    /\ attempt.pc = "planning"
    /\ End("timeout", "legacy_or_human", "job_deadline")
    /\ UNCHANGED <<plan, entries, attempts>>

\* min(TICKET_ATTEMPT_BUDGET_S, what the job's deadline leaves) is used up.
Expire ==
    /\ attempt.pc \in {"looping", "saving"} /\ ~attempt.late
    /\ attempt' = [attempt EXCEPT !.late = TRUE]
    /\ UNCHANGED <<job, plan, entries, attempts>>

\* extract_inquiries has no answer or no array; items out of contract are
\* dropped; with nothing left there is nothing to do.
ExtractFails ==
    /\ attempt.pc = "planning" /\ plan = NoPlan
    /\ \E error \in {"llm_retryable", "llm"} : End("failed", "legacy_or_human", error)
    /\ UNCHANGED <<plan, entries, attempts>>

ExtractNothing ==
    /\ attempt.pc = "planning" /\ plan = NoPlan
    /\ End("succeeded", "legacy_or_human", "none")
    /\ UNCHANGED <<plan, entries, attempts>>

\* The plan is stored with every classification.
Extract ==
    /\ attempt.pc = "planning" /\ plan = NoPlan
    /\ \E total \in 1 .. MaxExtracted :
         \E cls \in [1 .. Min({total, Cap}) -> Classifications] :
            plan' = [total |-> total, cls |-> cls]
    /\ attempt' = [attempt EXCEPT !.pc = "looping", !.i = 1, !.done = DoneIndexes]
    /\ UNCHANGED <<job, entries, attempts>>

\* A later attempt takes the plan it finds.
Rehydrate ==
    /\ attempt.pc = "planning" /\ plan # NoPlan
    /\ attempt' = [attempt EXCEPT !.pc = "looping", !.i = 1, !.done = DoneIndexes]
    /\ UNCHANGED <<job, plan, entries, attempts>>

\* An exception outside of the inquiries: run_ticket_job fails the job.
Raise ==
    /\ attempt.pc \in {"planning", "looping", "saving"}
    /\ End("failed", "legacy_or_human", "internal")
    /\ UNCHANGED <<plan, entries, attempts>>

Cls == plan.cls[attempt.i]
Working == attempt.pc = "looping" /\ attempt.i <= Len(plan.cls)

Skip ==
    /\ Working /\ attempt.i \in attempt.done
    /\ attempt' = [attempt EXCEPT !.i = @ + 1]
    /\ UNCHANGED <<job, plan, entries, attempts>>

\* Neither shadowed, nor out of time, nor held back by its mode: the inquiry
\* goes to the orchestrator.
Unshadowed ==
    /\ job.mode # "shadow" /\ ~attempt.late
    /\ ~(job.mode = "knowledge_only" /\ Cls.route = "generate_response")

\* The entry this inquiry will get.
Drafts ==
    IF Unshadowed THEN EntriesOf[Cls]
    ELSE {IF job.mode = "shadow" THEN Shadowed(Cls)
          ELSE IF attempt.late THEN Unprocessed ELSE Coerced(Cls)}

Handle ==
    /\ Working /\ attempt.i \notin attempt.done
    /\ \E e \in Drafts : attempt' = [attempt EXCEPT !.draft = e, !.pc = "saving"]
    /\ UNCHANGED <<job, plan, entries, attempts>>

\* asyncio.wait_for over handle_inquiry, or an exception of it.
HandleTimesOut ==
    /\ Working /\ attempt.i \notin attempt.done /\ Unshadowed
    /\ \E late \in BOOLEAN :
         attempt' = [attempt EXCEPT !.draft = TimedOut(Cls, late), !.pc = "saving", !.late = late]
    /\ UNCHANGED <<job, plan, entries, attempts>>

HandleFails ==
    /\ Working /\ attempt.i \notin attempt.done /\ Unshadowed
    /\ \E unsubmitted \in BOOLEAN :
         attempt' = [attempt EXCEPT !.draft = Broken(Cls, unsubmitted), !.pc = "saving"]
    /\ UNCHANGED <<job, plan, entries, attempts>>

Checkpoint ==
    /\ attempt.pc = "saving"
    /\ entries' = [entries EXCEPT ![attempt.i] = attempt.draft]
    /\ attempt' = [attempt EXCEPT !.pc = "looping", !.i = @ + 1, !.draft = NoEntry]
    /\ UNCHANGED <<job, plan, attempts>>

\* The write raises, done or not: the inquiry is stored as failed.
CheckpointRaises ==
    /\ attempt.pc = "saving" /\ attempt.draft.status = "succeeded" /\ job.mode # "shadow"
    /\ \E landed \in BOOLEAN :
         entries' = IF landed THEN [entries EXCEPT ![attempt.i] = attempt.draft] ELSE entries
    /\ attempt' = [attempt EXCEPT !.draft = Broken(Cls, FALSE)]
    /\ UNCHANGED <<job, plan, attempts>>

Finish ==
    LET all     == {entries[i] : i \in Stored}
        beyond  == plan.total - Len(plan.cls)
        verdict == Aggregate(all, beyond)
        next    == IF verdict[1] = "succeeded" /\ (\E e \in all : e.coerced)
                   THEN "legacy" ELSE verdict[2]
    IN  /\ attempt.pc = "looping" /\ attempt.i > Len(plan.cls)
        /\ IF job.mode = "shadow" THEN End("succeeded", "legacy", "none")
           ELSE End(verdict[1], next,
                    IF verdict[1] = "succeeded" THEN "none" ELSE PublicError(all, beyond))
        /\ UNCHANGED <<plan, entries, attempts>>

\* Shutdown, a lost lease, a crash: the job is queued again as it stands.
Interrupt ==
    /\ attempt.pc \in {"planning", "looping", "saving"}
    /\ job' = [job EXCEPT !.state = "queued"]
    /\ attempt' = Idle
    /\ UNCHANGED <<plan, entries, attempts>>

Next ==
    \/ Claim \/ Overdue \/ Expire
    \/ ExtractFails \/ ExtractNothing \/ Extract \/ Rehydrate
    \/ Skip \/ Handle \/ HandleTimesOut \/ HandleFails
    \/ Checkpoint \/ CheckpointRaises \/ Finish
    \/ Raise \/ Interrupt

Spec == Init /\ [][Next]_evars

-----------------------------------------------------------------------------
(* Properties.                                                             *)

\* A reply goes to the participant only when every inquiry of the ticket, none
\* cut off by the cap, ended in an entry of its own that is safe, in a mode and
\* on a route that may answer, across attempts, timeouts and checkpoints that
\* raised (aggregate_states and the loop that feeds it).
ReplyIsWhole ==
    job.next = "reply" =>
        /\ job.mode # "shadow"
        /\ plan.total <= Cap /\ Stored = 1 .. plan.total
        /\ \A i \in Stored :
              /\ entries[i].status = "succeeded" /\ entries[i].safe
              /\ ~entries[i].coerced /\ ~entries[i].manual
              /\ job.mode = "knowledge_only" => plan.cls[i].route # "generate_response"

\* Any inquiry left unprocessed was left so by the attempt that closed the job,
\* for lack of time, and not inherited from an attempt that had less of it
\* (done_indexes).
UnprocessedIsNotSkipped ==
    /\ job.state \in {"partial", "failed", "timeout", "succeeded"}
    /\ job.error # "internal" /\ job.error # "job_deadline"
    /\ \E i \in Indices : entries[i].status = "unprocessed"
    => attempt.late

\* A caller told to retry is never told so about a ticket one of whose
\* inquiries failed for good (_aggregate_public_error).
RetryableIsNotFinal ==
    job.error \in {"kb_transient", "scrape_timeout", "inquiry_timeout",
                   "total_timeout", "unprocessed"} =>
        \A i \in Stored : entries[i].code \notin Final /\ ~entries[i].manual

\* "Cualquier señal técnica cuenta" (outcome_is_degraded): no answer that a
\* technical failure has shaped is sent to the participant.
TechnicalSignalCounts ==
    job.next = "reply" => \A i \in Stored : ~entries[i].wrong

=============================================================================

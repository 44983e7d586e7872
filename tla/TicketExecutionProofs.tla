------------------------ MODULE TicketExecutionProofs -------------------------
(* Proofs about the body of a job, for every cap, every number of attempts   *)
(* and every set of modes: what the verdict promises of the checkpoints. An  *)
(* entry is told with the mode and the route it was made under (EntryOK),    *)
(* and behind the index of the loop every inquiry has one (Passed); the      *)
(* verdict, a function of a set of entries, is then read back to each        *)
(* inquiry.                                                                  *)
EXTENDS TicketExecution, SequenceTheorems, WellFoundedInduction, TLAPS

\* The codes of _PUBLIC_ERROR_PRIORITY.
Codes == {Priority[n] : n \in DOMAIN Priority}

\* The codes a caller is told to retry after.
Retryable == {"kb_transient", "scrape_timeout", "inquiry_timeout", "total_timeout", "unprocessed"}

\* What a diagnostic can say.
AllSignals == UNION {Signals[n][1] : n \in DOMAIN Signals}

\* Min of a non-empty set of numbers is its least member: CHOOSE finds one, for
\* "less than" is well founded.
LEMMA MinFound ==
  ASSUME NEW S \in SUBSET Nat, S # {}
  PROVE  Min(S) \in S /\ \A n \in S : Min(S) <= n
<1> DEFINE R == {p \in Nat \X Nat : p[1] < p[2]}
<1>1. IsWellFoundedOn(R, Nat)
  BY NatLessThanWellFounded DEF OpToRel
<1>2. PICK m \in S : \A n \in S : ~(<<n, m>> \in R)
  <2> HIDE DEF R
  <2> QED BY <1>1, WFMin
<1>3. ASSUME NEW n \in S PROVE m <= n
  <2>1. ~(n < m)
    BY <1>2
  <2> QED BY <2>1
<1> QED BY <1>3 DEF Min

\* The codes that are final rank before those a caller may retry after.
LEMMA CodeNames ==
  /\ DOMAIN Priority = 1 .. 10
  /\ Codes = Final \cup Retryable
  /\ \A n \in 1 .. 5 : Priority[n] \in Final
  /\ \A n \in 6 .. 10 : Priority[n] \in Retryable
  /\ Final \cap Retryable = {}
<1>1. DOMAIN Priority = 1 .. 10
  BY DEF Priority
<1>2. /\ Priority[1] = "reconcile" /\ Priority[2] = "internal" /\ Priority[3] = "unsafe_query"
      /\ Priority[4] = "llm" /\ Priority[5] = "scrape" /\ Priority[6] = "kb_transient"
      /\ Priority[7] = "scrape_timeout" /\ Priority[8] = "inquiry_timeout"
      /\ Priority[9] = "total_timeout" /\ Priority[10] = "unprocessed"
  BY DEF Priority
<1>3. \A n \in 1 .. 5 : Priority[n] \in Final
  BY <1>2 DEF Final
<1>4. \A n \in 6 .. 10 : Priority[n] \in Retryable
  BY <1>2 DEF Retryable
<1>5. Codes = Final \cup Retryable
  BY <1>1, <1>2 DEF Codes, Final, Retryable
<1> QED BY <1>1, <1>3, <1>4, <1>5 DEF Final, Retryable

\* The first of some codes is one of them; where it is retryable none is final.
LEMMA FirstRanks ==
  ASSUME NEW codes \in SUBSET Codes, codes # {}
  PROVE  First(codes) \in codes /\ (First(codes) \in Retryable => codes \cap Final = {})
<1> DEFINE N == {n \in DOMAIN Priority : Priority[n] \in codes}
<1>1. N \in SUBSET Nat /\ N # {}
  BY CodeNames DEF Codes
<1>2. Min(N) \in N /\ \A n \in N : Min(N) <= n
  BY <1>1, MinFound
<1>3. First(codes) = Priority[Min(N)] /\ First(codes) \in codes
  BY <1>2 DEF First
<1>4. ASSUME First(codes) \in Retryable, NEW c \in codes, c \in Final PROVE FALSE
  <2>1. PICK m \in DOMAIN Priority : c = Priority[m]
    BY DEF Codes
  <2>2. m \in N /\ m \in 1 .. 5
    BY <1>4, <2>1, CodeNames
  <2>3. Min(N) \in 6 .. 10
    BY <1>2, <1>3, <1>4, CodeNames
  <2> HIDE DEF N
  <2> QED BY <1>2, <2>2, <2>3
<1> QED BY <1>3, <1>4

\* Whatever the diagnostics, the code of an entry is one of the list.
LEMMA CodeIsKnown ==
  ASSUME NEW diag \in SUBSET AllSignals
  PROVE  Code(diag) \in Codes \cup {"none"}
<1> DEFINE M == {n \in DOMAIN Signals : Signals[n][1] \cap diag # {}}
<1>1. DOMAIN Signals = 1 .. 12
  BY DEF Signals
<1>2. \A n \in 1 .. 12 : Signals[n][2] \in Codes
  BY CodeNames DEF Signals, Final, Retryable
<1>3. diag # {} => M \in SUBSET Nat /\ M # {}
  BY <1>1 DEF AllSignals
<1> HIDE DEF M
<1>4. diag # {} => Min(M) \in 1 .. 12
  BY <1>1, <1>3, MinFound DEF M
<1> QED BY <1>2, <1>4 DEF Code, M

-----------------------------------------------------------------------------
\* The signals, by name.
LEMMA SignalNames ==
  AllSignals = {"manual", "required_data_transient", "required_data", "scrape_timeout", "scrape",
                "kq_synthesis", "gr_body", "field_mapping", "parse", "unsafe_query",
                "coverage_transient", "coverage", "answer_transient", "knowledge_error",
                "generate_error"}
<1>1. DOMAIN Signals = 1 .. 12
  BY DEF Signals
<1>2. /\ Signals[1][1] = {"manual"} /\ Signals[2][1] = {"required_data_transient"}
      /\ Signals[3][1] = {"required_data"} /\ Signals[4][1] = {"scrape_timeout"}
      /\ Signals[5][1] = {"scrape"}
      /\ Signals[6][1] = {"kq_synthesis", "gr_body", "field_mapping", "parse"}
      /\ Signals[7][1] = {"unsafe_query"} /\ Signals[8][1] = {"coverage_transient"}
      /\ Signals[9][1] = {"coverage"} /\ Signals[10][1] = {"answer_transient"}
      /\ Signals[11][1] = {"knowledge_error"} /\ Signals[12][1] = {"generate_error"}
  BY DEF Signals
<1>3. \A x : x \in AllSignals <=> \E n \in 1 .. 12 : x \in Signals[n][1]
  BY <1>1 DEF AllSignals
<1> QED BY <1>2, <1>3

\* A classification leaves no other signal.
LEMMA ClassifiedSignals ==
  ASSUME NEW cls \in Classifications
  PROVE  cls.diag \subseteq AllSignals
<1>1. PICK q \in PackSignals \X {"knowledge_question", "generate_response", "needs_more_info",
                                 "unreadable"} \X BOOLEAN \X BOOLEAN :
        cls = Classified(q[1], q[2], q[3], q[1] = "none" /\ q[4])
  BY DEF Classifications
<1>2. cls.diag = ({q[1]} \ {"none"}) \cup
                 (IF q[2] = "unreadable" /\ q[1] # "unsafe_query" THEN {"parse"} ELSE {})
  BY <1>1, Zenon DEF Classified
<1>3. q[1] \in PackSignals
  OBVIOUS
<1> QED BY <1>2, <1>3, SignalNames DEF PackSignals

\* Nor does an outcome of the orchestrator.
LEMMA OutcomeSignals ==
  ASSUME NEW cls \in Classifications, NEW o \in Outcomes(cls)
  PROVE  o.diag \subseteq AllSignals
<1>1. cls.diag \subseteq AllSignals
  BY ClassifiedSignals
<1>2. ASSUME NEW s, NEW a, o = KQOutcome(cls, s, a) PROVE o.diag \subseteq AllSignals
  <2>1. o.diag \subseteq cls.diag \cup {"kq_synthesis", "answer_transient", "knowledge_error"}
    BY <1>2 DEF KQOutcome
  <2> QED BY <1>1, <2>1, SignalNames
<1>3. ASSUME NEW run, o = GROutcome(cls, run) PROVE o.diag \subseteq AllSignals
  <2>1. ScrapeSignals(run.ppt, run.pln) \subseteq {"manual", "scrape_timeout", "scrape"}
    BY DEF ScrapeSignals
  <2>2. o.diag \subseteq cls.diag \cup ScrapeSignals(run.ppt, run.pln)
          \cup {"required_data_transient", "required_data", "field_mapping", "gr_body",
                "answer_transient", "generate_error"}
    BY <1>3 DEF GROutcome
  <2> QED BY <1>1, <2>1, <2>2, SignalNames
<1>4. ASSUME o = [diag |-> cls.diag, wrong |-> cls.diag # {}] PROVE o.diag \subseteq AllSignals
  BY <1>1, <1>4
<1>5. CASE cls.route = "knowledge_question"
  BY <1>2, <1>5 DEF Outcomes
<1>6. CASE cls.route = "generate_response"
  BY <1>3, <1>6 DEF Outcomes
<1>7. CASE cls.route \notin {"knowledge_question", "generate_response"}
  BY <1>4, <1>7 DEF Outcomes
<1> QED BY <1>5, <1>6, <1>7

\* What the orchestrator leaves of an inquiry: an answer is safe only if no
\* signal at all is set.
LEMMA EntriesAreTold ==
  ASSUME NEW cls \in Classifications, NEW e \in EntriesOf[cls]
  PROVE  /\ e.code \in Codes \cup {"none"} /\ e.status = "succeeded" /\ ~e.coerced
         /\ e.safe => ~e.manual
<1>1. PICK o \in Outcomes(cls) : e = OutcomeEntry(o)
  BY DEF EntriesOf
<1>2. Code(o.diag) \in Codes \cup {"none"}
  BY OutcomeSignals, CodeIsKnown
<1>3. /\ e.code = Code(o.diag) /\ e.status = "succeeded" /\ e.coerced = FALSE
      /\ e.safe = (o.diag = {}) /\ e.manual = ("manual" \in o.diag)
  BY <1>1, Zenon DEF OutcomeEntry, Entry
<1> QED BY <1>2, <1>3

-----------------------------------------------------------------------------
\* An entry, of the inquiry that cls was found for.
EntryOK(e, cls) ==
  /\ e.code \in Codes \cup {"none"}
  /\ e.safe => /\ e.status = "succeeded" /\ ~e.coerced /\ ~e.manual
               /\ job.mode # "shadow"
               /\ job.mode = "knowledge_only" => cls.route # "generate_response"

ShapesOK ==
  /\ DOMAIN job = {"mode", "state", "next", "error"}
  /\ DOMAIN attempt = {"pc", "i", "done", "draft", "late"}
  /\ entries = [i \in Indices |-> entries[i]]
  /\ attempt.i \in Nat

\* The plan is cut at the cap and nowhere else.
PlanOK ==
  plan # NoPlan =>
    /\ plan \in PlanType
    /\ Len(plan.cls) <= Cap /\ Len(plan.cls) <= plan.total
    /\ Len(plan.cls) < plan.total => Len(plan.cls) = Cap

EntriesOK ==
  \A i \in Indices :
    IF entries[i].status = "none" THEN entries[i] = NoEntry
    ELSE plan # NoPlan /\ i <= Len(plan.cls) /\ EntryOK(entries[i], plan.cls[i])

\* Behind the index every inquiry has its entry, and none was left for lack of
\* time unless the time is over.
Passed ==
  \A j \in Indices : j < attempt.i =>
    entries[j].status # "none" /\ (entries[j].status = "unprocessed" => attempt.late)

LoopOK ==
  attempt.pc \in {"looping", "saving"} =>
    /\ plan # NoPlan /\ attempt.i \in 1 .. Len(plan.cls) + 1
    /\ Passed
    /\ \A j \in Indices : j \in attempt.done => entries[j].status \notin {"none", "unprocessed"}

DraftOK ==
  attempt.pc = "saving" =>
    /\ attempt.i <= Len(plan.cls) /\ attempt.i \notin attempt.done
    /\ attempt.draft.status # "none"
    /\ attempt.draft.status = "unprocessed" => attempt.late
    /\ EntryOK(attempt.draft, plan.cls[attempt.i])

Open ==
  /\ job.state \in {"queued", "running"}
  /\ job.next = "none" /\ job.error = "none"

StateOK ==
  /\ attempt.pc \in {"idle", "planning", "looping", "saving", "over"}
  /\ attempt.pc # "over" => Open
  /\ attempt.pc = "over" => job.state # "queued"

XInv ==
  /\ ShapesOK /\ PlanOK /\ EntriesOK /\ LoopOK /\ DraftOK /\ StateOK
  /\ ReplyIsWhole /\ UnprocessedIsNotSkipped /\ RetryableIsNotFinal

\* Of an open job nothing is promised.
LEMMA OpenIsSafe ==
  ASSUME Open
  PROVE  ReplyIsWhole /\ UnprocessedIsNotSkipped /\ RetryableIsNotFinal
BY DEF Open, ReplyIsWhole, UnprocessedIsNotSkipped, RetryableIsNotFinal

\* The job as it is queued.
LEMMA InitTold ==
  ASSUME ExecutionAssumption, PlanAssumption, Init
  PROVE  XInv
<1>1. ShapesOK
  BY DEF Init, ShapesOK, Idle
<1>2. attempt.pc = "idle" /\ Open
  BY DEF Init, Idle, Open
<1>3. PlanOK
  BY DEF Init, PlanOK
<1>4. EntriesOK
  BY DEF Init, EntriesOK, NoEntry, Entry
<1>5. LoopOK /\ DraftOK /\ StateOK
  BY <1>2 DEF LoopOK, DraftOK, StateOK
<1> QED BY <1>1, <1>2, <1>3, <1>4, <1>5, OpenIsSafe DEF XInv

\* An attempt ends, and with it the job.
LEMMA EndKeeps ==
  ASSUME XInv, NEW state, NEW next, NEW error, End(state, next, error), state # "queued",
         UNCHANGED <<plan, entries>>
  PROVE  /\ ShapesOK' /\ PlanOK' /\ EntriesOK' /\ LoopOK' /\ DraftOK' /\ StateOK'
         /\ job'.mode = job.mode /\ job'.state = state /\ job'.next = next /\ job'.error = error
         /\ attempt'.late = attempt.late
<1>1. ShapesOK
  BY DEF XInv
<1>2. /\ DOMAIN job' = DOMAIN job /\ job'.mode = job.mode
      /\ job'.state = state /\ job'.next = next /\ job'.error = error
  BY <1>1 DEF End, ShapesOK
<1>3. /\ DOMAIN attempt' = DOMAIN attempt /\ attempt'.pc = "over"
      /\ attempt'.late = attempt.late /\ attempt'.i = attempt.i
  BY <1>1 DEF End, ShapesOK
<1>4. ShapesOK'
  BY <1>1, <1>2, <1>3 DEF ShapesOK
<1>5. PlanOK'
  BY DEF XInv, PlanOK
<1>6. EntriesOK'
  BY <1>2 DEF XInv, EntriesOK, EntryOK
<1>7. LoopOK' /\ DraftOK' /\ StateOK'
  BY <1>2, <1>3 DEF LoopOK, DraftOK, StateOK
<1> QED BY <1>2, <1>3, <1>4, <1>5, <1>6, <1>7

\* The same of the state a step leads to.
LEMMA OpenStaysSafe ==
  ASSUME Open'
  PROVE  ReplyIsWhole' /\ UnprocessedIsNotSkipped' /\ RetryableIsNotFinal'
BY DEF Open, ReplyIsWhole, UnprocessedIsNotSkipped, RetryableIsNotFinal

\* With no plan there is no entry.
LEMMA NothingStored ==
  ASSUME EntriesOK, plan = NoPlan
  PROVE  \A i \in Indices : entries[i] = NoEntry
BY DEF EntriesOK

\* Ends that draw no verdict.
LEMMA CloseStep ==
  ASSUME XInv, Overdue \/ ExtractFails \/ ExtractNothing \/ Raise
  PROVE  XInv'
<1>1. PICK state \in {"timeout", "failed", "succeeded"},
           error \in {"job_deadline", "llm_retryable", "llm", "none", "internal"} :
        /\ End(state, "legacy_or_human", error)
        /\ error \in {"job_deadline", "internal"} \/ plan = NoPlan
        /\ UNCHANGED <<plan, entries>>
  <2>1. CASE Overdue
    BY <2>1 DEF Overdue
  <2>2. CASE ExtractFails
    BY <2>2 DEF ExtractFails
  <2>3. CASE ExtractNothing
    BY <2>3 DEF ExtractNothing
  <2>4. CASE Raise
    BY <2>4 DEF Raise
  <2> QED BY <2>1, <2>2, <2>3, <2>4
<1>2. /\ ShapesOK' /\ PlanOK' /\ EntriesOK' /\ LoopOK' /\ DraftOK' /\ StateOK'
      /\ job'.next = "legacy_or_human" /\ job'.error = error
  BY <1>1, EndKeeps
<1>3. ReplyIsWhole'
  BY <1>2 DEF ReplyIsWhole
<1>4. UnprocessedIsNotSkipped'
  <2>1. plan = NoPlan => \A i \in Indices : entries'[i].status # "unprocessed"
    BY <1>1, NothingStored DEF XInv, NoEntry, Entry
  <2> QED BY <1>1, <1>2, <2>1 DEF UnprocessedIsNotSkipped
<1>5. RetryableIsNotFinal'
  BY <1>1, <1>2 DEF RetryableIsNotFinal
<1> QED BY <1>2, <1>3, <1>4, <1>5 DEF XInv

\* The verdict: the loop is through, so the stored entries are those of all the
\* inquiries planned, and a reply or a retryable error is read back to each.
LEMMA FinishStep ==
  ASSUME ExecutionAssumption, XInv, Finish
  PROVE  XInv'
<1> DEFINE all == {entries[i] : i \in Stored}
           beyond == plan.total - Len(plan.cls)
           verdict == Aggregate(all, beyond)
           next == IF verdict[1] = "succeeded" /\ (\E e \in all : e.coerced)
                   THEN "legacy" ELSE verdict[2]
           error == IF verdict[1] = "succeeded" THEN "none" ELSE PublicError(all, beyond)
<1>1. /\ attempt.pc = "looping" /\ attempt.i > Len(plan.cls)
      /\ IF job.mode = "shadow" THEN End("succeeded", "legacy", "none")
         ELSE End(verdict[1], next, error)
      /\ UNCHANGED <<plan, entries>>
  BY DEF Finish
<1>2. /\ ShapesOK /\ PlanOK /\ EntriesOK /\ LoopOK /\ plan # NoPlan /\ plan \in PlanType
      /\ attempt.i \in 1 .. Len(plan.cls) + 1
  BY <1>1 DEF XInv, LoopOK, PlanOK
<1>3. Len(plan.cls) \in Nat /\ plan.total \in Nat /\ Cap \in Nat
  BY <1>2 DEF PlanType, ExecutionAssumption, Cap
<1>4. /\ Planned = 1 .. Len(plan.cls) /\ Planned \subseteq Indices /\ Stored = Planned
      /\ \A j \in Planned : j < attempt.i
  <2>1. Planned = 1 .. Len(plan.cls) /\ Planned \subseteq Indices
    BY <1>2, <1>3 DEF Planned, Indices, PlanOK
  <2>2. \A j \in Planned : j < attempt.i
    BY <1>1, <1>2, <1>3, <2>1
  <2> QED BY <1>1, <1>2, <2>1, <2>2 DEF Stored, LoopOK, Passed
<1>5. \A i \in Stored : EntryOK(entries[i], plan.cls[i])
  BY <1>2, <1>4 DEF EntriesOK, Stored
<1>6. verdict[1] # "queued"
  BY DEF Aggregate
<1> HIDE DEF verdict, all, beyond
<1>7. ASSUME NEW s, NEW n, NEW c, End(s, n, c), s # "queued"
      PROVE  /\ ShapesOK' /\ PlanOK' /\ EntriesOK' /\ LoopOK' /\ DraftOK' /\ StateOK'
             /\ job'.mode = job.mode /\ job'.next = n /\ job'.error = c
             /\ attempt'.late = attempt.late
  BY <1>1, <1>7, EndKeeps
<1>8. UnprocessedIsNotSkipped'
  <2>1. attempt'.late = attempt.late
    BY <1>1, <1>6, <1>7
  <2>2. ASSUME NEW i \in Indices, entries[i].status = "unprocessed" PROVE attempt.late
    <3>1. i <= Len(plan.cls)
      BY <1>2, <2>2 DEF EntriesOK
    <3>2. i < attempt.i
      BY <1>1, <1>2, <1>3, <3>1 DEF Indices
    <3> QED BY <1>1, <1>2, <2>2, <3>2 DEF LoopOK, Passed
  <2> QED BY <1>1, <2>1, <2>2 DEF UnprocessedIsNotSkipped
<1>9. CASE job.mode = "shadow"
  <2>1. /\ ShapesOK' /\ PlanOK' /\ EntriesOK' /\ LoopOK' /\ DraftOK' /\ StateOK'
        /\ job'.next = "legacy" /\ job'.error = "none"
    BY <1>1, <1>7, <1>9
  <2>2. ReplyIsWhole' /\ RetryableIsNotFinal'
    BY <2>1 DEF ReplyIsWhole, RetryableIsNotFinal
  <2> QED BY <1>8, <2>1, <2>2 DEF XInv
<1>10. CASE job.mode # "shadow"
  <2>1. /\ ShapesOK' /\ PlanOK' /\ EntriesOK' /\ LoopOK' /\ DraftOK' /\ StateOK'
        /\ job'.mode = job.mode /\ job'.next = next /\ job'.error = error
    BY <1>1, <1>6, <1>7, <1>10
  <2>2. Stored' = Stored
    BY <1>1 DEF Stored, Planned
  <2>3. ReplyIsWhole'
    <3> SUFFICES ASSUME next = "reply"
                 PROVE  /\ plan.total <= Cap /\ Stored = 1 .. plan.total
                        /\ \A i \in Stored :
                             /\ entries[i].status = "succeeded" /\ entries[i].safe
                             /\ ~entries[i].coerced /\ ~entries[i].manual
                             /\ job.mode = "knowledge_only"
                                  => plan.cls[i].route # "generate_response"
      BY <1>1, <1>10, <2>1, <2>2 DEF ReplyIsWhole
    <3>1. verdict[2] = "reply"
      OBVIOUS
    <3>2. beyond = 0 /\ \A e \in all : e.safe
      BY <3>1 DEF verdict, Aggregate
    <3>3. plan.total = Len(plan.cls)
      BY <1>3, <3>2 DEF beyond
    <3>4. \A i \in Stored : entries[i].safe
      BY <3>2 DEF all
    <3> QED BY <1>2, <1>4, <1>5, <3>3, <3>4 DEF EntryOK, PlanOK
  <2>4. RetryableIsNotFinal'
    <3> SUFFICES ASSUME error \in Retryable, NEW i \in Stored
                 PROVE  entries[i].code \notin Final /\ ~entries[i].manual
      BY <1>1, <2>1, <2>2 DEF RetryableIsNotFinal, Retryable
    <3> DEFINE codes == ({e.code : e \in all} \ {"none"})
                        \cup (IF beyond > 0 THEN {"unprocessed"} ELSE {})
    <3>1. error = PublicError(all, beyond)
      BY DEF Retryable
    <3>2. entries[i] \in all
      BY DEF all
    <3>3. codes \in SUBSET Codes
      BY <1>5, CodeNames DEF all, EntryOK, Retryable
    <3>4. ~entries[i].manual /\ codes # {} /\ First(codes) \in Retryable
      BY <3>1, <3>2 DEF PublicError, Retryable
    <3>5. codes \cap Final = {}
      BY <3>3, <3>4, FirstRanks
    <3>6. entries[i].code \in codes \/ entries[i].code = "none"
      BY <3>2
    <3> QED BY <3>4, <3>5, <3>6 DEF Final
  <2> QED BY <1>8, <2>1, <2>3, <2>4 DEF XInv
<1> QED BY <1>9, <1>10

\* A step of an attempt that leaves the job, the plan and the entries alone.
LEMMA LoopStep ==
  ASSUME XInv, UNCHANGED <<job, plan, entries>>,
         attempt.pc # "over", attempt'.pc \in {"idle", "planning", "looping", "saving"},
         DOMAIN attempt' = DOMAIN attempt, attempt'.i \in Nat, LoopOK', DraftOK'
  PROVE  XInv'
<1>1. Open'
  BY DEF XInv, StateOK, Open
<1>2. ShapesOK' /\ PlanOK' /\ EntriesOK'
  BY DEF XInv, ShapesOK, PlanOK, EntriesOK, EntryOK
<1>3. StateOK'
  BY <1>1 DEF StateOK
<1>4. ReplyIsWhole' /\ UnprocessedIsNotSkipped' /\ RetryableIsNotFinal'
  BY <1>1, OpenStaysSafe
<1> QED BY <1>2, <1>3, <1>4 DEF XInv

\* The job is claimed, or queued again after a crash.
LEMMA ClaimStep ==
  ASSUME XInv, Claim \/ Interrupt
  PROVE  XInv'
<1>1. DOMAIN Idle = {"pc", "i", "done", "draft", "late"} /\ Idle.i = 0 /\ Idle.pc = "idle"
  BY DEF Idle
<1>2. /\ attempt'.pc \in {"idle", "planning"} /\ attempt'.i = 0
      /\ DOMAIN attempt' = {"pc", "i", "done", "draft", "late"}
      /\ UNCHANGED <<plan, entries>>
  <2>1. CASE Claim
    BY <1>1, <2>1 DEF Claim
  <2>2. CASE Interrupt
    BY <1>1, <2>2 DEF Interrupt
  <2> QED BY <2>1, <2>2
<1>3. attempt.pc # "over"
  BY DEF Claim, Interrupt, XInv, StateOK
<1>4. /\ DOMAIN job' = DOMAIN job /\ job'.mode = job.mode /\ job'.state \in {"queued", "running"}
      /\ job'.next = job.next /\ job'.error = job.error
  BY DEF Claim, Interrupt, XInv, ShapesOK
<1>5. ShapesOK' /\ PlanOK' /\ EntriesOK'
  BY <1>2, <1>4 DEF XInv, ShapesOK, PlanOK, EntriesOK, EntryOK
<1>6. Open'
  BY <1>3, <1>4 DEF XInv, StateOK, Open
<1>7. LoopOK' /\ DraftOK' /\ StateOK'
  BY <1>2, <1>6 DEF LoopOK, DraftOK, StateOK
<1>8. ReplyIsWhole' /\ UnprocessedIsNotSkipped' /\ RetryableIsNotFinal'
  BY <1>6, OpenStaysSafe
<1> QED BY <1>5, <1>7, <1>8 DEF XInv

\* What the cap leaves of the inquiries.
LEMMA CutAtCap ==
  ASSUME NEW n \in Nat, NEW m \in Nat
  PROVE  /\ Min({n, m}) \in Nat /\ Min({n, m}) <= n /\ Min({n, m}) <= m
         /\ Min({n, m}) < n => Min({n, m}) = m
<1>1. Min({n, m}) \in {n, m} /\ \A k \in {n, m} : Min({n, m}) <= k
  BY MinFound
<1> QED BY <1>1

\* The plan is made, or found, and the loop begins.
LEMMA PlanStep ==
  ASSUME ExecutionAssumption, PlanAssumption, XInv, Extract \/ Rehydrate
  PROVE  XInv'
<1>1. /\ attempt.pc = "planning" /\ UNCHANGED <<job, entries>>
      /\ attempt' = [attempt EXCEPT !.pc = "looping", !.i = 1, !.done = DoneIndexes]
  BY DEF Extract, Rehydrate
<1>2. /\ ShapesOK /\ PlanOK /\ EntriesOK /\ StateOK
  BY DEF XInv
<1>3. /\ attempt'.pc = "looping" /\ attempt'.i = 1 /\ attempt'.done = DoneIndexes
      /\ DOMAIN attempt' = DOMAIN attempt
  BY <1>1, <1>2 DEF ShapesOK
<1>4. PlanOK' /\ plan' # NoPlan /\ plan' \in PlanType /\ (plan # NoPlan => plan' = plan)
  <2>1. CASE Extract
    <3>1. PICK total \in 1 .. MaxExtracted :
            \E cls \in [1 .. Min({total, Cap}) -> Classifications] :
              plan' = [total |-> total, cls |-> cls]
      BY <2>1 DEF Extract
    <3>2. PICK cls \in [1 .. Min({total, Cap}) -> Classifications] :
            plan' = [total |-> total, cls |-> cls]
      BY <3>1
    <3>3. plan' = [total |-> total, cls |-> cls] /\ plan = NoPlan
      BY <2>1, <3>2 DEF Extract
    <3>4. total \in Nat /\ Cap \in Nat
      BY DEF ExecutionAssumption, Cap
    <3>5. /\ Min({total, Cap}) \in Nat /\ Min({total, Cap}) <= total /\ Min({total, Cap}) <= Cap
          /\ Min({total, Cap}) < total => Min({total, Cap}) = Cap
      BY <3>4, CutAtCap
    <3>6. cls \in Seq(Classifications) /\ Len(cls) = Min({total, Cap})
      <4> DEFINE n == Min({total, Cap})
      <4>1. n \in Nat /\ cls \in [1 .. n -> Classifications]
        BY <3>5
      <4> HIDE DEF n
      <4>2. cls \in Seq(Classifications)
        BY <4>1, SeqDef
      <4>3. Len(cls) = n
        BY <4>1, <4>2
      <4> QED BY <4>2, <4>3 DEF n
    <3>7. plan' \in PlanType /\ plan'.total = total /\ plan'.cls = cls
      BY <3>3, <3>4, <3>6 DEF PlanType
    <3>8. plan' # NoPlan
      BY <3>7 DEF PlanAssumption
    <3> QED BY <3>3, <3>5, <3>6, <3>7, <3>8 DEF PlanOK
  <2>2. CASE Rehydrate
    BY <1>2, <2>2 DEF Rehydrate, PlanOK
  <2> QED BY <2>1, <2>2
<1>5. EntriesOK'
  BY <1>1, <1>2, <1>4 DEF EntriesOK, EntryOK
<1>6. LoopOK'
  <2>1. Passed'
    BY <1>3 DEF Passed, Indices
  <2>2. \A j \in Indices : j \in attempt'.done => entries'[j].status \notin {"none", "unprocessed"}
    BY <1>1, <1>3 DEF DoneIndexes
  <2>3. attempt'.i \in 1 .. Len(plan'.cls) + 1
    BY <1>3, <1>4 DEF PlanType
  <2> QED BY <1>4, <2>1, <2>2, <2>3 DEF LoopOK
<1>7. ShapesOK' /\ Open'
  BY <1>1, <1>2, <1>3 DEF ShapesOK, StateOK, Open
<1>8. DraftOK' /\ StateOK'
  BY <1>3, <1>7 DEF DraftOK, StateOK
<1> QED BY <1>4, <1>5, <1>6, <1>7, <1>8, OpenStaysSafe DEF XInv

\* The time runs out.
LEMMA ExpireStep ==
  ASSUME XInv, Expire
  PROVE  XInv'
<1>1. /\ attempt'.pc = attempt.pc /\ attempt'.i = attempt.i /\ attempt'.done = attempt.done
      /\ attempt'.draft = attempt.draft /\ attempt'.late /\ DOMAIN attempt' = DOMAIN attempt
      /\ attempt.pc \in {"looping", "saving"} /\ UNCHANGED <<job, plan, entries>>
  BY DEF Expire, XInv, ShapesOK
<1>2. LoopOK' /\ DraftOK'
  BY <1>1 DEF XInv, LoopOK, Passed, DraftOK, EntryOK
<1> QED BY <1>1, <1>2, LoopStep DEF XInv, ShapesOK

\* An inquiry that a former attempt finished.
LEMMA SkipStep ==
  ASSUME XInv, Skip
  PROVE  XInv'
<1>1. /\ attempt'.pc = "looping" /\ attempt'.i = attempt.i + 1 /\ attempt'.done = attempt.done
      /\ attempt'.late = attempt.late /\ DOMAIN attempt' = DOMAIN attempt
      /\ attempt.pc = "looping" /\ attempt.i <= Len(plan.cls) /\ attempt.i \in attempt.done
      /\ UNCHANGED <<job, plan, entries>> /\ attempt.i \in Nat
  BY DEF Skip, Working, XInv, ShapesOK
<1>2. plan # NoPlan /\ plan \in PlanType /\ LoopOK
  BY <1>1 DEF XInv, LoopOK, PlanOK
<1>3. Len(plan.cls) \in Nat
  BY <1>2 DEF PlanType
<1>4. Passed'
  BY <1>1, <1>2 DEF LoopOK, Passed, Indices
<1>5. LoopOK' /\ DraftOK'
  BY <1>1, <1>2, <1>3, <1>4 DEF LoopOK, DraftOK
<1> QED BY <1>1, <1>5, LoopStep

\* The three ways to a draft: an outcome or a stand-in, a timeout, an exception.
LEMMA HandleStep ==
  ASSUME XInv, Handle \/ HandleTimesOut \/ HandleFails
  PROVE  XInv'
<1>1. /\ attempt.pc = "looping" /\ attempt.i <= Len(plan.cls) /\ attempt.i \notin attempt.done
      /\ UNCHANGED <<job, plan, entries>>
  BY DEF Handle, HandleTimesOut, HandleFails, Working
<1>2. /\ plan # NoPlan /\ plan \in PlanType /\ LoopOK /\ ShapesOK
      /\ attempt.i \in 1 .. Len(plan.cls) + 1
  BY <1>1 DEF XInv, LoopOK, PlanOK
<1>3. Cls \in Classifications /\ Cls = plan.cls[attempt.i]
  BY <1>1, <1>2 DEF PlanType, Cls
<1>4. {"reconcile", "internal", "total_timeout", "inquiry_timeout"} \subseteq Codes
  BY CodeNames DEF Final, Retryable
<1>5. /\ DOMAIN attempt' = DOMAIN attempt /\ attempt'.pc = "saving" /\ attempt'.i = attempt.i
      /\ attempt'.done = attempt.done /\ (attempt.late => attempt'.late)
      /\ EntryOK(attempt'.draft, Cls) /\ attempt'.draft.status # "none"
      /\ attempt'.draft.status = "unprocessed" => attempt'.late
  <2>1. CASE Handle
    <3>1. PICK e \in Drafts : attempt' = [attempt EXCEPT !.draft = e, !.pc = "saving"]
      BY <2>1 DEF Handle
    <3>2. /\ EntryOK(e, Cls) /\ e.status # "none" /\ (e.status = "unprocessed" => attempt.late)
      <4>1. CASE Unshadowed
        BY <1>3, <3>1, <4>1, EntriesAreTold DEF Drafts, Unshadowed, EntryOK
      <4>2. CASE ~Unshadowed /\ job.mode = "shadow"
        <5>1. e = Shadowed(Cls)
          BY <3>1, <4>2 DEF Drafts
        <5> QED BY <5>1 DEF Shadowed, Entry, EntryOK
      <4>3. CASE ~Unshadowed /\ job.mode # "shadow" /\ attempt.late
        <5>1. e = Unprocessed
          BY <3>1, <4>3 DEF Drafts
        <5> QED BY <1>4, <4>3, <5>1 DEF Unprocessed, Entry, EntryOK
      <4>4. CASE ~Unshadowed /\ job.mode # "shadow" /\ ~attempt.late
        <5>1. e = Coerced(Cls)
          BY <3>1, <4>4 DEF Drafts
        <5> QED BY <5>1 DEF Coerced, Entry, EntryOK
      <4> QED BY <4>1, <4>2, <4>3, <4>4
    <3> QED BY <1>2, <3>1, <3>2 DEF ShapesOK
  <2>2. CASE HandleTimesOut
    <3>1. PICK late \in BOOLEAN :
            attempt' = [attempt EXCEPT !.draft = TimedOut(Cls, late), !.pc = "saving",
                                       !.late = late]
      BY <2>2 DEF HandleTimesOut
    <3>2. EntryOK(TimedOut(Cls, late), Cls) /\ TimedOut(Cls, late).status = "timeout"
      BY <1>4 DEF TimedOut, Entry, EntryOK
    <3>3. ~attempt.late
      BY <2>2 DEF HandleTimesOut, Unshadowed
    <3> HIDE DEF TimedOut
    <3> QED BY <1>2, <3>1, <3>2, <3>3 DEF ShapesOK
  <2>3. CASE HandleFails
    <3>1. PICK u \in BOOLEAN :
            attempt' = [attempt EXCEPT !.draft = Broken(Cls, u), !.pc = "saving"]
      BY <2>3 DEF HandleFails
    <3>2. EntryOK(Broken(Cls, u), Cls) /\ Broken(Cls, u).status = "failed"
      BY <1>4 DEF Broken, Entry, EntryOK
    <3> HIDE DEF Broken
    <3> QED BY <1>2, <3>1, <3>2 DEF ShapesOK
  <2> QED BY <2>1, <2>2, <2>3
<1>6. LoopOK'
  BY <1>1, <1>2, <1>5 DEF LoopOK, Passed
<1>7. DraftOK'
  BY <1>1, <1>3, <1>5 DEF DraftOK, EntryOK
<1> QED BY <1>1, <1>2, <1>5, <1>6, <1>7, LoopStep DEF ShapesOK

\* What both checkpoints do to the entries: the inquiry at hand gets its draft.
LEMMA Stores ==
  ASSUME XInv, attempt.pc = "saving", UNCHANGED <<job, plan>>,
         entries' = [entries EXCEPT ![attempt.i] = attempt.draft]
  PROVE  /\ EntriesOK' /\ entries' = [i \in Indices |-> entries'[i]]
         /\ attempt.i \in Indices /\ entries'[attempt.i] = attempt.draft
         /\ \A j \in Indices : j # attempt.i => entries'[j] = entries[j]
<1>1. /\ ShapesOK /\ PlanOK /\ EntriesOK /\ LoopOK /\ DraftOK /\ plan # NoPlan /\ plan \in PlanType
      /\ attempt.i \in 1 .. Len(plan.cls) + 1
  BY DEF XInv, LoopOK, PlanOK
<1>2. attempt.i \in Indices
  <2>1. Len(plan.cls) \in Nat /\ Len(plan.cls) <= Cap /\ Cap \in Nat
    BY <1>1, ExecutionAssumption DEF PlanType, PlanOK, Cap
  <2>2. attempt.i <= Len(plan.cls)
    BY <1>1 DEF DraftOK
  <2> QED BY <1>1, <2>1, <2>2 DEF Indices
<1>3. /\ entries' = [i \in Indices |-> entries'[i]] /\ entries'[attempt.i] = attempt.draft
      /\ \A j \in Indices : j # attempt.i => entries'[j] = entries[j]
  BY <1>1, <1>2 DEF ShapesOK
<1>4. EntriesOK'
  BY <1>1, <1>3 DEF EntriesOK, EntryOK, DraftOK
<1> QED BY <1>2, <1>3, <1>4

\* The draft is stored and the loop goes on.
LEMMA CheckpointStep ==
  ASSUME XInv, Checkpoint
  PROVE  XInv'
<1>1. /\ attempt.pc = "saving" /\ UNCHANGED <<job, plan>>
      /\ entries' = [entries EXCEPT ![attempt.i] = attempt.draft]
      /\ attempt' = [attempt EXCEPT !.pc = "looping", !.i = @ + 1, !.draft = NoEntry]
  BY DEF Checkpoint
<1>2. /\ ShapesOK /\ PlanOK /\ LoopOK /\ DraftOK /\ StateOK /\ plan # NoPlan /\ plan \in PlanType
      /\ attempt.i \in 1 .. Len(plan.cls) + 1
  BY <1>1 DEF XInv, LoopOK, PlanOK
<1>3. /\ EntriesOK' /\ entries' = [i \in Indices |-> entries'[i]]
      /\ attempt.i \in Indices /\ entries'[attempt.i] = attempt.draft
      /\ \A j \in Indices : j # attempt.i => entries'[j] = entries[j]
  BY <1>1, Stores
<1>4. /\ attempt'.pc = "looping" /\ attempt'.i = attempt.i + 1 /\ attempt'.done = attempt.done
      /\ attempt'.late = attempt.late /\ DOMAIN attempt' = DOMAIN attempt
  BY <1>1, <1>2 DEF ShapesOK
<1>5. Passed'
  BY <1>1, <1>2, <1>3, <1>4 DEF LoopOK, DraftOK, Passed, Indices
<1>6. attempt'.i \in 1 .. Len(plan'.cls) + 1 /\ attempt'.i \in Nat
  BY <1>1, <1>2, <1>4 DEF DraftOK, PlanType
<1>7. LoopOK' /\ DraftOK'
  <2>1. \A j \in Indices : j \in attempt'.done => entries'[j].status \notin {"none", "unprocessed"}
    BY <1>1, <1>2, <1>3, <1>4 DEF LoopOK, DraftOK
  <2> QED BY <1>1, <1>2, <1>4, <1>5, <1>6, <2>1 DEF LoopOK, DraftOK
<1>8. Open' /\ ShapesOK' /\ PlanOK'
  BY <1>1, <1>2, <1>3, <1>4, <1>6 DEF StateOK, Open, ShapesOK, PlanOK
<1> QED BY <1>3, <1>4, <1>7, <1>8, OpenStaysSafe DEF XInv, StateOK

\* The write raised: a failed entry takes the place of the draft.
LEMMA CheckpointRaisesStep ==
  ASSUME XInv, CheckpointRaises
  PROVE  XInv'
<1>1. PICK landed \in BOOLEAN :
        entries' = IF landed THEN [entries EXCEPT ![attempt.i] = attempt.draft] ELSE entries
  BY DEF CheckpointRaises
<1>2. /\ attempt.pc = "saving" /\ attempt.draft.status = "succeeded" /\ UNCHANGED <<job, plan>>
      /\ attempt' = [attempt EXCEPT !.draft = Broken(Cls, FALSE)]
  BY DEF CheckpointRaises
<1>3. /\ ShapesOK /\ PlanOK /\ EntriesOK /\ LoopOK /\ DraftOK /\ StateOK /\ plan # NoPlan
      /\ attempt.i \in Nat
  BY <1>2 DEF XInv, LoopOK, ShapesOK
<1>4. /\ EntriesOK' /\ entries' = [i \in Indices |-> entries'[i]]
      /\ \A j \in Indices : j # attempt.i => entries'[j] = entries[j]
  <2>1. CASE landed
    BY <1>1, <1>2, <2>1, Stores
  <2>2. CASE ~landed
    BY <1>1, <1>2, <1>3, <2>2 DEF EntriesOK, EntryOK, ShapesOK
  <2> QED BY <2>1, <2>2
<1>5. /\ attempt'.pc = "saving" /\ attempt'.i = attempt.i /\ attempt'.done = attempt.done
      /\ attempt'.late = attempt.late /\ DOMAIN attempt' = DOMAIN attempt
      /\ attempt'.draft = Broken(Cls, FALSE)
  BY <1>2, <1>3 DEF ShapesOK
<1>6. LoopOK'
  <2>1. \A j \in Indices : j < attempt.i => entries'[j] = entries[j]
    BY <1>3, <1>4 DEF Indices
  <2>2. \A j \in Indices : j \in attempt.done => entries'[j] = entries[j]
    BY <1>2, <1>3, <1>4 DEF DraftOK
  <2> QED BY <1>2, <1>3, <1>5, <2>1, <2>2 DEF LoopOK, Passed
<1>7. DraftOK'
  <2>1. "internal" \in Codes
    BY CodeNames DEF Final
  <2>2. /\ Broken(Cls, FALSE).status = "failed" /\ Broken(Cls, FALSE).code = "internal"
        /\ Broken(Cls, FALSE).safe = FALSE
    BY DEF Broken, Entry
  <2> HIDE DEF Broken
  <2> QED BY <1>2, <1>3, <1>5, <2>1, <2>2 DEF DraftOK, EntryOK
<1>8. Open' /\ ShapesOK' /\ PlanOK'
  BY <1>2, <1>3, <1>4, <1>5 DEF StateOK, Open, ShapesOK, PlanOK
<1> QED BY <1>4, <1>5, <1>6, <1>7, <1>8, OpenStaysSafe DEF XInv, StateOK

-----------------------------------------------------------------------------
\* The inductive invariant: the plan is cut at the cap and nowhere else, an entry
\* is stored only for an inquiry of the plan and is safe only in a mode and on a
\* route that may answer, the loop leaves none behind without an entry, and the
\* job is open until an attempt ends it (_execute, run_ticket_job).
THEOREM ExecutionKeepsItsBooks == Spec => []XInv
<1> USE ExecutionAssumption, PlanAssumption
<1>1. Init => XInv
  BY InitTold
<1>2. XInv /\ [Next]_evars => XInv'
  <2> SUFFICES ASSUME XInv, [Next]_evars PROVE XInv'
    OBVIOUS
  <2>1. CASE Claim \/ Interrupt
    BY <2>1, ClaimStep
  <2>2. CASE Overdue \/ ExtractFails \/ ExtractNothing \/ Raise
    BY <2>2, CloseStep
  <2>3. CASE Extract \/ Rehydrate
    BY <2>3, PlanStep
  <2>4. CASE Expire \/ Skip
    BY <2>4, ExpireStep, SkipStep
  <2>5. CASE Handle \/ HandleTimesOut \/ HandleFails
    BY <2>5, HandleStep
  <2>6. CASE Checkpoint \/ CheckpointRaises
    BY <2>6, CheckpointStep, CheckpointRaisesStep
  <2>7. CASE Finish
    BY <2>7, FinishStep
  <2>8. CASE UNCHANGED evars
    <3>1. UNCHANGED <<job, plan, entries, attempt>>
      BY <2>8 DEF evars
    <3>2. ShapesOK' /\ PlanOK' /\ EntriesOK'
      BY <3>1 DEF XInv, ShapesOK, PlanOK, EntriesOK, EntryOK
    <3>3. LoopOK' /\ DraftOK' /\ StateOK'
      BY <3>1 DEF XInv, LoopOK, Passed, DraftOK, EntryOK, StateOK, Open
    <3>4. Stored' = Stored
      BY <3>1 DEF Stored, Planned
    <3>5. ReplyIsWhole' /\ UnprocessedIsNotSkipped' /\ RetryableIsNotFinal'
      BY <3>1, <3>4 DEF XInv, ReplyIsWhole, UnprocessedIsNotSkipped, RetryableIsNotFinal
    <3> QED BY <3>2, <3>3, <3>5 DEF XInv
  <2> QED BY <2>1, <2>2, <2>3, <2>4, <2>5, <2>6, <2>7, <2>8 DEF Next
<1> QED BY <1>1, <1>2, PTL DEF Spec

\* For every cap and every number of attempts: a reply goes out only when each
\* inquiry of the ticket, none of them cut off, ended in a safe entry of its own
\* (aggregate_states over the loop of _execute).
THEOREM RepliesAreWhole == Spec => []ReplyIsWhole
<1>1. XInv => ReplyIsWhole
  BY DEF XInv
<1> QED BY <1>1, ExecutionKeepsItsBooks, PTL

\* For every number of attempts: an inquiry without an answer for lack of time was
\* left so by the attempt that closed the job, never inherited (done_indexes).
THEOREM NothingIsSkipped == Spec => []UnprocessedIsNotSkipped
<1>1. XInv => UnprocessedIsNotSkipped
  BY DEF XInv
<1> QED BY <1>1, ExecutionKeepsItsBooks, PTL

\* For every cap: a caller is told to retry only a ticket of which no inquiry
\* failed for good (_aggregate_public_error over _PUBLIC_ERROR_PRIORITY).
THEOREM RetriesAreSafe == Spec => []RetryableIsNotFinal
<1>1. XInv => RetryableIsNotFinal
  BY DEF XInv
<1> QED BY <1>1, ExecutionKeepsItsBooks, PTL

===============================================================================

--------------------------- MODULE ForusBotsProofs ---------------------------
(***************************************************************************)
(* The scraping service as the program sees it: its client, for any number *)
(* of callers, requests, keys, permits and retries, and the evidence of    *)
(* its effects, for any number of operations, attempts, mappings and tries.*)
(*                                                                         *)
(* The client: every step of a request writes one record; RequestOK says   *)
(* what a record promises by itself, ClientInv relates the records to the  *)
(* shared table, to the callers and to the circuit.                        *)
(*                                                                         *)
(* The ledger: the inductive invariant adds to the properties that epochs  *)
(* name attempts and bound the intents, and what each submission must find *)
(* in the store at its point of the code (Fits).                           *)
(***************************************************************************)
EXTENDS ForusBotsClient, ForusBotsEffects, FiniteSetTheorems, TLAPS

-----------------------------------------------------------------------------
(* The client.                                                             *)

LivePcs == {"created", "queued", "sending", "backoff", "persisting", "polling"}
InsidePcs == {"sending", "backoff", "persisting", "polling"}

\* What the record of a request promises: it is blank until it starts; a probe
\* has a permit; a repetition is left to one that waits to repeat; one that nobody waits for
\* and that still runs may have reached the service.
RequestOK(q) ==
    /\ q.pc = "free" => q = Free
    /\ q.pc # "free" /\ q.kind = "shared" => q.key \in Keys
    /\ q.pc \in {"free", "created", "queued"} => ~q.probe
    /\ q.pc = "backoff" => q.tries < HttpTries
    /\ q.orphaned => q.kind \in {"shared", "observed"}
    /\ q.orphaned /\ q.pc \in LivePcs => q.crossed \/ q.cancelling

\* The shared table holds running or just ended tasks of its keys, none cancelled.
TableOK ==
    \A k \in Keys : inflight[k] # Null =>
        /\ requests[inflight[k]].kind = "shared"
        /\ requests[inflight[k]].key = k
        /\ ~requests[inflight[k]].cancelling
        /\ requests[inflight[k]].pc # "free"

\* A live task with a key that was not cancelled is the one in the table.
SharedIsListed ==
    \A r \in Requests :
        Live(r) /\ requests[r].key \in Keys /\ ~requests[r].cancelling
        => inflight[requests[r].key] = r

\* Who waits, waits for a request that was started.
WaitsForStarted ==
    \A w \in Callers : callers[w].pc = "waiting" =>
        /\ callers[w].request \in Requests
        /\ requests[callers[w].request].pc # "free"

ClientInv ==
    /\ TasksTypeOK
    /\ \A r \in Requests : RequestOK(requests[r])
    /\ TableOK
    /\ SharedIsListed
    /\ WaitsForStarted
    /\ OwnedWorkSurvives
    /\ ProbeSettlesOrEscapes

\* The numeric parameters, and that Null is no request and no key.
LEMMA ParameterTypes ==
    ASSUME ClientParameters
    PROVE  /\ Threshold \in Nat /\ Threshold > 0 /\ HttpTries \in Nat /\ HttpTries > 0
           /\ Null \notin Requests /\ Null \notin Keys
           /\ Kinds \subseteq AllKinds
<1>1. {Threshold, HttpTries} \subseteq Nat \ {0}
  BY DEF ClientParameters
<1> QED BY <1>1 DEF ClientParameters

\* The client starts with blank requests and a closed circuit.
LEMMA ClientInit == ASSUME ClientParameters, TasksInit PROVE ClientInv
<1>1. Free \in Request /\ RequestOK(Free)
  BY DEF ClientParameters, Free, Request, RequestPcs, Outcomes, RequestOK, LivePcs
<1>2. circuit \in Circuit /\ circuit.state # "half_open"
  BY DEF TasksInit, Circuit, ClientParameters
<1>3. callers \in [Callers -> Caller] /\ \A w \in Callers : callers[w].pc # "waiting"
  BY DEF TasksInit, Caller, Outcomes
<1>4. TasksTypeOK
  BY <1>1, <1>2, <1>3 DEF TasksInit, TasksTypeOK
<1>5. TableOK /\ SharedIsListed
  BY DEF TasksInit, TableOK, SharedIsListed, Live, Inside, RequestAt, Free
<1>6. OwnedWorkSurvives
  BY DEF TasksInit, OwnedWorkSurvives, Free
<1> QED
  BY <1>1, <1>2, <1>3, <1>4, <1>5, <1>6
  DEF TasksInit, ClientInv, WaitsForStarted, ProbeSettlesOrEscapes

-----------------------------------------------------------------------------
(* The circuit.                                                            *)

\* The outcome of a request leaves the circuit closed or open, never half open.
Settled(d) == d \in Circuit /\ d.state # "half_open"

\* Success, failure and cancellation leave the circuit closed or open.
LEMMA OutcomesSettle ==
    ASSUME ClientParameters, NEW c \in Circuit
    PROVE  Settled(Succeeded(c)) /\ Settled(Failed(c)) /\ Settled(CircuitCancelled(c))
<1>0. Settled(Opened(c))
  BY DEF Settled, Opened, Circuit
<1>1. Settled(Succeeded(c)) /\ Settled(CircuitCancelled(c))
  <2>1. Settled(Succeeded(c))
    <3>1. 0 \in 0..Threshold
      BY ParameterTypes
    <3> QED BY <3>1, ZenonT(60) DEF Settled, Succeeded, Circuit
  <2>2. Settled(CircuitCancelled(c))
    <3>1. CASE c.state = "half_open"
      BY <1>0, <3>1 DEF CircuitCancelled
    <3>2. CASE c.state # "half_open"
      BY <3>2 DEF Settled, CircuitCancelled, Circuit
    <3> QED BY <3>1, <3>2
  <2> QED BY <2>1, <2>2
<1> DEFINE n == IF c.failures < Threshold THEN c.failures + 1 ELSE Threshold
<1>2. n \in 0..Threshold
  BY DEF ClientParameters, Circuit
<1> HIDE DEF n
<1>3. /\ [c EXCEPT !.failures = n] \in Circuit
      /\ [c EXCEPT !.failures = n, !.probing = FALSE] \in Circuit
      /\ [c EXCEPT !.failures = n, !.probing = FALSE].state = c.state
  BY <1>2 DEF Circuit
<1>4. Settled(Opened([c EXCEPT !.failures = n]))
  BY <1>3 DEF Settled, Opened, Circuit
<1>5. Failed(c) = IF c.state = "half_open" \/ n = Threshold
                  THEN Opened([c EXCEPT !.failures = n])
                  ELSE [c EXCEPT !.failures = n, !.probing = FALSE]
  BY DEF Failed, n
<1> QED BY <1>1, <1>3, <1>4, <1>5 DEF Settled

\* An admission keeps the circuit well formed.
LEMMA AdmittedType == \A c \in Circuit : Admitted(c) \in Circuit
BY DEF Admitted, Circuit

-----------------------------------------------------------------------------
(* The steps of a request.                                                 *)

\* The record of a request that goes on or ends.
Follows(p, q) ==
    /\ q \in Request /\ RequestOK(q)
    /\ p.pc # "free" /\ q.pc \notin {"free", "created"}
    /\ q.kind = p.kind /\ q.key = p.key
    /\ IF q.pc = "finished" THEN ~q.cancelling
       ELSE p.pc \in LivePcs /\ q.cancelling = p.cancelling

\* A POST that a request makes now is one that somebody waits for, or repeats
\* one that may have arrived.
Submission(p, q) ==
    q.pc = "sending" /\ p.pc # "sending" /\ p.orphaned => p.crossed

\* A probe under way, or one that left without an outcome.
Probing(q) == q.probe /\ (q.pc \in InsidePcs \/ q.outcome = "escaped")

\* The circuit after the step: settled, untouched, or with the request as its probe.
Answers(p, q) ==
    /\ circuit' \in Circuit
    /\ \/ circuit'.state # "half_open"
       \/ circuit' = circuit /\ (Probing(p) => Probing(q))
       \/ Probing(q)

RequestMoves(r) ==
    /\ \E q : /\ Follows(requests[r], q) /\ Answers(requests[r], q)
              /\ Submission(requests[r], q)
              /\ requests' = [requests EXCEPT ![r] = q]
    /\ OthersRest

\* The record EndTask leaves behind.
TaskEnded(p, outcome) ==
    [Free EXCEPT !.pc = "finished", !.kind = p.kind, !.key = p.key,
                 !.probe = p.probe, !.outcome = outcome]

\* What an ended request keeps, and what it gives up.
LEMMA EndedFields ==
    ASSUME NEW p, NEW o
    PROVE  /\ TaskEnded(p, o).pc = "finished" /\ TaskEnded(p, o).kind = p.kind
           /\ TaskEnded(p, o).key = p.key /\ TaskEnded(p, o).probe = p.probe
           /\ TaskEnded(p, o).outcome = o
           /\ ~TaskEnded(p, o).orphaned /\ ~TaskEnded(p, o).cancelling
BY DEF TaskEnded, Free

\* An ended request is a request.
LEMMA EndedType ==
    ASSUME ClientParameters, NEW p \in Request, NEW o \in Outcomes
    PROVE  TaskEnded(p, o) \in Request
<1>1. Free \in Request
  BY ParameterTypes DEF Free, Request, RequestPcs, Outcomes
<1>2. /\ p.kind \in Kinds \cup {Null} /\ p.key \in Keys \cup {Null}
      /\ p.probe \in BOOLEAN /\ "finished" \in RequestPcs
  BY DEF Request, RequestPcs
<1> QED BY <1>1, <1>2 DEF TaskEnded, Request

\* EndTask ends a request; what it makes of the circuit is one of the outcomes.
LEMMA FinishMoves ==
    ASSUME ClientParameters, ClientInv, NEW r \in Requests, NEW o \in Outcomes, NEW c \in Circuit,
           requests[r].pc # "free", EndTask(r, o, c),
           \/ c.state # "half_open"
           \/ c = circuit /\ ~requests[r].probe
           \/ c = circuit /\ o = "escaped"
    PROVE  RequestMoves(r)
<1> DEFINE p == requests[r]
           q == TaskEnded(p, o)
<1>1. p \in Request /\ RequestOK(p)
  BY DEF ClientInv, TasksTypeOK
<1>2. requests' = [requests EXCEPT ![r] = q] /\ circuit' = c
  BY DEF EndTask, TaskEnded
<1>3. /\ q \in Request /\ q.pc = "finished" /\ q.kind = p.kind /\ q.key = p.key
      /\ q.probe = p.probe /\ q.outcome = o /\ ~q.orphaned /\ ~q.cancelling
  BY <1>1, EndedFields, EndedType
<1> HIDE DEF q
<1>4. Follows(p, q) /\ Submission(p, q)
  BY <1>1, <1>3 DEF Follows, Submission, RequestOK, LivePcs
<1>5. Answers(p, q)
  BY <1>1, <1>2, <1>3 DEF Answers, Probing
<1> QED BY <1>2, <1>4, <1>5 DEF RequestMoves, EndTask

\* A step that keeps the circuit and the place of a request inside it.
Onward(p, q) ==
    /\ p.pc \in InsidePcs /\ q.pc \in InsidePcs
    /\ q.kind = p.kind /\ q.key = p.key /\ q.cancelling = p.cancelling
    /\ q.probe = p.probe

\* A request that goes on inside moves as a request may.
LEMMA OnwardMoves ==
    ASSUME ClientInv, NEW r \in Requests, NEW q \in Request,
           Onward(requests[r], q), RequestOK(q), Submission(requests[r], q),
           requests' = [requests EXCEPT ![r] = q],
           UNCHANGED circuit, OthersRest
    PROVE  RequestMoves(r)
<1>1. Follows(requests[r], q)
  BY DEF Follows, Onward, InsidePcs, LivePcs
<1>2. Answers(requests[r], q)
  BY DEF Answers, Onward, Probing, ClientInv, TasksTypeOK
<1> QED BY <1>1, <1>2 DEF RequestMoves

\* The last attempt: the request ends with one of the outcomes of the circuit.
LEMMA EndMoves ==
    ASSUME ClientParameters, ClientInv, NEW r \in Requests, NEW o \in Outcomes, NEW c,
           requests[r].pc # "free", EndTask(r, o, c),
           c \in {Succeeded(circuit), Failed(circuit), CircuitCancelled(circuit)}
    PROVE  RequestMoves(r)
<1>1. circuit \in Circuit
  BY DEF ClientInv, TasksTypeOK
<1>2. c \in Circuit /\ c.state # "half_open"
  BY <1>1, OutcomesSettle DEF Settled
<1> QED BY <1>2, FinishMoves

\* A repetition is left to a request that some owner waits for, or that may
\* have arrived.
LEMMA BackOffMoves ==
    ASSUME ClientParameters, ClientInv, NEW r \in Requests, NEW x \in BOOLEAN, BackOff(r, x),
           requests[r].pc = "sending",
           x = requests[r].crossed \/ ~requests[r].orphaned
    PROVE  RequestMoves(r)
<1> DEFINE p == requests[r]
           q == [p EXCEPT !.pc = "backoff", !.crossed = x]
<1>1. p \in Request /\ RequestOK(p)
  BY DEF ClientInv, TasksTypeOK
<1>2. /\ q \in Request /\ q.pc = "backoff" /\ q.crossed = x /\ q.tries = p.tries
      /\ q.kind = p.kind /\ q.key = p.key /\ q.probe = p.probe
      /\ q.orphaned = p.orphaned /\ q.cancelling = p.cancelling
  BY <1>1 DEF Request, RequestPcs
<1>3. requests' = [requests EXCEPT ![r] = q] /\ p.tries < HttpTries
  BY DEF BackOff
<1> HIDE DEF q
<1>4. RequestOK(q) /\ Onward(p, q) /\ Submission(p, q)
  BY <1>1, <1>2, <1>3 DEF RequestOK, Onward, Submission, InsidePcs, LivePcs
<1> QED BY <1>2, <1>3, <1>4, OnwardMoves DEF BackOff

\* The wait for a permit.
LEMMA EnqueueMoves ==
    ASSUME ClientParameters, ClientInv, NEW r \in Requests, Enqueue(r)
    PROVE  RequestMoves(r)
<1> DEFINE p == requests[r]
           q == [p EXCEPT !.pc = "queued"]
<1>1. p \in Request /\ RequestOK(p) /\ p.pc = "created"
  BY DEF ClientInv, TasksTypeOK, Enqueue, RequestAt
<1>2. /\ q \in Request /\ q.pc = "queued" /\ q.crossed = p.crossed
      /\ q.kind = p.kind /\ q.key = p.key /\ q.probe = p.probe /\ q.outcome = p.outcome
      /\ q.orphaned = p.orphaned /\ q.cancelling = p.cancelling
  BY <1>1 DEF Request, RequestPcs
<1>3. requests' = [requests EXCEPT ![r] = q] /\ circuit' = circuit
  BY DEF Enqueue
<1> HIDE DEF q
<1>4. Follows(p, q) /\ Submission(p, q)
  BY <1>1, <1>2 DEF RequestOK, Follows, Submission, LivePcs
<1>5. Answers(p, q)
  BY <1>1, <1>2, <1>3 DEF Answers, Probing, ClientInv, TasksTypeOK, RequestOK
<1> QED BY <1>3, <1>4, <1>5 DEF RequestMoves, Enqueue

\* The permit and the circuit: an admitted request becomes the probe of a half-open
\* circuit, a refused one ends.
LEMMA AdmitMoves ==
    ASSUME ClientParameters, ClientInv, NEW r \in Requests, Admit(r)
    PROVE  RequestMoves(r)
<1> DEFINE p == requests[r]
           pc == IF Submits(r) THEN "sending" ELSE "polling"
           tries == IF Submits(r) THEN 1 ELSE 0
           crossed == Detached(r)
           probe == circuit.state # "closed"
           q == [p EXCEPT !.pc = pc, !.tries = tries, !.crossed = crossed, !.probe = probe]
<1>1. /\ p \in Request /\ RequestOK(p) /\ p.pc \in {"created", "queued"} /\ ~p.cancelling
      /\ circuit \in Circuit
  BY DEF ClientInv, TasksTypeOK, Admit, RequestAt, Runs
<1>2. CASE Admits(circuit)
  <2>1. requests' = [requests EXCEPT ![r] = q]
    BY <1>2 DEF Admit
  <2>2. circuit' = Admitted(circuit) /\ OthersRest
    BY <1>2 DEF Admit
  <2>3. /\ pc \in {"sending", "polling"} /\ tries \in 0..HttpTries /\ crossed \in BOOLEAN
        /\ probe \in BOOLEAN /\ crossed = Detached(r) /\ probe = (circuit.state # "closed")
    BY ParameterTypes DEF Detached
  <2> HIDE DEF pc, tries, crossed, probe
  <2>4. /\ q \in Request /\ q.pc \in {"sending", "polling"} /\ q.crossed = Detached(r)
        /\ q.kind = p.kind /\ q.key = p.key /\ q.probe = (circuit.state # "closed")
        /\ q.orphaned = p.orphaned /\ q.cancelling = p.cancelling
    BY <1>1, <2>3 DEF Request, RequestPcs
  <2> HIDE DEF q
  <2>5. p.orphaned => p.crossed
    BY <1>1 DEF RequestOK, LivePcs
  <2>6. Follows(p, q)
    BY <1>1, <2>4, <2>5 DEF RequestOK, Follows, LivePcs, Detached
  <2>7. Answers(p, q)
    BY <1>1, <2>2, <2>4, AdmittedType DEF Answers, Probing, InsidePcs, Admitted
  <2> QED BY <2>1, <2>2, <2>5, <2>6, <2>7 DEF RequestMoves, Submission
<1>3. CASE ~Admits(circuit)
  <2>1. EndTask(r, "open", circuit) /\ "open" \in Outcomes
    BY <1>3 DEF Admit, Outcomes
  <2> QED BY <1>1, <2>1, FinishMoves DEF RequestOK
<1> QED BY <1>2, <1>3

\* A request that goes on from one of the steps inside to the next.
LEMMA StepOn ==
    ASSUME ClientParameters, ClientInv, NEW r \in Requests, NEW s \in {"persisting", "polling"},
           requests[r].pc \in InsidePcs,
           requests' = [requests EXCEPT ![r].pc = s], UNCHANGED circuit, OthersRest
    PROVE  RequestMoves(r)
<1> DEFINE p == requests[r]
           q == [p EXCEPT !.pc = s]
<1>1. p \in Request /\ RequestOK(p)
  BY DEF ClientInv, TasksTypeOK
<1>2. /\ q \in Request /\ q.pc = s /\ q.crossed = p.crossed
      /\ q.kind = p.kind /\ q.key = p.key /\ q.probe = p.probe
      /\ q.orphaned = p.orphaned /\ q.cancelling = p.cancelling
  BY <1>1 DEF Request, RequestPcs
<1>3. requests' = [requests EXCEPT ![r] = q]
  OBVIOUS
<1> HIDE DEF q
<1>4. RequestOK(q) /\ Onward(p, q) /\ Submission(p, q)
  BY <1>1, <1>2 DEF RequestOK, Onward, Submission, InsidePcs, LivePcs
<1> QED BY <1>2, <1>3, <1>4, OnwardMoves

\* An accepted POST.
LEMMA AcceptedMoves ==
    ASSUME ClientParameters, ClientInv, NEW r \in Requests, TaskAccepted(r)
    PROVE  RequestMoves(r)
BY StepOn DEF TaskAccepted, Replied, RequestAt, InsidePcs

\* The durable receipt of an accepted POST, or its failure.
LEMMA PersistMoves ==
    ASSUME ClientParameters, ClientInv, NEW r \in Requests, PersistReceipt(r)
    PROVE  RequestMoves(r)
<1>1. requests[r].pc = "persisting"
  BY DEF PersistReceipt, RequestAt
<1>2. CASE EndTask(r, "error", Succeeded(circuit))
  BY <1>1, <1>2, EndMoves DEF Outcomes
<1>3. CASE /\ requests' = [requests EXCEPT ![r].pc = "polling"]
           /\ UNCHANGED circuit /\ OthersRest
  BY <1>1, <1>3, StepOn DEF InsidePcs
<1> QED BY <1>2, <1>3 DEF PersistReceipt

\* The next POST of a keyed request.
LEMMA RetryMoves ==
    ASSUME ClientParameters, ClientInv, NEW r \in Requests, Retry(r)
    PROVE  RequestMoves(r)
<1> DEFINE p == requests[r]
           t == p.tries + 1
           x == Detached(r)
           q == [p EXCEPT !.pc = "sending", !.tries = t, !.crossed = x]
<1>1. p \in Request /\ RequestOK(p) /\ p.pc = "backoff" /\ ~p.cancelling
  BY DEF ClientInv, TasksTypeOK, Retry, RequestAt, Runs
<1>2. t \in 0..HttpTries
  BY <1>1, ParameterTypes DEF RequestOK, Request
<1>3. x \in BOOLEAN /\ x = (p.kind \in {"shared", "observed"})
  BY DEF Detached
<1>4. requests' = [requests EXCEPT ![r] = q]
  BY DEF Retry
<1> HIDE DEF t, x
<1>5. /\ q \in Request /\ q.pc = "sending" /\ q.crossed = x
      /\ q.kind = p.kind /\ q.key = p.key /\ q.probe = p.probe
      /\ q.orphaned = p.orphaned /\ q.cancelling = p.cancelling
  BY <1>1, <1>2, <1>3 DEF Request, RequestPcs
<1> HIDE DEF q
<1>6. RequestOK(q) /\ Onward(p, q) /\ Submission(p, q)
  BY <1>1, <1>3, <1>5 DEF RequestOK, Onward, Submission, InsidePcs, LivePcs
<1> QED BY <1>4, <1>5, <1>6, OnwardMoves DEF Retry

\* An ambiguous answer.
LEMMA LostMoves ==
    ASSUME ClientParameters, ClientInv, NEW r \in Requests, Lost(r)
    PROVE  RequestMoves(r)
<1>1. requests[r].pc = "sending" /\ requests[r].crossed \in BOOLEAN
  BY DEF Lost, Replied, RequestAt, ClientInv, TasksTypeOK, Request
<1>2. CASE BackOff(r, requests[r].crossed)
  BY <1>1, <1>2, BackOffMoves
<1>3. CASE EndTask(r, "error", Failed(circuit))
  BY <1>1, <1>3, EndMoves DEF Outcomes
<1> QED BY <1>2, <1>3 DEF Lost

\* A POST that never reached the wire ends a request nobody waits for.
LEMMA UnsentMoves ==
    ASSUME ClientParameters, ClientInv, NEW r \in Requests, TaskUnsent(r)
    PROVE  RequestMoves(r)
<1>1. requests[r].pc = "sending" /\ RequestOK(requests[r])
  BY DEF TaskUnsent, Replied, RequestAt, ClientInv
<1>2. CASE UnsentOrphan(r)
  BY <1>1, <1>2, EndMoves DEF TaskUnsent, EndOrphan, Outcomes
<1>3. CASE ~UnsentOrphan(r) /\ BackOff(r, FALSE)
  <2>1. ~requests[r].orphaned
    BY <1>1, <1>3 DEF UnsentOrphan, Detached, RequestOK
  <2> QED BY <1>1, <1>3, <2>1, BackOffMoves
<1>4. CASE EndTask(r, "error", Failed(circuit))
  BY <1>1, <1>4, EndMoves DEF Outcomes
<1> QED BY <1>2, <1>3, <1>4 DEF TaskUnsent

\* The answers that end a request, and the cancellation's delivery.
LEMMA EndingMoves ==
    ASSUME ClientParameters, ClientInv, NEW r \in Requests,
           TaskRefused(r) \/ Escaped(r) \/ PollJob(r) \/ DeliverCancel(r)
    PROVE  RequestMoves(r)
<1>0. {"error", "result", "escaped", "cancelled"} \subseteq Outcomes
  BY DEF Outcomes
<1>1. circuit \in Circuit /\ RequestOK(requests[r])
  BY DEF ClientInv, TasksTypeOK
<1>2. CASE TaskRefused(r)
  BY <1>0, <1>2, EndMoves DEF TaskRefused, Replied, RequestAt
<1>3. CASE Escaped(r)
  BY <1>0, <1>1, <1>3, FinishMoves DEF Escaped, Replied, RequestAt
<1>4. CASE PollJob(r)
  BY <1>0, <1>4, EndMoves DEF PollJob, RequestAt
<1>5. CASE DeliverCancel(r)
  <2>1. requests[r].pc # "free"
    BY <1>5 DEF DeliverCancel, Live, Inside, RequestAt
  <2>2. CASE RequestAt(r, {"created"}) \/ (RequestAt(r, {"queued"}) /\ ~Submits(r))
    <3>1. EndTask(r, "cancelled", circuit)
      BY <1>5, <2>2 DEF DeliverCancel
    <3>2. ~requests[r].probe
      BY <1>1, <2>2 DEF RequestAt, RequestOK
    <3> QED BY <1>0, <1>1, <2>1, <3>1, <3>2, FinishMoves
  <2>3. CASE ~(RequestAt(r, {"created"}) \/ (RequestAt(r, {"queued"}) /\ ~Submits(r)))
    <3>1. EndTask(r, "cancelled", CircuitCancelled(circuit))
      BY <1>5, <2>3 DEF DeliverCancel
    <3> QED BY <1>0, <2>1, <3>1, EndMoves
  <2> QED BY <2>2, <2>3
<1> QED BY <1>2, <1>3, <1>4, <1>5

-----------------------------------------------------------------------------
(* ClientInv is inductive.                                                 *)

\* Nobody turns a request into one that sends a POST nobody waits for.
Submissions ==
    \A r \in Requests :
        /\ ~RequestAt(r, {"sending"}) /\ RequestAt(r, {"sending"})'
        /\ requests[r].orphaned
        => requests[r].crossed

\* The steps of a request keep ClientInv.
LEMMA MovesKeep ==
    ASSUME ClientParameters, ClientInv, NEW r \in Requests, RequestMoves(r)
    PROVE  ClientInv' /\ Submissions
<1> PICK q : /\ Follows(requests[r], q) /\ Answers(requests[r], q)
             /\ Submission(requests[r], q)
             /\ requests' = [requests EXCEPT ![r] = q]
  BY DEF RequestMoves
<1> DEFINE p == requests[r]
<1>1. UNCHANGED <<inflight, cache, callers>>
  BY DEF RequestMoves, OthersRest
<1>2. /\ requests \in [Requests -> Request] /\ requests'[r] = q
      /\ \A o \in Requests : o # r => requests'[o] = requests[o]
  BY DEF ClientInv, TasksTypeOK
<1>3. TasksTypeOK'
  BY <1>1, <1>2 DEF ClientInv, TasksTypeOK, Follows, Answers
<1>4. \A o \in Requests : RequestOK(requests'[o])
  BY <1>2 DEF ClientInv, Follows
<1>5. \A o \in Requests : /\ requests'[o].kind = requests[o].kind
                          /\ requests'[o].key = requests[o].key
                          /\ requests'[o].cancelling => requests[o].cancelling
                          /\ requests[o].pc # "free" => requests'[o].pc # "free"
                          /\ requests'[o].pc \in LivePcs =>
                                /\ requests[o].pc \in LivePcs
                                /\ requests'[o].cancelling = requests[o].cancelling
  BY <1>2 DEF Follows, LivePcs
<1>6. TableOK'
  BY <1>1, <1>5 DEF ClientInv, TableOK, TasksTypeOK
<1>7. SharedIsListed'
  BY <1>1, <1>5 DEF ClientInv, SharedIsListed, Live, Inside, RequestAt, LivePcs
<1>8. WaitsForStarted'
  BY <1>1, <1>5 DEF ClientInv, WaitsForStarted
<1>9. OwnedWorkSurvives'
  BY <1>1, <1>5 DEF ClientInv, OwnedWorkSurvives, Detached, Owners
<1>10. ProbeSettlesOrEscapes'
  <2> SUFFICES ASSUME circuit'.state = "half_open"
               PROVE  \E o \in Requests : Probing(requests'[o])
    BY DEF ProbeSettlesOrEscapes, Probing, Inside, RequestAt, InsidePcs
  <2>1. CASE Probing(q)
    BY <1>2, <2>1
  <2>2. CASE circuit' = circuit /\ (Probing(p) => Probing(q))
    <3>1. PICK o \in Requests : Probing(requests[o])
      BY <2>2 DEF ClientInv, ProbeSettlesOrEscapes, Probing, Inside, RequestAt, InsidePcs
    <3> QED BY <1>2, <2>2, <3>1
  <2> QED BY <2>1, <2>2 DEF Answers
<1>11. Submissions
  BY <1>2 DEF Submissions, Submission, RequestAt
<1> QED BY <1>3, <1>4, <1>6, <1>7, <1>8, <1>9, <1>10, <1>11 DEF ClientInv

\* What the table, the callers and the circuit rely on of a request.
SameTask(p, q) ==
    /\ q \in Request /\ RequestOK(q)
    /\ q.pc = p.pc /\ q.kind = p.kind /\ q.key = p.key /\ q.probe = p.probe
    /\ q.outcome = p.outcome

\* The probe stays while the circuit and every probing request do.
LEMMA ProbeStays ==
    ASSUME ClientInv, UNCHANGED circuit,
           \A o \in Requests : Probing(requests[o]) => Probing(requests'[o])
    PROVE  ProbeSettlesOrEscapes'
BY DEF ClientInv, ProbeSettlesOrEscapes, Probing, Inside, RequestAt, InsidePcs

\* The done callback takes only its own task out of the table.
LEMMA OnDoneKeeps ==
    ASSUME ClientParameters, ClientInv, NEW r \in Requests, OnDone(r)
    PROVE  ClientInv' /\ Submissions
<1> DEFINE p == requests[r]
           q == [p EXCEPT !.notified = TRUE]
<1>1. p \in Request /\ RequestOK(p) /\ p.pc = "finished" /\ p.kind = "shared"
  BY DEF ClientInv, TasksTypeOK, OnDone, RequestAt
<1>2. /\ SameTask(p, q) /\ q.cancelling = p.cancelling
  BY <1>1 DEF SameTask, Request, RequestOK
<1>3. /\ requests' = [requests EXCEPT ![r] = q]
      /\ inflight' = [k \in Keys |-> IF inflight[k] = r THEN Null ELSE inflight[k]]
      /\ UNCHANGED <<circuit, callers>>
  BY DEF OnDone
<1> HIDE DEF q
<1>4. \A o \in Requests : SameTask(requests[o], requests'[o])
                          /\ requests'[o].cancelling = requests[o].cancelling
  BY <1>2, <1>3 DEF ClientInv, TasksTypeOK, SameTask
<1>5. TasksTypeOK'
  <2>1. cache' \subseteq Keys
    BY <1>1 DEF OnDone, ClientInv, TasksTypeOK, RequestOK
  <2>2. requests' \in [Requests -> Request]
    BY <1>2, <1>3 DEF ClientInv, TasksTypeOK, SameTask
  <2>3. inflight' \in [Keys -> Requests \cup {Null}]
    BY <1>3 DEF ClientInv, TasksTypeOK
  <2> QED BY <1>3, <2>1, <2>2, <2>3 DEF ClientInv, TasksTypeOK
<1>6. \A k \in Keys : inflight'[k] # Null => inflight'[k] = inflight[k]
  BY <1>3
<1>7. TableOK'
  BY <1>4, <1>6 DEF ClientInv, TableOK, TasksTypeOK, SameTask
<1>8. SharedIsListed'
  <2> SUFFICES ASSUME NEW o \in Requests, Live(o)', requests'[o].key \in Keys,
                      ~requests'[o].cancelling
               PROVE  inflight'[requests'[o].key] = o
    BY DEF SharedIsListed
  <2>1. /\ requests'[o].pc = requests[o].pc /\ requests'[o].key = requests[o].key
        /\ ~requests[o].cancelling
    BY <1>4 DEF SameTask
  <2>2. Live(o) /\ o # r
    BY <1>1, <2>1 DEF Live, Inside, RequestAt
  <2>3. inflight[requests[o].key] = o
    BY <2>1, <2>2 DEF ClientInv, SharedIsListed
  <2> QED BY <1>3, <2>1, <2>2, <2>3
<1>9. WaitsForStarted'
  BY <1>3, <1>4 DEF ClientInv, WaitsForStarted, SameTask
<1>10. OwnedWorkSurvives'
  BY <1>3, <1>4 DEF ClientInv, OwnedWorkSurvives, Detached, Owners, SameTask
<1>11. ProbeSettlesOrEscapes'
  BY <1>3, <1>4, ProbeStays DEF SameTask, Probing
<1>12. Submissions
  BY <1>4 DEF Submissions, RequestAt, SameTask
<1> QED BY <1>4, <1>5, <1>7, <1>8, <1>9, <1>10, <1>11, <1>12 DEF ClientInv, SameTask

\* A request is started for a caller that was idle.
LEMMA StartKeeps ==
    ASSUME ClientParameters, ClientInv, NEW r \in Requests, NEW w \in Callers,
           NEW kind \in Kinds, NEW key \in Keys \cup {Null},
           kind = "shared" <=> key \in Keys,
           RequestAt(r, {"free"}), Started(r, kind, key), Wait(w, r),
           callers[w].pc = "idle", UNCHANGED <<circuit, cache>>,
           inflight' = IF key \in Keys THEN [inflight EXCEPT ![key] = r] ELSE inflight,
           key \in Keys => inflight[key] = Null
    PROVE  ClientInv' /\ Submissions
<1> DEFINE q == [Free EXCEPT !.pc = "created", !.kind = kind, !.key = key]
<1>1. requests[r] = Free /\ Free \in Request /\ requests \in [Requests -> Request]
  BY DEF ClientInv, TasksTypeOK, RequestOK, RequestAt
<1>2. requests' = [requests EXCEPT ![r] = q]
  BY <1>1 DEF Started, ClientInv, TasksTypeOK
<1>3. /\ q \in Request /\ q.pc = "created" /\ q.kind = kind /\ q.key = key
      /\ ~q.probe /\ ~q.orphaned /\ ~q.cancelling
  <2>1. Free.probe = FALSE /\ Free.orphaned = FALSE /\ Free.cancelling = FALSE
    BY DEF Free
  <2> HIDE DEF Free
  <2> QED BY <1>1, <2>1 DEF Request, RequestPcs
<1> HIDE DEF q
<1>4. RequestOK(q)
  BY <1>3 DEF RequestOK
<1>5. requests'[r] = q /\ \A o \in Requests : o # r => requests'[o] = requests[o]
  BY <1>1, <1>2
<1>6. /\ callers' \in [Callers -> Caller]
      /\ \A v \in Callers : v # w => callers'[v] = callers[v]
      /\ callers'[w].pc = "waiting" /\ callers'[w].request = r
  BY DEF Wait, ClientInv, TasksTypeOK, Caller
<1>7. \A k \in Keys : inflight[k] # r
  BY ParameterTypes DEF ClientInv, TableOK, RequestAt
<1>8. inflight' \in [Keys -> Requests \cup {Null}]
  BY DEF ClientInv, TasksTypeOK
<1>9. TasksTypeOK'
  BY <1>1, <1>2, <1>3, <1>6, <1>8 DEF ClientInv, TasksTypeOK
<1>10. TableOK'
  <2> SUFFICES ASSUME NEW k \in Keys, inflight'[k] # Null
               PROVE  /\ requests'[inflight'[k]].kind = "shared"
                      /\ requests'[inflight'[k]].key = k
                      /\ ~requests'[inflight'[k]].cancelling
                      /\ requests'[inflight'[k]].pc # "free"
    BY DEF TableOK
  <2>1. CASE k = key
    <3>1. inflight'[k] = r
      BY <2>1 DEF ClientInv, TasksTypeOK
    <3> QED BY <1>3, <1>5, <2>1, <3>1
  <2>2. CASE k # key
    <3>1. inflight'[k] = inflight[k]
      BY <2>2 DEF ClientInv, TasksTypeOK
    <3> QED BY <1>5, <1>7, <3>1 DEF ClientInv, TasksTypeOK, TableOK
  <2> QED BY <2>1, <2>2
<1>11. SharedIsListed'
  <2> SUFFICES ASSUME NEW o \in Requests, Live(o)', requests'[o].key \in Keys,
                      ~requests'[o].cancelling
               PROVE  inflight'[requests'[o].key] = o
    BY DEF SharedIsListed
  <2>1. CASE o = r
    BY <1>3, <1>5, <2>1 DEF ClientInv, TasksTypeOK
  <2>2. CASE o # r
    <3>1. Live(o) /\ requests'[o] = requests[o]
      BY <1>5, <2>2 DEF Live, Inside, RequestAt
    <3>2. inflight[requests[o].key] = o
      BY <3>1 DEF ClientInv, SharedIsListed
    <3>3. requests[o].key # key
      BY <3>1, <3>2, ParameterTypes
    <3> QED BY <3>1, <3>2, <3>3 DEF ClientInv, TasksTypeOK
  <2> QED BY <2>1, <2>2
<1>12. WaitsForStarted'
  <2>1. \A v \in Callers : callers'[v].pc = "waiting" =>
           /\ callers'[v].request \in Requests
           /\ requests'[callers'[v].request].pc # "free"
    BY <1>3, <1>5, <1>6 DEF ClientInv, WaitsForStarted
  <2> QED BY <2>1 DEF WaitsForStarted
<1>13. OwnedWorkSurvives'
  <2>1. \A o \in Requests : requests'[o].cancelling => o # r /\ requests[o].cancelling
    BY <1>3, <1>5
  <2> QED BY <1>5, <1>6, <2>1 DEF ClientInv, OwnedWorkSurvives, Detached, Owners
<1>14. ProbeSettlesOrEscapes'
  <2>1. ~requests[r].probe
    BY <1>1 DEF Free
  <2> QED BY <1>5, <2>1, ProbeStays DEF Probing
<1>15. Submissions
  BY <1>3, <1>5 DEF Submissions, RequestAt
<1> QED BY <1>4, <1>5, <1>9, <1>10, <1>11, <1>12, <1>13, <1>14, <1>15 DEF ClientInv

\* A caller joins the task of its key, or leaves the one it waits for.
LEMMA CallerStepKeeps ==
    ASSUME ClientParameters, ClientInv, NEW w \in Callers, UNCHANGED <<circuit, cache>>,
           requests' \in [Requests -> Request], inflight' \in [Keys -> Requests \cup {Null}],
           callers' \in [Callers -> Caller],
           \A o \in Requests :
               /\ SameTask(requests[o], requests'[o])
               /\ requests[o].cancelling => requests'[o].cancelling,
           \A k \in Keys : IF inflight'[k] = Null
                           THEN inflight[k] # Null => requests'[inflight[k]].cancelling
                           ELSE inflight'[k] = inflight[k] /\ ~requests'[inflight[k]].cancelling,
           \A v \in Callers : callers'[v].pc = "waiting" =>
               \/ callers[v].pc = "waiting" /\ callers'[v].request = callers[v].request
               \/ \E k \in Keys : inflight'[k] # Null /\ callers'[v].request = inflight'[k],
           \A o \in Requests : Detached(o) /\ requests'[o].cancelling /\ ~requests[o].cancelling
               => \A v \in Callers : ~(callers'[v].pc = "waiting" /\ callers'[v].request = o)
    PROVE  ClientInv' /\ Submissions
<1>1. TasksTypeOK'
  BY DEF ClientInv, TasksTypeOK
<1>2. TableOK'
  BY DEF ClientInv, TasksTypeOK, TableOK, SameTask
<1>3. SharedIsListed'
  <2> SUFFICES ASSUME NEW o \in Requests, Live(o)', requests'[o].key \in Keys,
                      ~requests'[o].cancelling
               PROVE  inflight'[requests'[o].key] = o
    BY DEF SharedIsListed
  <2>1. /\ Live(o) /\ ~requests[o].cancelling /\ requests'[o].key = requests[o].key
    BY DEF SameTask, Live, Inside, RequestAt
  <2>2. inflight[requests[o].key] = o /\ o # Null
    BY <2>1, ParameterTypes DEF ClientInv, SharedIsListed
  <2> QED BY <2>1, <2>2
<1>4. WaitsForStarted'
  <2>1. \A v \in Callers : callers'[v].pc = "waiting" =>
           /\ callers'[v].request \in Requests
           /\ requests'[callers'[v].request].pc # "free"
    BY DEF ClientInv, WaitsForStarted, TasksTypeOK, TableOK, SameTask
  <2> QED BY <2>1 DEF WaitsForStarted
<1>5. OwnedWorkSurvives'
  <2> SUFFICES ASSUME NEW o \in Requests, Detached(o)', requests'[o].cancelling,
                      NEW v \in Callers, callers'[v].pc = "waiting", callers'[v].request = o
               PROVE  FALSE
    BY DEF OwnedWorkSurvives, Owners
  <2>1. Detached(o) /\ requests[o].cancelling
    BY DEF Detached, SameTask
  <2>2. ~(callers[v].pc = "waiting" /\ callers[v].request = o)
    BY <2>1 DEF ClientInv, OwnedWorkSurvives, Owners
  <2>3. PICK k \in Keys : inflight'[k] # Null /\ inflight'[k] = o
    BY <2>2
  <2> QED BY <2>3
<1>6. ProbeSettlesOrEscapes'
  BY ProbeStays DEF Probing, SameTask
<1>7. Submissions
  BY DEF Submissions, SameTask, RequestAt
<1> QED BY <1>1, <1>2, <1>3, <1>4, <1>5, <1>6, <1>7 DEF ClientInv, SameTask

\* A request nobody touches stays the task it was.
LEMMA UnchangedIsSameTask ==
    ASSUME ClientInv, NEW o \in Requests
    PROVE  SameTask(requests[o], requests[o])
BY DEF ClientInv, TasksTypeOK, SameTask

\* A caller waits for the task it asked for.
LEMMA WaitFields ==
    ASSUME ClientInv, NEW w \in Callers, NEW r \in Requests, Wait(w, r)
    PROVE  /\ callers' \in [Callers -> Caller]
           /\ callers'[w].request = r
           /\ \A v \in Callers : v # w => callers'[v] = callers[v]
BY DEF Wait, ClientInv, TasksTypeOK, Caller

\* A caller that was answered waits no more.
LEMMA AnsweredFields ==
    ASSUME ClientInv, NEW w \in Callers, NEW o \in Outcomes, NEW a \in BOOLEAN, Answered(w, o, a)
    PROVE  /\ callers' \in [Callers -> Caller]
           /\ callers'[w].pc # "waiting"
           /\ \A v \in Callers : v # w => callers'[v] = callers[v]
<1> DEFINE c == [callers[w] EXCEPT !.pc = "answered", !.outcome = o, !.asked = a]
<1>1. callers \in [Callers -> Caller] /\ callers[w] \in Caller
  BY DEF ClientInv, TasksTypeOK
<1>2. callers' = [callers EXCEPT ![w] = c]
  BY <1>1 DEF Answered, Caller
<1>3. c \in Caller /\ c.pc # "waiting"
  BY <1>1 DEF Caller
<1> HIDE DEF c
<1> QED BY <1>1, <1>2, <1>3

\* A caller joins the task of its key; the task is an orphan no more.
LEMMA JoinKeeps ==
    ASSUME ClientParameters, ClientInv, NEW w \in Callers, NEW k \in Keys,
           inflight[k] # Null, Wait(w, inflight[k]),
           requests' = [requests EXCEPT ![inflight[k]].orphaned = FALSE],
           UNCHANGED <<circuit, inflight, cache>>
    PROVE  ClientInv' /\ Submissions
<1> DEFINE r == inflight[k]
           p == requests[r]
           q == [p EXCEPT !.orphaned = FALSE]
<1>1. r \in Requests /\ p \in Request /\ RequestOK(p) /\ p.pc # "free"
  BY DEF ClientInv, TasksTypeOK, TableOK
<1>2. SameTask(p, q) /\ q.cancelling = p.cancelling
  <2>1. /\ q \in Request /\ q.pc = p.pc /\ q.kind = p.kind /\ q.key = p.key /\ ~q.orphaned
        /\ q.probe = p.probe /\ q.outcome = p.outcome /\ q.tries = p.tries
        /\ q.cancelling = p.cancelling
    BY <1>1 DEF Request
  <2> HIDE DEF q
  <2> QED BY <1>1, <2>1 DEF SameTask, RequestOK
<1>3. requests' = [requests EXCEPT ![r] = q]
  OBVIOUS
<1> HIDE DEF q
<1>4. /\ requests' \in [Requests -> Request]
      /\ \A o \in Requests : /\ SameTask(requests[o], requests'[o])
                             /\ requests'[o].cancelling = requests[o].cancelling
  BY <1>1, <1>2, <1>3, UnchangedIsSameTask DEF ClientInv, TasksTypeOK, SameTask
<1>5. /\ callers' \in [Callers -> Caller] /\ callers'[w].request = r
      /\ \A v \in Callers : v # w => callers'[v] = callers[v]
  BY <1>1, WaitFields
<1>6. \A x \in Keys : inflight[x] # Null => ~requests[inflight[x]].cancelling
  BY DEF ClientInv, TableOK
<1>7. \A v \in Callers : callers'[v].pc = "waiting" =>
         \/ callers[v].pc = "waiting" /\ callers'[v].request = callers[v].request
         \/ \E x \in Keys : inflight'[x] # Null /\ callers'[v].request = inflight'[x]
  BY <1>5
<1>8. inflight' \in [Keys -> Requests \cup {Null}]
  BY DEF ClientInv, TasksTypeOK
<1>9. \A x \in Keys : IF inflight'[x] = Null
                      THEN inflight[x] # Null => requests'[inflight[x]].cancelling
                      ELSE inflight'[x] = inflight[x] /\ ~requests'[inflight[x]].cancelling
  BY <1>4, <1>6 DEF ClientInv, TasksTypeOK
<1> QED BY <1>4, <1>5, <1>7, <1>8, <1>9, CallerStepKeeps

\* A caller that waits for nothing more, and touches no task.
LEMMA RestKeeps ==
    ASSUME ClientParameters, ClientInv, NEW w \in Callers, NEW o \in Outcomes, NEW a \in BOOLEAN,
           Answered(w, o, a), UNCHANGED <<circuit, requests, inflight, cache>>
    PROVE  ClientInv' /\ Submissions
<1>1. /\ callers' \in [Callers -> Caller] /\ callers'[w].pc # "waiting"
      /\ \A v \in Callers : v # w => callers'[v] = callers[v]
  BY AnsweredFields
<1>2. \A x \in Keys : inflight[x] # Null => ~requests[inflight[x]].cancelling
  BY DEF ClientInv, TableOK
<1>3. \A v \in Callers : callers'[v].pc = "waiting" =>
         callers[v].pc = "waiting" /\ callers'[v].request = callers[v].request
  BY <1>1
<1>4. \A r \in Requests : SameTask(requests[r], requests'[r])
  BY UnchangedIsSameTask
<1>5. requests' \in [Requests -> Request] /\ inflight' \in [Keys -> Requests \cup {Null}]
  BY DEF ClientInv, TasksTypeOK
<1> QED BY <1>1, <1>2, <1>3, <1>4, <1>5, CallerStepKeeps

\* The last owner of a detached task takes one that has not crossed along.
LEMMA LeaveKeeps ==
    ASSUME ClientParameters, ClientInv, NEW w \in Callers, NEW r \in Requests,
           callers[w].pc = "waiting", callers[w].request = r, Detached(r),
           Answered(w, "cancelled", TRUE), Leave(w, r), UNCHANGED <<circuit, cache>>
    PROVE  ClientInv' /\ Submissions
<1> DEFINE p == requests[r]
           last == Owners(r) = {w}
           takes == last /\ MayCancel(r)
           orphaned == p.orphaned \/ last
           cancelling == p.cancelling \/ takes
           q == [p EXCEPT !.orphaned = orphaned, !.cancelling = cancelling]
<1>1. p \in Request /\ RequestOK(p) /\ p.pc # "free" /\ p.kind \in {"shared", "observed"}
  BY DEF ClientInv, TasksTypeOK, WaitsForStarted, Detached
<1>2. /\ requests' = [requests EXCEPT ![r] = q]
      /\ inflight' = [k \in Keys |-> IF inflight[k] = r /\ takes THEN Null ELSE inflight[k]]
  BY DEF Leave, Abandons
<1>3. MayCancel(r) <=> p.pc \in LivePcs /\ ~p.crossed
  BY DEF MayCancel, Live, Inside, RequestAt, LivePcs
<1>4. orphaned \in BOOLEAN /\ cancelling \in BOOLEAN
  BY <1>1 DEF Request
<1>5. (orphaned /\ p.pc \in LivePcs) => p.crossed \/ cancelling
  BY <1>1, <1>3 DEF RequestOK
<1>6. p.cancelling => cancelling
  OBVIOUS
<1>7. (cancelling /\ ~p.cancelling) => takes
  OBVIOUS
<1>8. takes => cancelling /\ last
  OBVIOUS
<1> HIDE DEF orphaned, cancelling, takes, last
<1>9. /\ q \in Request /\ q.pc = p.pc /\ q.kind = p.kind /\ q.key = p.key
      /\ q.probe = p.probe /\ q.outcome = p.outcome /\ q.tries = p.tries
      /\ q.crossed = p.crossed /\ q.orphaned = orphaned /\ q.cancelling = cancelling
  BY <1>1, <1>4 DEF Request
<1> HIDE DEF q
<1>10. SameTask(p, q)
  BY <1>1, <1>5, <1>9 DEF SameTask, RequestOK
<1>11. /\ requests' \in [Requests -> Request] /\ requests'[r] = q
       /\ \A o \in Requests : o # r => requests'[o] = requests[o]
  BY <1>2, <1>9 DEF ClientInv, TasksTypeOK
<1>12. \A o \in Requests : /\ SameTask(requests[o], requests'[o])
                           /\ requests[o].cancelling => requests'[o].cancelling
  BY <1>6, <1>9, <1>10, <1>11, UnchangedIsSameTask
<1>13. /\ callers' \in [Callers -> Caller] /\ callers'[w].pc # "waiting"
       /\ \A v \in Callers : v # w => callers'[v] = callers[v]
  BY AnsweredFields DEF Outcomes
<1>14. inflight' \in [Keys -> Requests \cup {Null}]
  BY <1>2 DEF ClientInv, TasksTypeOK
<1>15. \A k \in Keys : IF inflight'[k] = Null
                       THEN inflight[k] # Null => requests'[inflight[k]].cancelling
                       ELSE inflight'[k] = inflight[k] /\ ~requests'[inflight[k]].cancelling
  <2> TAKE k \in Keys
  <2>1. inflight[k] # Null => inflight[k] \in Requests /\ ~requests[inflight[k]].cancelling
    BY DEF ClientInv, TableOK, TasksTypeOK
  <2>2. CASE inflight[k] = r /\ takes
    BY <1>2, <1>8, <1>9, <1>11, <2>2
  <2>3. CASE inflight[k] = r /\ ~takes
    <3>1. inflight'[k] = r /\ ~cancelling
      BY <1>2, <1>7, <2>1, <2>3, ParameterTypes
    <3> QED BY <1>9, <1>11, <2>3, <3>1, ParameterTypes
  <2>4. CASE inflight[k] # r
    <3>1. inflight'[k] = inflight[k]
      BY <1>2, <2>4
    <3> QED BY <1>11, <2>1, <2>4, <3>1
  <2> QED BY <2>2, <2>3, <2>4
<1>16. \A v \in Callers : callers'[v].pc = "waiting" =>
          callers[v].pc = "waiting" /\ callers'[v].request = callers[v].request
  BY <1>13
<1>17. \A o \in Requests : Detached(o) /\ requests'[o].cancelling /\ ~requests[o].cancelling
           => \A v \in Callers : ~(callers'[v].pc = "waiting" /\ callers'[v].request = o)
  <2> SUFFICES ASSUME NEW o \in Requests, requests'[o].cancelling, ~requests[o].cancelling,
                      NEW v \in Callers, callers'[v].pc = "waiting", callers'[v].request = o
               PROVE  FALSE
    OBVIOUS
  <2>1. o = r /\ last
    BY <1>7, <1>8, <1>9, <1>11
  <2>2. v # w /\ v \in Owners(r)
    BY <1>13, <1>16, <2>1 DEF Owners
  <2> QED BY <2>1, <2>2 DEF last
<1> QED BY <1>11, <1>12, <1>13, <1>14, <1>15, <1>16, <1>17, CallerStepKeeps

\* A caller that runs its request itself takes the cancellation into it.
LEMMA CancelAloneKeeps ==
    ASSUME ClientParameters, ClientInv, NEW w \in Callers, NEW r \in Requests,
           callers[w].pc = "waiting", callers[w].request = r, ~Detached(r),
           callers' = [callers EXCEPT ![w].asked = TRUE],
           requests' = [requests EXCEPT ![r].cancelling = TRUE],
           UNCHANGED <<circuit, inflight, cache>>
    PROVE  ClientInv' /\ Submissions
<1> DEFINE p == requests[r]
           q == [p EXCEPT !.cancelling = TRUE]
<1>1. p \in Request /\ RequestOK(p) /\ p.pc # "free" /\ p.kind \notin {"shared", "observed"}
  BY DEF ClientInv, TasksTypeOK, WaitsForStarted, Detached
<1>2. requests' = [requests EXCEPT ![r] = q]
  OBVIOUS
<1>3. /\ q \in Request /\ q.pc = p.pc /\ q.kind = p.kind /\ q.key = p.key
      /\ q.probe = p.probe /\ q.outcome = p.outcome /\ q.tries = p.tries
      /\ q.orphaned = p.orphaned /\ q.cancelling
  BY <1>1 DEF Request
<1> HIDE DEF q
<1>4. SameTask(p, q)
  BY <1>1, <1>3 DEF SameTask, RequestOK
<1>5. /\ requests' \in [Requests -> Request] /\ requests'[r] = q
      /\ \A o \in Requests : o # r => requests'[o] = requests[o]
  BY <1>2, <1>3 DEF ClientInv, TasksTypeOK
<1>6. \A o \in Requests : /\ SameTask(requests[o], requests'[o])
                          /\ requests[o].cancelling => requests'[o].cancelling
  BY <1>3, <1>4, <1>5, UnchangedIsSameTask
<1>7. /\ callers' \in [Callers -> Caller]
      /\ \A v \in Callers : callers'[v].pc = callers[v].pc
                            /\ callers'[v].request = callers[v].request
  BY DEF ClientInv, TasksTypeOK, Caller
<1>8. inflight' \in [Keys -> Requests \cup {Null}]
  BY DEF ClientInv, TasksTypeOK
<1>9. \A k \in Keys : IF inflight'[k] = Null
                      THEN inflight[k] # Null => requests'[inflight[k]].cancelling
                      ELSE inflight'[k] = inflight[k] /\ ~requests'[inflight[k]].cancelling
  <2> TAKE k \in Keys
  <2> SUFFICES ASSUME inflight[k] # Null
               PROVE  ~requests'[inflight[k]].cancelling
    OBVIOUS
  <2>1. /\ inflight[k] \in Requests /\ requests[inflight[k]].kind = "shared"
        /\ ~requests[inflight[k]].cancelling
    BY DEF ClientInv, TasksTypeOK, TableOK
  <2> QED BY <1>1, <1>5, <2>1
<1>10. \A o \in Requests : ~(Detached(o) /\ requests'[o].cancelling /\ ~requests[o].cancelling)
  BY <1>1, <1>5 DEF Detached
<1> QED BY <1>5, <1>6, <1>7, <1>8, <1>9, <1>10, CallerStepKeeps

\* The cancellation of a caller keeps ClientInv.
LEMMA CancelCallerKeeps ==
    ASSUME ClientParameters, ClientInv, NEW w \in Callers, CancelCaller(w)
    PROVE  ClientInv' /\ Submissions
<1> DEFINE r == callers[w].request
<1>1. r \in Requests /\ callers[w].pc = "waiting"
  BY DEF CancelCaller, ClientInv, WaitsForStarted
<1>2. CASE Detached(r)
  BY <1>1, <1>2, LeaveKeeps DEF CancelCaller
<1>3. CASE ~Detached(r)
  BY <1>1, <1>3, CancelAloneKeeps DEF CancelCaller
<1> QED BY <1>2, <1>3

\* The answer of an ended task keeps ClientInv.
LEMMA WakeKeeps ==
    ASSUME ClientParameters, ClientInv, NEW w \in Callers, Wake(w)
    PROVE  ClientInv' /\ Submissions
<1>1. /\ requests[callers[w].request].outcome \in Outcomes
      /\ callers[w].asked \in BOOLEAN
  BY DEF Wake, ClientInv, WaitsForStarted, TasksTypeOK, Request, Caller
<1> QED BY <1>1, RestKeeps DEF Wake

\* A call keeps ClientInv: from the cache, by joining, or with a new request.
LEMMA AskKeeps ==
    ASSUME ClientParameters, ClientInv, NEW w \in Callers, Ask(w)
    PROVE  ClientInv' /\ Submissions
<1>1. callers[w].pc = "idle" /\ callers[w].asked \in BOOLEAN
  BY DEF Ask, ClientInv, TasksTypeOK, Caller
<1>2. ASSUME NEW k \in Keys, "shared" \in Kinds, AskShared(w, k)
      PROVE  ClientInv' /\ Submissions
  <2>1. CASE k \in cache
    <3>1. callers[w] \in Caller
      BY DEF ClientInv, TasksTypeOK
    <3>2. [callers[w] EXCEPT !.pc = "answered", !.outcome = "result"]
          = [callers[w] EXCEPT !.pc = "answered", !.outcome = "result", !.asked = callers[w].asked]
      BY <3>1 DEF Caller
    <3>3. Answered(w, "result", callers[w].asked)
      BY <1>2, <2>1, <3>2 DEF AskShared, Answered
    <3>4. UNCHANGED <<circuit, requests, inflight, cache>>
      BY <1>2, <2>1 DEF AskShared
    <3> QED BY <1>1, <3>3, <3>4, RestKeeps DEF Outcomes
  <2>2. CASE k \notin cache /\ inflight[k] # Null
    BY <1>2, <2>2, JoinKeeps DEF AskShared
  <2>3. CASE k \notin cache /\ inflight[k] = Null
    <3> PICK r \in Requests : /\ RequestAt(r, {"free"}) /\ Started(r, "shared", k)
                              /\ inflight' = [inflight EXCEPT ![k] = r] /\ Wait(w, r)
      BY <1>2, <2>3 DEF AskShared
    <3>1. UNCHANGED <<circuit, cache>>
      BY <1>2, <2>3 DEF AskShared
    <3> QED BY <1>1, <1>2, <2>3, <3>1, StartKeeps
  <2> QED BY <2>1, <2>2, <2>3
<1>3. ASSUME NEW kind \in Kinds \ {"shared"}, AskAlone(w, kind)
      PROVE  ClientInv' /\ Submissions
  <2> PICK r \in Requests : RequestAt(r, {"free"}) /\ Started(r, kind, Null) /\ Wait(w, r)
    BY <1>3 DEF AskAlone
  <2>1. UNCHANGED <<circuit, inflight, cache>> /\ Null \notin Keys
    BY <1>3, ParameterTypes DEF AskAlone
  <2> QED BY <1>1, <2>1, StartKeeps
<1> QED BY <1>2, <1>3 DEF Ask

\* What touches neither the requests nor the callers nor the table.
LEMMA IdleKeeps ==
    ASSUME ClientInv, UNCHANGED <<requests, inflight, callers>>,
           circuit' \in Circuit, circuit'.state = circuit.state, cache' \subseteq Keys
    PROVE  ClientInv' /\ Submissions
<1>1. TasksTypeOK' /\ TableOK' /\ SharedIsListed' /\ WaitsForStarted'
  BY DEF ClientInv, TasksTypeOK, TableOK, SharedIsListed, WaitsForStarted, Live, Inside, RequestAt
<1>2. OwnedWorkSurvives' /\ ProbeSettlesOrEscapes'
  BY DEF ClientInv, OwnedWorkSurvives, ProbeSettlesOrEscapes, Detached, Owners, Inside, RequestAt
<1>3. Submissions
  BY DEF Submissions, RequestAt
<1> QED BY <1>1, <1>2, <1>3 DEF ClientInv

\* ClientInv is inductive, and every step makes only the submissions it may.
LEMMA ClientStep ==
    ASSUME ClientParameters, ClientInv, [TasksNext]_clientVars
    PROVE  ClientInv' /\ Submissions
<1>1. ASSUME NEW r \in Requests, RequestStep(r)
      PROVE  ClientInv' /\ Submissions
  <2>1. CASE OnDone(r)
    BY <2>1, OnDoneKeeps
  <2>2. CASE ~OnDone(r)
    <3>1. RequestMoves(r)
      BY <1>1, <2>2, EnqueueMoves, AdmitMoves, AcceptedMoves, LostMoves, UnsentMoves, RetryMoves,
         PersistMoves, EndingMoves
      DEF RequestStep
    <3> QED BY <3>1, MovesKeep
  <2> QED BY <2>1, <2>2
<1>2. ASSUME NEW w \in Callers, Ask(w) \/ Wake(w) \/ CancelCaller(w)
      PROVE  ClientInv' /\ Submissions
  BY <1>2, AskKeeps, WakeKeeps, CancelCallerKeeps
<1>3. CASE Cool
  <2>1. circuit' \in Circuit /\ circuit'.state = circuit.state
    BY <1>3 DEF Cool, ClientInv, TasksTypeOK, Circuit
  <2> QED BY <1>3, <2>1, IdleKeeps DEF Cool, ClientInv, TasksTypeOK
<1>4. ASSUME NEW k \in Keys, Evict(k)
      PROVE  ClientInv' /\ Submissions
  BY <1>4, IdleKeeps DEF Evict, ClientInv, TasksTypeOK
<1>5. CASE UNCHANGED clientVars
  BY <1>5, IdleKeeps DEF clientVars, ClientInv, TasksTypeOK
<1> QED BY <1>1, <1>2, <1>3, <1>4, <1>5 DEF TasksNext

-----------------------------------------------------------------------------
\* The client keeps ClientInv: its records are well formed, the shared table
\* lists exactly the live tasks of its keys, and callers wait for started ones.
THEOREM ClientKeepsItsTable == ASSUME ClientParameters PROVE TasksSpec => []ClientInv
<1>1. TasksInit => ClientInv
  BY ClientInit
<1>2. ClientInv /\ [TasksNext]_clientVars => ClientInv'
  BY ClientStep
<1> QED BY <1>1, <1>2, PTL DEF TasksSpec

\* A detached task is cancelled only when nobody waits for it, whatever callers
\* come, join and leave between its start and the cancellation's delivery
\* (_deduped, _observed_submit).
THEOREM OwnersKeepTheirTask == ASSUME ClientParameters PROVE TasksSpec => []OwnedWorkSurvives
<1>1. ClientInv => OwnedWorkSurvives
  BY DEF ClientInv
<1> QED BY <1>1, ClientKeepsItsTable, PTL

\* A half-open circuit has a probe that will settle it, or lost it to an
\* exception no handler knows (_before_circuit_request, _submit_and_poll).
THEOREM ProbesSettle == ASSUME ClientParameters PROVE TasksSpec => []ProbeSettlesOrEscapes
<1>1. ClientInv => ProbeSettlesOrEscapes
  BY DEF ClientInv
<1> QED BY <1>1, ClientKeepsItsTable, PTL

\* Two live tasks with one key exist only when the older was cancelled (_deduped).
THEOREM KeysShareTheirTask == ASSUME ClientParameters PROVE TasksSpec => []OneTaskPerKey
<1>1. ASSUME ClientInv PROVE OneTaskPerKey
  <2> SUFFICES ASSUME NEW k \in Keys
               PROVE  Cardinality({r \in Requests :
                          requests[r].key = k /\ Live(r) /\ ~requests[r].cancelling}) <= 1
    BY DEF OneTaskPerKey
  <2> DEFINE S == {r \in Requests : requests[r].key = k /\ Live(r) /\ ~requests[r].cancelling}
  <2>1. S \in SUBSET {inflight[k]}
    BY <1>1 DEF ClientInv, SharedIsListed
  <2>2. IsFiniteSet({inflight[k]}) /\ Cardinality({inflight[k]}) = 1
    BY FS_Singleton
  <2>3. Cardinality(S) <= 1
    BY <2>1, <2>2, FS_Subset
  <2> QED BY <2>3
<1>2. ClientInv => OneTaskPerKey
  BY <1>1
<1> QED BY <1>2, ClientKeepsItsTable, PTL

\* No POST goes out that nobody waits for, except the repetition of one the
\* service may have taken already (_SubmitBoundary).
THEOREM SubmitsAreOwned == ASSUME ClientParameters PROVE TasksSpec => NoOwnerlessSubmit
<1>1. ClientInv /\ [TasksNext]_clientVars => [Submissions]_clientVars
  BY ClientStep
<1>2. [Submissions]_clientVars =>
        [\A r \in Requests :
          (/\ ~RequestAt(r, {"sending"}) /\ RequestAt(r, {"sending"})'
           /\ requests[r].orphaned)
          => requests[r].crossed]_clientVars
  BY DEF Submissions
<1> QED BY <1>1, <1>2, ClientKeepsItsTable, PTL DEF TasksSpec, NoOwnerlessSubmit

-----------------------------------------------------------------------------
(* The effect ledger.                                                      *)

Observing == {"polling", "resuming", "ok", "failed"}

\* What a submission s of attempt a for op relies on.
Fits(a, op, s) ==
    /\ s.pc # "none" => Pc(a) # "idle"
    /\ s.pc \in {"prepare", "ready", "unsent", "doubted"} => s.tries < Tries
    /\ s.pc \in {"prepare"} \cup Posting => s.asks # None
    /\ s.pc \in Posting \cup {"persist"} => attempts[a].epoch <= intents[op]
    /\ s.pc \in Posting /\ receipts[op] # None
          => attempts[a].epoch < intents[op]
    /\ s.pc = "persist" => service[op] # None
    /\ s.pc \in Observing => receipts[op] # None

Epochs ==
    /\ \A a \in Attempts : attempts[a].epoch <= job.epoch
    /\ \A a \in Attempts : attempts[a].epoch = 0 <=> Pc(a) = "idle"
    /\ \A a, b \in Attempts :
          attempts[a].epoch = attempts[b].epoch /\ Pc(a) # "idle" => a = b
    /\ \A op \in Ops : intents[op] <= job.epoch

Evidence ==
    \A op \in Ops : /\ service[op] # None => intents[op] # 0
                    /\ receipts[op] # None => receipts[op] = service[op]

AllFit == \A a \in Attempts, op \in Ops : Fits(a, op, subs[a][op])

IInv == TypeOK /\ Epochs /\ Evidence /\ AllFit

-----------------------------------------------------------------------------
(* Types of the parts a step changes.                                      *)

LEMMA InitInv == Init => IInv
<1> SUFFICES ASSUME Init PROVE IInv
  OBVIOUS
<1> USE EffectParameters, NoneIsNoMapping DEF Init
<1>1. NoSub \in Sub
  BY DEF NoSub, Sub, Posting, Ended, Results
<1>2. TypeOK
  <2>1. job \in Job
    BY DEF Job
  <2>2. entry \in Entry
    BY DEF Entry
  <2>3. attempts \in [Attempts -> Attempt]
    BY DEF Attempt, AttemptPcs
  <2>4. subs \in [Attempts -> [Ops -> Sub]]
    BY <1>1
  <2> QED
    BY <2>1, <2>2, <2>3, <2>4 DEF TypeOK
<1>3. Epochs
  BY DEF Epochs, Pc
<1>4. Evidence
  BY DEF Evidence
<1>5. AllFit
  BY DEF AllFit, Fits, NoSub, Posting, Observing, Pc
<1> QED
  BY <1>2, <1>3, <1>4, <1>5 DEF IInv

\* Replacing one submission by one of the type.
LEMMA SubsUpdate ==
    ASSUME subs \in [Attempts -> [Ops -> Sub]],
           NEW a \in Attempts, NEW op \in Ops, NEW x \in Sub,
           subs' = [subs EXCEPT ![a][op] = x]
    PROVE  /\ subs' \in [Attempts -> [Ops -> Sub]]
           /\ \A b \in Attempts, o \in Ops :
                 subs'[b][o] = IF b = a /\ o = op THEN x ELSE subs[b][o]
  OBVIOUS

\* A submission that moves on keeps the rest of its record.
LEMMA SubMoves ==
    ASSUME TypeOK, NEW a \in Attempts, NEW op \in Ops,
           NEW pc \in {"ready", "sent", "unsent", "doubted", "prepare",
                       "persist", "polling", "resuming"},
           SubGoto(a, op, pc)
    PROVE  /\ subs' \in [Attempts -> [Ops -> Sub]]
           /\ \A b \in Attempts, o \in Ops :
                 (b = a /\ o = op) \/ subs'[b][o] = subs[b][o]
           /\ subs'[a][op].pc = pc
           /\ subs'[a][op].asks = Asks(a, op)
           /\ subs'[a][op].tries = subs[a][op].tries
<1> DEFINE x == [subs[a][op] EXCEPT !.pc = pc]
<1>1. subs \in [Attempts -> [Ops -> Sub]]
  BY DEF TypeOK
<1>2. subs[a][op] \in Sub
  BY <1>1
<1>3. x \in Sub /\ x.pc = pc /\ x.asks = subs[a][op].asks
        /\ x.tries = subs[a][op].tries
  BY <1>2 DEF Sub, Posting, Ended, Results
<1>4. subs' = [subs EXCEPT ![a][op] = x]
  BY <1>1, <1>2 DEF SubGoto
<1> HIDE DEF x
<1> QED
  BY <1>1, <1>3, <1>4, SubsUpdate DEF Asks

\* A submission that ends.
LEMMA SubStops ==
    ASSUME TypeOK, NEW a \in Attempts, NEW op \in Ops,
           NEW result \in Ended, SubEnds(a, op, result)
    PROVE  /\ subs' \in [Attempts -> [Ops -> Sub]]
           /\ \A b \in Attempts, o \in Ops :
                 (b = a /\ o = op) \/ subs'[b][o] = subs[b][o]
           /\ subs'[a][op].pc \in {"none", result}
<1> DEFINE x == IF Pc(a) = "scraping" THEN [NoSub EXCEPT !.pc = result] ELSE NoSub
<1>1. subs \in [Attempts -> [Ops -> Sub]]
  BY DEF TypeOK
<1>2. x \in Sub /\ x.pc \in {"none", result}
  <2>1. NoSub \in Sub
    BY EffectParameters DEF NoSub, Sub, Posting, Ended, Results
  <2>2. \A s \in Sub : [s EXCEPT !.pc = result] \in Sub
                        /\ [s EXCEPT !.pc = result].pc = result
    BY DEF Sub, Ended, Results
  <2>3. NoSub.pc = "none"
    BY DEF NoSub
  <2> HIDE DEF NoSub
  <2> QED
    BY <2>1, <2>2, <2>3
<1>3. subs' = [subs EXCEPT ![a][op] = x]
  BY DEF SubEnds
<1> HIDE DEF x
<1> QED
  BY <1>1, <1>2, <1>3, SubsUpdate

-----------------------------------------------------------------------------
(* Three ways for a step to keep the invariant.                            *)

AttemptsStay ==
    /\ job'.epoch = job.epoch
    /\ \A a \in Attempts : /\ attempts'[a].epoch = attempts[a].epoch
                           /\ attempts'[a].pc = "idle" <=> Pc(a) = "idle"

LedgerStays == UNCHANGED <<intents, receipts, service>>

\* A step that leaves the ledger alone and whose submissions still fit it.
LEMMA Calm ==
    ASSUME IInv, TypeOK', AttemptsStay, LedgerStays,
           \A a \in Attempts, op \in Ops : Fits(a, op, subs'[a][op])
    PROVE  IInv'
<1>1. Epochs'
  BY DEF IInv, Epochs, AttemptsStay, LedgerStays, Pc
<1>2. Evidence'
  BY DEF IInv, Evidence, LedgerStays
<1>3. AllFit'
  BY DEF AllFit, Fits, AttemptsStay, LedgerStays, Pc
<1> QED
  BY <1>1, <1>2, <1>3 DEF IInv

\* The same when at most one submission has changed.
LEMMA CalmButOne ==
    ASSUME IInv, TypeOK', AttemptsStay, LedgerStays,
           NEW a \in Attempts, NEW op \in Ops,
           \A b \in Attempts, o \in Ops :
              (b = a /\ o = op) \/ subs'[b][o] = subs[b][o],
           Fits(a, op, subs'[a][op])
    PROVE  IInv'
<1>1. \A b \in Attempts, o \in Ops : Fits(b, o, subs[b][o])
  BY DEF IInv, AllFit
<1>2. \A b \in Attempts, o \in Ops : Fits(b, o, subs'[b][o])
  <2> SUFFICES ASSUME NEW b \in Attempts, NEW o \in Ops
               PROVE  Fits(b, o, subs'[b][o])
    OBVIOUS
  <2>1. CASE b = a /\ o = op
    BY <2>1
  <2>2. CASE subs'[b][o] = subs[b][o]
    BY <1>1, <2>2
  <2> QED
    BY <2>1, <2>2
<1> QED
  BY <1>2, Calm

\* The service takes a post: its operation was posted under an intent.
LEMMA Taken ==
    ASSUME IInv, TypeOK', AttemptsStay, UNCHANGED <<intents, receipts>>,
           NEW a \in Attempts, NEW op \in Ops,
           SubPc(a, op) = "sent", Take(a, op),
           \A b \in Attempts, o \in Ops :
              (b = a /\ o = op) \/ subs'[b][o] = subs[b][o],
           subs'[a][op].pc \in {"none", "doubted", "persist", "doubtful", "escaped"},
           subs'[a][op].pc = "doubted" =>
              /\ subs'[a][op].tries < Tries
              /\ subs'[a][op].asks # None
    PROVE  IInv'
<1>1. \A b \in Attempts, o \in Ops : Fits(b, o, subs[b][o])
  BY DEF IInv, AllFit
<1>2. Fits(a, op, subs[a][op])
  BY <1>1
<1>3. /\ Pc(a) # "idle" /\ attempts[a].epoch <= intents[op] /\ Asks(a, op) # None
      /\ receipts[op] # None => attempts[a].epoch < intents[op]
  BY <1>2 DEF Fits, SubPc, Asks, Posting
<1>4. \A o \in Ops : service[o] # None => service'[o] = service[o]
  BY DEF Take, IInv, TypeOK
<1>5. service'[op] # None
  BY <1>3 DEF Take, IInv, TypeOK
<1>6. intents[op] # 0
  <2>1. attempts[a].epoch \in Nat /\ intents[op] \in Nat
    BY DEF IInv, TypeOK, Attempt
  <2>2. attempts[a].epoch # 0
    BY <1>3 DEF IInv, Epochs
  <2> QED
    BY <1>3, <2>1, <2>2
<1>7. Epochs'
  BY DEF IInv, Epochs, AttemptsStay, Pc
<1>8. Evidence'
  <2> SUFFICES ASSUME NEW o \in Ops
               PROVE  /\ service'[o] # None => intents[o] # 0
                      /\ receipts[o] # None => receipts[o] = service'[o]
    BY DEF Evidence
  <2>1. /\ service[o] # None => intents[o] # 0
        /\ receipts[o] # None => receipts[o] = service[o]
    BY DEF IInv, Evidence
  <2>2. o # op => service'[o] = service[o]
    BY DEF Take, IInv, TypeOK
  <2>3. service[op] = None
    BY DEF Take
  <2> QED
    BY <1>6, <2>1, <2>2, <2>3
<1>9. AllFit'
  <2> SUFFICES ASSUME NEW b \in Attempts, NEW o \in Ops
               PROVE  Fits(b, o, subs[b][o])'
    BY DEF AllFit
  <2>1. CASE b = a /\ o = op
    BY <1>3, <1>5, <2>1 DEF Fits, AttemptsStay, Pc, Posting, Observing
  <2>2. CASE subs'[b][o] = subs[b][o]
    BY <1>1, <1>4, <2>2 DEF Fits, AttemptsStay, Pc
  <2> QED
    BY <2>1, <2>2
<1> QED
  BY <1>7, <1>8, <1>9 DEF IInv

-----------------------------------------------------------------------------
(* The steps of an operation.                                              *)

\* What a submission finds, by the invariant.
LEMMA Finds ==
    ASSUME IInv, NEW a \in Attempts, NEW op \in Ops
    PROVE  Fits(a, op, subs[a][op]) /\ subs[a][op] \in Sub
  BY DEF IInv, AllFit, TypeOK

\* A step that changes nothing but one submission, which ends or goes on as Fits.
LEMMA OneSub ==
    ASSUME IInv, NEW a \in Attempts, NEW op \in Ops,
           UNCHANGED <<job, entry, intents, receipts, attempts, service>>,
           subs' \in [Attempts -> [Ops -> Sub]],
           \A b \in Attempts, o \in Ops :
              (b = a /\ o = op) \/ subs'[b][o] = subs[b][o],
           Fits(a, op, subs'[a][op])
    PROVE  IInv'
<1>1. TypeOK'
  BY DEF IInv, TypeOK
<1>2. AttemptsStay /\ LedgerStays
  BY DEF AttemptsStay, LedgerStays, Pc
<1> QED
  BY <1>1, <1>2, CalmButOne

\* A submission ends, whatever with, except as if it had observed a job.
LEMMA EndsInv ==
    ASSUME IInv, NEW a \in Attempts, NEW op \in Ops,
           UNCHANGED <<job, entry, intents, receipts, attempts, service>>,
           SubPc(a, op) # "none",
           NEW result \in Ended, SubEnds(a, op, result),
           result \in {"ok", "failed"} => SubPc(a, op) \in Observing
    PROVE  IInv'
<1>1. TypeOK
  BY DEF IInv
<1>2. Fits(a, op, subs[a][op])
  BY Finds
<1>3. /\ subs' \in [Attempts -> [Ops -> Sub]]
      /\ \A b \in Attempts, o \in Ops :
            (b = a /\ o = op) \/ subs'[b][o] = subs[b][o]
      /\ subs'[a][op].pc \in {"none", result}
  BY <1>1, SubStops
<1>4. Fits(a, op, subs'[a][op])
  BY <1>2, <1>3 DEF Fits, SubPc, Ended, Results, Posting, Observing
<1> QED
  BY <1>3, <1>4, OneSub

\* A submission moves on to a point at which it relies on what it finds.
LEMMA MovesInv ==
    ASSUME IInv, NEW a \in Attempts, NEW op \in Ops,
           UNCHANGED <<job, entry, intents, receipts, attempts, service>>,
           NEW pc \in {"unsent", "doubted", "persist", "resuming"},
           SubGoto(a, op, pc),
           pc \in {"unsent", "doubted"} =>
              SubPc(a, op) = "sent" /\ subs[a][op].tries < Tries,
           pc = "persist" => SubPc(a, op) = "sent" /\ service[op] # None,
           pc = "resuming" => SubPc(a, op) = "prepare" /\ receipts[op] # None
    PROVE  IInv'
<1>1. TypeOK
  BY DEF IInv
<1>2. Fits(a, op, subs[a][op])
  BY Finds
<1>3. /\ subs' \in [Attempts -> [Ops -> Sub]]
      /\ \A b \in Attempts, o \in Ops :
            (b = a /\ o = op) \/ subs'[b][o] = subs[b][o]
      /\ subs'[a][op].pc = pc
      /\ subs'[a][op].asks = Asks(a, op)
      /\ subs'[a][op].tries = subs[a][op].tries
  BY <1>1, SubMoves
<1>4. Fits(a, op, subs'[a][op])
  BY <1>2, <1>3 DEF Fits, SubPc, Asks, Posting, Observing
<1> QED
  BY <1>3, <1>4, OneSub

LEMMA SendInv ==
    ASSUME IInv, NEW a \in Attempts, NEW op \in Ops, Send(a, op) PROVE IInv'
<1> DEFINE x == [subs[a][op] EXCEPT !.pc = "sent", !.tries = @ + 1]
<1>1. subs[a][op] \in Sub /\ Fits(a, op, subs[a][op])
  BY Finds
<1>2. SubPc(a, op) \in {"ready", "unsent", "doubted"} /\ subs[a][op].tries < Tries
  BY <1>1 DEF Send, Fits, SubPc
<1>3. subs[a][op].tries + 1 \in 0..Tries
  BY <1>1, <1>2, EffectParameters DEF Sub
<1>4. x \in Sub /\ x.pc = "sent" /\ x.asks = subs[a][op].asks
  BY <1>1, <1>3 DEF Sub, Posting
<1>5. subs \in [Attempts -> [Ops -> Sub]]
  BY DEF IInv, TypeOK
<1>6. subs' = [subs EXCEPT ![a][op] = x]
  BY <1>5 DEF Send
<1>7. Fits(a, op, x)
  BY <1>1, <1>2, <1>4 DEF Fits, SubPc, Posting, Observing
<1> HIDE DEF x
<1>8. /\ subs' \in [Attempts -> [Ops -> Sub]]
      /\ \A b \in Attempts, o \in Ops :
            subs'[b][o] = IF b = a /\ o = op THEN x ELSE subs[b][o]
  BY <1>4, <1>5, <1>6, SubsUpdate
<1> QED
  BY <1>7, <1>8, OneSub DEF Send

LEMMA CircuitOpenInv ==
    ASSUME IInv, NEW a \in Attempts, NEW op \in Ops, CircuitOpen(a, op)
    PROVE  IInv'
  BY EndsInv DEF CircuitOpen, Ended, Results

LEMMA ConflictInv ==
    ASSUME IInv, NEW a \in Attempts, NEW op \in Ops, Conflict(a, op) PROVE IInv'
  BY EndsInv DEF Conflict, Ended, Results

LEMMA RefusedInv ==
    ASSUME IInv, NEW a \in Attempts, NEW op \in Ops, Refused(a, op) PROVE IInv'
  BY EndsInv DEF Refused, Ended, Results

LEMMA PollInv ==
    ASSUME IInv, NEW a \in Attempts, NEW op \in Ops, Poll(a, op) PROVE IInv'
  BY EndsInv DEF Poll, Ended, Results, Observing

LEMMA UnsentInv ==
    ASSUME IInv, NEW a \in Attempts, NEW op \in Ops, Unsent(a, op) PROVE IInv'
<1>1. CASE subs[a][op].tries < Tries /\ ~subs[a][op].orphan
  BY <1>1, MovesInv DEF Unsent
<1>2. CASE ~(subs[a][op].tries < Tries /\ ~subs[a][op].orphan)
  BY <1>2, EndsInv DEF Unsent, Ended, Results
<1> QED
  BY <1>1, <1>2

\* What is taken is something asked for.
LEMMA TakeType ==
    ASSUME IInv, NEW a \in Attempts, NEW op \in Ops,
           SubPc(a, op) = "sent", Take(a, op),
           UNCHANGED <<job, entry, intents, receipts, attempts>>,
           subs' \in [Attempts -> [Ops -> Sub]]
    PROVE  TypeOK' /\ AttemptsStay
<1>1. Asks(a, op) \in Mappings \cup {None}
  BY Finds DEF Asks, Sub
<1>2. service' \in [Ops -> Mappings \cup {None}]
  BY <1>1 DEF Take, IInv, TypeOK
<1> QED
  BY <1>2 DEF IInv, TypeOK, AttemptsStay, Pc

\* The service takes a post that nobody retries.
LEMMA TakenAndEnds ==
    ASSUME IInv, NEW a \in Attempts, NEW op \in Ops,
           UNCHANGED <<job, entry, intents, receipts, attempts>>,
           SubPc(a, op) = "sent", Take(a, op),
           NEW result \in {"doubtful", "escaped"}, SubEnds(a, op, result)
    PROVE  IInv'
<1>1. /\ subs' \in [Attempts -> [Ops -> Sub]]
      /\ \A b \in Attempts, o \in Ops :
            (b = a /\ o = op) \/ subs'[b][o] = subs[b][o]
      /\ subs'[a][op].pc \in {"none", result}
  BY SubStops DEF IInv, Ended, Results
<1>2. TypeOK' /\ AttemptsStay
  BY <1>1, TakeType
<1> QED
  BY <1>1, <1>2, Taken

\* The service takes a post that is answered, or that is tried again.
LEMMA TakenAndMoves ==
    ASSUME IInv, NEW a \in Attempts, NEW op \in Ops,
           UNCHANGED <<job, entry, intents, receipts, attempts>>,
           SubPc(a, op) = "sent", Take(a, op),
           NEW pc \in {"doubted", "persist"}, SubGoto(a, op, pc),
           pc = "doubted" => subs[a][op].tries < Tries
    PROVE  IInv'
<1>1. /\ subs' \in [Attempts -> [Ops -> Sub]]
      /\ \A b \in Attempts, o \in Ops :
            (b = a /\ o = op) \/ subs'[b][o] = subs[b][o]
      /\ subs'[a][op].pc = pc
      /\ subs'[a][op].asks = Asks(a, op)
      /\ subs'[a][op].tries = subs[a][op].tries
  BY SubMoves DEF IInv
<1>2. Asks(a, op) # None
  BY Finds DEF Fits, SubPc, Asks, Posting
<1>3. TypeOK' /\ AttemptsStay
  BY <1>1, TakeType
<1> QED
  BY <1>1, <1>2, <1>3, Taken

LEMMA AcceptedInv ==
    ASSUME IInv, NEW a \in Attempts, NEW op \in Ops, Accepted(a, op) PROVE IInv'
<1>1. CASE Take(a, op)
  BY <1>1, TakenAndMoves DEF Accepted
<1>2. CASE service[op] = Asks(a, op) /\ UNCHANGED service
  <2>1. Asks(a, op) # None
    BY Finds DEF Accepted, Fits, SubPc, Asks, Posting
  <2> QED
    BY <1>2, <2>1, MovesInv DEF Accepted
<1> QED
  BY <1>1, <1>2 DEF Accepted

LEMMA UnheardInv ==
    ASSUME IInv, NEW a \in Attempts, NEW op \in Ops, Unheard(a, op) PROVE IInv'
<1>1. CASE subs[a][op].tries < Tries
  BY <1>1, MovesInv, TakenAndMoves DEF Unheard
<1>2. CASE ~(subs[a][op].tries < Tries)
  BY <1>2, EndsInv, TakenAndEnds DEF Unheard, Ended, Results
<1> QED
  BY <1>1, <1>2

LEMMA EscapeInv ==
    ASSUME IInv, NEW a \in Attempts, NEW op \in Ops, Escape(a, op) PROVE IInv'
<1>1. CASE UNCHANGED service
  BY <1>1, EndsInv DEF Escape, Ended
<1>2. CASE SubPc(a, op) = "sent" /\ Take(a, op)
  BY <1>2, TakenAndEnds DEF Escape
<1> QED
  BY <1>1, <1>2 DEF Escape

LEMMA LateArrivalInv ==
    ASSUME IInv, NEW a \in Attempts, NEW op \in Ops, LateArrival(a, op)
    PROVE  IInv'
<1>1. NoSub \in Sub /\ NoSub.pc = "none"
  BY EffectParameters DEF NoSub, Sub, Posting, Ended, Results
<1>2. subs \in [Attempts -> [Ops -> Sub]]
  BY DEF IInv, TypeOK
<1>3. /\ subs' \in [Attempts -> [Ops -> Sub]]
      /\ \A b \in Attempts, o \in Ops :
            subs'[b][o] = IF b = a /\ o = op THEN NoSub ELSE subs[b][o]
  BY <1>1, <1>2, SubsUpdate DEF LateArrival
<1>4. TypeOK' /\ AttemptsStay
  BY <1>3, TakeType DEF LateArrival
<1> QED
  BY <1>1, <1>3, <1>4, Taken DEF LateArrival

\* A receipt is written by the attempt whose epoch the intent has; whoever else
\* still posts has an older one.
LEMMA PersistInv ==
    ASSUME IInv, NEW a \in Attempts, NEW op \in Ops, Persist(a, op) PROVE IInv'
<1>1. CASE SubEnds(a, op, "doubtful") /\ UNCHANGED receipts
  BY <1>1, EndsInv DEF Persist, Ended, Results
<1>2. CASE /\ intents[op] = attempts[a].epoch
           /\ receipts[op] \in {None, service[op]}
           /\ receipts' = [receipts EXCEPT ![op] = service[op]]
           /\ SubGoto(a, op, "polling")
  <2>1. /\ subs' \in [Attempts -> [Ops -> Sub]]
        /\ \A b \in Attempts, o \in Ops :
              (b = a /\ o = op) \/ subs'[b][o] = subs[b][o]
        /\ subs'[a][op].pc = "polling"
    BY <1>2, SubMoves DEF IInv
  <2>2. /\ service[op] # None /\ Pc(a) # "idle"
    BY Finds DEF Fits, Persist, SubPc
  <2>3. /\ receipts' \in [Ops -> Mappings \cup {None}]
        /\ receipts'[op] = service[op]
        /\ \A o \in Ops : o # op => receipts'[o] = receipts[o]
    BY <1>2 DEF IInv, TypeOK
  <2>4. TypeOK'
    BY <2>1, <2>3 DEF IInv, TypeOK, Persist
  <2>5. Epochs'
    BY DEF IInv, Epochs, Persist, Pc
  <2>6. Evidence'
    BY <2>3 DEF IInv, Evidence, Persist
  <2>7. AllFit'
    <3> SUFFICES ASSUME NEW b \in Attempts, NEW o \in Ops
                 PROVE  Fits(b, o, subs[b][o])'
      BY DEF AllFit
    <3>1. CASE b = a /\ o = op
      BY <2>1, <2>2, <2>3, <3>1 DEF Fits, Persist, Pc, Posting, Observing
    <3>2. CASE b # a /\ o = op
      <4>1. Fits(b, o, subs[b][o]) /\ subs'[b][o] = subs[b][o]
        BY <2>1, <3>2, Finds
      <4>2. subs[b][o].pc \in Posting =>
               attempts[b].epoch <= intents[o] /\ attempts[b].epoch # intents[o]
        BY <1>2, <2>2, <3>2, <4>1 DEF Fits, IInv, Epochs
      <4>3. attempts[b].epoch \in Nat /\ intents[o] \in Nat
        BY DEF IInv, TypeOK, Attempt
      <4>4. subs[b][o].pc \in Posting => attempts[b].epoch < intents[o]
        BY <4>2, <4>3
      <4>5. receipts'[o] # None
        BY <2>2, <2>3, <3>2
      <4> QED
        BY <4>1, <4>4, <4>5 DEF Fits, Persist, Pc
    <3>3. CASE o # op
      <4>1. Fits(b, o, subs[b][o]) /\ subs'[b][o] = subs[b][o]
        BY <2>1, <3>3, Finds
      <4> QED
        BY <2>3, <3>3, <4>1 DEF Fits, Persist, Pc
    <3> QED
      BY <3>1, <3>2, <3>3
  <2> QED
    BY <2>4, <2>5, <2>6, <2>7 DEF IInv
<1> QED
  BY <1>1, <1>2 DEF Persist

\* An attempt moves on.
LEMMA AttemptMoves ==
    ASSUME IInv, NEW a \in Attempts, Pc(a) # "idle",
           NEW pc \in AttemptPcs \ {"idle"}, AttemptGoto(a, pc)
    PROVE  /\ attempts' \in [Attempts -> Attempt]
           /\ \A b \in Attempts : /\ attempts'[b].epoch = attempts[b].epoch
                                  /\ attempts'[b].pc = "idle" <=> Pc(b) = "idle"
<1> DEFINE x == [attempts[a] EXCEPT !.pc = pc]
<1>1. attempts \in [Attempts -> Attempt] /\ attempts[a] \in Attempt
  BY DEF IInv, TypeOK
<1>2. x \in Attempt /\ x.pc = pc /\ x.epoch = attempts[a].epoch
  BY <1>1 DEF Attempt, AttemptPcs
<1>3. attempts' = [attempts EXCEPT ![a] = x]
  BY <1>1 DEF AttemptGoto
<1> HIDE DEF x
<1>4. \A b \in Attempts : attempts'[b] = IF b = a THEN x ELSE attempts[b]
  BY <1>1, <1>3
<1>5. attempts' \in [Attempts -> Attempt]
  BY <1>1, <1>2, <1>3
<1> QED
  BY <1>2, <1>4, <1>5 DEF Pc

\* The end of an attempt or of its waiting: each of its submissions goes on as it
\* is or is no more.
SubsStayOrEnd(a) ==
    /\ subs' \in [Attempts -> [Ops -> Sub]]
    /\ \A b \in Attempts, o \in Ops :
          \/ subs'[b][o] = subs[b][o]
          \/ b = a /\ subs'[b][o].pc = "none"
          \/ /\ b = a
             /\ subs'[b][o].pc = subs[b][o].pc
             /\ subs'[b][o].asks = subs[b][o].asks
             /\ subs'[b][o].tries = subs[b][o].tries

LEMMA NoSubType == NoSub \in Sub /\ NoSub.pc = "none"
  BY EffectParameters DEF NoSub, Sub, Posting, Ended, Results

LEMMA ReplaceSubs ==
    ASSUME IInv, NEW a \in Attempts, NEW f \in [Ops -> Sub],
           subs' = [subs EXCEPT ![a] = f],
           \A o \in Ops : \/ f[o] = subs[a][o]
                          \/ f[o].pc = "none"
                          \/ /\ f[o].pc = subs[a][o].pc
                             /\ f[o].asks = subs[a][o].asks
                             /\ f[o].tries = subs[a][o].tries
    PROVE  SubsStayOrEnd(a)
  BY DEF IInv, TypeOK, SubsStayOrEnd

LEMMA WaitingStays ==
    ASSUME IInv, NEW a \in Attempts, subs' = [subs EXCEPT ![a] = Waiting(a)]
    PROVE  SubsStayOrEnd(a)
<1>1. Waiting(a) \in [Ops -> Sub]
  BY NoSubType DEF Waiting, IInv, TypeOK
<1>2. \A o \in Ops : Waiting(a)[o] = subs[a][o] \/ Waiting(a)[o].pc = "none"
  BY NoSubType DEF Waiting
<1> QED
  BY <1>1, <1>2, ReplaceSubs

LEMMA CancelledStays ==
    ASSUME IInv, NEW a \in Attempts, Cancelled(a) PROVE SubsStayOrEnd(a)
<1> DEFINE f == [op \in Ops |->
                    IF SubPc(a, op) \in {"sent", "doubted", "persist", "polling"}
                    THEN [subs[a][op] EXCEPT !.orphan = TRUE] ELSE NoSub]
<1>1. \A s \in Sub : /\ [s EXCEPT !.orphan = TRUE] \in Sub
                     /\ [s EXCEPT !.orphan = TRUE].pc = s.pc
                     /\ [s EXCEPT !.orphan = TRUE].asks = s.asks
                     /\ [s EXCEPT !.orphan = TRUE].tries = s.tries
  BY DEF Sub
<1>2. \A o \in Ops : subs[a][o] \in Sub
  BY Finds
<1>3. \A o \in Ops : /\ f[o] \in Sub
                     /\ \/ f[o].pc = "none"
                        \/ /\ f[o].pc = subs[a][o].pc
                           /\ f[o].asks = subs[a][o].asks
                           /\ f[o].tries = subs[a][o].tries
  <2> SUFFICES ASSUME NEW o \in Ops
               PROVE  /\ f[o] \in Sub
                      /\ \/ f[o].pc = "none"
                         \/ /\ f[o].pc = subs[a][o].pc
                            /\ f[o].asks = subs[a][o].asks
                            /\ f[o].tries = subs[a][o].tries
    OBVIOUS
  <2>1. f[o] = [subs[a][o] EXCEPT !.orphan = TRUE] \/ f[o] = NoSub
    OBVIOUS
  <2> HIDE DEF f
  <2> QED
    BY <1>1, <1>2, <2>1, NoSubType
<1>4. subs' = [subs EXCEPT ![a] = f]
  BY DEF Cancelled
<1>5. f \in [Ops -> Sub]
  BY <1>3
<1> HIDE DEF f
<1> QED
  BY <1>3, <1>4, <1>5, ReplaceSubs

\* A step of an attempt that leaves the ledger and all epochs alone.
LEMMA AttemptInv ==
    ASSUME IInv, NEW a \in Attempts, LedgerStays,
           job' \in Job, job'.epoch = job.epoch, entry' \in Entry,
           \/ attempts' = attempts
           \/ Pc(a) # "idle" /\ \E pc \in AttemptPcs \ {"idle"} : AttemptGoto(a, pc),
           SubsStayOrEnd(a)
    PROVE  IInv'
<1>1. /\ attempts' \in [Attempts -> Attempt]
      /\ \A b \in Attempts : /\ attempts'[b].epoch = attempts[b].epoch
                             /\ attempts'[b].pc = "idle" <=> Pc(b) = "idle"
  <2>1. CASE attempts' = attempts
    BY <2>1 DEF IInv, TypeOK, Pc
  <2>2. CASE Pc(a) # "idle" /\ \E pc \in AttemptPcs \ {"idle"} : AttemptGoto(a, pc)
    BY <2>2, AttemptMoves
  <2> QED
    BY <2>1, <2>2
<1>2. TypeOK'
  BY <1>1 DEF IInv, TypeOK, LedgerStays, SubsStayOrEnd
<1>3. AttemptsStay
  BY <1>1 DEF AttemptsStay
<1>4. \A b \in Attempts, o \in Ops : Fits(b, o, subs'[b][o])
  <2> SUFFICES ASSUME NEW b \in Attempts, NEW o \in Ops
               PROVE  Fits(b, o, subs'[b][o])
    OBVIOUS
  <2>1. Fits(b, o, subs[b][o])
    BY Finds
  <2>2. CASE subs'[b][o] = subs[b][o]
    BY <2>1, <2>2
  <2>3. CASE subs'[b][o].pc = "none"
    BY <2>3 DEF Fits, Posting, Observing
  <2>4. CASE /\ subs'[b][o].pc = subs[b][o].pc
             /\ subs'[b][o].asks = subs[b][o].asks
             /\ subs'[b][o].tries = subs[b][o].tries
    BY <2>1, <2>4 DEF Fits
  <2> QED
    BY <2>2, <2>3, <2>4 DEF SubsStayOrEnd
<1> QED
  BY <1>2, <1>3, <1>4, Calm

\* The holder's epoch is the job's, hence at least as new as any intent and any
\* other attempt's.
LEMMA PrepareInv ==
    ASSUME IInv, NEW a \in Attempts, NEW op \in Ops, Prepare(a, op) PROVE IInv'
<1>1. Fits(a, op, subs[a][op]) /\ Pc(a) # "idle"
  BY Finds DEF Fits, Prepare, SubPc
<1>2. CASE /\ ~Holds(a)
           /\ subs' = [subs EXCEPT ![a] = [Waiting(a) EXCEPT ![op] = NoSub]]
           /\ AttemptGoto(a, IF Pc(a) = "scraping" THEN "gone" ELSE Pc(a))
           /\ UNCHANGED <<entry, intents>>
  <2> DEFINE f == [Waiting(a) EXCEPT ![op] = NoSub]
  <2>1. /\ f \in [Ops -> Sub]
        /\ \A o \in Ops : f[o] = subs[a][o] \/ f[o].pc = "none"
    BY NoSubType DEF Waiting, IInv, TypeOK
  <2>2. subs' = [subs EXCEPT ![a] = f]
    BY <1>2
  <2> HIDE DEF f
  <2>3. SubsStayOrEnd(a)
    BY <2>1, <2>2, ReplaceSubs
  <2>4. \E pc \in AttemptPcs \ {"idle"} : AttemptGoto(a, pc)
    <3>1. Pc(a) \in AttemptPcs
      BY DEF Pc, IInv, TypeOK, Attempt
    <3> QED
      BY <1>1, <1>2, <3>1 DEF AttemptPcs
  <2>5. job' \in Job /\ job'.epoch = job.epoch /\ entry' \in Entry /\ LedgerStays
    BY <1>2 DEF Prepare, IInv, TypeOK, LedgerStays
  <2> QED
    BY <1>1, <2>3, <2>4, <2>5, AttemptInv
<1>3. CASE /\ receipts[op] # None
           /\ SubGoto(a, op, "resuming")
           /\ UNCHANGED <<entry, intents, attempts>>
  BY <1>3, MovesInv DEF Prepare
<1>4. CASE /\ Holds(a)
           /\ receipts[op] = None
           /\ SubGoto(a, op, "ready")
           /\ intents' = [intents EXCEPT ![op] = attempts[a].epoch]
           /\ entry' = [entry EXCEPT !.status = "running"]
           /\ UNCHANGED attempts
  <2>1. /\ subs' \in [Attempts -> [Ops -> Sub]]
        /\ \A b \in Attempts, o \in Ops :
              (b = a /\ o = op) \/ subs'[b][o] = subs[b][o]
        /\ subs'[a][op].pc = "ready"
        /\ subs'[a][op].asks = Asks(a, op)
        /\ subs'[a][op].tries = subs[a][op].tries
    BY <1>4, SubMoves DEF IInv
  <2>2. attempts[a].epoch = job.epoch /\ attempts[a].epoch \in Nat
    BY <1>4 DEF Holds, IInv, TypeOK, Attempt
  <2>3. attempts[a].epoch # 0
    BY <1>1 DEF IInv, Epochs
  <2>4. /\ intents' \in [Ops -> Nat]
        /\ intents'[op] = job.epoch
        /\ \A o \in Ops : o # op => intents'[o] = intents[o]
    BY <1>4, <2>2 DEF IInv, TypeOK
  <2>5. entry' \in Entry
    BY <1>4 DEF IInv, TypeOK, Entry
  <2>6. TypeOK'
    BY <1>4, <2>1, <2>4, <2>5 DEF IInv, TypeOK, Prepare
  <2>7. Epochs'
    <3>1. \A o \in Ops : intents'[o] <= job.epoch
      <4> SUFFICES ASSUME NEW o \in Ops PROVE intents'[o] <= job.epoch
        OBVIOUS
      <4>1. job.epoch <= job.epoch
        BY <2>2
      <4>2. intents[o] <= job.epoch
        BY DEF IInv, Epochs
      <4> QED
        BY <2>4, <4>1, <4>2
    <3> QED
      BY <1>4, <3>1 DEF IInv, Epochs, Prepare, Pc
  <2>8. Evidence'
    BY <2>2, <2>3, <2>4 DEF IInv, Evidence, Prepare
  <2>9. AllFit'
    <3> SUFFICES ASSUME NEW b \in Attempts, NEW o \in Ops
                 PROVE  Fits(b, o, subs[b][o])'
      BY DEF AllFit
    <3>1. Fits(b, o, subs[b][o])
      BY Finds
    <3>2. CASE b = a /\ o = op
      <4>1. attempts[a].epoch <= intents'[op]
        BY <2>2, <2>4
      <4>2. SubPc(a, op) = "prepare"
        BY DEF Prepare
      <4> QED
        BY <1>1, <1>4, <2>1, <3>2, <4>1, <4>2
           DEF Fits, Prepare, Pc, SubPc, Asks, Posting, Observing
    <3>3. CASE b # a /\ o = op
      <4>1. subs'[b][o] = subs[b][o]
        BY <2>1, <3>3
      <4>2. attempts[b].epoch <= intents'[o]
        BY <2>4, <3>3 DEF IInv, Epochs
      <4> QED
        BY <1>4, <3>1, <3>3, <4>1, <4>2 DEF Fits, Prepare, Pc
    <3>4. CASE o # op
      <4>1. subs'[b][o] = subs[b][o]
        BY <2>1, <3>4
      <4> QED
        BY <1>4, <2>4, <3>1, <3>4, <4>1 DEF Fits, Prepare, Pc
    <3> QED
      BY <3>2, <3>3, <3>4
  <2> QED
    BY <2>6, <2>7, <2>8, <2>9 DEF IInv
<1> QED
  BY <1>2, <1>3, <1>4 DEF Prepare

-----------------------------------------------------------------------------
(* The steps of the lease and of an attempt.                               *)

\* A new attempt has no submissions and an epoch that nobody has had.
LEMMA ClaimInv ==
    ASSUME IInv, NEW a \in Attempts, Claim(a) PROVE IInv'
<1> DEFINE pc == IF entry.status \in Terminal THEN "closing" ELSE "planning"
<1>1. /\ job.epoch \in Nat /\ attempts \in [Attempts -> Attempt]
      /\ \A b \in Attempts : attempts[b].epoch \in Nat
      /\ \A o \in Ops : intents[o] \in Nat
  BY DEF IInv, TypeOK, Job, Attempt
<1>2. job' \in Job /\ job'.epoch = job.epoch + 1
  <2>1. job \in Job /\ job.epoch + 1 \in Nat
    BY <1>1 DEF IInv, TypeOK
  <2> QED
    BY <2>1 DEF Claim, Job
<1>3. /\ attempts' \in [Attempts -> Attempt]
      /\ attempts'[a].epoch = job.epoch + 1 /\ attempts'[a].pc # "idle"
      /\ \A b \in Attempts : b # a => attempts'[b] = attempts[b]
  <2> DEFINE x == [attempts[a] EXCEPT !.epoch = job.epoch + 1, !.pc = pc]
  <2>1. attempts' = [attempts EXCEPT ![a] = x]
    BY <1>1 DEF Claim
  <2>2. x \in Attempt /\ x.epoch = job.epoch + 1 /\ x.pc # "idle"
    <3>1. job.epoch + 1 \in Nat /\ attempts[a] \in Attempt
      BY <1>1
    <3> QED
      BY <3>1 DEF Attempt, AttemptPcs
  <2> HIDE DEF x
  <2> QED
    BY <1>1, <2>1, <2>2
<1>4. TypeOK'
  BY <1>2, <1>3 DEF IInv, TypeOK, Claim
<1>5. Epochs'
  <2>1. \A b \in Attempts : attempts[b].epoch <= job.epoch
    BY DEF IInv, Epochs
  <2>2. \A b \in Attempts : attempts'[b].epoch <= job'.epoch
    BY <1>1, <1>2, <1>3, <2>1
  <2>3. \A b \in Attempts : attempts'[b].epoch = 0 <=> attempts'[b].pc = "idle"
    BY <1>1, <1>3 DEF IInv, Epochs, Pc
  <2>4. ASSUME NEW b \in Attempts, NEW c \in Attempts,
               attempts'[b].epoch = attempts'[c].epoch, attempts'[b].pc # "idle"
        PROVE  b = c
    <3>1. CASE b = a /\ c # a
      <4>1. attempts[c].epoch = job.epoch + 1
        BY <1>3, <2>4, <3>1
      <4> QED
        BY <1>1, <2>1, <4>1
    <3>2. CASE c = a /\ b # a
      <4>1. attempts[b].epoch = job.epoch + 1
        BY <1>3, <2>4, <3>2
      <4> QED
        BY <1>1, <2>1, <4>1
    <3>3. CASE b # a /\ c # a
      BY <1>3, <2>4, <3>3 DEF IInv, Epochs, Pc
    <3> QED
      BY <3>1, <3>2, <3>3
  <2>5. \A o \in Ops : intents'[o] <= job'.epoch
    <3>1. \A o \in Ops : intents[o] <= job.epoch
      BY DEF IInv, Epochs
    <3> QED
      BY <1>1, <1>2, <3>1 DEF Claim
  <2> QED
    BY <2>2, <2>3, <2>4, <2>5 DEF Epochs, Pc
<1>6. Evidence'
  BY DEF IInv, Evidence, Claim
<1>7. AllFit'
  <2> SUFFICES ASSUME NEW b \in Attempts, NEW o \in Ops
               PROVE  Fits(b, o, subs[b][o])'
    BY DEF AllFit
  <2>1. Fits(b, o, subs[b][o])
    BY Finds
  <2>2. CASE b = a
    <3>1. subs[b][o].pc = "none"
      BY <2>1, <2>2 DEF Fits, Claim
    <3> QED
      BY <3>1 DEF Fits, Claim, Posting, Observing
  <2>3. CASE b # a
    BY <1>3, <2>1, <2>3 DEF Fits, Claim, Pc
  <2> QED
    BY <2>2, <2>3
<1> QED
  BY <1>4, <1>5, <1>6, <1>7 DEF IInv

\* The lease ends, or the job does, without an attempt.
LEMMA LeaseInv ==
    ASSUME IInv, Lapse \/ EndByRecovery PROVE IInv'
<1>1. job' \in Job /\ job'.epoch = job.epoch
  BY DEF IInv, TypeOK, Job, Lapse, EndByRecovery
<1>2. TypeOK' /\ AttemptsStay /\ LedgerStays
  BY <1>1 DEF IInv, TypeOK, AttemptsStay, LedgerStays, Lapse, EndByRecovery, Pc
<1>3. \A a \in Attempts, op \in Ops : Fits(a, op, subs'[a][op])
  BY Finds DEF Lapse, EndByRecovery
<1> QED
  BY <1>2, <1>3, Calm

LEMMA RecordInv ==
    ASSUME IInv, NEW a \in Attempts, Pc(a) # "idle", NEW e \in Entry, Record(a, e)
    PROVE  IInv'
<1>1. SubsStayOrEnd(a)
  BY WaitingStays DEF Record
<1>2. \E pc \in AttemptPcs \ {"idle"} : AttemptGoto(a, pc)
  BY DEF Record, AttemptPcs
<1>3. job' \in Job /\ job'.epoch = job.epoch /\ entry' \in Entry /\ LedgerStays
  BY DEF Record, IInv, TypeOK, LedgerStays
<1> QED
  BY <1>1, <1>2, <1>3, AttemptInv

LEMMA EntryType ==
    ASSUME NEW status \in {"succeeded", "failed", "timeout", "unprocessed"},
           NEW error \in {"none", "retryable", "final"}, NEW manual \in BOOLEAN
    PROVE  NewEntry(status, error, manual) \in Entry
  BY DEF NewEntry, Entry

LEMMA OutcomeInv ==
    ASSUME IInv, NEW a \in Attempts,
           Unplanned(a) \/ Answer(a) \/ AnswerFails(a) \/ RecordTimeOut(a)
    PROVE  IInv'
<1>1. Pc(a) # "idle"
  BY DEF Unplanned, Answer, AnswerFails, RecordTimeOut
<1>2. PICK e \in Entry : Record(a, e)
  <2>1. CASE Unplanned(a)
    BY <2>1, EntryType DEF Unplanned
  <2>2. CASE Answer(a)
    <3> DEFINE doubt == \E op \in Ops : SubPc(a, op) = "doubtful"
    <3>1. PICK error \in {"none", "retryable", "final"} :
             Record(a, NewEntry("succeeded", error, doubt))
      BY <2>2 DEF Answer
    <3>2. doubt \in BOOLEAN
      OBVIOUS
    <3> HIDE DEF doubt
    <3> QED
      BY <3>1, <3>2, EntryType
  <2>3. CASE AnswerFails(a)
    BY <2>3, EntryType DEF AnswerFails
  <2>4. CASE RecordTimeOut(a)
    BY <2>4, EntryType DEF RecordTimeOut
  <2> QED
    BY <2>1, <2>2, <2>3, <2>4
<1> QED
  BY <1>1, <1>2, RecordInv

\* New submissions ask for something and have not been tried.
LEMMA ScrapeInv ==
    ASSUME IInv, NEW a \in Attempts, Scrape(a) PROVE IInv'
<1>1. PICK asks \in [Ops -> Mappings \cup {None}] :
         subs' = [subs EXCEPT ![a] = [op \in Ops |->
              IF asks[op] = None THEN NoSub
              ELSE [NoSub EXCEPT !.pc = "prepare", !.asks = asks[op]]]]
  BY DEF Scrape
<1> DEFINE f == [op \in Ops |->
              IF asks[op] = None THEN NoSub
              ELSE [NoSub EXCEPT !.pc = "prepare", !.asks = asks[op]]]
<1>2. NoSub \in Sub /\ NoSub.tries = 0 /\ NoSub.pc = "none"
  BY NoSubType DEF NoSub
<1>3. \A o \in Ops : /\ f[o] \in Sub
                     /\ \/ f[o].pc = "none"
                        \/ f[o].pc = "prepare" /\ f[o].asks # None /\ f[o].tries = 0
  <2> SUFFICES ASSUME NEW o \in Ops
               PROVE  /\ f[o] \in Sub
                      /\ \/ f[o].pc = "none"
                         \/ f[o].pc = "prepare" /\ f[o].asks # None /\ f[o].tries = 0
    OBVIOUS
  <2>1. CASE asks[o] = None
    <3>1. f[o] = NoSub
      BY <2>1
    <3> HIDE DEF f
    <3> QED
      BY <1>2, <3>1
  <2>2. CASE asks[o] # None
    <3>1. f[o] = [NoSub EXCEPT !.pc = "prepare", !.asks = asks[o]]
      BY <2>2
    <3>2. asks[o] \in Mappings \cup {None}
      OBVIOUS
    <3> HIDE DEF f
    <3>3. /\ f[o] \in Sub /\ f[o].pc = "prepare" /\ f[o].asks = asks[o]
          /\ f[o].tries = NoSub.tries
      BY <1>2, <3>1, <3>2 DEF Sub
    <3> QED
      BY <1>2, <2>2, <3>3
  <2> QED
    BY <2>1, <2>2
<1>4. f \in [Ops -> Sub] /\ subs' = [subs EXCEPT ![a] = f]
  BY <1>1, <1>3
<1> HIDE DEF f
<1>5. /\ subs' \in [Attempts -> [Ops -> Sub]]
      /\ \A b \in Attempts, o \in Ops :
            subs'[b][o] = IF b = a THEN f[o] ELSE subs[b][o]
  BY <1>4 DEF IInv, TypeOK
<1>6. /\ attempts' \in [Attempts -> Attempt]
      /\ \A b \in Attempts : /\ attempts'[b].epoch = attempts[b].epoch
                             /\ attempts'[b].pc = "idle" <=> Pc(b) = "idle"
  BY AttemptMoves DEF Scrape, AttemptPcs
<1>7. TypeOK' /\ AttemptsStay /\ LedgerStays
  BY <1>5, <1>6 DEF IInv, TypeOK, AttemptsStay, LedgerStays, Scrape
<1>8. \A b \in Attempts, o \in Ops : Fits(b, o, subs'[b][o])
  <2> SUFFICES ASSUME NEW b \in Attempts, NEW o \in Ops
               PROVE  Fits(b, o, subs'[b][o])
    OBVIOUS
  <2>1. CASE b = a
    <3>1. Pc(a) = "planning"
      BY Zenon DEF Scrape
    <3>2. 0 < Tries
      BY EffectParameters
    <3> QED
      BY <1>3, <1>5, <2>1, <3>1, <3>2 DEF Fits, Posting, Observing
  <2>2. CASE b # a
    BY <1>5, <2>2, Finds
  <2> QED
    BY <2>1, <2>2
<1> QED
  BY <1>7, <1>8, Calm

LEMMA LeavesInv ==
    ASSUME IInv, NEW a \in Attempts,
           TimeOut(a) \/ Cancel(a) \/ Crash(a) \/ Finish(a)
    PROVE  IInv'
<1>1. CASE TimeOut(a)
  <2>1. \E pc \in AttemptPcs \ {"idle"} : AttemptGoto(a, pc)
    BY <1>1 DEF TimeOut, AttemptPcs
  <2>2. SubsStayOrEnd(a)
    BY <1>1, CancelledStays DEF TimeOut
  <2>3. /\ job' \in Job /\ job'.epoch = job.epoch /\ entry' \in Entry
        /\ LedgerStays /\ Pc(a) # "idle"
    BY <1>1 DEF TimeOut, IInv, TypeOK, LedgerStays
  <2> QED
    BY <2>1, <2>2, <2>3, AttemptInv
<1>2. CASE Cancel(a)
  <2>1. \E pc \in AttemptPcs \ {"idle"} : AttemptGoto(a, pc)
    BY <1>2 DEF Cancel, AttemptPcs
  <2>2. SubsStayOrEnd(a)
    <3>1. CASE Cancelled(a)
      BY <3>1, CancelledStays
    <3>2. CASE UNCHANGED subs
      BY <3>2 DEF SubsStayOrEnd, IInv, TypeOK
    <3> QED
      BY <1>2, <3>1, <3>2 DEF Cancel
  <2>3. job' \in Job /\ job'.epoch = job.epoch
    BY <1>2 DEF Cancel, IInv, TypeOK, Job
  <2>4. entry' \in Entry /\ LedgerStays /\ Pc(a) # "idle"
    BY <1>2 DEF Cancel, IInv, TypeOK, LedgerStays
  <2> QED
    BY <2>1, <2>2, <2>3, <2>4, AttemptInv
<1>3. CASE Crash(a)
  <2>1. \E pc \in AttemptPcs \ {"idle"} : AttemptGoto(a, pc)
    BY <1>3 DEF Crash, AttemptPcs
  <2> DEFINE f == [op \in Ops |-> IF SubPc(a, op) = "sent" THEN subs[a][op]
                                  ELSE NoSub]
  <2>2. /\ f \in [Ops -> Sub]
        /\ \A o \in Ops : f[o] = subs[a][o] \/ f[o].pc = "none"
    BY NoSubType DEF IInv, TypeOK
  <2>3. subs' = [subs EXCEPT ![a] = f]
    BY <1>3 DEF Crash
  <2> HIDE DEF f
  <2>4. SubsStayOrEnd(a)
    BY <2>2, <2>3, ReplaceSubs
  <2>5. /\ job' \in Job /\ job'.epoch = job.epoch /\ entry' \in Entry
        /\ LedgerStays /\ Pc(a) # "idle"
    BY <1>3 DEF Crash, IInv, TypeOK, LedgerStays
  <2> QED
    BY <2>1, <2>4, <2>5, AttemptInv
<1>4. CASE Finish(a)
  <2>1. \E pc \in AttemptPcs \ {"idle"} : AttemptGoto(a, pc)
    BY <1>4 DEF Finish, AttemptPcs
  <2>2. SubsStayOrEnd(a)
    BY <1>4 DEF Finish, SubsStayOrEnd, IInv, TypeOK
  <2>3. job' \in Job /\ job'.epoch = job.epoch
    <3>1. Verdict \in {"none", "answered", "retryable", "final", "reconcile"}
      BY DEF Verdict, IInv, TypeOK, Entry
    <3> QED
      BY <1>4, <3>1 DEF Finish, IInv, TypeOK, Job
  <2>4. entry' \in Entry /\ LedgerStays /\ Pc(a) # "idle"
    BY <1>4 DEF Finish, IInv, TypeOK, LedgerStays
  <2> QED
    BY <2>1, <2>2, <2>3, <2>4, AttemptInv
<1> QED
  BY <1>1, <1>2, <1>3, <1>4

-----------------------------------------------------------------------------
(* The theorems.                                                           *)

LEMMA NextInv == IInv /\ [Next]_effectVars => IInv'
<1> SUFFICES ASSUME IInv, [Next]_effectVars PROVE IInv'
  OBVIOUS
<1>1. CASE Lapse \/ EndByRecovery
  BY <1>1, LeaseInv
<1>2. ASSUME NEW a \in Attempts, AttemptStep(a) PROVE IInv'
  BY <1>2, ClaimInv, ScrapeInv, OutcomeInv, LeavesInv DEF AttemptStep
<1>3. ASSUME NEW a \in Attempts, NEW op \in Ops, OpStep(a, op) PROVE IInv'
  BY <1>3, PrepareInv, CircuitOpenInv, SendInv, AcceptedInv, ConflictInv,
     UnheardInv, UnsentInv, RefusedInv, EscapeInv, LateArrivalInv, PersistInv,
     PollInv DEF OpStep
<1>4. CASE UNCHANGED effectVars
  <2>1. UNCHANGED <<job, entry, intents, receipts, attempts, subs, service>>
    BY <1>4 DEF effectVars
  <2>2. TypeOK' /\ AttemptsStay /\ LedgerStays
    BY <2>1 DEF IInv, TypeOK, AttemptsStay, LedgerStays, Pc
  <2>3. \A a \in Attempts, op \in Ops : Fits(a, op, subs'[a][op])
    BY <2>1, Finds
  <2> QED
    BY <2>2, <2>3, Calm
<1> QED
  BY <1>1, <1>2, <1>3, <1>4 DEF Next

\* The invariant holds throughout.
THEOREM EvidenceInvariant == Spec => []IInv
<1> QED
  BY InitInv, NextInv, PTL DEF Spec

\* Every variable of the ledger keeps its type; no submission is tried too often.
THEOREM EffectsTypeCorrect == Spec => []TypeOK
<1>1. IInv => TypeOK
  BY DEF IInv
<1> QED
  BY <1>1, EvidenceInvariant, PTL

\* Whatever is posted, or held by the service, has a durable intent.
THEOREM EveryEffectIsReserved == Spec => []EffectsAreReserved
<1>1. IInv => EffectsAreReserved
  <2> SUFFICES ASSUME IInv PROVE EffectsAreReserved
    OBVIOUS
  <2>1. ASSUME NEW a \in Attempts, NEW op \in Ops,
               SubPc(a, op) \in Posting \cup {"persist"}
        PROVE  0 < attempts[a].epoch /\ attempts[a].epoch <= intents[op]
    <3>1. Pc(a) # "idle" /\ attempts[a].epoch <= intents[op]
      BY <2>1, Finds DEF Fits, SubPc, Posting
    <3>2. attempts[a].epoch \in Nat
      BY DEF IInv, TypeOK, Attempt
    <3>3. attempts[a].epoch # 0
      BY <3>1 DEF IInv, Epochs
    <3> QED
      BY <3>1, <3>2, <3>3
  <2>2. \A op \in Ops : service[op] # None => intents[op] # 0
    BY DEF IInv, Evidence
  <2> QED
    BY <2>1, <2>2 DEF EffectsAreReserved
<1> QED
  BY <1>1, EvidenceInvariant, PTL

\* An operation with a receipt is posted by superseded attempts only.
THEOREM ReceiptsEndPosting == Spec => []ReceiptedIsNotReposted
<1>1. IInv => ReceiptedIsNotReposted
  BY Finds DEF ReceiptedIsNotReposted, Fits, SubPc
<1> QED
  BY <1>1, EvidenceInvariant, PTL

\* Whoever observes an operation finds its receipt, and the receipt is true.
THEOREM ObservationsAreReceipted == Spec => []ObservedMeansReceipted
<1>1. IInv => ObservedMeansReceipted
  <2> SUFFICES ASSUME IInv, NEW a \in Attempts, NEW op \in Ops,
                      SubPc(a, op) \in Observing
               PROVE  receipts[op] # None /\ receipts[op] = service[op]
    BY DEF ObservedMeansReceipted, Observing
  <2>1. receipts[op] # None
    BY Finds DEF Fits, SubPc
  <2> QED
    BY <2>1 DEF IInv, Evidence
<1> QED
  BY <1>1, EvidenceInvariant, PTL

\* Intents only grow newer and receipts stay: only Prepare and Persist write them.
THEOREM EvidenceLasts == Spec => EvidenceIsPermanent
<1> DEFINE Lasts == \A op \in Ops : /\ intents[op] <= intents'[op]
                                    /\ receipts[op] # None => receipts'[op] = receipts[op]
<1>1. IInv /\ [Next]_effectVars => Lasts
  <2> SUFFICES ASSUME IInv, [Next]_effectVars PROVE Lasts
    OBVIOUS
  <2>0. \A o \in Ops : intents[o] \in Nat /\ intents[o] <= intents[o]
    BY DEF IInv, TypeOK
  <2>1. CASE UNCHANGED <<intents, receipts>>
    BY <2>0, <2>1
  <2>2. ASSUME NEW a \in Attempts, NEW op \in Ops, Prepare(a, op) PROVE Lasts
    <3>1. CASE UNCHANGED intents
      BY <2>0, <2>2, <3>1 DEF Prepare
    <3>2. CASE Holds(a) /\ intents' = [intents EXCEPT ![op] = attempts[a].epoch]
      <4>1. intents[op] <= attempts[a].epoch
        BY <3>2 DEF Holds, IInv, Epochs
      <4>2. \A o \in Ops : intents'[o] = IF o = op THEN attempts[a].epoch
                                         ELSE intents[o]
        BY <3>2 DEF IInv, TypeOK
      <4> QED
        BY <2>0, <2>2, <4>1, <4>2 DEF Prepare
    <3> QED
      BY <2>2, <3>1, <3>2 DEF Prepare
  <2>3. ASSUME NEW a \in Attempts, NEW op \in Ops, Persist(a, op) PROVE Lasts
    <3>1. CASE UNCHANGED receipts
      BY <2>0, <2>3, <3>1 DEF Persist
    <3>2. CASE /\ receipts[op] \in {None, service[op]}
               /\ receipts' = [receipts EXCEPT ![op] = service[op]]
      BY <2>0, <2>3, <3>2 DEF Persist, IInv, TypeOK
    <3> QED
      BY <2>3, <3>1, <3>2 DEF Persist
  <2>4. ASSUME NEW a \in Attempts, NEW op \in Ops, OpStep(a, op) PROVE Lasts
    <3>1. CASE Prepare(a, op) \/ Persist(a, op)
      BY <2>2, <2>3, <3>1
    <3>2. CASE ~(Prepare(a, op) \/ Persist(a, op))
      <4>1. UNCHANGED <<intents, receipts>>
        BY <2>4, <3>2, Zenon
           DEF OpStep, CircuitOpen, Send, Accepted, Conflict, Unheard, Unsent,
               Refused, Escape, LateArrival, Poll
      <4> QED
        BY <2>1, <4>1
    <3> QED
      BY <3>1, <3>2
  <2>5. ASSUME NEW a \in Attempts, AttemptStep(a) PROVE Lasts
    <3>1. UNCHANGED <<intents, receipts>>
      BY <2>5, Zenon
         DEF AttemptStep, Claim, Scrape, Unplanned, Answer, AnswerFails, TimeOut,
             RecordTimeOut, Cancel, Crash, Finish, Record
    <3> QED
      BY <2>1, <3>1
  <2>6. CASE Lapse \/ EndByRecovery \/ UNCHANGED effectVars
    <3>1. UNCHANGED <<intents, receipts>>
      BY <2>6 DEF Lapse, EndByRecovery, effectVars
    <3> QED
      BY <2>1, <3>1
  <2> QED
    BY <2>4, <2>5, <2>6 DEF Next
<1>2. IInv /\ [Next]_effectVars => [Lasts]_effectVars
  BY <1>1
<1> QED
  BY <1>2, EvidenceInvariant, PTL DEF Spec, EvidenceIsPermanent

=============================================================================

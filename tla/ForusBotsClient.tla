--------------------------- MODULE ForusBotsClient ---------------------------
(***************************************************************************)
(* ForusBotsClient (data_pipeline/forusbots_client.py): one process's       *)
(* client of the scraping service.  A caller asks for a scrape; a request   *)
(* (an asyncio task or the caller's own coroutine) waits for a permit of    *)
(* the semaphore, passes the circuit breaker, posts, persists the receipt   *)
(* and polls.  One action is the code between two awaits: the event loop    *)
(* interleaves nothing finer.                                               *)
(*                                                                          *)
(* Kinds of request:                                                        *)
(*   shared    _deduped's task, joined by callers with the same key         *)
(*   observed  _observed_submit's task, owned by one lease                  *)
(*   plain     _submit_and_poll awaited directly, without a key             *)
(*   resume    resume_job: polls a confirmed job, posts nothing             *)
(***************************************************************************)
EXTENDS Naturals, FiniteSets

CONSTANTS
    Callers,       \* coroutines that ask, each once
    Requests,      \* requests the process may start
    Keys,          \* _idem_key values
    Kinds,         \* the kinds of request in use
    Replies,       \* what the transport may do with a POST
    Permits,       \* max_inflight
    Threshold,     \* circuit_failure_threshold
    HttpTries,         \* http_retries
    Null

AllKinds == {"shared", "observed", "plain", "resume"}

\* accepted 202 with an id; lost: an ambiguous transport error, 5xx, 408 or 429;
\* unsent: an error of _PRESEND_SAFE; refused 3xx, 4xx or a
\* 202 without an id; conflict 409;
\* undecodable: an httpx.RequestError that is not a TransportError.
AllReplies == {"accepted", "lost", "unsent", "refused", "conflict",
               "undecodable"}

ClientParameters ==
    /\ Kinds \subseteq AllKinds /\ Replies \subseteq AllReplies
    /\ {Permits, Threshold, HttpTries} \subseteq Nat \ {0}
    /\ Null \notin Requests \cup Keys

VARIABLES
    circuit,       \* _circuit_state, _circuit_failures, the reset interval, _half_open_inflight
    requests,      \* the tasks
    inflight,      \* _inflight: key -> request
    cache,         \* keys of _result_cache
    callers        \* what each caller waits for

clientVars == <<circuit, requests, inflight, cache, callers>>

-----------------------------------------------------------------------------
Circuit == [state : {"closed", "open", "half_open"}, failures : 0..Threshold,
            cooled : BOOLEAN, probing : BOOLEAN]

RequestPcs == {"free", "created", "queued", "sending", "backoff",
               "persisting", "polling", "finished"}

Outcomes == {Null, "result", "error", "cancelled", "open", "escaped"}

\* crossed and orphaned are _SubmitBoundary; cancelling: cancel() was called and
\* the task has not run since; notified: its done callback ran.  History: probe, admitted by a half-open circuit.
Request ==
    [pc : RequestPcs, kind : Kinds \cup {Null}, key : Keys \cup {Null}, tries : 0..HttpTries,
     crossed : BOOLEAN, orphaned : BOOLEAN, cancelling : BOOLEAN,
     outcome : Outcomes,
     probe : BOOLEAN, notified : BOOLEAN]

Free == [pc |-> "free", kind |-> Null, key |-> Null, tries |-> 0,
         crossed |-> FALSE, orphaned |-> FALSE, cancelling |-> FALSE,
         outcome |-> Null, probe |-> FALSE, notified |-> FALSE]

\* asked: somebody cancelled this very caller.
Caller == [pc : {"idle", "waiting", "answered"}, request : Requests \cup {Null},
           outcome : Outcomes, asked : BOOLEAN]

TasksInit ==
    /\ circuit = [state |-> "closed", failures |-> 0, cooled |-> FALSE, probing |-> FALSE]
    /\ requests = [r \in Requests |-> Free]
    /\ inflight = [k \in Keys |-> Null]
    /\ cache = {}
    /\ callers = [w \in Callers |-> [pc |-> "idle", request |-> Null,
                                     outcome |-> Null, asked |-> FALSE]]

RequestAt(r, pcs) == requests[r].pc \in pcs
Inside(r) == RequestAt(r, {"sending", "backoff", "persisting", "polling"})
Live(r)   == Inside(r) \/ RequestAt(r, {"created", "queued"})
Submits(r)  == requests[r].kind # "resume"
Detached(r) == requests[r].kind \in {"shared", "observed"}
Keyed(r)    == Detached(r)
Owners(r) == {w \in Callers : callers[w].pc = "waiting" /\ callers[w].request = r}

-----------------------------------------------------------------------------
(* The circuit breaker.                                                    *)

Opened(c) == [c EXCEPT !.state = "open", !.cooled = FALSE, !.probing = FALSE]

Admits(c) == \/ c.state = "closed"
             \/ c.state = "open" /\ c.cooled
             \/ c.state = "half_open" /\ ~c.probing

Admitted(c) ==
    IF c.state = "closed" THEN c
    ELSE [c EXCEPT !.state = "half_open", !.probing = TRUE]

Succeeded(c) == [c EXCEPT !.state = "closed", !.failures = 0, !.probing = FALSE]

Failed(c) ==
    LET n == IF c.failures < Threshold THEN c.failures + 1 ELSE Threshold
    IN  IF c.state = "half_open" \/ n = Threshold
        THEN Opened([c EXCEPT !.failures = n])
        ELSE [c EXCEPT !.failures = n, !.probing = FALSE]

\* Mutant of CircuitCancelled: a cancelled probe gives its place back to nobody.
CancelledUnrecorded(c) == c

CircuitCancelled(c) ==
    IF c.state = "half_open" THEN Opened(c) ELSE [c EXCEPT !.probing = FALSE]

\* circuit_reset_s passes.
Cool ==
    /\ circuit.state = "open" /\ ~circuit.cooled
    /\ circuit' = [circuit EXCEPT !.cooled = TRUE]
    /\ UNCHANGED <<requests, inflight, cache, callers>>

-----------------------------------------------------------------------------
(* Requests.                                                               *)

OthersRest == UNCHANGED <<inflight, cache, callers>>

\* The task ends: what was local to it is gone.
EndTask(r, outcome, c) ==
    /\ requests' = [requests EXCEPT ![r] = [Free EXCEPT
          !.pc = "finished", !.kind = requests[r].kind, !.key = requests[r].key,
          !.probe = requests[r].probe, !.outcome = outcome]]
    /\ circuit' = c
    /\ OthersRest

Runs(r) == ~requests[r].cancelling

PermitFree == Cardinality({q \in Requests : Inside(q)}) < Permits

\* All permits are taken: the request waits at the semaphore.
Enqueue(r) ==
    /\ RequestAt(r, {"created"}) /\ Runs(r) /\ ~PermitFree
    /\ requests' = [requests EXCEPT ![r].pc = "queued"]
    /\ UNCHANGED circuit /\ OthersRest

\* The semaphore's permit, then _before_circuit_request, then the first POST
\* handed to the transport (the boundary is crossed) or the first poll.
Admit(r) ==
    /\ RequestAt(r, {"created", "queued"}) /\ Runs(r) /\ PermitFree
    /\ IF Admits(circuit)
       THEN /\ requests' = [requests EXCEPT
                 ![r].pc = IF Submits(r) THEN "sending" ELSE "polling",
                 ![r].tries = IF Submits(r) THEN 1 ELSE 0,
                 ![r].crossed = Detached(r),
                 ![r].probe = circuit.state # "closed"]
            /\ circuit' = Admitted(circuit)
            /\ OthersRest
       ELSE EndTask(r, "open", circuit)

Replied(r, reply) ==
    RequestAt(r, {"sending"}) /\ Runs(r) /\ reply \in Replies

TaskAccepted(r) ==
    /\ Replied(r, "accepted")
    /\ requests' = [requests EXCEPT
          ![r].pc = IF requests[r].kind = "observed" THEN "persisting" ELSE "polling"]
    /\ UNCHANGED circuit /\ OthersRest

\* Mutant of BackOff: attempt <= http_retries.
BackOffOnceMore(r, crossed) ==
    /\ requests' = [requests EXCEPT ![r].pc = "backoff", ![r].crossed = crossed]
    /\ UNCHANGED circuit /\ OthersRest

BackOff(r, crossed) ==
    /\ requests[r].tries < HttpTries
    /\ requests' = [requests EXCEPT ![r].pc = "backoff", ![r].crossed = crossed]
    /\ UNCHANGED circuit /\ OthersRest

\* Only a keyed POST is repeated after an ambiguous answer.
Lost(r) ==
    /\ Replied(r, "lost")
    /\ \/ Keyed(r) /\ BackOff(r, requests[r].crossed)
       \/ /\ ~Keyed(r) \/ requests[r].tries = HttpTries
          /\ EndTask(r, "error", Failed(circuit))

\* Mutant of UnsentOrphan: the boundary is withdrawn without a look at the owner.
NeverOrphan(r) == FALSE

\* The attempt never reached the wire: the boundary is withdrawn, and a request
\* nobody waits for any more ends.
UnsentOrphan(r) == Detached(r) /\ requests[r].orphaned

EndOrphan(r) == EndTask(r, "cancelled", CircuitCancelled(circuit))

TaskUnsent(r) ==
    /\ Replied(r, "unsent")
    /\ IF UnsentOrphan(r) THEN EndOrphan(r)
       ELSE \/ BackOff(r, FALSE)
            \/ requests[r].tries = HttpTries /\ EndTask(r, "error", Failed(circuit))

Retry(r) ==
    /\ RequestAt(r, {"backoff"}) /\ Runs(r)
    /\ requests' = [requests EXCEPT ![r].pc = "sending", ![r].tries = @ + 1,
                                    ![r].crossed = Detached(r)]
    /\ UNCHANGED circuit /\ OthersRest

TaskRefused(r) ==
    \/ Replied(r, "refused") /\ EndTask(r, "error", Failed(circuit))
    \/ Replied(r, "conflict") /\ Keyed(r) /\ EndTask(r, "error", Succeeded(circuit))

\* Neither ForusBotsError nor CancelledError: no handler records an outcome.
Escaped(r) ==
    Replied(r, "undecodable") /\ EndTask(r, "escaped", circuit)

\* The durable receipt, before anything else happens to an accepted submit.
PersistReceipt(r) ==
    /\ RequestAt(r, {"persisting"}) /\ Runs(r)
    /\ \/ /\ requests' = [requests EXCEPT ![r].pc = "polling"]
          /\ UNCHANGED circuit /\ OthersRest
       \/ EndTask(r, "error", Succeeded(circuit))

\* A job's result or its failure prove the service available.
PollJob(r) ==
    /\ RequestAt(r, {"polling"}) /\ Runs(r)
    /\ \/ EndTask(r, "result", Succeeded(circuit))
       \/ EndTask(r, "error", Succeeded(circuit))
       \/ EndTask(r, "error", Failed(circuit))

\* The CancelledError arrives at the task's await.  A task that never ran and a
\* resume that waits for its permit are outside the handlers.
DeliverCancel(r) ==
    /\ Live(r) /\ requests[r].cancelling
    /\ EndTask(r, "cancelled",
              IF RequestAt(r, {"created"}) \/ (RequestAt(r, {"queued"}) /\ ~Submits(r))
              THEN circuit ELSE CircuitCancelled(circuit))

\* Mutant of OnDone: whoever holds the key is dropped.
OnDoneAnyEntry(r) ==
    /\ requests[r].kind = "shared" /\ RequestAt(r, {"finished"}) /\ ~requests[r].notified
    /\ requests' = [requests EXCEPT ![r].notified = TRUE]
    /\ inflight' = [inflight EXCEPT ![requests[r].key] = Null]
    /\ UNCHANGED <<circuit, callers, cache>>

\* The done callback of a shared task: one turn of the loop after its end.
OnDone(r) ==
    /\ requests[r].kind = "shared" /\ RequestAt(r, {"finished"}) /\ ~requests[r].notified
    /\ requests' = [requests EXCEPT ![r].notified = TRUE]
    /\ inflight' = [k \in Keys |-> IF inflight[k] = r THEN Null ELSE inflight[k]]
    /\ cache' = IF requests[r].outcome = "result" THEN cache \cup {requests[r].key} ELSE cache
    /\ UNCHANGED <<circuit, callers>>

-----------------------------------------------------------------------------
(* Callers.                                                                *)

Wait(w, r) ==
    callers' = [callers EXCEPT ![w].pc = "waiting", ![w].request = r]

Started(r, kind, key) ==
    requests' = [requests EXCEPT
        ![r].pc = "created", ![r].kind = kind, ![r].key = key]

AskShared(w, k) ==
    \/ /\ k \in cache
       /\ callers' = [callers EXCEPT ![w].pc = "answered", ![w].outcome = "result"]
       /\ UNCHANGED <<circuit, requests, inflight, cache>>
    \/ /\ k \notin cache /\ inflight[k] # Null
       /\ Wait(w, inflight[k])
       /\ requests' = [requests EXCEPT ![inflight[k]].orphaned = FALSE]
       /\ UNCHANGED <<circuit, inflight, cache>>
    \/ /\ k \notin cache /\ inflight[k] = Null
       /\ \E r \in Requests :
             /\ RequestAt(r, {"free"})
             /\ Started(r, "shared", k)
             /\ inflight' = [inflight EXCEPT ![k] = r]
             /\ Wait(w, r)
       /\ UNCHANGED <<circuit, cache>>

AskAlone(w, kind) ==
    /\ \E r \in Requests :
          RequestAt(r, {"free"}) /\ Started(r, kind, Null) /\ Wait(w, r)
    /\ UNCHANGED <<circuit, inflight, cache>>

Ask(w) ==
    /\ callers[w].pc = "idle"
    /\ \/ "shared" \in Kinds /\ \E k \in Keys : AskShared(w, k)
       \/ \E kind \in Kinds \ {"shared"} : AskAlone(w, kind)

\* The TTL or the size of the result cache.
Evict(k) ==
    /\ k \in cache
    /\ cache' = cache \ {k}
    /\ UNCHANGED <<circuit, requests, inflight, callers>>

Answered(w, outcome, asked) ==
    callers' = [callers EXCEPT ![w].pc = "answered", ![w].outcome = outcome,
                               ![w].asked = asked]

\* The finally block of _deduped, the except of _observed_submit: the last owner
\* of a task that has not crossed takes it along.
MayCancel(r) == Live(r) /\ ~requests[r].crossed

\* Mutant of Abandons: every caller that leaves counts as the last.
AbandonsAlways(w, r) == TRUE

Abandons(w, r) == Owners(r) = {w}

Leave(w, r) ==
    IF ~Detached(r) THEN UNCHANGED <<requests, inflight>>
    ELSE /\ requests' = [requests EXCEPT
               ![r].orphaned = @ \/ Owners(r) = {w},
               ![r].cancelling = @ \/ (Abandons(w, r) /\ MayCancel(r))]
         /\ inflight' = [k \in Keys |->
               IF inflight[k] = r /\ Abandons(w, r) /\ MayCancel(r)
               THEN Null ELSE inflight[k]]

\* The task has ended; leaving it changes nothing any more.
Wake(w) ==
    LET r == callers[w].request
    IN  /\ callers[w].pc = "waiting" /\ RequestAt(r, {"finished"})
        /\ Answered(w, requests[r].outcome, callers[w].asked)
        /\ UNCHANGED <<circuit, requests, inflight, cache>>

\* The caller is cancelled.  One that awaits the shield leaves; one that runs the
\* request itself takes the cancellation into it, at an await.
CancelCaller(w) ==
    LET r == callers[w].request
    IN  /\ callers[w].pc = "waiting" /\ ~callers[w].asked /\ ~RequestAt(r, {"finished"})
        /\ Detached(r) \/ ~RequestAt(r, {"created"})
        /\ IF Detached(r)
           THEN Answered(w, "cancelled", TRUE) /\ Leave(w, r)
           ELSE /\ callers' = [callers EXCEPT ![w].asked = TRUE]
                /\ requests' = [requests EXCEPT ![r].cancelling = TRUE]
                /\ UNCHANGED inflight
        /\ UNCHANGED <<circuit, cache>>

-----------------------------------------------------------------------------
RequestStep(r) ==
    \/ Enqueue(r) \/ Admit(r) \/ TaskAccepted(r) \/ Lost(r) \/ TaskUnsent(r) \/ Retry(r)
    \/ TaskRefused(r) \/ Escaped(r) \/ PersistReceipt(r) \/ PollJob(r) \/ DeliverCancel(r)
    \/ OnDone(r)

TasksNext ==
    \/ Cool
    \/ \E k \in Keys : Evict(k)
    \/ \E r \in Requests : RequestStep(r)
    \/ \E w \in Callers : Ask(w) \/ Wake(w) \/ CancelCaller(w)

TasksSpec == TasksInit /\ [][TasksNext]_clientVars

-----------------------------------------------------------------------------
(* Properties.                                                             *)

\* Types of the circuit, the tasks, the shared table and the callers.
TasksTypeOK ==
    /\ circuit \in Circuit
    /\ requests \in [Requests -> Request]
    /\ inflight \in [Keys -> Requests \cup {Null}]
    /\ cache \subseteq Keys
    /\ callers \in [Callers -> Caller]

\* A detached task is cancelled only when nobody waits for it, and nobody comes to
\* wait for a task that was cancelled.
OwnedWorkSurvives ==
    \A r \in Requests :
        Detached(r) /\ requests[r].cancelling => Owners(r) = {}

\* No POST goes out that nobody waits for, except the repetition of one that may
\* have been taken already.
NoOwnerlessSubmit ==
    [][\A r \in Requests :
          (/\ ~RequestAt(r, {"sending"}) /\ RequestAt(r, {"sending"})'
           /\ requests[r].orphaned)
          => requests[r].crossed]_clientVars

\* Callers with one key share one task while it lives: two live tasks of a key
\* exist only when the older one is already cancelled.
OneTaskPerKey ==
    \A k \in Keys :
        Cardinality({r \in Requests :
            requests[r].key = k /\ Live(r) /\ ~requests[r].cancelling}) <= 1

\* A half-open circuit refuses everybody, so it must have a probe under way that
\* will close or open it; otherwise the service is cut off until a restart.
HalfOpenHasProbe ==
    circuit.state = "half_open" =>
        \E r \in Requests : requests[r].probe /\ Inside(r)

\* Only an exception that no handler knows can leave a half-open circuit without
\* the probe that settles it.
ProbeSettlesOrEscapes ==
    circuit.state = "half_open" =>
        \E r \in Requests : requests[r].probe /\ (Inside(r) \/ requests[r].outcome = "escaped")

=============================================================================

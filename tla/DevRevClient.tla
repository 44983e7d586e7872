---------------------------- MODULE DevRevClient -----------------------------
(***************************************************************************)
(* The read-only DevRev adapter (data_pipeline/devrev_client.py): one      *)
(* ticket, one page of tickets, one page of a timeline or a walk over all  *)
(* of it. DevRev is not ours: a page may be short, empty, too long or      *)
(* malformed, a row foreign, undated or repeated, a cursor repeated, any   *)
(* answer late or an error. Every request is a read and may be sent again. *)
(***************************************************************************)
EXTENDS Naturals, FiniteSets, Sequences

CONSTANTS
  Callers,      \* concurrent calls on the shared client
  Ids,          \* ids of remote objects
  Cursors,      \* opaque cursors DevRev may return
  NoCursor,
  Parts,        \* applies_to_part of a remote ticket
  Scope,        \* the configured part scope
  Limit,        \* page size asked for
  MaxPage,      \* MAX_PAGE_SIZE
  PageGuard,    \* max_pages
  EntryGuard,   \* max_entries
  MaxRetries,   \* attempts for one logical request
  DelayCap      \* retry_after_cap_s, in units of the shortest backoff

DevRevAssumption ==
  /\ Scope \subseteq Parts /\ Scope # {}
  /\ {Limit, MaxPage, PageGuard, EntryGuard, MaxRetries, DelayCap} \subseteq Nat \ {0}
  /\ Limit <= MaxPage

ASSUME DevRevConstants == DevRevAssumption

VARIABLES
  call,       \* [Callers -> the call under way, or its result]
  delivered   \* [Callers -> ids of good rows DevRev has sent to the call]

cvars == <<call, delivered>>

Ops == {"ticket", "tickets", "page", "walk"}

NoCall ==
  [op |-> "none", pc |-> "idle", strict |-> FALSE, parts |-> {}, cursor |-> NoCursor,
   requested |-> {}, buffer |-> <<>>, next |-> NoCursor, items |-> <<>>,
   pages |-> 0, attempt |-> 1, requests |-> 0, waited |-> 0,
   truncated |-> FALSE, partial |-> FALSE, outcome |-> "none"]

\* The fields of the call that f has are those of f.
Update(c, f) ==
  call' = [call EXCEPT ![c] = [x \in DOMAIN @ |-> IF x \in DOMAIN f THEN f[x] ELSE @[x]]]

Ends(c, outcome) == Update(c, [pc |-> "done", outcome |-> outcome])

(***************************************************************************)
(* Rows. flaw names what normalization finds first: no usable id, another  *)
(* object or a part or visibility outside the scope, no timestamp at all,  *)
(* or nothing but a text or a list over its canonical bound.               *)
(***************************************************************************)
Flaws == {"none", "unidentified", "foreign", "undated", "clipped"}

Rows == [id : Ids, flaw : Flaws, part : Parts]

\* _in_scope, for a ticket.
InScope(row) == row.flaw # "foreign" /\ row.part \in Scope

\* _normalize_summary: in a list an out-of-scope row is dropped and accounted.
\* A ticket needs no timestamp.
KeepsTicket(row) == InScope(row) /\ row.flaw # "unidentified"

\* _normalize_timeline_entry. The part is the ticket's and was checked there.
KeepsEntry(row) == row.flaw \notin {"unidentified", "foreign", "undated"}

Keeps(op, row) ==
  IF op \in {"tickets", "ticket"} THEN KeepsTicket(row) ELSE KeepsEntry(row)

Clips(row) == row.flaw = "clipped"

(***************************************************************************)
(* Starting a call                                                         *)
(***************************************************************************)
\* _scoped_parts: a caller may narrow the scope, never widen it; nothing
\* asked for means the whole scope.
Scoped(parts) == IF parts = {} THEN Scope ELSE parts

Start(c, op, strict, parts) ==
  /\ call[c].pc = "idle"
  /\ op = "tickets" => parts \subseteq Scope
  /\ call' = [call EXCEPT ![c] =
       [NoCall EXCEPT !.op = op, !.pc = "send", !.strict = strict, !.parts = Scoped(parts)]]
  /\ delivered' = [delivered EXCEPT ![c] = {}]

(***************************************************************************)
(* One request: _request_json around _send_once                            *)
(***************************************************************************)
\* _retry_delay: Retry-After, or backoff that doubles, plus jitter of up to
\* as much again; never over the cap.
Backoff(attempt) == 2 ^ (attempt - 1)

\* Mutant of AtMostCap: Retry-After is obeyed as it is.
Uncapped(d) == d

AtMostCap(d) == IF d > DelayCap THEN DelayCap ELSE d

\* Retry-After may say anything, nothing included.
Delays(attempt) ==
  {AtMostCap(d) : d \in {0, DelayCap + 1} \cup Backoff(attempt) .. 2 * Backoff(attempt)}

\* 429, 500, 503 and transport failures are tried again until the attempts
\* are used up.
Retryable(c) ==
  /\ call[c].pc = "send"
  /\ IF call[c].attempt >= MaxRetries
     THEN Update(c, [pc |-> "done", outcome |-> "error", requests |-> call[c].requests + 1])
     ELSE \E d \in Delays(call[c].attempt) :
            Update(c, [attempt |-> call[c].attempt + 1, waited |-> call[c].waited + d,
                    requests |-> call[c].requests + 1])
  /\ UNCHANGED delivered

\* Redirects, every other status, a body over the cap, no JSON object, no
\* array of rows or more than MAX_PAGE_SIZE of them.
Fatal(c) ==
  /\ call[c].pc = "send"
  /\ Update(c, [pc |-> "done", outcome |-> "error", requests |-> call[c].requests + 1])
  /\ UNCHANGED delivered

(***************************************************************************)
(* Answers                                                                 *)
(***************************************************************************)
\* get_ticket: the object is checked against the scope again.
TicketAnswer(c, row) ==
  /\ call[c].pc = "send" /\ call[c].op = "ticket"
  /\ IF KeepsTicket(row)
     THEN Update(c, [pc |-> "done", outcome |-> "ok", items |-> <<row>>,
                  truncated |-> Clips(row), requests |-> call[c].requests + 1])
     ELSE Update(c, [pc |-> "done", outcome |-> "error", requests |-> call[c].requests + 1])
  /\ UNCHANGED delivered

\* The rows that normalization keeps, in their order: the n-th has n - 1 kept
\* rows before it.
Kept(op, rows) ==
  LET at == {i \in DOMAIN rows : Keeps(op, rows[i])} IN
  [n \in 1 .. Cardinality(at) |->
     rows[CHOOSE i \in at : Cardinality({j \in at : j < i}) = n - 1]]

Good(op, rows) == {rows[i].id : i \in {j \in DOMAIN rows : Keeps(op, rows[j])}}

\* list_tickets and _fetch_timeline_page: more rows than asked for are kept
\* and flagged. Dropped rows make the page partial, clipped ones truncated.
PageAnswer(c, rows, next) ==
  LET k    == call[c]
      kept == Kept(k.op, rows)
      walk == k.op = "walk" IN
  /\ k.pc = "send" /\ k.op # "ticket"
  /\ Update(c, [pc |-> IF walk THEN "yield" ELSE "done",
             outcome |-> IF walk THEN "none" ELSE "ok",
             items  |-> IF walk THEN k.items ELSE kept,
             buffer |-> IF walk THEN kept ELSE <<>>,
             next |-> next, pages |-> k.pages + 1, attempt |-> 1,
             requests |-> k.requests + 1,
             partial |-> k.partial \/ Len(kept) < Len(rows),
             truncated |-> k.truncated \/ Len(rows) > Limit
                             \/ \E i \in DOMAIN kept : Clips(kept[i])])
  /\ delivered' = [delivered EXCEPT ![c] = @ \cup Good(k.op, rows)]

(***************************************************************************)
(* _walk_timeline                                                          *)
(***************************************************************************)
Shown(k) == {k.items[i].id : i \in DOMAIN k.items}

\* Mutant of Guarded: a walk cut off by a guard looks whole.
GuardedQuietly(c) ==
  Update(c, [pc |-> "done", outcome |-> IF call[c].strict THEN "error" ELSE "ok"])

Guarded(c) ==
  Update(c, [pc |-> "done", truncated |-> TRUE, partial |-> TRUE,
          outcome |-> IF call[c].strict THEN "error" ELSE "ok"])

\* One entry of the page: dropped when seen before, cut off by the entry
\* guard, or handed to the consumer.
Yield(c) ==
  LET k == call[c] IN
  /\ k.pc = "yield" /\ k.buffer # <<>>
  /\ LET row == Head(k.buffer) IN
     IF row.id \in Shown(k) THEN Update(c, [buffer |-> Tail(k.buffer)])
     ELSE IF Len(k.items) >= EntryGuard THEN Guarded(c)
     ELSE Update(c, [buffer |-> Tail(k.buffer), items |-> Append(k.items, row)])
  /\ UNCHANGED delivered

\* After the page: no cursor is the only regular end; a cursor asked for
\* before is an error; the page guard is looked at before the next request.
Turn(c) ==
  LET k == call[c] IN
  /\ k.pc = "yield" /\ k.buffer = <<>>
  /\ CASE k.next = NoCursor -> Ends(c, "ok")
       [] k.next # NoCursor /\ k.next \in k.requested -> Ends(c, "error")
       [] k.next # NoCursor /\ k.next \notin k.requested /\ k.pages >= PageGuard ->
            Guarded(c)
       [] OTHER -> Update(c, [pc |-> "send", cursor |-> k.next,
                           requested |-> k.requested \cup {k.next}])
  /\ UNCHANGED delivered

\* The consumer goes away, or reads its result.
Leave(c) ==
  /\ call[c].pc # "idle"
  /\ call' = [call EXCEPT ![c] = NoCall]
  /\ UNCHANGED delivered

CallInit ==
  /\ call = [c \in Callers |-> NoCall]
  /\ delivered = [c \in Callers |-> {}]

\* Pages DevRev may send.
Pages == UNION {[1 .. n -> Rows] : n \in 0 .. MaxPage}

\* DevRev answers, or a timeout of the client does in its place.
Respond(c) ==
  \/ Retryable(c)
  \/ Fatal(c)
  \/ \E row \in Rows : TicketAnswer(c, row)
  \/ \E rows \in Pages, next \in Cursors \cup {NoCursor} : PageAnswer(c, rows, next)

Works(c) == Respond(c) \/ Yield(c) \/ Turn(c)

CallNext ==
  \E c \in Callers :
    \/ \E op \in Ops, strict \in BOOLEAN, parts \in SUBSET Parts :
         Start(c, op, strict, parts)
    \/ Works(c)
    \/ Leave(c)

CallSpec == CallInit /\ [][CallNext]_cvars

-----------------------------------------------------------------------------
(***************************************************************************)
(* Properties                                                              *)
(***************************************************************************)
\* A result that claims neither truncated nor partial holds every good row
\* DevRev sent in all its pages, once each; whatever was repeated, dropped
\* or cut off by a guard on the way is flagged (the module's "honest
\* pagination").
CompleteUnlessFlagged ==
  \A c \in Callers :
    LET k == call[c] IN
    /\ k.op = "walk" => Cardinality(Shown(k)) = Len(k.items)
    /\ k.op # "ticket" /\ k.outcome = "ok" /\ ~k.truncated /\ ~k.partial
         => delivered[c] \subseteq Shown(k)

\* However DevRev behaves, a call costs a bounded number of requests and a
\* bounded wait: a server that repeats cursors, returns empty pages for ever
\* or asks for long pauses cannot hold it.
CostIsBounded ==
  \A c \in Callers :
    LET k == call[c]
        pages == IF k.op = "walk" THEN PageGuard ELSE 1 IN
    /\ k.requests <= pages * MaxRetries
    /\ k.waited <= pages * (MaxRetries - 1) * DelayCap
=============================================================================

----------------------------- MODULE ReviewReads -----------------------------
(***************************************************************************)
(* Reading the review console page by page while it is edited: the queue   *)
(* of reviews, newest first, and the evidence links of a review, through   *)
(* sealed cursors.                                                         *)
(***************************************************************************)
EXTENDS ReviewContract, FiniteSets

CONSTANTS
  QueueIds,    \* ids of the reviews
  LinkIds,     \* ids of the evidence links of one review
  Walkers,     \* clients that page through a listing
  PageSize,
  CursorTTL,   \* lifetime of a cursor
  Nothing,     \* no such document, no cursor
  MaxReadNow   \* bound: the clock

\* Ids are ordered and there are finitely many. What is not there is no cursor.
ASSUME ReadsAssumption ==
  /\ QueueIds \subseteq Nat /\ IsFiniteSet(QueueIds)
  /\ LinkIds \subseteq Nat /\ IsFiniteSet(LinkIds)
  /\ PageSize \in Nat \ {0} /\ CursorTTL \in Nat \ {0}
  /\ Nothing \notin [context : {"queue", "links"}, payload : [upd : Nat, id : Nat], exp : Nat]
  /\ MaxReadNow \in Nat

VARIABLES
  queue,     \* what the queue query reads of a review: [upd, imp], or Nothing
  link,      \* "live", "retired" or Nothing
  walk,      \* [Walkers -> a listing under way]
  readNow

wvars == <<queue, link, walk, readNow>>

\* seen counts how often the listing has shown an id.
NoWalk == [what |-> "nothing", cursor |-> Nothing, due |-> {}, done |-> FALSE,
           seen |-> [id \in QueueIds \cup LinkIds |-> 0]]

(***************************************************************************)
(* The two listings. Each is a total order at the instant of its query.    *)
(***************************************************************************)
\* query_reviews: updated_at descending, then review_id.
Precedes(p, q) == p.upd > q.upd \/ (p.upd = q.upd /\ p.id < q.id)

QueueRow(r) == [upd |-> queue[r].upd, id |-> r]

LinkRow(l) == [upd |-> 0, id |-> l]

\* The rows a listing has now: reviews that are not tombstones, or every
\* link document, retired ones included.
RowsNow(what) ==
  CASE what = "queue" -> {QueueRow(r) : r \in {q \in QueueIds : queue[q] # Nothing}}
    [] what = "links" -> {LinkRow(l) : l \in {m \in LinkIds : link[m] # Nothing}}

\* What the application filter keeps of a page: reversed imports and retired
\* links are left out after the query.
Keeps(what, row) ==
  IF what = "queue" THEN queue[row.id].imp # "reversed" ELSE link[row.id] = "live"

\* The first rows of a listing, as many as fit on a page.
PageOf(S) == {row \in S : Cardinality({q \in S : Precedes(q, row)}) < PageSize}

\* The row the cursor is taken of.
LastOf(S) == CHOOSE row \in S : \A q \in S : q = row \/ Precedes(q, row)

(***************************************************************************)
(* list_reviews and list_evidence_links                                    *)
(***************************************************************************)
OpenListing(w, what) ==
  /\ walk[w].what = "nothing"
  /\ walk' = [walk EXCEPT ![w] =
       [NoWalk EXCEPT !.what = what,
          !.due = {row.id : row \in {q \in RowsNow(what) : Keeps(what, q)}}]]
  /\ UNCHANGED <<queue, link, readNow>>

\* Mutant of HasMore: a page the filter made short is taken for the last.
HasMoreKept(after, kept) == Cardinality(after) > PageSize /\ Cardinality(kept) = PageSize

\* The query asks for one row more than the page and looks whether it came.
HasMore(after, kept) == Cardinality(after) > PageSize

\* One page. The cursor moves past what was scanned and not past what was
\* kept; it belongs to this listing and it expires.
ReadPage(w) ==
  LET s       == walk[w]
      after   == {row \in RowsNow(s.what) :
                    s.cursor # Nothing => Precedes(s.cursor.payload, row)}
      scanned == PageOf(after)
      kept    == {row \in scanned : Keeps(s.what, row)}
      more    == HasMore(after, kept) IN
  /\ s.what # "nothing" /\ ~s.done
  /\ s.cursor # Nothing => CursorOpens(s.cursor, s.what, readNow)
  /\ walk' = [walk EXCEPT ![w] =
       [s EXCEPT !.seen = [id \in DOMAIN @ |-> IF \E row \in kept : row.id = id
                                              THEN @[id] + 1 ELSE @[id]],
                 !.done = ~more,
                 !.cursor = IF more
                   THEN SealCursor(s.what, LastOf(scanned), readNow, CursorTTL)
                   ELSE Nothing]]
  /\ UNCHANGED <<queue, link, readNow>>

\* The client stops, or its cursor has expired.
CloseListing(w) ==
  /\ walk[w].what # "nothing"
  /\ walk' = [walk EXCEPT ![w] = NoWalk]
  /\ UNCHANGED <<queue, link, readNow>>

\* What changed meanwhile the listings no longer owe to their readers.
Untouched(what, id) ==
  walk' = [w \in Walkers |->
    [walk[w] EXCEPT !.due = IF walk[w].what = what THEN @ \ {id} ELSE @]]

\* Any write of a review (ReviewStore) stamps it with its time, and may be
\* one that flips its import state; retention takes it out of the queue.
ReviewWritten(r) ==
  /\ \E imp \in {"active", "reversed"} :
       queue' = [queue EXCEPT ![r] = [upd |-> readNow, imp |-> imp]]
  /\ Untouched("queue", r)
  /\ UNCHANGED <<link, readNow>>

ReviewPurged(r) ==
  /\ queue[r] # Nothing
  /\ queue' = [queue EXCEPT ![r] = Nothing]
  /\ Untouched("queue", r)
  /\ UNCHANGED <<link, readNow>>

LinkWritten(l) ==
  /\ link' = [link EXCEPT ![l] = IF @ = "live" THEN "retired" ELSE "live"]
  /\ Untouched("links", l)
  /\ UNCHANGED <<queue, readNow>>

ReadTick ==
  /\ readNow < MaxReadNow
  /\ readNow' = readNow + 1
  /\ UNCHANGED <<queue, link, walk>>

ReadInit ==
  /\ queue = [r \in QueueIds |-> Nothing]
  /\ link = [l \in LinkIds |-> Nothing]
  /\ walk = [w \in Walkers |-> NoWalk]
  /\ readNow = 0

ReadNext ==
  \/ ReadTick
  \/ \E r \in QueueIds : ReviewWritten(r) \/ ReviewPurged(r)
  \/ \E l \in LinkIds : LinkWritten(l)
  \/ \E w \in Walkers : \/ \E what \in {"queue", "links"} : OpenListing(w, what)
                          \/ ReadPage(w) \/ CloseListing(w)

ReadSpec == ReadInit /\ [][ReadNext]_wvars

-----------------------------------------------------------------------------
(***************************************************************************)
(* Properties                                                              *)
(***************************************************************************)
\* A walk that came to its end has shown everything that was there all along
\* and was not touched, each once, however many of the rows in between were
\* filtered out and whatever was edited, reversed or unlinked meanwhile
\* (list_reviews and list_evidence_links on the cursor that advances by what
\* was scanned).
WalkMissesNothing ==
  \A w \in Walkers : walk[w].done => \A id \in walk[w].due : walk[w].seen[id] = 1
=============================================================================

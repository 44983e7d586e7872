--------------------------- MODULE ReviewRetention ---------------------------
(***************************************************************************)
(* purge_expired: the bounded purge of the console's records, next to the  *)
(* people who edit them. A run is many transactions: it scans outside any, *)
(* deletes the children of an expired review, turns the review into a      *)
(* content-free tombstone, deletes the tombstone's expired audit events    *)
(* and last the tombstone. Each transaction takes its decision again. The  *)
(* collections of batches, imports and exports go through the same steps   *)
(* with their own children; reviews with evidence links stand for them.    *)
(***************************************************************************)
EXTENDS ReviewStore, FiniteSetsExt

CONSTANTS Runs,      \* purge runs that may overlap
          Budgets    \* values of max_documents

BudgetsAssumption == Budgets \subseteq Nat \ {0}

VARIABLE run   \* [Runs -> what the run keeps between transactions]

rvars == <<vars, run>>

\* cur is the review whose children the run is at.
Idle == [pc |-> "idle", at |-> 0, left |-> 0, todo |-> {}, cur |-> Absent, page |-> {},
         more |-> FALSE]

Expired(r, at) == Live(r) /\ ~review[r].hold /\ review[r].exp <= at

ElapsedTomb(r, at) == Tomb(r) /\ review[r].ledgerExp <= at

LinksOf(r) == {l \in Links : links[r][l] # Absent}

\* Subsets of S of size n, or S itself when it is smaller.
Bounded(S, n) ==
  IF Cardinality(S) <= n THEN {S} ELSE {T \in SUBSET S : Cardinality(T) = n}

Goto(w, f) ==
  run' = [run EXCEPT ![w] = [x \in DOMAIN @ |-> IF x \in DOMAIN f THEN f[x] ELSE @[x]]]

\* _retention_candidates: the longest expired, up to the budget. Held
\* reviews have their clock parked and are not found.
Scan(w, budget) ==
  /\ run[w].pc = "idle"
  /\ \E at \in Readings :
     LET found == {r \in Reviews : Expired(r, at)} IN
     \E T \in Bounded(found, budget) :
       /\ \A r \in T, s \in found \ T : review[r].exp <= review[s].exp
       /\ Goto(w, [pc |-> "children", at |-> at, left |-> budget, todo |-> T])
  /\ UNCHANGED vars

(***************************************************************************)
(* Product children, then the parent                                       *)
(***************************************************************************)
\* _delete_subcollection_page lists one page outside its transaction. A run
\* without budget left takes no further parent.
ListChildren(w, r) ==
  /\ run[w].pc = "children" /\ r \in run[w].todo /\ run[w].left > 0
  /\ \E P \in Bounded(LinksOf(r), run[w].left) :
       Goto(w, [pc |-> "page", cur |-> r, page |-> P, more |-> P # LinksOf(r)])
  /\ UNCHANGED vars

\* The parent is still expired and still without a hold, or is a tombstone.
MayLoseChildren(r, at) ==
  review[r] # Absent /\ (Tomb(r) \/ Expired(r, at))

\* The transaction of _delete_subcollection_page: it deletes the page unless
\* the parent was touched since. With children or budget left over the
\* parent is left for the next run.
DeleteChildren(w, r) ==
  /\ run[w].pc = "page" /\ r = run[w].cur
  /\ LET gone == IF MayLoseChildren(r, run[w].at) THEN run[w].page \cap LinksOf(r) ELSE {}
         left == run[w].left - Cardinality(gone)
         stop == run[w].more \/ left = 0 IN
     /\ links' = [links EXCEPT ![r] = [l \in Links |-> IF l \in gone THEN Absent ELSE @[l]]]
     /\ Goto(w, [pc |-> IF stop THEN "children" ELSE "parent", left |-> left,
                 todo |-> IF stop THEN run[w].todo \ {r} ELSE run[w].todo, page |-> {}])
  /\ UNCHANGED <<review, ledger, keys, now>>

\* _tombstone: the parent becomes a tombstone unless it was touched or held
\* since the scan.
Tombstone(w, r) ==
  /\ run[w].pc = "parent" /\ r = run[w].cur
  /\ LET goes == Expired(r, run[w].at) IN
     /\ review' = IF goes
          THEN [review EXCEPT ![r] = [kind |-> "tombstone", hold |-> FALSE,
                                      ledgerExp |-> review[r].ledgerExp]]
          ELSE review
     /\ Goto(w, [pc |-> "children", todo |-> run[w].todo \ {r},
                 left |-> run[w].left - (IF goes THEN 1 ELSE 0)])
  /\ UNCHANGED <<links, ledger, keys, now>>

ChildrenDone(w) ==
  /\ run[w].pc = "children"
  /\ run[w].left = 0 \/ run[w].todo = {}
  /\ Goto(w, [pc |-> "events",
              todo |-> {r \in Reviews : ElapsedTomb(r, run[w].at)}])
  /\ UNCHANGED vars

(***************************************************************************)
(* The ledger, then the tombstone                                          *)
(***************************************************************************)
\* Mutant of ExpiredEvents: the time of the review stands for its events'.
EventsOfExpired(r, at) ==
  IF review[r] # Absent /\ review[r].ledgerExp > at THEN {} ELSE DOMAIN ledger[r]

ExpiredEvents(r, at) == {i \in DOMAIN ledger[r] : ledger[r][i].exp <= at}

\* _delete_expired_events: of one page of the ledger what is expired. Events
\* never change, so what the listing found expired the transaction finds
\* expired, or already gone.
DeleteEvents(w, r) ==
  /\ run[w].pc = "events" /\ r \in run[w].todo /\ run[w].left > 0
  /\ LET E == ExpiredEvents(r, run[w].at)
         held == review[r] # Absent /\ review[r].hold IN
     \E P \in Bounded(DOMAIN ledger[r], run[w].left) :
       LET D == IF held THEN {} ELSE P \cap E IN
       /\ ledger' = [ledger EXCEPT ![r] =
            LET Kept == DOMAIN ledger[r] \ D IN
            [n \in 1 .. Cardinality(Kept) |->
               ledger[r][CHOOSE i \in Kept : Cardinality({j \in Kept : j <= i}) = n]]]
       /\ Goto(w, [todo |-> run[w].todo \ {r}, left |-> run[w].left - Cardinality(D)])
  /\ UNCHANGED <<review, links, keys, now>>

EventsDone(w) ==
  /\ run[w].pc = "events"
  /\ run[w].left = 0 \/ run[w].todo = {}
  /\ Goto(w, [pc |-> "tombs",
              todo |-> {r \in Reviews : ElapsedTomb(r, run[w].at)}])
  /\ UNCHANGED vars

\* Mutant of FindEmpty: the ledger is not looked at.
FindAny(w, r) ==
  /\ run[w].pc = "tombs" /\ r \in run[w].todo /\ run[w].left > 0
  /\ Goto(w, [pc |-> "drop", page |-> {r}])
  /\ UNCHANGED vars

\* _has_remaining_ledger, a read outside the transaction that follows it.
FindEmpty(w, r) ==
  /\ run[w].pc = "tombs" /\ r \in run[w].todo /\ run[w].left > 0
  /\ IF ledger[r] = <<>> THEN Goto(w, [pc |-> "drop", page |-> {r}])
                         ELSE Goto(w, [todo |-> run[w].todo \ {r}])
  /\ UNCHANGED vars

\* _delete_exact_tombstone.
DropTombstone(w, r) ==
  /\ run[w].pc = "drop" /\ r \in run[w].page
  /\ LET goes == ElapsedTomb(r, run[w].at) IN
     /\ review' = IF goes THEN [review EXCEPT ![r] = Absent] ELSE review
     /\ Goto(w, [pc |-> "tombs", todo |-> run[w].todo \ {r}, page |-> {},
                 left |-> run[w].left - (IF goes THEN 1 ELSE 0)])
  /\ UNCHANGED <<links, ledger, keys, now>>

\* The disposable sweep: an elapsed key, looked at again in its transaction.
\* Firestore's own TTL deletion does the same.
SweepKey(k) ==
  /\ keys[k] # Absent /\ ~KeyLive(k, now)
  /\ keys' = [keys EXCEPT ![k] = Absent]
  /\ UNCHANGED <<review, links, ledger, now, run>>

\* The run ends, or its process does at any step.
RunEnds(w) ==
  /\ run[w].pc # "idle"
  /\ run' = [run EXCEPT ![w] = Idle]
  /\ UNCHANGED vars

RunStep(w) ==
  \/ \E r \in Reviews : \/ ListChildren(w, r)  \/ DeleteChildren(w, r)
                        \/ Tombstone(w, r)     \/ DeleteEvents(w, r)
                        \/ FindEmpty(w, r)     \/ DropTombstone(w, r)
  \/ ChildrenDone(w) \/ EventsDone(w)
  \/ (run[w].pc = "tombs" /\ (run[w].left = 0 \/ run[w].todo = {}) /\ RunEnds(w))

RInit == Init /\ run = [w \in Runs |-> Idle]

RNext ==
  \/ (Tick \/ \E r \in Reviews : Edit(r)) /\ UNCHANGED run
  \/ \E w \in Runs : (\E n \in Budgets : Scan(w, n)) \/ RunStep(w) \/ RunEnds(w)
  \/ \E k \in Keys : SweepKey(k)

RSpec == RInit /\ [][RNext]_rvars

\* For progress: runs are started again and again and brought to their end.
RFairNext ==
  \/ (Tick \/ \E r \in Reviews : Edit(r)) /\ UNCHANGED run
  \/ \E w \in Runs : (\E n \in Budgets : Scan(w, n)) \/ RunStep(w)

RFairSpec ==
  /\ RInit /\ [][RFairNext]_rvars
  /\ \A w \in Runs : WF_rvars(RunStep(w)) /\ WF_rvars(\E n \in Budgets : Scan(w, n))

-----------------------------------------------------------------------------
(***************************************************************************)
(* Properties                                                              *)
(***************************************************************************)
\* Overlapping runs, crashes between their transactions and edits in
\* between leave nothing behind: a tombstone has no product children, and
\* once it is gone its audit ledger is gone as well (purge_expired's order).
NoOrphans ==
  \A r \in Reviews :
    /\ Tomb(r) => LinksOf(r) = {}
    /\ review[r] = Absent => LinksOf(r) = {} /\ ledger[r] = <<>>

\* The audit contract is never cut short by the product purge: an event
\* disappears only when its own time is over and its review is a tombstone.
LedgerOutlivesProduct ==
  [][\A r \in Reviews :
       \A i \in DOMAIN ledger[r] :
         ledger[r][i] \notin {ledger'[r][j] : j \in DOMAIN ledger'[r]}
           => Tomb(r) /\ ledger[r][i].exp <= now]_rvars

\* Under a legal hold nothing of the review is deleted, whatever a run saw
\* before the hold was placed.
HeldIsKept ==
  [][\A r \in Reviews : Live(r) /\ review[r].hold =>
       /\ review'[r] # Absent /\ review'[r].kind = "review"
       /\ \A l \in Links : links[r][l] # Absent => links'[r][l] # Absent
       /\ Len(ledger'[r]) >= Len(ledger[r])]_rvars

\* However small the budget of a run, runs together get there: no review
\* stays expired and unheld for ever.
ExpiredIsPurged == \A r \in Reviews : []<>~Expired(r, now)

\* What the ledger says was linked is there while the review is current:
\* the comment in _delete_subcollection_page, "its product state is live
\* again and its children must stay".
LinkedIsThere ==
  \A r \in Reviews :
    /\ Live(r) /\ review[r].exp > now
    /\ \E i \in DOMAIN ledger[r] : ledger[r][i].type = "evidence_linked"
    => LinksOf(r) # {}
=============================================================================

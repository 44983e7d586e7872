------------------------- MODULE ReviewStoreProofs -------------------------
(***************************************************************************)
(* The two long histories of the review console, for any reviews, links,   *)
(* people and keys, and any times the configuration allows: the purge, for *)
(* any overlapping runs and budgets, and the imports, for any chunks and   *)
(* any number of deliveries of each.                                       *)
(*                                                                         *)
(* A purge run takes each decision twice: it lists or looks outside a      *)
(* transaction and deletes inside another. RInv says what of the first     *)
(* look is still true at the second: a page the run holds is all the       *)
(* children of a review still expired (PageIsWhole), a review whose        *)
(* events it deletes is a tombstone or has younger events only             *)
(* (EventsAreOfTombs), and a tombstone it is about to drop has no ledger   *)
(* unless it was replaced (LedgerIsEmpty). What the other actors may do in *)
(* between is one relation, Keeps, which every action is shown to satisfy: *)
(* a person's write makes a document young, and young documents are out of *)
(* the reach of a clock that was read before.                              *)
(*                                                                         *)
(* A delivery of a chunk counts what it saw, one transaction per row, and  *)
(* adds it up in a last one. The count is right because a row once settled *)
(* stays settled: a row that committed has its key, and a row that was in  *)
(* conflict or refused is Shut for every other delivery too.               *)
(***************************************************************************)
EXTENDS ReviewRetention, ReviewImports, FiniteSetTheorems, SequenceTheorems, TLAPS

-----------------------------------------------------------------------------
(***************************************************************************)
(* Documents                                                               *)
(***************************************************************************)
\* The events that writes put in the ledger.
EventNames ==
  {"review_created", "review_updated", "review_reopened", "review_legal_hold_set",
   "review_import_reversed", "evidence_linked", "evidence_unlinked"}

EventType == [at : Nat, type : EventNames, ver : Nat, exp : Nat]

\* What the theorems assume of the constants.
Parameters == RetentionAssumption /\ PatchesAssumption /\ AbsentAssumption

\* The type of the documents.
DocsOK ==
  /\ now \in Nat
  /\ review \in [Reviews -> ReviewType \cup TombstoneType \cup {Absent}]
  /\ links \in [Reviews -> [Links -> {"live", "retired", Absent}]]
  /\ ledger \in [Reviews -> Seq(EventType)]

FieldNames == {"kind", "status", "ver", "upd", "assignee", "res", "imp", "hold", "resolved",
               "exp", "ledgerExp"}

\* A review document field by field.
LEMMA ReviewFields ==
  ASSUME NEW d
  PROVE  d \in ReviewType <=>
           /\ d = [f \in FieldNames |-> d[f]]
           /\ d["kind"] = "review"
           /\ d["status"] \in ReviewStatuses /\ d["ver"] \in Nat /\ d["upd"] \in Nat
           /\ d["assignee"] \in People \cup {Nobody} /\ d["res"] \in Resolutions
           /\ d["imp"] \in {"active", "reversed"} /\ d["hold"] \in BOOLEAN
           /\ d["resolved"] \in BOOLEAN /\ d["exp"] \in Nat /\ d["ledgerExp"] \in Nat
BY ZenonT(60) DEF ReviewType, FieldNames

\* What a document is, told by its kind.
LEMMA DocKinds ==
  ASSUME AbsentAssumption, DocsOK, NEW r \in Reviews
  PROVE  /\ Live(r) <=> review[r] \in ReviewType
         /\ Tomb(r) <=> review[r] \in TombstoneType
         /\ Live(r) \/ Tomb(r) \/ review[r] = Absent
         /\ Live(r) => review[r].exp \in Nat /\ review[r].hold \in BOOLEAN
         /\ review[r] # Absent => review[r].ledgerExp \in Nat
<1>1. review[r] \in ReviewType => review[r].kind = "review" /\ review[r].exp \in Nat
                                  /\ review[r].ledgerExp \in Nat /\ review[r].hold \in BOOLEAN
  BY DEF ReviewType
<1>2. review[r] \in TombstoneType => review[r].kind = "tombstone" /\ review[r].ledgerExp \in Nat
  BY DEF TombstoneType
<1>3. review[r] \in ReviewType \cup TombstoneType \cup {Absent}
  BY DEF DocsOK
<1>4. Absent \notin ReviewType /\ Absent \notin TombstoneType
  BY DEF AbsentAssumption
<1> HIDE DEF ReviewType, TombstoneType
<1> QED BY <1>1, <1>2, <1>3, <1>4 DEF Live, Tomb

\* What a write may name of a review, each value of its field's type.
FieldsOK(fields) ==
  /\ DOMAIN fields \subseteq {"status", "assignee", "res", "imp", "hold", "resolved"}
  /\ "status" \in DOMAIN fields => fields["status"] \in ReviewStatuses
  /\ "assignee" \in DOMAIN fields => fields["assignee"] \in People \cup {Nobody}
  /\ "res" \in DOMAIN fields => fields["res"] \in Resolutions
  /\ "imp" \in DOMAIN fields => fields["imp"] \in {"active", "reversed"}
  /\ "hold" \in DOMAIN fields => fields["hold"] \in BOOLEAN
  /\ "resolved" \in DOMAIN fields => fields["resolved"] \in BOOLEAN

\* The review r is written: a whole document and one event, both young.
Rewritten(r) ==
  \E doc \in ReviewType, e \in EventType :
    /\ doc.exp > now /\ doc.ledgerExp > now /\ e.exp > now
    /\ review' = [review EXCEPT ![r] = doc]
    /\ ledger' = [ledger EXCEPT ![r] = Append(@, e)]

\* A transaction retried for at most Delay still writes times that lie ahead.
LEMMA YoungTimes ==
  ASSUME RetentionAssumption, now \in Nat, NEW at \in Readings
  PROVE  /\ at \in Nat /\ at + ReviewTTL \in Nat /\ at + AuditTTL \in Nat
         /\ at + ReviewTTL > now /\ at + AuditTTL > now
BY DEF RetentionAssumption, Readings

\* WriteReview leaves a whole, young document and a young event.
LEMMA WriteRewrites ==
  ASSUME RetentionAssumption, DocsOK, NEW r \in Reviews, review[r] \in ReviewType,
         NEW at \in Readings, NEW fields, FieldsOK(fields), NEW type \in EventNames,
         WriteReview(r, at, fields, type)
  PROVE  Rewritten(r)
<1> DEFINE d == review[r]
           doc == [f \in DOMAIN d |->
                     CASE f = "ver"       -> d.ver + 1
                       [] f = "upd"       -> at
                       [] f = "exp"       -> at + ReviewTTL
                       [] f = "ledgerExp" -> at + AuditTTL
                       [] f \in DOMAIN fields -> fields[f]
                       [] OTHER           -> d[f]]
           e == [at |-> at, type |-> type, ver |-> d.ver + 1, exp |-> at + AuditTTL]
<1>1. /\ at \in Nat /\ at + ReviewTTL \in Nat /\ at + AuditTTL \in Nat
      /\ at + ReviewTTL > now /\ at + AuditTTL > now
  BY YoungTimes DEF DocsOK
<1>2. d = [f \in FieldNames |-> d[f]] /\ DOMAIN d = FieldNames /\ d["ver"] \in Nat
  BY ReviewFields
<1>3. d["ver"] + 1 \in Nat
  BY <1>2
<1>4. doc = [f \in FieldNames |-> doc[f]]
  BY <1>2
<1>5. doc["ver"] = d["ver"] + 1 /\ doc["upd"] = at
  BY <1>2 DEF FieldNames, FieldsOK
<1>6. doc["exp"] = at + ReviewTTL /\ doc["ledgerExp"] = at + AuditTTL
  BY <1>2 DEF FieldNames, FieldsOK
<1>7. doc["kind"] = d["kind"]
  BY <1>2 DEF FieldNames, FieldsOK
<1>8. \A f \in {"status", "assignee", "res", "imp", "hold", "resolved"} :
        doc[f] = IF f \in DOMAIN fields THEN fields[f] ELSE d[f]
  BY <1>2 DEF FieldNames
<1> HIDE DEF doc, d
<1>9. doc \in ReviewType
  <2>1. /\ d["kind"] = "review" /\ d["status"] \in ReviewStatuses
        /\ d["assignee"] \in People \cup {Nobody} /\ d["res"] \in Resolutions
        /\ d["imp"] \in {"active", "reversed"} /\ d["hold"] \in BOOLEAN
        /\ d["resolved"] \in BOOLEAN
    BY ReviewFields DEF d
  <2>2. /\ doc["status"] \in ReviewStatuses /\ doc["assignee"] \in People \cup {Nobody}
        /\ doc["res"] \in Resolutions /\ doc["imp"] \in {"active", "reversed"}
        /\ doc["hold"] \in BOOLEAN /\ doc["resolved"] \in BOOLEAN
    BY <1>8, <2>1 DEF FieldsOK
  <2> QED BY <1>1, <1>3, <1>4, <1>5, <1>6, <1>7, <2>1, <2>2, ReviewFields
<1>10. e \in EventType /\ e.exp > now
  BY <1>1, <1>3 DEF EventType, d
<1>11. doc.exp > now /\ doc.ledgerExp > now
  BY <1>1, <1>6
<1>12. review' = [review EXCEPT ![r] = doc]
  BY DEF WriteReview, doc, d
<1>13. ledger' = [ledger EXCEPT ![r] = Append(@, e)]
  BY DEF WriteReview, Append1, d
<1> HIDE DEF e
<1> QED BY <1>9, <1>10, <1>11, <1>12, <1>13 DEF Rewritten

\* So does the creation of a review.
LEMMA CreateRewrites ==
  ASSUME RetentionAssumption, DocsOK, NEW r \in Reviews, NEW at \in Readings,
         CreateReview(r, "reviewer", at)
  PROVE  Rewritten(r)
<1> DEFINE doc == [kind |-> "review", status |-> "unreviewed", ver |-> 1, upd |-> at,
                   assignee |-> Nobody, res |-> "none", imp |-> "active", hold |-> FALSE,
                   resolved |-> FALSE, exp |-> at + ReviewTTL, ledgerExp |-> at + AuditTTL]
           e == [at |-> at, type |-> "review_created", ver |-> 1, exp |-> at + AuditTTL]
<1>1. /\ at \in Nat /\ at + ReviewTTL \in Nat /\ at + AuditTTL \in Nat
      /\ at + ReviewTTL > now /\ at + AuditTTL > now
  BY YoungTimes DEF DocsOK
<1>2. doc \in ReviewType
  BY <1>1 DEF ReviewType, ReviewStatuses, ReviewTransitions, Resolutions
<1>3. e \in EventType /\ e.exp > now /\ doc.exp > now /\ doc.ledgerExp > now
  <2>1. e \in EventType
    <3>1. "review_created" \in EventNames /\ 1 \in Nat
      BY DEF EventNames
    <3> QED BY <1>1, <3>1, Zenon DEF EventType
  <2>2. e.exp = at + AuditTTL /\ doc.exp = at + ReviewTTL /\ doc.ledgerExp = at + AuditTTL
    OBVIOUS
  <2> HIDE DEF e, doc
  <2> QED BY <1>1, <2>1, <2>2
<1>4. review' = [review EXCEPT ![r] = doc] /\ ledger' = [ledger EXCEPT ![r] = Append(@, e)]
  BY DEF CreateReview, Append1
<1> HIDE DEF doc, e
<1> QED BY <1>2, <1>3, <1>4 DEF Rewritten

\* A patch names fields of a review only, each with a value of its type.
LEMMA PatchedFields ==
  ASSUME PatchesAssumption, NEW r \in Reviews, review[r] \in ReviewType, NEW p \in Patches
  PROVE  FieldsOK(Patched(r, p))
<1>1. /\ p.move \in ReviewStatuses \cup {NoMove} /\ p.assign \in People \cup {Nobody}
      /\ p.res \in Resolutions \cup {NoMove} /\ p.reopen \in BOOLEAN
  BY DEF PatchesAssumption, PatchType
<1>2. /\ review[r].status \in ReviewStatuses /\ review[r].assignee \in People \cup {Nobody}
      /\ review[r].res \in Resolutions /\ review[r].resolved \in BOOLEAN
  BY ReviewFields
<1> QED BY <1>1, <1>2 DEF FieldsOK, Patched

\* Whatever a person does to a review, and the clock it is done by.
LEMMA EditRewrites ==
  ASSUME Parameters, DocsOK, NEW r \in Reviews, Edit(r)
  PROVE  /\ Rewritten(r) /\ now' = now
         /\ review[r] = Absent \/ Live(r)
         /\ links' \in [Reviews -> [Links -> {"live", "retired", Absent}]]
         /\ \A s \in Reviews \ {r} : links'[s] = links[s]
         /\ \A l \in Links : links[r][l] # Absent => links'[r][l] # Absent
<1> USE DEF Parameters
<1>1. PICK at \in Readings :
        \/ CreateReview(r, "reviewer", at)
        \/ /\ Live(r)
           /\ \E v \in Versions(r), k \in Keys \cup {NoKey}, role \in {"reviewer", "admin"} :
               \/ \E p \in Patches, who \in People : PatchReview(r, p, v, role, who, k, at)
               \/ \E hold \in BOOLEAN : SetLegalHold(r, hold, v, role, k, at)
               \/ \E l \in Links : \/ LinkEvidence(r, l, v, role, k, at)
                                   \/ UnlinkEvidence(r, l, v, role, k, at)
  BY DEF Edit
<1>2. links \in [Reviews -> [Links -> {"live", "retired", Absent}]]
  BY DEF DocsOK
<1>3. CASE CreateReview(r, "reviewer", at)
  <2>1. links' = links /\ now' = now /\ review[r] = Absent
    BY <1>3 DEF CreateReview
  <2>2. Rewritten(r)
    BY <1>3, CreateRewrites
  <2> QED BY <1>2, <2>1, <2>2
<1>4. CASE Live(r) /\ ~CreateReview(r, "reviewer", at)
  <2>1. review[r] \in ReviewType
    BY <1>4, DocKinds
  <2>2. PICK v \in Versions(r), k \in Keys \cup {NoKey}, role \in {"reviewer", "admin"} :
          \/ \E p \in Patches, who \in People : PatchReview(r, p, v, role, who, k, at)
          \/ \E hold \in BOOLEAN : SetLegalHold(r, hold, v, role, k, at)
          \/ \E l \in Links : \/ LinkEvidence(r, l, v, role, k, at)
                              \/ UnlinkEvidence(r, l, v, role, k, at)
    BY <1>1, <1>4
  <2>3. ASSUME NEW p \in Patches, NEW who \in People, PatchReview(r, p, v, role, who, k, at)
        PROVE  Rewritten(r) /\ links' = links /\ now' = now
    <3>1. FieldsOK(Patched(r, p))
      BY <2>1, PatchedFields
    <3>2. PICK type \in EventNames : WriteReview(r, at, Patched(r, p), type)
      BY <2>3 DEF PatchReview, EventNames
    <3>3. Rewritten(r)
      BY <2>1, <3>1, <3>2, WriteRewrites
    <3> QED BY <2>3, <3>3 DEF PatchReview
  <2>4. ASSUME NEW hold \in BOOLEAN, SetLegalHold(r, hold, v, role, k, at)
        PROVE  Rewritten(r) /\ links' = links /\ now' = now
    <3>1. FieldsOK([hold |-> hold])
      BY DEF FieldsOK
    <3>2. WriteReview(r, at, [hold |-> hold], "review_legal_hold_set")
      BY <2>4 DEF SetLegalHold, FieldUpdate
    <3>3. "review_legal_hold_set" \in EventNames
      BY DEF EventNames
    <3>4. Rewritten(r)
      BY <2>1, <3>1, <3>2, <3>3, WriteRewrites
    <3> QED BY <2>4, <3>4 DEF SetLegalHold, FieldUpdate
  <2>5. ASSUME NEW l \in Links,
               LinkEvidence(r, l, v, role, k, at) \/ UnlinkEvidence(r, l, v, role, k, at)
        PROVE  /\ Rewritten(r) /\ now' = now
               /\ \E state \in {"live", "retired"} : links' = [links EXCEPT ![r][l] = state]
    <3>1. FieldsOK(<<>>)
      BY DEF FieldsOK
    <3>2. PICK type \in EventNames : WriteReview(r, at, <<>>, type)
      BY <2>5 DEF LinkEvidence, UnlinkEvidence, EventNames
    <3>3. Rewritten(r)
      BY <2>1, <3>1, <3>2, WriteRewrites
    <3> QED BY <2>5, <3>3 DEF LinkEvidence, UnlinkEvidence
  <2>6. ASSUME NEW l \in Links, NEW state \in {"live", "retired"},
               links' = [links EXCEPT ![r][l] = state]
        PROVE  /\ links' \in [Reviews -> [Links -> {"live", "retired", Absent}]]
               /\ \A s \in Reviews \ {r} : links'[s] = links[s]
               /\ \A m \in Links : links[r][m] # Absent => links'[r][m] # Absent
    BY <1>2, <2>6 DEF AbsentAssumption
  <2> QED BY <1>2, <1>4, <2>2, <2>3, <2>4, <2>5, <2>6
<1> QED BY <1>1, <1>3, <1>4

\* In a finite set of places each has a rank of its own, and every rank is taken.
LEMMA Ranks ==
  ASSUME NEW N \in Nat, NEW K \in SUBSET (1 .. N)
  PROVE  /\ IsFiniteSet(K) /\ Cardinality(K) \in Nat
         /\ \A i \in K : Cardinality({j \in K : j <= i}) \in 1 .. Cardinality(K)
         /\ \A i, k \in K : Cardinality({j \in K : j <= i}) = Cardinality({j \in K : j <= k}) => i = k
         /\ \A n \in 1 .. Cardinality(K) : \E i \in K : Cardinality({j \in K : j <= i}) = n
<1> DEFINE upto(i) == {j \in K : j <= i}
           rank == [i \in K |-> Cardinality(upto(i))]
<1>1. IsFiniteSet(K) /\ Cardinality(K) \in Nat
  <2>1. IsFiniteSet(1 .. N)
    BY FS_Interval
  <2> QED BY <2>1, FS_Subset, FS_CardinalityType
<1>2. \A i \in K : upto(i) \in SUBSET K /\ i \in upto(i)
  OBVIOUS
<1>3. \A i \in K : IsFiniteSet(upto(i)) /\ Cardinality(upto(i)) \in Nat
                  /\ Cardinality(upto(i)) <= Cardinality(K) /\ Cardinality(upto(i)) # 0
  <2> TAKE i \in K
  <2> HIDE DEF upto
  <2>1. IsFiniteSet(upto(i)) /\ Cardinality(upto(i)) <= Cardinality(K)
    BY <1>1, <1>2, FS_Subset
  <2>2. Cardinality(upto(i)) \in Nat
    BY <2>1, FS_CardinalityType
  <2>3. Cardinality(upto(i)) # 0
    BY <1>2, <2>1, FS_EmptySet
  <2> QED BY <2>1, <2>2, <2>3
<1>4. \A i \in K : Cardinality(upto(i)) \in 1 .. Cardinality(K)
  <2> HIDE DEF upto
  <2> QED BY <1>1, <1>3
<1>5. \A i, k \in K : Cardinality(upto(i)) = Cardinality(upto(k)) => i = k
  <2> SUFFICES ASSUME NEW i \in K, NEW k \in K, i <= k,
                      Cardinality(upto(i)) = Cardinality(upto(k))
               PROVE  i = k
    OBVIOUS
  <2>0. K \subseteq Nat
    OBVIOUS
  <2>1. upto(i) \in SUBSET upto(k) /\ k \in upto(k)
    <3>1. \A j \in K : j <= i => j <= k
      BY <2>0
    <3>2. k <= k
      BY <2>0
    <3> QED BY <3>1, <3>2
  <2>2. upto(i) = upto(k)
    <3> HIDE DEF upto
    <3> QED BY <1>3, <2>1, FS_Subset
  <2>3. k \in upto(i)
    BY <2>1, <2>2
  <2> QED BY <2>3
<1>6. rank \in Injection(K, 1 .. Cardinality(K))
  <2> HIDE DEF upto
  <2>1. rank \in [K -> 1 .. Cardinality(K)]
    BY <1>4
  <2>2. \A i, k \in K : rank[i] = rank[k] => i = k
    BY <1>5
  <2> QED BY <2>1, <2>2 DEF Injection, IsInjective
<1>7. rank \in Surjection(K, 1 .. Cardinality(K))
  <2>1. IsFiniteSet(1 .. Cardinality(K)) /\ Cardinality(1 .. Cardinality(K)) = Cardinality(K)
    BY <1>1, FS_Interval
  <2> HIDE DEF rank
  <2> QED BY <1>6, <2>1, FS_Injection
<1>8. \A n \in 1 .. Cardinality(K) : \E i \in K : Cardinality(upto(i)) = n
  BY <1>7 DEF Surjection
<1> QED BY <1>1, <1>4, <1>5, <1>8

-----------------------------------------------------------------------------
(***************************************************************************)
(* Runs, and the inductive invariant                                       *)
(***************************************************************************)
RunFields == {"pc", "at", "left", "todo", "cur", "page", "more"}

RunsOK ==
  /\ run = [w \in Runs |-> run[w]]
  /\ \A w \in Runs : DOMAIN run[w] = RunFields /\ run[w].at \in Nat /\ run[w].at <= now

\* While its review is expired, a page without more to come is all its children,
\* and the parent that is due has none.
PageIsWhole(w) ==
  \A r \in Reviews : r = run[w].cur =>
    /\ run[w].pc = "page" /\ ~run[w].more /\ Expired(r, run[w].at)
         => LinksOf(r) \subseteq run[w].page
    /\ run[w].pc = "parent" /\ Expired(r, run[w].at) => LinksOf(r) = {}

\* A review that came back has only events younger than the run.
EventsAreOfTombs(w) ==
  run[w].pc = "events" =>
    \A r \in Reviews : r \in run[w].todo =>
      Tomb(r) \/ \A i \in DOMAIN ledger[r] : ledger[r][i].exp > run[w].at

\* The tombstone that was looked at, if it still is the one, has no ledger.
LedgerIsEmpty(w) ==
  run[w].pc = "drop" =>
    \A r \in Reviews : r \in run[w].page /\ review[r] # Absent /\ review[r].ledgerExp <= run[w].at
      => ledger[r] = <<>>

RunInv(w) == PageIsWhole(w) /\ EventsAreOfTombs(w) /\ LedgerIsEmpty(w)

RInv ==
  /\ DocsOK /\ RunsOK
  /\ \A w \in Runs : RunInv(w)
  /\ NoOrphans

\* Goto changes the named fields of one run and nothing else.
LEMMA GotoKeeps ==
  ASSUME RunsOK, NEW w \in Runs, NEW f, Goto(w, f)
  PROVE  /\ run' = [v \in Runs |-> run'[v]]
         /\ DOMAIN run'[w] = RunFields
         /\ \A x \in RunFields : run'[w][x] = IF x \in DOMAIN f THEN f[x] ELSE run[w][x]
         /\ \A v \in Runs \ {w} : run'[v] = run[v]
<1>1. DOMAIN run = Runs /\ DOMAIN run[w] = RunFields
  BY DEF RunsOK
<1>2. run' = [run EXCEPT ![w] = [x \in RunFields |-> IF x \in DOMAIN f THEN f[x] ELSE run[w][x]]]
  BY <1>1 DEF Goto
<1> QED BY <1>1, <1>2

\* What a step may do to the documents of a review, seen from a run whose clock
\* reads a.
Keeps(r, a) ==
  /\ Expired(r, a)' => Expired(r, a) /\ LinksOf(r)' \subseteq LinksOf(r)
  /\ Tomb(r) => Tomb(r)' \/ ledger'[r] = <<>>
  /\ (\A i \in DOMAIN ledger[r] : ledger[r][i].exp > a)
       => \A i \in DOMAIN ledger'[r] : ledger'[r][i].exp > a
  /\ review'[r] # Absent /\ review'[r].ledgerExp <= a
       => review[r] # Absent /\ review[r].ledgerExp <= a
          /\ (ledger[r] = <<>> => ledger'[r] = <<>>)

\* A run that stands still keeps its invariant under what the others do.
LEMMA RunKeeps ==
  ASSUME NEW w \in Runs, RunInv(w), run'[w] = run[w],
         \A r \in Reviews : Keeps(r, run[w].at)
  PROVE  RunInv(w)'
<1>1. PageIsWhole(w)'
  <2> SUFFICES ASSUME NEW r \in Reviews, r = run[w].cur, run[w].pc \in {"page", "parent"},
                      Expired(r, run[w].at)'
               PROVE  /\ run[w].pc = "page" /\ ~run[w].more => LinksOf(r)' \subseteq run[w].page
                      /\ run[w].pc = "parent" => LinksOf(r)' = {}
    BY DEF PageIsWhole, Expired, Live
  <2>1. Expired(r, run[w].at) /\ LinksOf(r)' \subseteq LinksOf(r)
    BY DEF Keeps, Expired, Live
  <2> QED BY <2>1 DEF RunInv, PageIsWhole
<1>2. EventsAreOfTombs(w)'
  <2> SUFFICES ASSUME NEW r \in Reviews, run[w].pc = "events", r \in run[w].todo
               PROVE  Tomb(r)' \/ \A i \in DOMAIN ledger'[r] : ledger'[r][i].exp > run[w].at
    BY DEF EventsAreOfTombs
  <2>1. Tomb(r) \/ \A i \in DOMAIN ledger[r] : ledger[r][i].exp > run[w].at
    BY DEF RunInv, EventsAreOfTombs
  <2>2. ledger'[r] = <<>> => DOMAIN ledger'[r] = {}
    OBVIOUS
  <2> QED BY <2>1, <2>2 DEF Keeps
<1>3. LedgerIsEmpty(w)'
  BY DEF RunInv, LedgerIsEmpty, Keeps
<1> QED BY <1>1, <1>2, <1>3 DEF RunInv

\* Nothing but the clock and the idempotency keys.
LEMMA QuietKeeps ==
  ASSUME NEW r \in Reviews, NEW a, UNCHANGED <<review, links, ledger>>
  PROVE  Keeps(r, a)
BY DEF Keeps, Expired, Live, Tomb, LinksOf

-----------------------------------------------------------------------------
(***************************************************************************)
(* The steps                                                               *)
(***************************************************************************)
\* What LedgerOutlivesProduct and HeldIsKept say of one step.
LedgerStep ==
  \A r \in Reviews :
    \A i \in DOMAIN ledger[r] :
      ledger[r][i] \notin {ledger'[r][j] : j \in DOMAIN ledger'[r]}
        => Tomb(r) /\ ledger[r][i].exp <= now

HeldStep ==
  \A r \in Reviews : Live(r) /\ review[r].hold =>
    /\ review'[r] # Absent /\ review'[r].kind = "review"
    /\ \A l \in Links : links[r][l] # Absent => links'[r][l] # Absent
    /\ Len(ledger'[r]) >= Len(ledger[r])

Sound == RInv' /\ LedgerStep /\ HeldStep

\* A step that leaves a review as it is.
LEMMA SameKeeps ==
  ASSUME NEW s \in Reviews, NEW a,
         review'[s] = review[s], links'[s] = links[s], ledger'[s] = ledger[s]
  PROVE  Keeps(s, a)
BY DEF Keeps, Expired, Live, Tomb, LinksOf

\* The ledger with one more event at its end.
LEMMA Appended ==
  ASSUME NEW s \in Seq(EventType), NEW e \in EventType
  PROVE  /\ Append(s, e) \in Seq(EventType)
         /\ Len(s) \in Nat /\ Len(Append(s, e)) = Len(s) + 1
         /\ DOMAIN s = 1 .. Len(s) /\ DOMAIN Append(s, e) = 1 .. Len(s) + 1
         /\ \A i \in 1 .. Len(s) : Append(s, e)[i] = s[i]
         /\ Append(s, e)[Len(s) + 1] = e
  OBVIOUS

\* A person creates or changes a review, under a run that may be anywhere.
LEMMA EditStep ==
  ASSUME Parameters, RInv, NEW r \in Reviews, Edit(r), UNCHANGED run
  PROVE  Sound
<1>0. DocsOK /\ RunsOK /\ AbsentAssumption /\ now \in Nat
  BY DEF RInv, Parameters, DocsOK
<1>1. /\ Rewritten(r) /\ now' = now /\ (review[r] = Absent \/ Live(r))
      /\ links' \in [Reviews -> [Links -> {"live", "retired", Absent}]]
      /\ \A s \in Reviews \ {r} : links'[s] = links[s]
      /\ \A l \in Links : links[r][l] # Absent => links'[r][l] # Absent
  BY <1>0, EditRewrites
<1>2. PICK doc \in ReviewType, e \in EventType :
        /\ doc.exp > now /\ doc.ledgerExp > now /\ e.exp > now
        /\ review' = [review EXCEPT ![r] = doc]
        /\ ledger' = [ledger EXCEPT ![r] = Append(@, e)]
  BY <1>1 DEF Rewritten
<1>3. doc # Absent /\ doc.kind = "review" /\ doc.exp \in Nat /\ doc.ledgerExp \in Nat /\ e.exp \in Nat
  <2>1. doc # Absent
    BY <1>0 DEF AbsentAssumption
  <2>2. doc.kind = "review" /\ doc.exp \in Nat /\ doc.ledgerExp \in Nat
    BY ReviewFields
  <2> QED BY <2>1, <2>2 DEF EventType
<1>4. /\ review'[r] = doc /\ ledger'[r] = Append(ledger[r], e)
      /\ \A s \in Reviews \ {r} : review'[s] = review[s] /\ ledger'[s] = ledger[s]
  BY <1>0, <1>2 DEF DocsOK
<1>5. ledger[r] \in Seq(EventType)
  BY <1>0 DEF DocsOK
<1>6. DocsOK'
  <2>1. review' \in [Reviews -> ReviewType \cup TombstoneType \cup {Absent}]
    <3> HIDE DEF ReviewType, TombstoneType
    <3> QED BY <1>0, <1>2 DEF DocsOK
  <2>2. ledger' \in [Reviews -> Seq(EventType)]
    <3> HIDE DEF EventType
    <3> QED BY <1>0, <1>2, <1>5, Appended DEF DocsOK
  <2> QED BY <1>0, <1>1, <2>1, <2>2 DEF DocsOK
<1>7. ~Tomb(r)
  BY <1>1 DEF Live, Tomb
<1>8. ASSUME NEW a \in Nat, a <= now, NEW s \in Reviews
      PROVE  Keeps(s, a)
  <2>1. CASE s # r
    BY <1>1, <1>4, <2>1, SameKeeps
  <2>2. CASE s = r
    <3>1. ~Expired(r, a)'
      BY <1>0, <1>2, <1>3, <1>4, <1>8 DEF Expired
    <3>2. ASSUME \A i \in DOMAIN ledger[r] : ledger[r][i].exp > a
          PROVE  \A i \in DOMAIN ledger'[r] : ledger'[r][i].exp > a
      <4>1. e.exp > a
        BY <1>0, <1>2, <1>3, <1>8
      <4> QED BY <1>4, <1>5, <3>2, <4>1, Appended
    <3>3. ~(doc.ledgerExp <= a)
      BY <1>0, <1>2, <1>3, <1>8
    <3> QED BY <1>4, <1>7, <2>2, <3>1, <3>2, <3>3 DEF Keeps
  <2> QED BY <2>1, <2>2
<1>9. RunsOK' /\ \A w \in Runs : RunInv(w)'
  <2>1. RunsOK'
    BY <1>0, <1>1 DEF RunsOK
  <2>2. ASSUME NEW w \in Runs PROVE RunInv(w)'
    <3>1. RunInv(w) /\ run[w].at \in Nat /\ run[w].at <= now
      BY <1>0 DEF RInv, RunsOK
    <3> QED BY <1>8, <3>1, RunKeeps
  <2> QED BY <2>1, <2>2
<1>10. NoOrphans'
  <2>1. ASSUME NEW s \in Reviews, s # r
        PROVE  /\ Tomb(s)' => LinksOf(s)' = {}
               /\ review'[s] = Absent => LinksOf(s)' = {} /\ ledger'[s] = <<>>
    BY <1>1, <1>4, <2>1 DEF RInv, NoOrphans, Tomb, LinksOf
  <2>2. ~Tomb(r)' /\ review'[r] # Absent
    BY <1>3, <1>4 DEF Tomb
  <2> QED BY <2>1, <2>2 DEF NoOrphans
<1>11. LedgerStep
  <2> SUFFICES ASSUME NEW s \in Reviews, NEW i \in DOMAIN ledger[s]
               PROVE  ledger[s][i] \in {ledger'[s][j] : j \in DOMAIN ledger'[s]}
    BY DEF LedgerStep
  <2> HIDE DEF EventType
  <2>1. i \in DOMAIN ledger'[s] /\ ledger'[s][i] = ledger[s][i]
    BY <1>4, <1>5, Appended
  <2> QED BY <2>1
<1>12. HeldStep
  <2> SUFFICES ASSUME NEW s \in Reviews, Live(s)
               PROVE  /\ review'[s] # Absent /\ review'[s].kind = "review"
                      /\ \A l \in Links : links[s][l] # Absent => links'[s][l] # Absent
                      /\ Len(ledger'[s]) >= Len(ledger[s])
    BY DEF HeldStep
  <2> HIDE DEF EventType
  <2>1. ledger[s] \in Seq(EventType) /\ Len(ledger[s]) \in Nat
    BY <1>0 DEF DocsOK
  <2> QED BY <1>1, <1>3, <1>4, <2>1, Appended DEF Live
<1> QED BY <1>6, <1>9, <1>10, <1>11, <1>12 DEF Sound, RInv

-----------------------------------------------------------------------------
\* A step of run w: what is left to show of it is its own invariant, that the
\* documents keep what the other runs rely on, and the two action properties.
LEMMA RunGoes ==
  ASSUME RInv, NEW w \in Runs, NEW f, Goto(w, f), now' = now,
         "at" \in DOMAIN f => f["at"] \in Nat /\ f["at"] <= now,
         \A r \in Reviews, a \in Nat : a <= now => Keeps(r, a)
  PROVE  RunsOK' /\ \A v \in Runs : v # w => RunInv(v)'
<1>1. RunsOK /\ now \in Nat
  BY DEF RInv, DocsOK
<1>2. /\ run' = [v \in Runs |-> run'[v]] /\ DOMAIN run'[w] = RunFields
      /\ \A x \in RunFields : run'[w][x] = IF x \in DOMAIN f THEN f[x] ELSE run[w][x]
      /\ \A v \in Runs \ {w} : run'[v] = run[v]
  BY <1>1, GotoKeeps
<1>3. run'[w].at \in Nat /\ run'[w].at <= now'
  BY <1>1, <1>2 DEF RunsOK, RunFields
<1>4. RunsOK'
  BY <1>1, <1>2, <1>3 DEF RunsOK
<1>5. ASSUME NEW v \in Runs, v # w PROVE RunInv(v)'
  <2>1. RunInv(v) /\ run[v].at \in Nat /\ run[v].at <= now /\ run'[v] = run[v]
    BY <1>1, <1>2, <1>5 DEF RInv, RunsOK
  <2> QED BY <2>1, RunKeeps
<1> QED BY <1>4, <1>5

\* The steps that write no document.
LEMMA Unwritten ==
  ASSUME RInv, now' \in Nat, UNCHANGED <<review, links, ledger>>
  PROVE  DocsOK' /\ NoOrphans' /\ LedgerStep /\ HeldStep
<1>1. DocsOK' /\ NoOrphans'
  BY DEF RInv, DocsOK, NoOrphans, Tomb, LinksOf
<1>2. LedgerStep
  BY DEF LedgerStep
<1>3. \A r \in Reviews : Len(ledger[r]) \in Nat
  BY DEF RInv, DocsOK
<1>4. HeldStep
  BY <1>3 DEF HeldStep, Live
<1> QED BY <1>1, <1>2, <1>4

\* A step of a run that writes no document.
LEMMA QuietRun ==
  ASSUME RInv, NEW w \in Runs, NEW f, Goto(w, f), UNCHANGED vars,
         "at" \in DOMAIN f => f["at"] \in Nat /\ f["at"] <= now,
         RunInv(w)'
  PROVE  Sound
<1>1. now \in Nat /\ UNCHANGED <<review, links, ledger, now>>
  BY DEF RInv, DocsOK, vars
<1>2. DocsOK' /\ NoOrphans' /\ LedgerStep /\ HeldStep
  BY <1>1, Unwritten
<1>3. RunsOK' /\ \A v \in Runs : v # w => RunInv(v)'
  BY <1>1, QuietKeeps, RunGoes
<1> QED BY <1>2, <1>3 DEF Sound, RInv

\* _retention_candidates.
LEMMA ScanStep ==
  ASSUME RInv, NEW w \in Runs, NEW n \in Budgets, Scan(w, n)
  PROVE  Sound
<1>0. PICK at \in Readings :
        \E T : Goto(w, [pc |-> "children", at |-> at, left |-> n, todo |-> T])
  BY DEF Scan
<1>1. PICK T : Goto(w, [pc |-> "children", at |-> at, left |-> n, todo |-> T])
  BY <1>0
<1>2. at \in Nat /\ at <= now
  BY DEF RInv, DocsOK, Readings
<1>3. run'[w].pc = "children"
  BY <1>1, GotoKeeps DEF RInv, RunFields
<1>4. RunInv(w)'
  BY <1>3 DEF RunInv, PageIsWhole, EventsAreOfTombs, LedgerIsEmpty
<1> QED BY <1>1, <1>2, <1>4, QuietRun DEF Scan

\* The listing of a page: it is whole when nothing is left over.
LEMMA ListChildrenStep ==
  ASSUME RInv, NEW w \in Runs, NEW r \in Reviews, ListChildren(w, r)
  PROVE  Sound
<1>1. PICK P \in Bounded(LinksOf(r), run[w].left) :
        Goto(w, [pc |-> "page", cur |-> r, page |-> P, more |-> P # LinksOf(r)])
  BY DEF ListChildren
<1>2. /\ run'[w].pc = "page" /\ run'[w].cur = r /\ run'[w].page = P
      /\ run'[w].more = (P # LinksOf(r)) /\ UNCHANGED links
  BY <1>1, GotoKeeps DEF RInv, RunFields, ListChildren, vars
<1>3. RunInv(w)'
  BY <1>2 DEF RunInv, PageIsWhole, EventsAreOfTombs, LedgerIsEmpty, LinksOf
<1> QED BY <1>1, <1>3, QuietRun DEF ListChildren

\* The run turns to the ledgers of elapsed tombstones.
LEMMA ChildrenDoneStep ==
  ASSUME RInv, NEW w \in Runs, ChildrenDone(w)
  PROVE  Sound
<1>1. Goto(w, [pc |-> "events", todo |-> {r \in Reviews : ElapsedTomb(r, run[w].at)}])
  BY DEF ChildrenDone
<1>2. /\ run'[w].pc = "events" /\ UNCHANGED review
      /\ \A r \in Reviews : r \in run'[w].todo => Tomb(r)
  BY <1>1, GotoKeeps DEF RInv, RunFields, ChildrenDone, vars, ElapsedTomb
<1>3. RunInv(w)'
  BY <1>2 DEF RunInv, PageIsWhole, EventsAreOfTombs, LedgerIsEmpty, Tomb
<1> QED BY <1>1, <1>3, QuietRun DEF ChildrenDone

\* The run turns to the tombstones themselves.
LEMMA EventsDoneStep ==
  ASSUME RInv, NEW w \in Runs, EventsDone(w)
  PROVE  Sound
<1>1. Goto(w, [pc |-> "tombs", todo |-> {r \in Reviews : ElapsedTomb(r, run[w].at)}])
  BY DEF EventsDone
<1>2. run'[w].pc = "tombs"
  BY <1>1, GotoKeeps DEF RInv, RunFields
<1>3. RunInv(w)'
  BY <1>2 DEF RunInv, PageIsWhole, EventsAreOfTombs, LedgerIsEmpty
<1> QED BY <1>1, <1>3, QuietRun DEF EventsDone

\* _has_remaining_ledger.
LEMMA FindEmptyStep ==
  ASSUME RInv, NEW w \in Runs, NEW r \in Reviews, FindEmpty(w, r)
  PROVE  Sound
<1>1. CASE ledger[r] = <<>>
  <2>1. Goto(w, [pc |-> "drop", page |-> {r}])
    BY <1>1 DEF FindEmpty
  <2>2. run'[w].pc = "drop" /\ run'[w].page = {r} /\ UNCHANGED ledger
    BY <2>1, GotoKeeps DEF RInv, RunFields, FindEmpty, vars
  <2>3. RunInv(w)'
    BY <1>1, <2>2 DEF RunInv, PageIsWhole, EventsAreOfTombs, LedgerIsEmpty
  <2> QED BY <2>1, <2>3, QuietRun DEF FindEmpty
<1>2. CASE ledger[r] # <<>>
  <2>1. Goto(w, [todo |-> run[w].todo \ {r}]) /\ run[w].pc = "tombs"
    BY <1>2 DEF FindEmpty
  <2>2. run'[w].pc = "tombs"
    BY <2>1, GotoKeeps DEF RInv, RunFields
  <2>3. RunInv(w)'
    BY <2>2 DEF RunInv, PageIsWhole, EventsAreOfTombs, LedgerIsEmpty
  <2> QED BY <2>1, <2>3, QuietRun DEF FindEmpty
<1> QED BY <1>1, <1>2

\* A run ends or dies; nothing of it is needed later.
LEMMA RunEndsStep ==
  ASSUME RInv, NEW w \in Runs, RunEnds(w)
  PROVE  Sound
<1>1. /\ now \in Nat /\ UNCHANGED <<review, links, ledger, now>> /\ RunsOK
      /\ run' = [run EXCEPT ![w] = Idle]
  BY DEF RInv, DocsOK, vars, RunEnds
<1>2. DocsOK' /\ NoOrphans' /\ LedgerStep /\ HeldStep
  BY <1>1, Unwritten
<1>3. DOMAIN Idle = RunFields /\ Idle.at = 0 /\ Idle.pc = "idle"
  BY DEF Idle, RunFields
<1>4. run'[w] = Idle /\ \A v \in Runs : v # w => run'[v] = run[v]
  BY <1>1 DEF RunsOK
<1>5. run' = [v \in Runs |-> run'[v]]
  BY <1>1 DEF RunsOK
<1>6. RunsOK'
  BY <1>1, <1>3, <1>4, <1>5 DEF RunsOK
<1>7. RunInv(w)'
  BY <1>3, <1>4 DEF RunInv, PageIsWhole, EventsAreOfTombs, LedgerIsEmpty
<1>8. ASSUME NEW v \in Runs, v # w PROVE RunInv(v)'
  BY <1>1, <1>4, <1>8, QuietKeeps, RunKeeps DEF RInv
<1> QED BY <1>2, <1>6, <1>7, <1>8 DEF Sound, RInv

\* The clock or an idempotency key moves, or nothing does.
LEMMA ClockOrKeyStep ==
  ASSUME RInv, UNCHANGED <<review, links, ledger, run>>, now' \in Nat, now' >= now
  PROVE  Sound
<1>1. DocsOK' /\ NoOrphans' /\ LedgerStep /\ HeldStep
  BY Unwritten
<1>2. now \in Nat
  BY DEF RInv, DocsOK
<1>3. RunsOK'
  BY <1>2 DEF RInv, RunsOK
<1>4. \A w \in Runs : RunInv(w)'
  BY QuietKeeps, RunKeeps DEF RInv
<1> QED BY <1>1, <1>3, <1>4 DEF Sound, RInv

-----------------------------------------------------------------------------
\* _delete_subcollection_page: after a whole page no child of an expired parent is left.
LEMMA DeleteChildrenStep ==
  ASSUME AbsentAssumption, RInv, NEW w \in Runs, NEW r \in Reviews, DeleteChildren(w, r)
  PROVE  Sound
<1> DEFINE gone == IF MayLoseChildren(r, run[w].at) THEN run[w].page \cap LinksOf(r) ELSE {}
           left == run[w].left - Cardinality(gone)
           stop == run[w].more \/ left = 0
           f == [pc |-> IF stop THEN "children" ELSE "parent", left |-> left,
                 todo |-> IF stop THEN run[w].todo \ {r} ELSE run[w].todo, page |-> {}]
<1>1. /\ run[w].pc = "page" /\ r = run[w].cur
      /\ links' = [links EXCEPT ![r] = [l \in Links |-> IF l \in gone THEN Absent ELSE @[l]]]
      /\ Goto(w, f)
      /\ UNCHANGED <<review, ledger, now>>
  BY DEF DeleteChildren
<1>2. DocsOK /\ RunsOK /\ NoOrphans /\ PageIsWhole(w) /\ now \in Nat
  BY DEF RInv, RunInv, DocsOK
<1>3. /\ links' \in [Reviews -> [Links -> {"live", "retired", Absent}]]
      /\ \A s \in Reviews \ {r} : links'[s] = links[s]
      /\ \A l \in Links : links'[r][l] = IF l \in gone THEN Absent ELSE links[r][l]
  <2> HIDE DEF gone
  <2> QED BY <1>1, <1>2 DEF DocsOK
<1>4. DocsOK'
  BY <1>1, <1>2, <1>3 DEF DocsOK
<1>5. \A s \in Reviews : LinksOf(s)' \subseteq LinksOf(s)
  BY <1>3 DEF LinksOf
<1>6. NoOrphans'
  BY <1>1, <1>2, <1>5 DEF NoOrphans, Tomb
<1>7. \A s \in Reviews, a \in Nat : a <= now => Keeps(s, a)
  BY <1>1, <1>5 DEF Keeps, Expired, Live, Tomb
<1>8. RunsOK' /\ \A v \in Runs : v # w => RunInv(v)'
  <2>1. "at" \notin DOMAIN f
    OBVIOUS
  <2> HIDE DEF f
  <2> QED BY <1>1, <1>7, <2>1, RunGoes
<1>9. RunInv(w)'
  <2>1. /\ run'[w].pc = (IF stop THEN "children" ELSE "parent")
        /\ run'[w].cur = r /\ run'[w].at = run[w].at
    <3> HIDE DEF stop, left
    <3> QED BY <1>1, <1>2, GotoKeeps DEF RunFields
  <2>2. ASSUME ~stop, Expired(r, run[w].at) PROVE LinksOf(r)' = {}
    <3>1. LinksOf(r) \subseteq run[w].page
      BY <1>1, <1>2, <2>2 DEF PageIsWhole
    <3>2. MayLoseChildren(r, run[w].at)
      BY <2>2 DEF MayLoseChildren, Expired, Live
    <3>3. gone = LinksOf(r)
      BY <3>1, <3>2
    <3> QED BY <1>3, <3>3 DEF LinksOf
  <2>3. PageIsWhole(w)'
    <3> HIDE DEF stop
    <3> QED BY <1>1, <2>1, <2>2 DEF PageIsWhole, Expired, Live
  <2> QED BY <2>1, <2>3 DEF RunInv, EventsAreOfTombs, LedgerIsEmpty
<1>10. LedgerStep
  BY <1>1 DEF LedgerStep
<1>11. HeldStep
  <2> SUFFICES ASSUME NEW s \in Reviews, Live(s), review[s].hold
               PROVE  /\ review'[s] # Absent /\ review'[s].kind = "review"
                      /\ \A l \in Links : links[s][l] # Absent => links'[s][l] # Absent
                      /\ Len(ledger'[s]) >= Len(ledger[s])
    BY DEF HeldStep
  <2>1. s = r => gone = {}
    BY DEF MayLoseChildren, Expired, Tomb, Live
  <2>2. \A l \in Links : links'[s][l] = links[s][l]
    <3> HIDE DEF gone
    <3> QED BY <1>3, <2>1
  <2>3. Len(ledger[s]) \in Nat
    BY <1>2 DEF DocsOK
  <2> QED BY <1>1, <2>2, <2>3 DEF Live
<1> QED BY <1>4, <1>6, <1>8, <1>9, <1>10, <1>11 DEF Sound, RInv

\* _tombstone: the parent that goes has no children, so the tombstone has none.
LEMMA TombstoneStep ==
  ASSUME AbsentAssumption, RInv, NEW w \in Runs, NEW r \in Reviews, Tombstone(w, r)
  PROVE  Sound
<1> DEFINE goes == Expired(r, run[w].at)
           tomb == [kind |-> "tombstone", hold |-> FALSE, ledgerExp |-> review[r].ledgerExp]
           f == [pc |-> "children", todo |-> run[w].todo \ {r},
                 left |-> run[w].left - (IF goes THEN 1 ELSE 0)]
<1>1. /\ run[w].pc = "parent" /\ r = run[w].cur
      /\ review' = IF goes THEN [review EXCEPT ![r] = tomb] ELSE review
      /\ Goto(w, f)
      /\ UNCHANGED <<links, ledger, now>>
  BY DEF Tombstone
<1>2. DocsOK /\ RunsOK /\ NoOrphans /\ PageIsWhole(w) /\ now \in Nat
  BY DEF RInv, RunInv, DocsOK
<1>3. goes => Live(r) /\ LinksOf(r) = {} /\ ~review[r].hold
  BY <1>1, <1>2 DEF PageIsWhole, Expired
<1>4. goes => tomb \in TombstoneType /\ tomb # Absent
  <2>1. goes => review[r].ledgerExp \in Nat
    BY <1>2, <1>3, DocKinds DEF Live
  <2>2. goes => tomb \in TombstoneType
    BY <2>1 DEF TombstoneType
  <2> HIDE DEF tomb, goes
  <2> QED BY <2>2 DEF AbsentAssumption
<1>5. tomb.kind = "tombstone" /\ tomb.ledgerExp = review[r].ledgerExp
  OBVIOUS
<1> HIDE DEF goes, tomb
<1>6. /\ goes => review'[r] = tomb
      /\ ~goes => review'[r] = review[r]
      /\ \A s \in Reviews \ {r} : review'[s] = review[s]
      /\ review' \in [Reviews -> ReviewType \cup TombstoneType \cup {Absent}]
  <2> HIDE DEF ReviewType, TombstoneType
  <2> QED BY <1>1, <1>2, <1>4 DEF DocsOK
<1>7. DocsOK'
  BY <1>1, <1>2, <1>6 DEF DocsOK
<1>8. NoOrphans'
  <2>1. ASSUME NEW s \in Reviews, review'[s] = review[s]
        PROVE  /\ Tomb(s)' => LinksOf(s)' = {}
               /\ review'[s] = Absent => LinksOf(s)' = {} /\ ledger'[s] = <<>>
    BY <1>1, <1>2, <2>1 DEF NoOrphans, Tomb, LinksOf
  <2>2. goes => LinksOf(r)' = {} /\ review'[r] # Absent
    BY <1>1, <1>3, <1>4, <1>6 DEF LinksOf
  <2> QED BY <1>6, <2>1, <2>2 DEF NoOrphans
<1>9. ASSUME NEW s \in Reviews, NEW a \in Nat, a <= now
      PROVE  Keeps(s, a)
  <2>1. CASE review'[s] = review[s]
    BY <1>1, <2>1, SameKeeps
  <2>2. CASE s = r /\ goes
    <3>1. ~Expired(r, a)' /\ ~Tomb(r) /\ review[r] # Absent
      BY <1>3, <1>5, <1>6, <2>2 DEF Expired, Live, Tomb
    <3>2. review'[r].ledgerExp = review[r].ledgerExp
      BY <1>5, <1>6, <2>2
    <3> QED BY <1>1, <2>2, <3>1, <3>2 DEF Keeps
  <2> QED BY <1>6, <2>1, <2>2
<1>10. RunsOK' /\ \A v \in Runs : v # w => RunInv(v)'
  <2>1. "at" \notin DOMAIN f
    OBVIOUS
  <2> HIDE DEF f
  <2> QED BY <1>1, <1>9, <2>1, RunGoes
<1>11. RunInv(w)'
  <2>1. run'[w].pc = "children"
    BY <1>1, <1>2, GotoKeeps DEF RunFields
  <2> QED BY <2>1 DEF RunInv, PageIsWhole, EventsAreOfTombs, LedgerIsEmpty
<1>12. LedgerStep
  BY <1>1 DEF LedgerStep
<1>13. HeldStep
  <2>1. \A s \in Reviews : Len(ledger[s]) \in Nat
    BY <1>2 DEF DocsOK
  <2>2. \A s \in Reviews : review[s].hold => review'[s] = review[s]
    BY <1>3, <1>6
  <2> QED BY <1>1, <2>1, <2>2 DEF HeldStep, Live
<1> QED BY <1>7, <1>8, <1>10, <1>11, <1>12, <1>13 DEF Sound, RInv

\* _delete_exact_tombstone: the tombstone that goes has neither children nor ledger.
LEMMA DropTombstoneStep ==
  ASSUME AbsentAssumption, RInv, NEW w \in Runs, NEW r \in Reviews, DropTombstone(w, r)
  PROVE  Sound
<1> DEFINE goes == ElapsedTomb(r, run[w].at)
           f == [pc |-> "tombs", todo |-> run[w].todo \ {r}, page |-> {},
                 left |-> run[w].left - (IF goes THEN 1 ELSE 0)]
<1>1. /\ run[w].pc = "drop" /\ r \in run[w].page
      /\ review' = IF goes THEN [review EXCEPT ![r] = Absent] ELSE review
      /\ Goto(w, f)
      /\ UNCHANGED <<links, ledger, now>>
  BY DEF DropTombstone
<1>2. DocsOK /\ RunsOK /\ NoOrphans /\ LedgerIsEmpty(w) /\ now \in Nat
  BY DEF RInv, RunInv, DocsOK
<1>3. goes => Tomb(r) /\ LinksOf(r) = {} /\ ledger[r] = <<>>
  <2>1. goes => Tomb(r) /\ review[r].ledgerExp <= run[w].at
    BY DEF ElapsedTomb
  <2>2. Tomb(r) => LinksOf(r) = {} /\ review[r] # Absent
    BY <1>2 DEF NoOrphans, Tomb
  <2> QED BY <1>1, <1>2, <2>1, <2>2 DEF LedgerIsEmpty
<1> HIDE DEF goes
<1>4. /\ goes => review'[r] = Absent
      /\ ~goes => review'[r] = review[r]
      /\ \A s \in Reviews \ {r} : review'[s] = review[s]
      /\ review' \in [Reviews -> ReviewType \cup TombstoneType \cup {Absent}]
  <2> HIDE DEF ReviewType, TombstoneType
  <2> QED BY <1>1, <1>2 DEF DocsOK
<1>5. DocsOK'
  BY <1>1, <1>2, <1>4 DEF DocsOK
<1>6. NoOrphans'
  <2>1. ASSUME NEW s \in Reviews, review'[s] = review[s]
        PROVE  /\ Tomb(s)' => LinksOf(s)' = {}
               /\ review'[s] = Absent => LinksOf(s)' = {} /\ ledger'[s] = <<>>
    BY <1>1, <1>2, <2>1 DEF NoOrphans, Tomb, LinksOf
  <2>2. goes => LinksOf(r)' = {} /\ ledger'[r] = <<>> /\ ~Tomb(r)'
    BY <1>1, <1>3, <1>4 DEF LinksOf, Tomb
  <2> QED BY <1>4, <2>1, <2>2 DEF NoOrphans
<1>7. ASSUME NEW s \in Reviews, NEW a \in Nat, a <= now
      PROVE  Keeps(s, a)
  <2>1. CASE review'[s] = review[s]
    BY <1>1, <2>1, SameKeeps
  <2>2. CASE s = r /\ goes
    BY <1>1, <1>3, <1>4, <2>2 DEF Keeps, Expired, Live
  <2> QED BY <1>4, <2>1, <2>2
<1>8. RunsOK' /\ \A v \in Runs : v # w => RunInv(v)'
  <2>1. "at" \notin DOMAIN f
    OBVIOUS
  <2> HIDE DEF f
  <2> QED BY <1>1, <1>7, <2>1, RunGoes
<1>9. RunInv(w)'
  <2>1. run'[w].pc = "tombs"
    BY <1>1, <1>2, GotoKeeps DEF RunFields
  <2> QED BY <2>1 DEF RunInv, PageIsWhole, EventsAreOfTombs, LedgerIsEmpty
<1>10. LedgerStep
  BY <1>1 DEF LedgerStep
<1>11. HeldStep
  <2>1. \A s \in Reviews : Len(ledger[s]) \in Nat
    BY <1>2 DEF DocsOK
  <2>2. \A s \in Reviews : Live(s) => review'[s] = review[s]
    BY <1>3, <1>4 DEF Live, Tomb
  <2> QED BY <1>1, <2>1, <2>2 DEF HeldStep, Live
<1> QED BY <1>5, <1>6, <1>8, <1>9, <1>10, <1>11 DEF Sound, RInv

\* The ledger that is left when the events at the places K stay, in order.
Compacted(s, K) ==
  [n \in 1 .. Cardinality(K) |-> s[CHOOSE i \in K : Cardinality({j \in K : j <= i}) = n]]

\* Every event that is left is one at a place of K, and each of those is left.
LEMMA Compacting ==
  ASSUME NEW E, NEW s \in Seq(E), NEW K \in SUBSET DOMAIN s, NEW t, t = Compacted(s, K)
  PROVE  /\ t \in Seq(E)
         /\ Len(t) = Cardinality(K)
         /\ \A n \in DOMAIN t : \E i \in K : t[n] = s[i]
         /\ \A i \in K : \E n \in DOMAIN t : t[n] = s[i]
         /\ K = {} => t = <<>>
<1> DEFINE rank(i) == Cardinality({j \in K : j <= i})
           at(n) == CHOOSE i \in K : rank(i) = n
<1>1. Len(s) \in Nat /\ K \in SUBSET (1 .. Len(s)) /\ \A i \in 1 .. Len(s) : s[i] \in E
  OBVIOUS
<1>2. /\ IsFiniteSet(K) /\ Cardinality(K) \in Nat
      /\ \A i \in K : rank(i) \in 1 .. Cardinality(K)
      /\ \A i, k \in K : rank(i) = rank(k) => i = k
      /\ \A n \in 1 .. Cardinality(K) : \E i \in K : rank(i) = n
  BY <1>1, Ranks
<1>3. t = [n \in 1 .. Cardinality(K) |-> s[at(n)]]
  BY DEF Compacted
<1> HIDE DEF rank
<1>4. \A n \in 1 .. Cardinality(K) : at(n) \in K /\ rank(at(n)) = n
  BY <1>2
<1> HIDE DEF at
<1>5. t \in [1 .. Cardinality(K) -> E]
  BY <1>1, <1>3, <1>4
<1>6. t \in Seq(E) /\ Len(t) = Cardinality(K) /\ DOMAIN t = 1 .. Cardinality(K)
  <2> DEFINE N == Cardinality(K)
  <2> HIDE DEF N
  <2>1. N \in Nat /\ t \in [1 .. N -> E]
    BY <1>2, <1>5 DEF N
  <2>2. t \in Seq(E)
    BY <2>1, SeqDef
  <2>3. Len(t) = N
    BY <2>1, <2>2
  <2> QED BY <2>1, <2>2, <2>3 DEF N
<1>7. \A n \in DOMAIN t : \E i \in K : t[n] = s[i]
  BY <1>3, <1>4, <1>6
<1>8. ASSUME NEW i \in K PROVE \E n \in DOMAIN t : t[n] = s[i]
  <2>1. rank(i) \in 1 .. Cardinality(K) /\ at(rank(i)) = i
    BY <1>2, <1>4
  <2> QED BY <1>3, <1>6, <2>1
<1>9. K = {} => t = <<>>
  <2>1. K = {} => Len(t) = 0
    BY <1>6, FS_EmptySet
  <2> QED BY <1>6, <2>1
<1> QED BY <1>6, <1>7, <1>8, <1>9

\* _delete_expired_events: what goes is expired and belongs to a tombstone.
LEMMA DeleteEventsStep ==
  ASSUME AbsentAssumption, RInv, NEW w \in Runs, NEW r \in Reviews, DeleteEvents(w, r)
  PROVE  Sound
<1> DEFINE E == ExpiredEvents(r, run[w].at)
           held == review[r] # Absent /\ review[r].hold
<1>1. PICK P \in Bounded(DOMAIN ledger[r], run[w].left) :
        LET D == IF held THEN {} ELSE P \cap E IN
        /\ ledger' = [ledger EXCEPT ![r] =
             LET Kept == DOMAIN ledger[r] \ D IN
             [n \in 1 .. Cardinality(Kept) |->
                ledger[r][CHOOSE i \in Kept : Cardinality({j \in Kept : j <= i}) = n]]]
        /\ Goto(w, [todo |-> run[w].todo \ {r}, left |-> run[w].left - Cardinality(D)])
  BY DEF DeleteEvents
<1> DEFINE D == IF held THEN {} ELSE P \cap E
<1>2. run[w].pc = "events" /\ r \in run[w].todo /\ UNCHANGED <<review, links, now>>
  BY DEF DeleteEvents
<1>3. /\ DocsOK /\ RunsOK /\ NoOrphans /\ EventsAreOfTombs(w) /\ now \in Nat
      /\ run[w].at \in Nat /\ run[w].at <= now
  BY DEF RInv, RunInv, DocsOK, RunsOK
<1>4. D \subseteq E /\ (held => D = {})
  OBVIOUS
<1> DEFINE s == ledger[r]
           K == DOMAIN ledger[r] \ D
           t == ledger'[r]
<1>5. s \in Seq(EventType) /\ Len(s) \in Nat /\ DOMAIN s = 1 .. Len(s)
  BY <1>3 DEF DocsOK
<1>6. /\ t = Compacted(s, K)
      /\ \A q \in Reviews \ {r} : ledger'[q] = ledger[q]
      /\ ledger' = [q \in Reviews |-> ledger'[q]]
  <2>1. ledger' = [ledger EXCEPT ![r] = Compacted(s, K)]
    BY <1>1 DEF Compacted
  <2> HIDE DEF Compacted, K, s
  <2> QED BY <1>3, <2>1 DEF DocsOK
<1> HIDE DEF t, held, E
<1>7. /\ t \in Seq(EventType)
      /\ Len(t) = Cardinality(K)
      /\ \A n \in DOMAIN t : \E i \in K : t[n] = s[i]
      /\ \A i \in K : \E n \in DOMAIN t : t[n] = s[i]
      /\ K = {} => t = <<>>
  <2> HIDE DEF EventType
  <2>1. K \in SUBSET DOMAIN s
    OBVIOUS
  <2> HIDE DEF K, s
  <2> QED BY <1>5, <1>6, <2>1, Compacting
<1>8. DocsOK'
  <2>1. ledger' \in [Reviews -> Seq(EventType)]
    <3> HIDE DEF EventType
    <3> QED BY <1>3, <1>6, <1>7 DEF DocsOK, t
  <2> QED BY <1>2, <1>3, <2>1 DEF DocsOK
<1>9. s = <<>> => t = <<>>
  BY <1>5, <1>7
<1>10. NoOrphans'
  <2>1. \A q \in Reviews : ledger[q] = <<>> => ledger'[q] = <<>>
    BY <1>6, <1>9 DEF t
  <2> QED BY <1>2, <1>3, <2>1 DEF NoOrphans, Tomb, LinksOf
<1>11. ASSUME NEW q \in Reviews, NEW a \in Nat, a <= now
       PROVE  Keeps(q, a)
  <2>1. CASE q # r
    BY <1>2, <1>6, <2>1, SameKeeps
  <2>2. CASE q = r
    <3>1. ASSUME \A i \in DOMAIN s : s[i].exp > a
          PROVE  \A i \in DOMAIN t : t[i].exp > a
      BY <1>7, <3>1
    <3> QED BY <1>2, <1>9, <2>2, <3>1 DEF Keeps, Expired, Live, Tomb, LinksOf, t
  <2> QED BY <2>1, <2>2
<1>12. RunsOK' /\ \A v \in Runs : v # w => RunInv(v)'
  <2> DEFINE f == [todo |-> run[w].todo \ {r}, left |-> run[w].left - Cardinality(D)]
  <2>1. "at" \notin DOMAIN f
    OBVIOUS
  <2> HIDE DEF f
  <2>2. Goto(w, f)
    BY <1>1 DEF f
  <2> QED BY <1>2, <1>11, <2>1, <2>2, RunGoes
<1>13. RunInv(w)'
  <2>1. /\ run'[w].pc = "events" /\ run'[w].at = run[w].at
        /\ run'[w].todo = run[w].todo \ {r}
    BY <1>1, <1>2, <1>3, GotoKeeps DEF RunFields
  <2>2. EventsAreOfTombs(w)'
    BY <1>2, <1>3, <1>6, <2>1 DEF EventsAreOfTombs, Tomb
  <2> QED BY <2>1, <2>2 DEF RunInv, PageIsWhole, LedgerIsEmpty
<1>14. LedgerStep
  <2> SUFFICES ASSUME NEW q \in Reviews, NEW i \in DOMAIN ledger[q],
                      ledger[q][i] \notin {ledger'[q][j] : j \in DOMAIN ledger'[q]}
               PROVE  Tomb(q) /\ ledger[q][i].exp <= now
    BY DEF LedgerStep
  <2>1. q = r
    BY <1>6
  <2>2. i \in E
    <3>1. i \notin K
      BY <1>7, <2>1 DEF t
    <3> QED BY <1>4, <2>1, <3>1
  <2>3. ledger[q][i].exp <= run[w].at /\ ledger[q][i].exp \in Nat
    <3>1. s[i] \in EventType
      BY <1>5, <2>1
    <3> QED BY <2>1, <2>2, <3>1 DEF ExpiredEvents, E, EventType
  <2>4. ~(\A j \in DOMAIN ledger[r] : ledger[r][j].exp > run[w].at)
    BY <1>3, <2>1, <2>3
  <2>5. Tomb(r)
    BY <1>2, <1>3, <2>4 DEF EventsAreOfTombs
  <2> QED BY <1>3, <2>1, <2>3, <2>5
<1>15. HeldStep
  <2>1. held => Len(t) = Len(s)
    <3>1. Cardinality(1 .. Len(s)) = Len(s)
      BY <1>5, FS_Interval
    <3>2. held => K = 1 .. Len(s)
      BY <1>4, <1>5
    <3> QED BY <1>7, <3>1, <3>2
  <2>2. \A q \in Reviews : Len(ledger[q]) \in Nat
    BY <1>3 DEF DocsOK
  <2>3. \A q \in Reviews : review[q] # Absent /\ review[q].hold => Len(ledger'[q]) >= Len(ledger[q])
    <3>1. held => Len(ledger'[r]) >= Len(ledger[r])
      <4>1. held => Len(ledger'[r]) = Len(ledger[r])
        BY <2>1 DEF t
      <4> QED BY <2>2, <4>1
    <3>2. \A q \in Reviews : q # r => ledger'[q] = ledger[q]
      BY <1>6
    <3> QED BY <2>2, <3>1, <3>2 DEF held
  <2> QED BY <1>2, <2>3 DEF HeldStep, Live
<1> QED BY <1>8, <1>10, <1>12, <1>13, <1>14, <1>15 DEF Sound, RInv

-----------------------------------------------------------------------------
(***************************************************************************)
(* The theorems                                                            *)
(***************************************************************************)
\* An empty store.
LEMMA InitSound ==
  ASSUME AbsentAssumption, RInit
  PROVE  RInv
<1>1. DocsOK
  BY DEF RInit, Init, DocsOK
<1>2. DOMAIN Idle = RunFields /\ Idle.at = 0 /\ Idle.pc = "idle"
  BY DEF Idle, RunFields
<1>3. run = [w \in Runs |-> Idle] /\ now = 0
  BY DEF RInit, Init
<1>4. RunsOK
  BY <1>2, <1>3 DEF RunsOK
<1>5. \A w \in Runs : RunInv(w)
  BY <1>2, <1>3 DEF RunInv, PageIsWhole, EventsAreOfTombs, LedgerIsEmpty
<1>6. NoOrphans
  BY DEF RInit, Init, NoOrphans, Tomb, LinksOf
<1> QED BY <1>1, <1>4, <1>5, <1>6 DEF RInv

\* Every step of the purge, of the people and of the clock.
LEMMA StepSound ==
  ASSUME Parameters, RInv, [RNext]_rvars
  PROVE  Sound
<1>1. AbsentAssumption /\ now \in Nat
  BY DEF Parameters, RInv, DocsOK
<1>2. CASE UNCHANGED rvars
  BY <1>1, <1>2, ClockOrKeyStep DEF rvars, vars
<1>3. CASE Tick /\ UNCHANGED run
  BY <1>1, <1>3, ClockOrKeyStep DEF Tick
<1>4. ASSUME NEW r \in Reviews, Edit(r), UNCHANGED run PROVE Sound
  BY <1>4, EditStep
<1>5. ASSUME NEW w \in Runs, NEW n \in Budgets, Scan(w, n) PROVE Sound
  BY <1>5, ScanStep
<1>6. ASSUME NEW w \in Runs, RunStep(w) PROVE Sound
  <2>1. ASSUME NEW r \in Reviews,
               \/ ListChildren(w, r)  \/ DeleteChildren(w, r)  \/ Tombstone(w, r)
               \/ DeleteEvents(w, r)  \/ FindEmpty(w, r)       \/ DropTombstone(w, r)
        PROVE  Sound
    BY <1>1, <2>1, ListChildrenStep, DeleteChildrenStep, TombstoneStep, DeleteEventsStep,
       FindEmptyStep, DropTombstoneStep
  <2>2. CASE ChildrenDone(w) \/ EventsDone(w) \/ RunEnds(w)
    BY <2>2, ChildrenDoneStep, EventsDoneStep, RunEndsStep
  <2> QED BY <1>6, <2>1, <2>2 DEF RunStep
<1>7. ASSUME NEW w \in Runs, RunEnds(w) PROVE Sound
  BY <1>7, RunEndsStep
<1>8. ASSUME NEW k \in Keys, SweepKey(k) PROVE Sound
  BY <1>1, <1>8, ClockOrKeyStep DEF SweepKey
<1> QED BY <1>2, <1>3, <1>4, <1>5, <1>6, <1>7, <1>8 DEF RNext

\* The invariant of purge_expired: what each run holds on to between two transactions.
THEOREM RetentionKeepsItsOrder ==
  ASSUME Parameters
  PROVE  RSpec => []RInv
<1>1. RInit => RInv
  BY InitSound DEF Parameters
<1>2. RInv /\ [RNext]_rvars => RInv'
  BY StepSound DEF Sound
<1> QED BY <1>1, <1>2, PTL DEF RSpec

\* However runs overlap, die and meet edits, purge_expired leaves no child behind
\* a tombstone and no child or audit event behind a review that is gone.
THEOREM NothingIsOrphaned ==
  ASSUME Parameters
  PROVE  RSpec => []NoOrphans
<1>1. RInv => NoOrphans
  BY DEF RInv
<1> QED BY <1>1, RetentionKeepsItsOrder, PTL

\* _delete_expired_events removes an event only when its own time is over and
\* its review is a tombstone, also when the review was edited after the scan.
THEOREM AuditOutlivesProduct ==
  ASSUME Parameters
  PROVE  RSpec => LedgerOutlivesProduct
<1>1. RInv /\ [RNext]_rvars => [LedgerStep]_rvars
  BY StepSound DEF Sound
<1>2. RSpec => [][LedgerStep]_rvars
  BY <1>1, RetentionKeepsItsOrder, PTL DEF RSpec
<1> QED BY <1>2, PTL DEF LedgerOutlivesProduct, LedgerStep

\* Nothing of a review under legal hold is deleted, whatever a run saw before
\* the hold was placed.
THEOREM HoldsAreHonoured ==
  ASSUME Parameters
  PROVE  RSpec => HeldIsKept
<1>1. RInv /\ [RNext]_rvars => [HeldStep]_rvars
  BY StepSound DEF Sound
<1>2. RSpec => [][HeldStep]_rvars
  BY <1>1, RetentionKeepsItsOrder, PTL DEF RSpec
<1> QED BY <1>2 DEF HeldIsKept, HeldStep

-----------------------------------------------------------------------------
(***************************************************************************)
(* Imports                                                                 *)
(***************************************************************************)
ImportParameters == Parameters /\ ChunksAssumption

AttemptType ==
  [chunk : Chunks \cup {Absent}, left : SUBSET Reviews, done : SUBSET Reviews,
   conflicted : SUBSET Reviews, failed : SUBSET Reviews]

ImportsOK ==
  /\ DocsOK
  /\ review \in [Reviews -> ReviewType]
  /\ keys \in [Keys -> ImportKeyType \cup {Absent}]
  /\ import \in ImportType \cup {Absent}
  /\ attempt \in [Attempts -> AttemptType]

Committed(c, r) == keys[Derived(c.key, r)] # Absent

\* No delivery can commit the row any more: its version has passed, or nobody
\* may send the patch at this one.
Shut(c, r) ==
  /\ ~Committed(c, r)
  /\ c.rows[r].ver <= review[r].ver
  /\ c.rows[r].ver = review[r].ver =>
       /\ ~c.reversing
       /\ \A who \in People : ~PatchAllowed(r, c.rows[r].patch, "admin", who)

\* A key outlives the clock, and the key of a row answers for that row.
KeysHold ==
  /\ \A k \in Keys : keys[k] # Absent => keys[k].exp >= KeyTTL
  /\ \A c \in Chunks : \A r \in DOMAIN c.rows :
       Committed(c, r) => keys[Derived(c.key, r)].digest = RowDigest(c, r)

\* What a delivery has found of its rows stays so.
AttemptOK(a) ==
  LET c == attempt[a].chunk IN
  /\ IsFiniteSet(attempt[a].done) /\ IsFiniteSet(attempt[a].conflicted)
  /\ IsFiniteSet(attempt[a].failed)
  /\ c # Absent =>
       /\ DOMAIN c.rows =
            attempt[a].left \cup attempt[a].done \cup attempt[a].conflicted \cup attempt[a].failed
       /\ \A r \in attempt[a].done : Committed(c, r)
       /\ \A r \in attempt[a].conflicted \cup attempt[a].failed : Shut(c, r)
       /\ \A r \in DOMAIN c.rows : c.rows[r].ver <= review[r].ver

\* A chunk is counted when all of its rows are settled.
Settled ==
  /\ \A c \in Chunks : Counted(c) => \A r \in DOMAIN c.rows : Committed(c, r) \/ Shut(c, r)
  /\ import = Absent => \A c \in Chunks : ~Counted(c)

\* What the counters count: the rows that committed of the chunks counted.
Pairs(reversing) ==
  UNION {{<<c.key, r>> : r \in RowsDone(c)} :
           c \in {d \in Chunks : d.reversing = reversing /\ Counted(d)}}

Reversals(r) == {i \in DOMAIN ledger[r] : ledger[r][i].type = "review_import_reversed"}

ReversedBy(r) == {c \in Chunks : c.reversing /\ r \in RowsDone(c)}

CountersMatch ==
  import # Absent => /\ import.applied = Cardinality(Pairs(FALSE))
                     /\ import.reversed = Cardinality(Pairs(TRUE))

Books ==
  /\ IsFiniteSet(Pairs(TRUE)) /\ IsFiniteSet(Pairs(FALSE))
  /\ CountersMatch
  /\ \A r \in Reviews : /\ IsFiniteSet(Reversals(r)) /\ IsFiniteSet(ReversedBy(r))
                        /\ Cardinality(Reversals(r)) = Cardinality(ReversedBy(r))

ImportBooks ==
  /\ ImportsOK /\ KeysHold /\ Settled /\ Books
  /\ \A a \in Attempts : AttemptOK(a)

\* The books are right until the first key may lapse.
ImportInv ==
  /\ now \in Nat
  /\ now < KeyTTL => ImportBooks

-----------------------------------------------------------------------------
\* The version, the event and the document of one write.
Wrote(r, type) ==
  /\ review' \in [Reviews -> ReviewType]
  /\ review'[r].ver = review[r].ver + 1
  /\ \A s \in Reviews \ {r} : review'[s] = review[s]
  /\ \E e \in EventType : e.type = type /\ ledger' = [ledger EXCEPT ![r] = Append(@, e)]

LEMMA WriteWrote ==
  ASSUME RetentionAssumption, ImportsOK, NEW r \in Reviews, NEW at \in Readings,
         NEW fields, FieldsOK(fields), NEW type \in EventNames,
         WriteReview(r, at, fields, type)
  PROVE  Wrote(r, type)
<1>1. DocsOK /\ now \in Nat /\ review \in [Reviews -> ReviewType]
  BY DEF ImportsOK, DocsOK
<1>2. PICK doc \in ReviewType, e \in EventType :
        review' = [review EXCEPT ![r] = doc] /\ ledger' = [ledger EXCEPT ![r] = Append(@, e)]
  BY <1>1, WriteRewrites DEF Rewritten
<1>3. review' \in [Reviews -> ReviewType] /\ \A s \in Reviews \ {r} : review'[s] = review[s]
  BY <1>1, <1>2
<1>4. review'[r].ver = review[r].ver + 1
  <2>1. "ver" \in DOMAIN review[r]
    BY <1>1, ReviewFields DEF FieldNames
  <2>2. "ver" \notin DOMAIN fields
    BY DEF FieldsOK
  <2> QED BY <1>1, <2>1, <2>2 DEF WriteReview
<1>5. \E f \in EventType : f.type = type /\ ledger' = [ledger EXCEPT ![r] = Append(@, f)]
  <2> DEFINE f == [at |-> at, type |-> type, ver |-> review[r].ver + 1, exp |-> at + AuditTTL]
  <2>1. at \in Nat /\ at + AuditTTL \in Nat
    BY <1>1, YoungTimes
  <2>2. review[r].ver \in Nat
    BY <1>1, ReviewFields
  <2>3. review[r].ver + 1 \in Nat
    BY <2>2
  <2>4. f \in EventType /\ f.type = type
    BY <2>1, <2>3, Zenon DEF EventType
  <2>5. ledger' = [ledger EXCEPT ![r] = Append(@, f)]
    BY DEF WriteReview, Append1
  <2> HIDE DEF f
  <2> QED BY <2>4, <2>5
<1> QED BY <1>3, <1>4, <1>5 DEF Wrote

\* One more event in the ledger of a review.
LEMMA OneMoreEvent ==
  ASSUME DocsOK, NEW r \in Reviews, NEW e \in EventType,
         ledger' = [ledger EXCEPT ![r] = Append(@, e)]
  PROVE  /\ ledger' \in [Reviews -> Seq(EventType)]
         /\ \A s \in Reviews \ {r} : Reversals(s)' = Reversals(s)
         /\ e.type # "review_import_reversed" => Reversals(r)' = Reversals(r)
         /\ e.type = "review_import_reversed" =>
              /\ Reversals(r)' = Reversals(r) \cup {Len(ledger[r]) + 1}
              /\ Len(ledger[r]) + 1 \notin Reversals(r)
<1>1. ledger \in [Reviews -> Seq(EventType)]
  BY DEF DocsOK
<1>2. ledger'[r] = Append(ledger[r], e) /\ \A s \in Reviews \ {r} : ledger'[s] = ledger[s]
  BY <1>1
<1>3. /\ Append(ledger[r], e) \in Seq(EventType)
      /\ Len(ledger[r]) \in Nat
      /\ DOMAIN ledger[r] = 1 .. Len(ledger[r])
      /\ DOMAIN ledger'[r] = 1 .. Len(ledger[r]) + 1
      /\ \A i \in 1 .. Len(ledger[r]) : ledger'[r][i] = ledger[r][i]
      /\ ledger'[r][Len(ledger[r]) + 1] = e
  BY <1>1, <1>2, Appended
<1>4. ledger' \in [Reviews -> Seq(EventType)]
  BY <1>1, <1>3
<1> DEFINE n == Len(ledger[r])
<1>5. n \in Nat /\ 1 .. n + 1 = (1 .. n) \cup {n + 1} /\ n + 1 \notin 1 .. n
  BY <1>3
<1>6. Reversals(r)' = {i \in 1 .. n + 1 : ledger'[r][i].type = "review_import_reversed"}
  BY <1>3 DEF Reversals
<1>7. Reversals(r) = {i \in 1 .. n : ledger[r][i].type = "review_import_reversed"}
  BY <1>3 DEF Reversals
<1> HIDE DEF n
<1>8. /\ e.type # "review_import_reversed" => Reversals(r)' = Reversals(r)
      /\ e.type = "review_import_reversed" =>
           Reversals(r)' = Reversals(r) \cup {n + 1} /\ n + 1 \notin Reversals(r)
  BY <1>3, <1>5, <1>6, <1>7 DEF n
<1> QED BY <1>2, <1>4, <1>8 DEF Reversals, n

\* What a review that is written does to a row that is shut: nothing.
LEMMA ShutStays ==
  ASSUME ImportParameters, ImportsOK, NEW c \in Chunks, NEW s \in DOMAIN c.rows, Shut(c, s),
         ~Committed(c, s)',
         \/ review' = review
         \/ \E r \in Reviews : \E type : Wrote(r, type)
  PROVE  Shut(c, s)'
<1>1. s \in Reviews /\ c.rows[s].ver \in Nat /\ review[s].ver \in Nat
  <2>1. s \in Reviews /\ c.rows[s] \in RowType
    BY DEF ImportParameters, ChunksAssumption
  <2>2. review[s] \in ReviewType
    BY <2>1 DEF ImportsOK
  <2> QED BY <2>1, <2>2, ReviewFields DEF RowType
<1>2. CASE review'[s] = review[s]
  BY <1>2 DEF Shut, PatchAllowed
<1>3. CASE review'[s].ver = review[s].ver + 1
  BY <1>1, <1>3 DEF Shut
<1> QED BY <1>1, <1>2, <1>3 DEF Wrote

\* While the clock has not reached KeyTTL a key that is there is live.
LEMMA KeysLive ==
  ASSUME ImportsOK, KeysHold, now < KeyTTL, KeyTTL \in Nat, NEW k \in Keys, NEW at \in Readings
  PROVE  KeyLive(k, at) <=> keys[k] # Absent
<1>1. now \in Nat /\ at \in Nat /\ at <= now
  BY DEF ImportsOK, DocsOK, Readings
<1>2. keys[k] # Absent => keys[k].exp \in Nat
  BY DEF ImportsOK, ImportKeyType
<1> QED BY <1>1, <1>2 DEF KeyLive, KeysHold

\* A chunk, its rows and their keys.
LEMMA ChunkFacts ==
  ASSUME ImportParameters, NEW c \in Chunks, NEW r \in DOMAIN c.rows
  PROVE  /\ r \in Reviews /\ r # Summary /\ c.reversing \in BOOLEAN
         /\ c.rows[r].ver \in Nat /\ c.rows[r].ver # NoVersion /\ c.rows[r].patch \in Patches
         /\ Derived(c.key, r) \in Keys /\ Derived(c.key, r) # NoKey
         /\ RowDigest(c, r) \in ImportDigests
<1>1. r \in Reviews /\ r # Summary /\ c.reversing \in BOOLEAN /\ c.rows[r] \in RowType
  BY DEF ImportParameters, ChunksAssumption
<1>2. Derived(c.key, r) \in Keys \ {NoKey}
  BY DEF ImportParameters, ChunksAssumption
<1> QED BY <1>1, <1>2 DEF RowType, ImportDigests

LEMMA KeyTimes ==
  ASSUME ImportParameters, ImportsOK, NEW at \in Readings
  PROVE  KeyTTL \in Nat /\ at + KeyTTL \in Nat /\ at + KeyTTL >= KeyTTL
BY DEF ImportParameters, Parameters, RetentionAssumption, ImportsOK, DocsOK, Readings

\* A row that commits: it was open, it names the current version, and it leaves
\* one event and its key.
LEMMA RowCommitted ==
  ASSUME ImportParameters, ImportsOK, KeysHold, now < KeyTTL,
         NEW c \in Chunks, NEW r \in DOMAIN c.rows, NEW at \in Readings, RowCommits(c, r, at)
  PROVE  /\ ~Committed(c, r) /\ ~Shut(c, r)
         /\ \E e \in ImportKeyType : /\ e.exp >= KeyTTL /\ e.digest = RowDigest(c, r)
                                     /\ keys' = [keys EXCEPT ![Derived(c.key, r)] = e]
         /\ \E type \in EventNames : Wrote(r, type)
                                     /\ (type = "review_import_reversed" <=> c.reversing)
         /\ UNCHANGED <<links, now>>
<1> DEFINE k == Derived(c.key, r)
           e == [digest |-> RowDigest(c, r), exp |-> at + KeyTTL]
<1>0. /\ RetentionAssumption /\ PatchesAssumption /\ c.reversing \in BOOLEAN
      /\ r \in Reviews /\ k \in Keys /\ k # NoKey /\ RowDigest(c, r) \in ImportDigests
      /\ c.rows[r].ver \in Nat /\ c.rows[r].ver # NoVersion /\ c.rows[r].patch \in Patches
  BY ChunkFacts DEF ImportParameters, Parameters
<1>1. review[r] \in ReviewType
  BY <1>0 DEF ImportsOK
<1>2. e \in ImportKeyType /\ e.exp >= KeyTTL /\ e.digest = RowDigest(c, r)
  BY <1>0, KeyTimes DEF ImportKeyType
<1>3. Fresh(k, at) => ~Committed(c, r)
  BY <1>0, KeysLive, KeyTimes DEF Fresh, Committed
<1>4. CASE c.reversing
  <2>1. /\ Fresh(k, at) /\ VersionMatches(r, c.rows[r].ver)
        /\ WriteReview(r, at, [imp |-> "reversed"], "review_import_reversed")
        /\ RecordKey(k, at, RowDigest(c, r)) /\ UNCHANGED <<links, now>>
    BY <1>4 DEF RowCommits, MarkImportState, FieldUpdate, RowDigest
  <2>2. FieldsOK([imp |-> "reversed"]) /\ "review_import_reversed" \in EventNames
    BY DEF FieldsOK, EventNames
  <2>3. Wrote(r, "review_import_reversed")
    BY <1>0, <2>1, <2>2, WriteWrote
  <2>4. keys' = [keys EXCEPT ![k] = e]
    BY <1>0, <2>1 DEF RecordKey
  <2>5. ~Shut(c, r)
    BY <1>0, <1>4, <2>1 DEF Shut, VersionMatches
  <2> HIDE DEF e, k
  <2> QED BY <1>2, <1>3, <1>4, <2>1, <2>2, <2>3, <2>4, <2>5 DEF k
<1>5. CASE ~c.reversing
  <2>1. PICK who \in People :
          PatchReview(r, c.rows[r].patch, c.rows[r].ver, "admin", who, k, at)
    BY <1>5 DEF RowCommits
  <2>2. PICK type \in EventNames \ {"review_import_reversed"} :
          WriteReview(r, at, Patched(r, c.rows[r].patch), type)
    BY <2>1 DEF PatchReview, EventNames
  <2>3. Wrote(r, type)
    BY <1>0, <1>1, <2>2, PatchedFields, WriteWrote
  <2>4. keys' = [keys EXCEPT ![k] = e]
    BY <1>0, <1>5, <2>1 DEF PatchReview, RecordKey, RowDigest
  <2>5. ~Shut(c, r)
    BY <1>0, <2>1 DEF PatchReview, Shut, VersionMatches
  <2>6. Fresh(k, at) /\ UNCHANGED <<links, now>>
    BY <2>1 DEF PatchReview
  <2> HIDE DEF e, k
  <2> QED BY <1>2, <1>3, <1>5, <2>2, <2>3, <2>4, <2>5, <2>6 DEF k
<1> QED BY <1>0, <1>4, <1>5

\* The key of one row, or of one summary, is the key of no other.
LEMMA KeyWritten ==
  ASSUME ImportParameters, ImportsOK, NEW c \in Chunks, NEW x \in DOMAIN c.rows \cup {Summary},
         NEW e \in ImportKeyType, keys' = [keys EXCEPT ![Derived(c.key, x)] = e]
  PROVE  /\ keys' \in [Keys -> ImportKeyType \cup {Absent}]
         /\ keys'[Derived(c.key, x)] = e /\ e # Absent
         /\ \A d \in Chunks : \A y \in DOMAIN d.rows \cup {Summary} :
              d # c \/ y # x => keys'[Derived(d.key, y)] = keys[Derived(d.key, y)]
<1>1. keys \in [Keys -> ImportKeyType \cup {Absent}] /\ Derived(c.key, x) \in Keys
  BY DEF ImportsOK, ImportParameters, ChunksAssumption
<1>2. e # Absent
  BY DEF ImportParameters, ChunksAssumption
<1>3. ASSUME NEW d \in Chunks, NEW y \in DOMAIN d.rows \cup {Summary}, d # c \/ y # x
      PROVE  Derived(d.key, y) # Derived(c.key, x)
  BY <1>3 DEF Derived, ImportParameters, ChunksAssumption
<1> QED BY <1>1, <1>2, <1>3

\* Marks moves one row from what is left to the rows with its outcome.
LEMMA Marked ==
  ASSUME ImportsOK, NEW a \in Attempts, NEW r \in Reviews,
         NEW outcome \in {"done", "conflicted", "failed"}, Marks(a, r, outcome)
  PROVE  /\ attempt' \in [Attempts -> AttemptType]
         /\ attempt'[a].chunk = attempt[a].chunk
         /\ attempt'[a].left = attempt[a].left \ {r}
         /\ attempt'[a].done =
              IF outcome = "done" THEN attempt[a].done \cup {r} ELSE attempt[a].done
         /\ attempt'[a].conflicted =
              IF outcome = "conflicted" THEN attempt[a].conflicted \cup {r}
                                        ELSE attempt[a].conflicted
         /\ attempt'[a].failed =
              IF outcome = "failed" THEN attempt[a].failed \cup {r} ELSE attempt[a].failed
         /\ \A b \in Attempts \ {a} : attempt'[b] = attempt[b]
<1> DEFINE t == attempt[a]
           u == [f \in DOMAIN t |-> CASE f = "left"  -> t.left \ {r}
                                      [] f = outcome -> t[f] \cup {r}
                                      [] OTHER       -> t[f]]
<1>1. attempt \in [Attempts -> AttemptType] /\ t \in AttemptType
  BY DEF ImportsOK
<1>2. /\ DOMAIN t = {"chunk", "left", "done", "conflicted", "failed"}
      /\ t["chunk"] \in Chunks \cup {Absent} /\ t["left"] \in SUBSET Reviews
      /\ t["done"] \in SUBSET Reviews /\ t["conflicted"] \in SUBSET Reviews
      /\ t["failed"] \in SUBSET Reviews
  BY <1>1 DEF AttemptType
<1>3. attempt' = [attempt EXCEPT ![a] = u]
  BY DEF Marks
<1> HIDE DEF t
<1>4. /\ u.chunk = t.chunk /\ u.left = t.left \ {r}
      /\ u.done = IF outcome = "done" THEN t.done \cup {r} ELSE t.done
      /\ u.conflicted = IF outcome = "conflicted" THEN t.conflicted \cup {r} ELSE t.conflicted
      /\ u.failed = IF outcome = "failed" THEN t.failed \cup {r} ELSE t.failed
  BY <1>2
<1>5. u = [chunk |-> u.chunk, left |-> u.left, done |-> u.done, conflicted |-> u.conflicted,
           failed |-> u.failed]
  BY <1>2
<1> HIDE DEF u
<1>6. u \in AttemptType
  <2>1. /\ u.chunk \in Chunks \cup {Absent} /\ u.left \in SUBSET Reviews
        /\ u.done \in SUBSET Reviews /\ u.conflicted \in SUBSET Reviews
        /\ u.failed \in SUBSET Reviews
    BY <1>2, <1>4
  <2> QED BY <1>5, <2>1, Zenon DEF AttemptType
<1>7. attempt'[a] = u /\ attempt' \in [Attempts -> AttemptType]
      /\ \A b \in Attempts \ {a} : attempt'[b] = attempt[b]
  BY <1>1, <1>3, <1>6
<1> QED BY <1>4, <1>7 DEF t

-----------------------------------------------------------------------------
\* What every step does to the rows: nothing that is settled comes back.
Grows ==
  \A c \in Chunks : \A r \in DOMAIN c.rows :
    /\ Committed(c, r) => Committed(c, r)'
    /\ Shut(c, r) => Shut(c, r)'
    /\ review[r].ver <= review'[r].ver

\* A delivery that stands still.
LEMMA AttemptKeeps ==
  ASSUME ImportsOK, Grows, NEW a \in Attempts, AttemptOK(a), attempt'[a] = attempt[a],
         ImportParameters, review' \in [Reviews -> ReviewType]
  PROVE  AttemptOK(a)'
<1> DEFINE c == attempt[a].chunk
<1>1. c # Absent => c \in Chunks
  BY DEF ImportsOK, AttemptType
<1>2. ASSUME c # Absent, NEW r \in DOMAIN c.rows
      PROVE  c.rows[r].ver <= review'[r].ver
  <2>1. c \in Chunks /\ c.rows[r].ver <= review[r].ver /\ review[r].ver <= review'[r].ver
    BY <1>1, <1>2 DEF AttemptOK, Grows
  <2>2. c.rows[r].ver \in Nat /\ r \in Reviews
    BY <1>2, <2>1, ChunkFacts
  <2>3. review[r].ver \in Nat /\ review'[r].ver \in Nat
    BY <2>2, ReviewFields DEF ImportsOK
  <2> QED BY <2>1, <2>2, <2>3
<1>3. ASSUME c # Absent
      PROVE  /\ \A r \in attempt[a].done : Committed(c, r)'
             /\ \A r \in attempt[a].conflicted \cup attempt[a].failed : Shut(c, r)'
  BY <1>1, <1>3 DEF AttemptOK, Grows
<1> HIDE DEF c
<1> QED BY <1>2, <1>3 DEF AttemptOK, c

\* The counters stand still while no chunk is counted anew and no counted one
\* has another row commit.
LEMMA PairsKept ==
  ASSUME NEW reversing \in BOOLEAN,
         \A c \in Chunks : (Counted(c)' <=> Counted(c)) /\ (Counted(c) => RowsDone(c)' = RowsDone(c))
  PROVE  Pairs(reversing)' = Pairs(reversing)
BY DEF Pairs

\* The documents after one review was written.
LEMMA WroteKeepsDocs ==
  ASSUME ImportsOK, NEW r \in Reviews, NEW type, Wrote(r, type), UNCHANGED <<links, now>>
  PROVE  DocsOK'
<1>1. PICK e \in EventType : ledger' = [ledger EXCEPT ![r] = Append(@, e)]
  BY DEF Wrote
<1>2. ledger' \in [Reviews -> Seq(EventType)]
  BY <1>1, OneMoreEvent DEF ImportsOK
<1> QED BY <1>2 DEF Wrote, ImportsOK, DocsOK

\* Versions only rise.
LEMMA VersionsRise ==
  ASSUME ImportsOK, NEW s \in Reviews,
         review' = review \/ \E r \in Reviews : \E type : Wrote(r, type)
  PROVE  review[s].ver \in Nat /\ review[s].ver <= review'[s].ver
<1>1. review[s].ver \in Nat
  BY ReviewFields DEF ImportsOK
<1>2. review'[s] = review[s] \/ review'[s].ver = review[s].ver + 1
  BY DEF Wrote
<1> QED BY <1>1, <1>2

\* One row commits: its chunk is not counted, and its event and its key are new.
LEMMA CommitStep ==
  ASSUME ImportParameters, ImportBooks, now < KeyTTL, NEW a \in Attempts, NEW r \in Reviews,
         attempt[a].chunk # Absent, r \in attempt[a].left,
         NEW at \in Readings, RowCommits(attempt[a].chunk, r, at), Marks(a, r, "done"),
         UNCHANGED <<import, rows>>
  PROVE  ImportBooks'
<1>0. PICK c \in Chunks : c = attempt[a].chunk
  BY DEF ImportBooks, ImportsOK, AttemptType
<1>1. /\ c \in Chunks /\ c = attempt[a].chunk /\ r \in DOMAIN c.rows
      /\ ImportsOK /\ KeysHold /\ AttemptOK(a)
  BY <1>0 DEF ImportBooks, AttemptOK
<1>2. ~Committed(c, r) /\ ~Shut(c, r) /\ UNCHANGED <<links, now>>
  BY <1>1, RowCommitted
<1>3. PICK e \in ImportKeyType : /\ e.exp >= KeyTTL /\ e.digest = RowDigest(c, r)
                                 /\ keys' = [keys EXCEPT ![Derived(c.key, r)] = e]
  BY <1>1, RowCommitted
<1>4. PICK type \in EventNames : Wrote(r, type)
                                 /\ (type = "review_import_reversed" <=> c.reversing)
  BY <1>1, RowCommitted
<1>5. /\ keys' \in [Keys -> ImportKeyType \cup {Absent}]
      /\ keys'[Derived(c.key, r)] = e /\ e # Absent
      /\ \A d \in Chunks : \A y \in DOMAIN d.rows \cup {Summary} :
           d # c \/ y # r => keys'[Derived(d.key, y)] = keys[Derived(d.key, y)]
  BY <1>1, <1>3, KeyWritten
<1>6. /\ Committed(c, r)'
      /\ \A d \in Chunks : \A s \in DOMAIN d.rows :
           d # c \/ s # r => (Committed(d, s)' <=> Committed(d, s))
      /\ \A d \in Chunks : Counted(d)' <=> Counted(d)
  <2>1. r # Summary
    BY <1>1, ChunkFacts
  <2> QED BY <1>5, <2>1 DEF Committed, Counted
<1>7. Grows
  <2> SUFFICES ASSUME NEW d \in Chunks, NEW s \in DOMAIN d.rows
               PROVE  /\ Committed(d, s) => Committed(d, s)'
                      /\ Shut(d, s) => Shut(d, s)'
                      /\ review[s].ver <= review'[s].ver
    BY DEF Grows
  <2>1. s \in Reviews
    BY ChunkFacts
  <2>2. review[s].ver <= review'[s].ver
    BY <1>1, <1>4, <2>1, VersionsRise
  <2>3. Committed(d, s) => Committed(d, s)'
    BY <1>6
  <2>4. ASSUME Shut(d, s) PROVE Shut(d, s)'
    <3>1. ~Committed(d, s) /\ (d # c \/ s # r)
      BY <1>2, <2>4 DEF Shut
    <3>2. ~Committed(d, s)'
      BY <1>6, <3>1
    <3> QED BY <1>1, <1>4, <2>4, <3>2, ShutStays
  <2> QED BY <2>2, <2>3, <2>4
<1>8. /\ attempt' \in [Attempts -> AttemptType]
      /\ attempt'[a].chunk = c /\ attempt'[a].left = attempt[a].left \ {r}
      /\ attempt'[a].done = attempt[a].done \cup {r}
      /\ attempt'[a].conflicted = attempt[a].conflicted
      /\ attempt'[a].failed = attempt[a].failed
      /\ \A b \in Attempts \ {a} : attempt'[b] = attempt[b]
  BY <1>1, Marked
<1>9. ImportsOK'
  <2>1. DOMAIN review' = Reviews /\ review' \in [Reviews -> ReviewType]
    BY <1>4 DEF Wrote
  <2>2. DocsOK'
    BY <1>1, <1>2, <1>4, WroteKeepsDocs
  <2> QED BY <1>1, <1>5, <1>8, <2>1, <2>2 DEF ImportsOK
<1>10. KeysHold'
  <2>1. \A k \in Keys : keys'[k] # Absent => keys'[k].exp >= KeyTTL
    <3>1. \A k \in Keys : keys'[k] \in {keys[k], e}
      BY <1>1, <1>3 DEF ImportsOK
    <3> QED BY <1>1, <1>3, <3>1 DEF KeysHold
  <2>2. ASSUME NEW d \in Chunks, NEW s \in DOMAIN d.rows, Committed(d, s)'
        PROVE  keys'[Derived(d.key, s)].digest = RowDigest(d, s)
    <3>1. CASE d = c /\ s = r
      BY <1>3, <1>5, <3>1
    <3>2. CASE d # c \/ s # r
      BY <1>1, <1>5, <1>6, <2>2, <3>2 DEF KeysHold
    <3> QED BY <3>1, <3>2
  <2> QED BY <2>1, <2>2 DEF KeysHold, RowDigest
<1>11. Settled'
  BY <1>6, <1>7 DEF Settled, ImportBooks, Grows
<1>12. AttemptOK(a)'
  <2>1. review' \in [Reviews -> ReviewType] /\ c # Absent /\ attempt[a].chunk = c
    BY <1>1, <1>4 DEF Wrote
  <2>2. /\ IsFiniteSet(attempt[a].done \cup {r}) /\ IsFiniteSet(attempt[a].conflicted)
        /\ IsFiniteSet(attempt[a].failed)
    BY <1>1, FS_AddElement DEF AttemptOK
  <2>3. DOMAIN c.rows = (attempt[a].left \ {r}) \cup (attempt[a].done \cup {r})
                          \cup attempt[a].conflicted \cup attempt[a].failed
    BY <1>1, <2>1 DEF AttemptOK
  <2>4. \A s \in attempt[a].done \cup {r} : Committed(c, s)'
    BY <1>1, <1>6, <1>7, <2>1 DEF AttemptOK, Grows
  <2>5. \A s \in attempt[a].conflicted \cup attempt[a].failed : Shut(c, s)'
    BY <1>1, <1>7, <2>1 DEF AttemptOK, Grows
  <2>6. ASSUME NEW s \in DOMAIN c.rows PROVE c.rows[s].ver <= review'[s].ver
    <3>1. s \in Reviews /\ c.rows[s].ver \in Nat
      BY <1>1, ChunkFacts
    <3>2. review[s].ver \in Nat /\ review'[s].ver \in Nat
      BY <1>1, <2>1, <3>1, ReviewFields DEF ImportsOK
    <3> QED BY <1>1, <1>7, <2>1, <3>1, <3>2 DEF AttemptOK, Grows
  <2> QED BY <1>8, <2>1, <2>2, <2>3, <2>4, <2>5, <2>6 DEF AttemptOK
<1>13. ASSUME NEW b \in Attempts \ {a} PROVE AttemptOK(b)'
  BY <1>1, <1>4, <1>7, <1>8, AttemptKeeps DEF ImportBooks, Wrote
<1>14. Books'
  <2>1. \A d \in Chunks : Counted(d) => d # c
    BY <1>1, <1>2 DEF ImportBooks, Settled
  <2>2. \A d \in Chunks \ {c} : RowsDone(d)' = RowsDone(d)
    BY <1>6 DEF RowsDone, Committed
  <2>3. Pairs(TRUE)' = Pairs(TRUE) /\ Pairs(FALSE)' = Pairs(FALSE)
    BY <1>6, <2>1, <2>2, PairsKept
  <2>4. CountersMatch'
    BY <2>3, Zenon DEF ImportBooks, Books, CountersMatch
  <2>5. RowsDone(c)' = RowsDone(c) \cup {r} /\ r \notin RowsDone(c)
    BY <1>1, <1>2, <1>6 DEF RowsDone, Committed
  <2>6. PICK f \in EventType : f.type = type /\ ledger' = [ledger EXCEPT ![r] = Append(@, f)]
    BY <1>4 DEF Wrote
  <2>7. /\ \A s \in Reviews \ {r} : Reversals(s)' = Reversals(s)
        /\ ~c.reversing => Reversals(r)' = Reversals(r)
        /\ c.reversing => /\ Reversals(r)' = Reversals(r) \cup {Len(ledger[r]) + 1}
                          /\ Len(ledger[r]) + 1 \notin Reversals(r)
    BY <1>1, <1>4, <2>6, OneMoreEvent DEF ImportsOK
  <2>8. ASSUME NEW s \in Reviews
        PROVE  ReversedBy(s)' = IF c.reversing /\ s = r THEN ReversedBy(s) \cup {c} ELSE ReversedBy(s)
    BY <1>1, <2>2, <2>5 DEF ReversedBy
  <2>9. c \notin ReversedBy(r)
    BY <2>5 DEF ReversedBy
  <2>10. ASSUME NEW s \in Reviews
         PROVE  /\ IsFiniteSet(Reversals(s)') /\ IsFiniteSet(ReversedBy(s)')
                /\ Cardinality(Reversals(s)') = Cardinality(ReversedBy(s)')
    <3>1. /\ IsFiniteSet(Reversals(s)) /\ IsFiniteSet(ReversedBy(s))
          /\ Cardinality(Reversals(s)) = Cardinality(ReversedBy(s))
      BY DEF ImportBooks, Books
    <3>2. CASE c.reversing /\ s = r
      <4>1. /\ Reversals(r)' = Reversals(r) \cup {Len(ledger[r]) + 1}
            /\ Len(ledger[r]) + 1 \notin Reversals(r)
            /\ ReversedBy(r)' = ReversedBy(r) \cup {c} /\ c \notin ReversedBy(r)
        BY <2>7, <2>8, <2>9, <3>2
      <4>2. /\ IsFiniteSet(Reversals(r)) /\ IsFiniteSet(ReversedBy(r))
            /\ Cardinality(Reversals(r)) = Cardinality(ReversedBy(r))
        BY DEF ImportBooks, Books
      <4>3. /\ IsFiniteSet(Reversals(r)')
            /\ Cardinality(Reversals(r)') = Cardinality(Reversals(r)) + 1
        BY <4>1, <4>2, FS_AddElement
      <4>4. /\ IsFiniteSet(ReversedBy(r)')
            /\ Cardinality(ReversedBy(r)') = Cardinality(ReversedBy(r)) + 1
        BY <4>1, <4>2, FS_AddElement
      <4> QED BY <3>2, <4>2, <4>3, <4>4
    <3>3. CASE ~(c.reversing /\ s = r)
      BY <2>7, <2>8, <3>1, <3>3
    <3> QED BY <3>2, <3>3
  <2> QED BY <2>3, <2>4, <2>10 DEF ImportBooks, Books
<1> QED BY <1>9, <1>10, <1>11, <1>12, <1>13, <1>14 DEF ImportBooks

\* A step that writes no key: the books stand still.
LEMMA QuietBooks ==
  ASSUME ImportParameters, ImportBooks, UNCHANGED <<links, keys>>, now' \in Nat,
         \/ UNCHANGED <<review, ledger>>
         \/ /\ UNCHANGED now
            /\ \E r \in Reviews, type \in EventNames \ {"review_import_reversed"} : Wrote(r, type),
         import' \in ImportType \cup {Absent}, import # Absent => import' # Absent,
         IF import = Absent THEN import' # Absent => import'.applied = 0 /\ import'.reversed = 0
         ELSE import'.applied = import.applied /\ import'.reversed = import.reversed,
         attempt' \in [Attempts -> AttemptType],
         \A a \in Attempts : attempt'[a] = attempt[a] \/ (Grows => AttemptOK(a)')
  PROVE  ImportBooks'
<1>1. /\ ImportsOK /\ KeysHold /\ Settled /\ Books
      /\ review' \in [Reviews -> ReviewType]
      /\ review' = review \/ \E r \in Reviews : \E type : Wrote(r, type)
  BY DEF ImportBooks, ImportsOK, Wrote
<1>2. ImportsOK'
  <2>1. DocsOK'
    BY <1>1, WroteKeepsDocs DEF ImportsOK, DocsOK
  <2> QED BY <1>1, <2>1 DEF ImportsOK
<1>3. KeysHold'
  BY <1>1 DEF KeysHold, Committed, RowDigest
<1>4. /\ \A c \in Chunks : \A r \in DOMAIN c.rows : Committed(c, r)' <=> Committed(c, r)
      /\ \A c \in Chunks : (Counted(c)' <=> Counted(c)) /\ RowsDone(c)' = RowsDone(c)
  BY DEF Committed, Counted, RowsDone
<1>5. Grows
  <2> SUFFICES ASSUME NEW c \in Chunks, NEW r \in DOMAIN c.rows
               PROVE  /\ Committed(c, r) => Committed(c, r)'
                      /\ Shut(c, r) => Shut(c, r)'
                      /\ review[r].ver <= review'[r].ver
    BY DEF Grows
  <2>1. r \in Reviews
    BY ChunkFacts
  <2>2. review[r].ver <= review'[r].ver
    BY <1>1, <2>1, VersionsRise
  <2>3. Shut(c, r) => ~Committed(c, r)'
    BY <1>4 DEF Shut
  <2> QED BY <1>1, <1>4, <2>2, <2>3, ShutStays
<1>6. Settled'
  BY <1>1, <1>4, <1>5 DEF Settled, Grows
<1>7. \A a \in Attempts : AttemptOK(a)'
  BY <1>1, <1>5, AttemptKeeps DEF ImportBooks
<1>8. CountersMatch'
  <2>1. Pairs(TRUE)' = Pairs(TRUE) /\ Pairs(FALSE)' = Pairs(FALSE)
    BY <1>4, PairsKept
  <2>2. import = Absent => Pairs(TRUE) = {} /\ Pairs(FALSE) = {}
    BY <1>1 DEF Settled, Pairs
  <2> QED BY <1>1, <2>1, <2>2, FS_EmptySet DEF Books, CountersMatch
<1>9. ASSUME NEW r \in Reviews
      PROVE  Reversals(r)' = Reversals(r) /\ ReversedBy(r)' = ReversedBy(r)
  <2>1. ReversedBy(r)' = ReversedBy(r)
    BY <1>4 DEF ReversedBy
  <2>2. CASE ledger' = ledger
    BY <2>1, <2>2 DEF Reversals
  <2>3. ASSUME NEW s \in Reviews, NEW e \in EventType, e.type # "review_import_reversed",
               ledger' = [ledger EXCEPT ![s] = Append(@, e)]
        PROVE  Reversals(r)' = Reversals(r)
    BY <1>1, <2>3, OneMoreEvent DEF ImportsOK
  <2> QED BY <2>1, <2>2, <2>3 DEF Wrote
<1>10. Books'
  <2>1. Pairs(TRUE)' = Pairs(TRUE) /\ Pairs(FALSE)' = Pairs(FALSE)
    BY <1>4, PairsKept
  <2> QED BY <1>1, <1>8, <1>9, <2>1 DEF Books
<1> QED BY <1>2, <1>3, <1>6, <1>7, <1>10 DEF ImportBooks

\* A delivery that rests.
LEMMA RestingOK ==
  ASSUME ImportsOK, NEW a \in Attempts, attempt' = [attempt EXCEPT ![a] = Resting]
  PROVE  /\ attempt' \in [Attempts -> AttemptType]
         /\ \A b \in Attempts \ {a} : attempt'[b] = attempt[b]
         /\ AttemptOK(a)'
<1>1. Resting \in AttemptType
  BY DEF Resting, AttemptType
<1>2. /\ attempt'[a] = Resting /\ \A b \in Attempts \ {a} : attempt'[b] = attempt[b]
      /\ attempt' \in [Attempts -> AttemptType]
  BY <1>1 DEF ImportsOK
<1>3. AttemptOK(a)'
  BY <1>2, FS_EmptySet DEF AttemptOK, Resting
<1> QED BY <1>2, <1>3

\* A row that does not commit: an earlier delivery has done it, or it is shut.
LEMMA OtherRowStep ==
  ASSUME ImportParameters, ImportBooks, now < KeyTTL, NEW a \in Attempts, NEW r \in Reviews,
         NEW c \in Chunks, c = attempt[a].chunk, c # Absent, r \in attempt[a].left,
         NEW at \in Readings,
         \/ /\ Replayed(Derived(c.key, r), at, RowDigest(c, r)) /\ Marks(a, r, "done")
         \/ RowRefused(c, r, at) /\ Marks(a, r, "failed")
         \/ /\ ~KeyLive(Derived(c.key, r), at) /\ ~VersionMatches(r, c.rows[r].ver)
            /\ Marks(a, r, "conflicted"),
         UNCHANGED <<vars, import, rows>>
  PROVE  ImportBooks'
<1>1. ImportsOK /\ KeysHold /\ AttemptOK(a) /\ UNCHANGED <<links, keys, review, ledger, now>>
  BY DEF ImportBooks, vars
<1>2. r \in DOMAIN c.rows /\ c.rows[r].ver <= review[r].ver
  BY <1>1 DEF AttemptOK
<1>3. /\ Derived(c.key, r) \in Keys /\ c.rows[r].ver \in Nat /\ KeyTTL \in Nat
      /\ review[r].ver \in Nat /\ Live(r)
  <2>1. review[r] \in ReviewType
    BY <1>1 DEF ImportsOK
  <2>2. review[r].ver \in Nat
    BY <2>1, ReviewFields
  <2>3. Live(r)
    BY <1>1, <2>1, DocKinds DEF ImportParameters, Parameters, ImportsOK
  <2> QED BY <1>1, <1>2, <2>2, <2>3, ChunkFacts, KeyTimes
<1>4. KeyLive(Derived(c.key, r), at) <=> Committed(c, r)
  BY <1>1, <1>3, KeysLive DEF Committed
<1>5. RowRefused(c, r, at) => Shut(c, r)
  <2>1. Committed(c, r) => keys[Derived(c.key, r)].digest = RowDigest(c, r)
    BY <1>1, <1>2 DEF KeysHold
  <2> QED BY <1>2, <1>3, <1>4, <2>1 DEF RowRefused, Shut
<1>6. ~KeyLive(Derived(c.key, r), at) /\ ~VersionMatches(r, c.rows[r].ver) => Shut(c, r)
  BY <1>2, <1>4 DEF Shut, VersionMatches
<1>7. PICK outcome \in {"done", "conflicted", "failed"} :
        /\ Marks(a, r, outcome)
        /\ IF outcome = "done" THEN Committed(c, r) ELSE Shut(c, r)
  BY <1>4, <1>5, <1>6 DEF Replayed
<1>8. /\ attempt' \in [Attempts -> AttemptType]
      /\ attempt'[a].chunk = c /\ attempt'[a].left = attempt[a].left \ {r}
      /\ attempt'[a].done =
           IF outcome = "done" THEN attempt[a].done \cup {r} ELSE attempt[a].done
      /\ attempt'[a].conflicted =
           IF outcome = "conflicted" THEN attempt[a].conflicted \cup {r} ELSE attempt[a].conflicted
      /\ attempt'[a].failed =
           IF outcome = "failed" THEN attempt[a].failed \cup {r} ELSE attempt[a].failed
      /\ \A b \in Attempts \ {a} : attempt'[b] = attempt[b]
  BY <1>1, <1>7, Marked
<1>9. AttemptOK(a)'
  <2>1. /\ IsFiniteSet(attempt'[a].done) /\ IsFiniteSet(attempt'[a].conflicted)
        /\ IsFiniteSet(attempt'[a].failed)
    <3>1. /\ IsFiniteSet(attempt[a].done) /\ IsFiniteSet(attempt[a].conflicted)
          /\ IsFiniteSet(attempt[a].failed)
      BY <1>1 DEF AttemptOK
    <3>2. /\ IsFiniteSet(attempt[a].done \cup {r}) /\ IsFiniteSet(attempt[a].conflicted \cup {r})
          /\ IsFiniteSet(attempt[a].failed \cup {r})
      BY <3>1, FS_AddElement
    <3> QED BY <1>8, <3>1, <3>2
  <2>2. DOMAIN c.rows = attempt'[a].left \cup attempt'[a].done \cup attempt'[a].conflicted
                          \cup attempt'[a].failed
    BY <1>1, <1>7, <1>8 DEF AttemptOK
  <2>3. \A s \in attempt'[a].done : Committed(c, s)
    BY <1>1, <1>7, <1>8 DEF AttemptOK
  <2>4. \A s \in attempt'[a].conflicted \cup attempt'[a].failed : Shut(c, s)
    BY <1>1, <1>7, <1>8 DEF AttemptOK
  <2>5. \A s : (Committed(c, s)' <=> Committed(c, s)) /\ (Shut(c, s)' <=> Shut(c, s))
    BY <1>1 DEF Committed, Shut, PatchAllowed
  <2>6. \A s \in DOMAIN c.rows : c.rows[s].ver <= review'[s].ver
    BY <1>1 DEF AttemptOK
  <2> QED BY <1>8, <2>1, <2>2, <2>3, <2>4, <2>5, <2>6 DEF AttemptOK
<1>10. import' = import /\ import' \in ImportType \cup {Absent} /\ now' \in Nat
  BY <1>1 DEF ImportsOK, DocsOK
<1> QED BY <1>1, <1>8, <1>9, <1>10, QuietBooks

\* One row of a chunk, whatever becomes of it.
LEMMA RowStep ==
  ASSUME ImportParameters, ImportBooks, now < KeyTTL, NEW a \in Attempts, NEW r \in Reviews,
         Row(a, r)
  PROVE  ImportBooks'
<1>1. PICK c \in Chunks : c = attempt[a].chunk
  BY DEF Row, ImportBooks, ImportsOK, AttemptType
<1>2. PICK at \in Readings :
        \/ RowCommits(c, r, at) /\ Marks(a, r, "done")
        \/ /\ Replayed(Derived(c.key, r), at, RowDigest(c, r))
           /\ Marks(a, r, "done") /\ UNCHANGED vars
        \/ RowRefused(c, r, at) /\ Marks(a, r, "failed") /\ UNCHANGED vars
        \/ /\ ~KeyLive(Derived(c.key, r), at) /\ ~VersionMatches(r, c.rows[r].ver)
           /\ Marks(a, r, "conflicted") /\ UNCHANGED vars
  BY <1>1 DEF Row
<1>3. c # Absent /\ r \in attempt[a].left /\ UNCHANGED <<import, rows>>
  BY <1>1 DEF Row
<1> QED BY <1>1, <1>2, <1>3, CommitStep, OtherRowStep

\* A delivery starts, of a chunk planned from what was read.
LEMMA StartStep ==
  ASSUME ImportParameters, ImportBooks, NEW a \in Attempts, NEW c \in Chunks,
         StartChunk(a, c, "admin")
  PROVE  ImportBooks'
<1> DEFINE t == [Resting EXCEPT !.chunk = c, !.left = DOMAIN c.rows]
<1>1. ImportsOK /\ UNCHANGED <<links, keys, review, ledger, now, import>>
  BY DEF ImportBooks, StartChunk, vars
<1>2. /\ t.chunk = c /\ t.left = DOMAIN c.rows /\ t.done = {} /\ t.conflicted = {}
      /\ t.failed = {} /\ t \in AttemptType
  <2>1. DOMAIN c.rows \in SUBSET Reviews
    BY DEF ImportParameters, ChunksAssumption
  <2> QED BY <2>1 DEF Resting, AttemptType
<1>3. attempt' = [attempt EXCEPT ![a] = t]
  BY DEF StartChunk
<1> HIDE DEF t
<1>4. /\ attempt' \in [Attempts -> AttemptType] /\ attempt'[a] = t
      /\ \A b \in Attempts \ {a} : attempt'[b] = attempt[b]
  BY <1>1, <1>2, <1>3 DEF ImportsOK
<1>5. AttemptOK(a)'
  <2>1. \A r \in DOMAIN c.rows : c.rows[r].ver <= review'[r].ver
    BY <1>1 DEF StartChunk, Planned
  <2> QED BY <1>2, <1>4, <2>1, FS_EmptySet DEF AttemptOK
<1>6. import' = import /\ import' \in ImportType \cup {Absent} /\ now' \in Nat
  BY <1>1 DEF ImportsOK, DocsOK
<1> QED BY <1>1, <1>4, <1>5, <1>6, QuietBooks

\* A delivery ends without a write: it died, or its chunk was counted before.
LEMMA RestStep ==
  ASSUME ImportParameters, ImportBooks, NEW a \in Attempts,
         attempt' = [attempt EXCEPT ![a] = Resting], UNCHANGED <<vars, import>>
  PROVE  ImportBooks'
<1>1. ImportsOK /\ UNCHANGED <<links, keys, review, ledger, now>>
  BY DEF ImportBooks, vars
<1>2. /\ attempt' \in [Attempts -> AttemptType] /\ AttemptOK(a)'
      /\ \A b \in Attempts \ {a} : attempt'[b] = attempt[b]
  BY <1>1, RestingOK
<1>3. import' \in ImportType \cup {Absent} /\ now' \in Nat
  BY <1>1 DEF ImportsOK, DocsOK
<1> QED BY <1>1, <1>2, <1>3, QuietBooks

\* A reviewer's patch, without a key and without an expected version.
LEMMA InterfereStep ==
  ASSUME ImportParameters, ImportBooks, NEW r \in Reviews, Interferes(r)
  PROVE  ImportBooks'
<1>1. PICK at \in Readings, p \in Patches, who \in People :
        PatchReview(r, p, NoVersion, "reviewer", who, NoKey, at)
  BY DEF Interferes
<1>2. /\ ImportsOK /\ review[r] \in ReviewType
      /\ UNCHANGED <<links, keys, now, import, attempt>>
  BY <1>1 DEF ImportBooks, ImportsOK, PatchReview, RecordKey, Interferes
<1>3. PICK type \in EventNames \ {"review_import_reversed"} :
        WriteReview(r, at, Patched(r, p), type)
  BY <1>1 DEF PatchReview, EventNames
<1>4. Wrote(r, type)
  BY <1>2, <1>3, PatchedFields, WriteWrote DEF ImportParameters, Parameters
<1>5. /\ import' \in ImportType \cup {Absent} /\ now' \in Nat
      /\ attempt' \in [Attempts -> AttemptType]
  BY <1>2 DEF ImportsOK, DocsOK
<1> QED BY <1>2, <1>4, <1>5, QuietBooks

\* The clock, and nothing at all.
LEMMA TickStep ==
  ASSUME ImportParameters, ImportBooks, UNCHANGED <<review, links, ledger, keys, import, attempt>>,
         now' \in Nat
  PROVE  ImportBooks'
<1>1. import' \in ImportType \cup {Absent} /\ attempt' \in [Attempts -> AttemptType]
  BY DEF ImportBooks, ImportsOK
<1> QED BY <1>1, QuietBooks

\* The admin creates the import, with counters at zero, and moves its status.
LEMMA AdministerStep ==
  ASSUME ImportParameters, ImportBooks, Administers
  PROVE  ImportBooks'
<1>1. /\ ImportsOK /\ UNCHANGED <<links, keys, review, ledger, now, attempt>>
      /\ now' \in Nat /\ attempt' \in [Attempts -> AttemptType]
  BY DEF ImportBooks, ImportsOK, DocsOK, Administers, CreateImport, PatchImport, vars
<1>2. Absent \notin ImportType
  BY DEF ImportParameters, ChunksAssumption
<1>3. CASE CreateImport("admin")
  <2>1. /\ import = Absent /\ import' \in ImportType
        /\ import'.applied = 0 /\ import'.reversed = 0
    BY <1>3 DEF CreateImport, ImportType, ImportStatuses, ImportTransitions
  <2> QED BY <1>1, <1>2, <2>1, QuietBooks
<1>4. ASSUME NEW target \in ImportStatuses, NEW reasoned,
             PatchImport("admin", target, import.ver, reasoned)
      PROVE  ImportBooks'
  <2>1. import # Absent /\ import \in ImportType
    BY <1>1, <1>4 DEF PatchImport, ImportsOK
  <2>2. import' = [import EXCEPT !.status = target, !.ver = @ + 1]
    BY <1>4 DEF PatchImport
  <2>3. import' \in ImportType
    <3>1. /\ import.ver + 1 \in Nat /\ import.applied \in Nat /\ import.conflicted \in Nat
          /\ import.failed \in Nat /\ import.reversed \in Nat
      BY <2>1 DEF ImportType
    <3>2. import' = [status |-> target, ver |-> import.ver + 1, applied |-> import.applied,
                     conflicted |-> import.conflicted, failed |-> import.failed,
                     reversed |-> import.reversed]
      BY <2>1, <2>2 DEF ImportType
    <3> QED BY <3>1, <3>2, Zenon DEF ImportType
  <2>4. import'.applied = import.applied /\ import'.reversed = import.reversed
    BY <2>1, <2>2 DEF ImportType
  <2> QED BY <1>1, <1>2, <2>1, <2>3, <2>4, QuietBooks
<1> QED BY <1>3, <1>4 DEF Administers

\* The pairs of one chunk are as many as its rows.
LEMMA PairsOfOne ==
  ASSUME NEW k, NEW S, IsFiniteSet(S)
  PROVE  /\ IsFiniteSet({<<k, r>> : r \in S})
         /\ Cardinality({<<k, r>> : r \in S}) = Cardinality(S)
<1> DEFINE T == {<<k, r>> : r \in S}
           f == [r \in S |-> <<k, r>>]
<1>1. f \in Bijection(S, T)
  BY DEF Bijection, Injection, Surjection, IsInjective
<1>2. ExistsBijection(S, T)
  BY <1>1 DEF ExistsBijection
<1> HIDE DEF T
<1>3. IsFiniteSet(T) /\ Cardinality(T) = Cardinality(S)
  BY <1>2, FS_Bijection
<1> QED BY <1>3 DEF T

\* The counters take up what the delivery has done, which by now is all that
\* anyone will ever have done of the chunk.
LEMMA SummarizeStep ==
  ASSUME ImportParameters, ImportBooks, now < KeyTTL, NEW a \in Attempts, Summarize(a)
  PROVE  ImportBooks'
<1>0. PICK c \in Chunks : c = attempt[a].chunk
  BY DEF Summarize, ImportBooks, ImportsOK, AttemptType
<1> DEFINE k == Derived(c.key, Summary)
           D == attempt[a].done
           n == Cardinality(D)
<1>1. /\ ImportsOK /\ KeysHold /\ Settled /\ Books /\ AttemptOK(a)
      /\ c # Absent /\ attempt[a].left = {} /\ import # Absent /\ import \in ImportType
      /\ attempt' = [attempt EXCEPT ![a] = Resting]
      /\ UNCHANGED <<review, links, ledger, now>>
      /\ k \in Keys /\ k # NoKey
  BY <1>0 DEF ImportBooks, Summarize, ImportsOK, ImportParameters, ChunksAssumption
<1>2. PICK at \in Readings :
        IF KeyLive(k, at)
        THEN UNCHANGED <<import, rows, keys>>
        ELSE /\ import' = [import EXCEPT
                  !.ver = @ + 1,
                  !.applied    = @ + (IF c.reversing THEN 0 ELSE n),
                  !.reversed   = @ + (IF c.reversing THEN n ELSE 0),
                  !.conflicted = @ + Cardinality(attempt[a].conflicted),
                  !.failed     = @ + Cardinality(attempt[a].failed)]
             /\ RecordKey(k, at, SummaryDigest(c))
  BY <1>0 DEF Summarize
<1>3. CASE KeyLive(k, at)
  BY <1>1, <1>2, <1>3, RestStep DEF vars
<1>4. CASE ~KeyLive(k, at)
  <2>1. ~Counted(c)
    BY <1>1, <1>4, KeysLive, KeyTimes DEF Counted
  <2>2. /\ IsFiniteSet(D) /\ n \in Nat /\ Cardinality(attempt[a].conflicted) \in Nat
        /\ Cardinality(attempt[a].failed) \in Nat
    BY <1>1, FS_CardinalityType DEF AttemptOK
  <2>3. RowsDone(c) = D
    <3>1. /\ DOMAIN c.rows = D \cup attempt[a].conflicted \cup attempt[a].failed
          /\ \A r \in D : Committed(c, r)
          /\ \A r \in attempt[a].conflicted \cup attempt[a].failed : ~Committed(c, r)
      BY <1>0, <1>1 DEF AttemptOK, Shut
    <3> QED BY <3>1 DEF RowsDone, Committed
  <2> DEFINE e == [digest |-> SummaryDigest(c), exp |-> at + KeyTTL]
  <2>4. e \in ImportKeyType /\ e.exp >= KeyTTL
    <3>1. SummaryDigest(c) \in ImportDigests
      BY DEF ImportDigests
    <3> QED BY <1>1, <3>1, KeyTimes DEF ImportKeyType
  <2>5. keys' = [keys EXCEPT ![k] = e]
    BY <1>1, <1>2, <1>4 DEF RecordKey
  <2> HIDE DEF e
  <2>6. /\ keys' \in [Keys -> ImportKeyType \cup {Absent}]
        /\ keys'[k] = e /\ e # Absent
        /\ \A d \in Chunks : \A y \in DOMAIN d.rows \cup {Summary} :
             d # c \/ y # Summary => keys'[Derived(d.key, y)] = keys[Derived(d.key, y)]
    BY <1>1, <2>4, <2>5, KeyWritten
  <2>7. \A d \in Chunks : \A r \in DOMAIN d.rows :
          /\ keys'[Derived(d.key, r)] = keys[Derived(d.key, r)]
          /\ Committed(d, r)' <=> Committed(d, r)
          /\ Shut(d, r)' <=> Shut(d, r)
    <3>1. ASSUME NEW d \in Chunks, NEW r \in DOMAIN d.rows
          PROVE  keys'[Derived(d.key, r)] = keys[Derived(d.key, r)]
      BY <2>6, ChunkFacts
    <3> QED BY <1>1, <3>1 DEF Committed, Shut, PatchAllowed
  <2>8. /\ Counted(c)' /\ \A d \in Chunks \ {c} : Counted(d)' <=> Counted(d)
        /\ \A d \in Chunks : RowsDone(d)' = RowsDone(d)
    BY <2>6, <2>7 DEF Counted, RowsDone
  <2>9. /\ import' \in ImportType
        /\ import'.applied  = import.applied + (IF c.reversing THEN 0 ELSE n)
        /\ import'.reversed = import.reversed + (IF c.reversing THEN n ELSE 0)
    <3> DEFINE x == IF c.reversing THEN 0 ELSE n
               y == IF c.reversing THEN n ELSE 0
               v == Cardinality(attempt[a].conflicted)
               z == Cardinality(attempt[a].failed)
    <3>1. import' = [import EXCEPT !.ver = @ + 1, !.applied = @ + x, !.reversed = @ + y,
                                   !.conflicted = @ + v, !.failed = @ + z]
      BY <1>2, <1>4
    <3>2. x \in Nat /\ y \in Nat /\ v \in Nat /\ z \in Nat
      BY <2>2
    <3> HIDE DEF x, y, v, z
    <3>3. /\ import.ver + 1 \in Nat /\ import.applied + x \in Nat
          /\ import.conflicted + v \in Nat /\ import.failed + z \in Nat
          /\ import.reversed + y \in Nat /\ import.status \in ImportStatuses
      BY <1>1, <3>2 DEF ImportType
    <3>4. import' = [status |-> import.status, ver |-> import.ver + 1,
                     applied |-> import.applied + x, conflicted |-> import.conflicted + v,
                     failed |-> import.failed + z, reversed |-> import.reversed + y]
      BY <1>1, <3>1 DEF ImportType
    <3>5. import' \in ImportType
      BY <3>3, <3>4, Zenon DEF ImportType
    <3> QED BY <3>4, <3>5 DEF x, y
  <2>10. import' # Absent
    BY <2>9 DEF ImportParameters, ChunksAssumption
  <2>11. /\ attempt' \in [Attempts -> AttemptType] /\ AttemptOK(a)'
         /\ \A b \in Attempts \ {a} : attempt'[b] = attempt[b]
    BY <1>1, RestingOK
  <2>12. ImportsOK'
    BY <1>1, <2>6, <2>9, <2>11 DEF ImportsOK, DocsOK
  <2>13. KeysHold'
    <3>1. \A j \in Keys : keys'[j] \in {keys[j], e}
      BY <1>1, <2>5 DEF ImportsOK
    <3> QED BY <1>1, <2>4, <2>7, <3>1 DEF KeysHold, RowDigest
  <2>14. Settled'
    <3>1. \A r \in DOMAIN c.rows : Committed(c, r) \/ Shut(c, r)
      BY <1>0, <1>1 DEF AttemptOK
    <3> QED BY <1>1, <2>7, <2>8, <2>10, <3>1 DEF Settled
  <2>15. \A b \in Attempts : AttemptOK(b)'
    <3>1. Grows
      <4>1. \A s \in Reviews : review[s].ver <= review'[s].ver
        BY <1>1, VersionsRise
      <4> QED BY <2>7, <4>1, ChunkFacts DEF Grows
    <3>2. review' \in [Reviews -> ReviewType]
      BY <1>1 DEF ImportsOK
    <3> QED BY <1>1, <2>11, <3>1, <3>2, AttemptKeeps DEF ImportBooks
  <2>16. Books'
    <3> DEFINE P == {<<c.key, r>> : r \in D}
    <3>1. IsFiniteSet(P) /\ Cardinality(P) = n
      BY <2>2, PairsOfOne
    <3>2. c.reversing \in BOOLEAN
      BY DEF ImportParameters, ChunksAssumption
    <3>3. ASSUME NEW b \in BOOLEAN
          PROVE  /\ b = c.reversing => Pairs(b)' = Pairs(b) \cup P /\ Pairs(b) \cap P = {}
                 /\ b # c.reversing => Pairs(b)' = Pairs(b)
      <4>1. {d \in Chunks : d.reversing = b /\ Counted(d)'} =
              {d \in Chunks : d.reversing = b /\ Counted(d)}
                \cup (IF c.reversing = b THEN {c} ELSE {})
        BY <2>8
      <4>2. Pairs(b)' = Pairs(b) \cup (IF c.reversing = b THEN P ELSE {})
        BY <2>3, <2>8, <4>1 DEF Pairs
      <4>3. Pairs(b) \cap P = {}
        BY <2>1 DEF Pairs, ImportParameters, ChunksAssumption
      <4> QED BY <4>2, <4>3
    <3> HIDE DEF P
    <3>4. /\ IsFiniteSet(Pairs(TRUE)) /\ IsFiniteSet(Pairs(FALSE))
          /\ import.applied = Cardinality(Pairs(FALSE))
          /\ import.reversed = Cardinality(Pairs(TRUE))
      BY <1>1 DEF Books, CountersMatch
    <3>5. ASSUME NEW b \in BOOLEAN
          PROVE  /\ IsFiniteSet(Pairs(b)')
                 /\ b = c.reversing => Cardinality(Pairs(b)') = Cardinality(Pairs(b)) + n
                 /\ b # c.reversing => Cardinality(Pairs(b)') = Cardinality(Pairs(b))
      <4>1. IsFiniteSet(Pairs(b)) /\ Cardinality(Pairs(b)) \in Nat
        BY <3>4, FS_CardinalityType
      <4>2. CASE b = c.reversing
        <5>1. /\ IsFiniteSet(Pairs(b) \cup P)
              /\ Cardinality(Pairs(b) \cup P) =
                   Cardinality(Pairs(b)) + Cardinality(P) - Cardinality(Pairs(b) \cap P)
          BY <3>1, <4>1, FS_Union
        <5>2. Cardinality(Pairs(b) \cap P) = 0 /\ Pairs(b)' = Pairs(b) \cup P
          BY <3>3, <4>2, FS_EmptySet
        <5>3. Cardinality(Pairs(b) \cup P) = Cardinality(Pairs(b)) + n
          BY <2>2, <3>1, <4>1, <5>1, <5>2
        <5> QED BY <4>2, <5>1, <5>2, <5>3
      <4>3. CASE b # c.reversing
        BY <3>3, <4>1, <4>3
      <4> QED BY <4>2, <4>3
    <3>6. import.applied \in Nat /\ import.reversed \in Nat
      BY <1>1 DEF ImportType
    <3>7. /\ IsFiniteSet(Pairs(TRUE)') /\ IsFiniteSet(Pairs(FALSE)')
          /\ import'.applied = Cardinality(Pairs(FALSE)')
          /\ import'.reversed = Cardinality(Pairs(TRUE)')
      <4>1. IsFiniteSet(Pairs(TRUE)') /\ IsFiniteSet(Pairs(FALSE)')
        BY <3>5
      <4>2. CASE c.reversing
        <5>1. /\ Cardinality(Pairs(TRUE)') = Cardinality(Pairs(TRUE)) + n
              /\ Cardinality(Pairs(FALSE)') = Cardinality(Pairs(FALSE))
          BY <3>2, <3>5, <4>2
        <5>2. import'.applied = import.applied + 0 /\ import'.reversed = import.reversed + n
          BY <2>9, <4>2
        <5>3. import'.applied = import.applied
          BY <3>6, <5>2
        <5>4. import'.applied = Cardinality(Pairs(FALSE)')
          BY <3>4, <5>1, <5>3
        <5>5. import'.reversed = Cardinality(Pairs(TRUE)')
          BY <3>4, <5>1, <5>2
        <5> QED BY <4>1, <5>4, <5>5
      <4>3. CASE ~c.reversing
        <5>1. /\ Cardinality(Pairs(TRUE)') = Cardinality(Pairs(TRUE))
              /\ Cardinality(Pairs(FALSE)') = Cardinality(Pairs(FALSE)) + n
          BY <3>2, <3>5, <4>3
        <5>2. import'.applied = import.applied + n /\ import'.reversed = import.reversed + 0
          BY <2>9, <4>3
        <5>3. import'.reversed = import.reversed
          BY <3>6, <5>2
        <5>4. import'.reversed = Cardinality(Pairs(TRUE)')
          BY <3>4, <5>1, <5>3
        <5>5. import'.applied = Cardinality(Pairs(FALSE)')
          BY <3>4, <5>1, <5>2
        <5> QED BY <4>1, <5>4, <5>5
      <4> QED BY <4>2, <4>3
    <3>8. CountersMatch'
      BY <3>7 DEF CountersMatch
    <3>9. \A r \in Reviews : Reversals(r)' = Reversals(r) /\ ReversedBy(r)' = ReversedBy(r)
      BY <1>1, <2>8 DEF Reversals, ReversedBy
    <3> QED BY <1>1, <3>7, <3>8, <3>9 DEF Books
  <2> QED BY <2>12, <2>13, <2>14, <2>15, <2>16 DEF ImportBooks
<1> QED BY <1>3, <1>4

\* No import and no key yet.
LEMMA ImportInit ==
  ASSUME ImportParameters, IInit
  PROVE  ImportInv
<1> DEFINE d == [kind |-> "review", status |-> "unreviewed", ver |-> 1, upd |-> 0,
                 assignee |-> Nobody, res |-> "none", imp |-> "active", hold |-> FALSE,
                 resolved |-> FALSE, exp |-> ReviewTTL, ledgerExp |-> AuditTTL]
           e == [at |-> 0, type |-> "review_created", ver |-> 1, exp |-> AuditTTL]
<1>1. review = [r \in Reviews |-> d] /\ ledger = [r \in Reviews |-> <<e>>]
  BY DEF IInit
<1>2. ReviewTTL \in Nat /\ AuditTTL \in Nat
  BY DEF ImportParameters, Parameters, RetentionAssumption
<1>3. d \in ReviewType
  BY <1>2 DEF ReviewType, ReviewStatuses, ReviewTransitions, Resolutions
<1>4. e \in EventType /\ e.type = "review_created"
  <2>1. "review_created" \in EventNames /\ 0 \in Nat /\ 1 \in Nat
    BY DEF EventNames
  <2> QED BY <1>2, <2>1, Zenon DEF EventType
<1> HIDE DEF d, e
<1>5. <<e>> \in Seq(EventType) /\ DOMAIN <<e>> = {1} /\ <<e>>[1] = e
  BY <1>4
<1>6. DocsOK /\ review \in [Reviews -> ReviewType]
  BY <1>1, <1>3, <1>5 DEF IInit, DocsOK
<1>7. Resting \in AttemptType
  BY DEF Resting, AttemptType
<1>8. ImportsOK
  BY <1>6, <1>7 DEF IInit, ImportsOK
<1>9. \A c \in Chunks : /\ \A x \in DOMAIN c.rows \cup {Summary} : keys[Derived(c.key, x)] = Absent
                        /\ ~Counted(c) /\ \A r \in DOMAIN c.rows : ~Committed(c, r)
                        /\ RowsDone(c) = {}
  BY DEF IInit, ImportParameters, ChunksAssumption, Counted, Committed, RowsDone
<1>10. KeysHold /\ Settled
  BY <1>9 DEF IInit, KeysHold, Settled
<1>11. \A a \in Attempts : AttemptOK(a)
  BY FS_EmptySet DEF IInit, AttemptOK, Resting
<1>12. Books
  <2>1. Pairs(TRUE) = {} /\ Pairs(FALSE) = {}
    BY <1>9 DEF Pairs
  <2>2. CountersMatch
    BY DEF IInit, CountersMatch
  <2>3. \A r \in Reviews : Reversals(r) = {} /\ ReversedBy(r) = {}
    BY <1>1, <1>4, <1>5, <1>9 DEF Reversals, ReversedBy
  <2> QED BY <2>1, <2>2, <2>3, FS_EmptySet DEF Books
<1> QED BY <1>6, <1>8, <1>10, <1>11, <1>12 DEF ImportInv, ImportBooks, DocsOK

\* Every step of the admin, the deliveries, the reviewers and the clock.
LEMMA ImportStep ==
  ASSUME ImportParameters, ImportInv, [INext]_ivars
  PROVE  ImportInv'
<1>1. KeyTTL \in Nat /\ now \in Nat
  BY DEF ImportParameters, Parameters, RetentionAssumption, ImportInv
<1>2. now' \in {now, now + 1}
  <2>1. ASSUME NEW a \in Attempts, NEW r \in Reviews, Row(a, r) PROVE now' = now
    <3>1. ASSUME NEW c, NEW at, RowCommits(c, r, at) PROVE now' = now
      BY <3>1 DEF RowCommits, MarkImportState, FieldUpdate, PatchReview
    <3> QED BY <2>1, <3>1 DEF Row, vars
  <2>2. ASSUME NEW a \in Attempts,
               \/ Summarize(a) \/ AttemptDies(a)
               \/ \E c \in Chunks : StartChunk(a, c, "admin")
        PROVE  now' = now
    BY <2>2 DEF Summarize, AttemptDies, StartChunk, vars
  <2>3. ASSUME NEW r \in Reviews, Interferes(r) PROVE now' = now
    BY <2>3 DEF Interferes, PatchReview
  <2>4. Administers \/ UNCHANGED ivars => now' = now
    BY DEF Administers, CreateImport, PatchImport, ivars, vars
  <2> QED BY <2>1, <2>2, <2>3, <2>4 DEF INext, Proceeds, Tick
<1>3. now' \in Nat /\ now <= now'
  BY <1>1, <1>2
<1> SUFFICES ASSUME now < KeyTTL, ImportBooks
             PROVE  ImportBooks'
  BY <1>1, <1>3 DEF ImportInv
<1>4. CASE UNCHANGED ivars
  BY <1>3, <1>4, TickStep DEF ivars, vars
<1>5. CASE Administers
  BY <1>5, AdministerStep
<1>6. CASE Tick /\ UNCHANGED <<import, rows, attempt>>
  BY <1>3, <1>6, TickStep DEF Tick
<1>7. ASSUME NEW r \in Reviews, Interferes(r) PROVE ImportBooks'
  BY <1>7, InterfereStep
<1>8. ASSUME NEW a \in Attempts,
             Proceeds(a) \/ AttemptDies(a) \/ \E c \in Chunks : StartChunk(a, c, "admin")
      PROVE  ImportBooks'
  <2>1. CASE Summarize(a)
    BY <2>1, SummarizeStep
  <2>2. ASSUME NEW r \in Reviews, Row(a, r) PROVE ImportBooks'
    BY <2>2, RowStep
  <2>3. CASE AttemptDies(a)
    BY <2>3, RestStep DEF AttemptDies
  <2>4. ASSUME NEW c \in Chunks, StartChunk(a, c, "admin") PROVE ImportBooks'
    BY <2>4, StartStep
  <2> QED BY <1>8, <2>1, <2>2, <2>3, <2>4 DEF Proceeds
<1> QED BY <1>4, <1>5, <1>6, <1>7, <1>8 DEF INext

\* The invariant of _write_import_rows: while no key can have lapsed, what a
\* delivery has found of its rows stays so for itself and for every other.
THEOREM ImportsKeepTheirBooks ==
  ASSUME ImportParameters
  PROVE  ISpec => []ImportInv
<1>1. IInit => ImportInv
  BY ImportInit
<1>2. ImportInv /\ [INext]_ivars => ImportInv'
  BY ImportStep
<1> QED BY <1>1, <1>2, PTL DEF ISpec

\* Until a key may lapse the counters say how many rows were applied and how
\* many reversed, for any chunks, sent any number of times and by any number
\* of deliveries at once, each of which may die between two transactions.
THEOREM CountersStayTrue ==
  ASSUME ImportParameters
  PROVE  ISpec => []CountersAreTrue
<1>1. ImportInv => CountersAreTrue
  BY DEF ImportInv, ImportBooks, Books, CountersMatch, CountersAreTrue, Total, Pairs
<1> QED BY <1>1, ImportsKeepTheirBooks, PTL

\* Until a key may lapse no row moves its review twice: the reversals in a ledger
\* are no more than the chunks whose row for this review has committed.
THEOREM RowsStayApplied ==
  ASSUME ImportParameters
  PROVE  ISpec => []RowsApplyOnce
<1>1. ASSUME ImportInv
      PROVE  RowsApplyOnce
  <2> SUFFICES ASSUME now < KeyTTL, NEW r \in Reviews
               PROVE  Cardinality(Reversals(r)) <= Cardinality(ReversedBy(r))
    BY DEF RowsApplyOnce, Reversals, ReversedBy
  <2>1. IsFiniteSet(Reversals(r)) /\ Cardinality(Reversals(r)) = Cardinality(ReversedBy(r))
    BY <1>1 DEF ImportInv, ImportBooks, Books
  <2> QED BY <2>1, FS_CardinalityType
<1> QED BY <1>1, ImportsKeepTheirBooks, PTL
=============================================================================

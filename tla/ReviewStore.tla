----------------------------- MODULE ReviewStore -----------------------------
(***************************************************************************)
(* Reviews of the console (data_pipeline/ticket_review_repository.py): the *)
(* durable judgment of one ticket, its version, its evidence links and its *)
(* append-only audit ledger. Every method is one Firestore transaction and *)
(* one action; a refused or replayed call is a stuttering step. A method   *)
(* reads its clock before the transaction, which Firestore may then retry: *)
(* what commits at `now` may carry a time up to Delay older.               *)
(***************************************************************************)
EXTENDS ReviewContract, FiniteSets, Sequences

CONSTANTS
  Reviews,     \* review ids, each the digest of one DevRev work item
  Links,       \* evidence link ids
  People,      \* subjects of reviewers
  Patches,     \* the patches callers send, see PatchType
  Keys,        \* idempotency keys callers send
  ReviewTTL,   \* REVIEW_RETENTION_DAYS
  AuditTTL,    \* AUDIT_RETENTION_DAYS
  MaxNow,      \* bound: the clock
  MaxVersion   \* bound: versions of a review

RetentionAssumption ==
  /\ ReviewTTL \in Nat /\ AuditTTL \in Nat /\ AuditTTL > ReviewTTL
  /\ Delay \in Nat /\ Delay < ReviewTTL    \* seconds against 730 days
  /\ KeyTTL \in Nat \ {0} /\ MaxNow \in Nat /\ MaxVersion \in Nat

VARIABLES
  review,   \* ticket_reviews/{id}: a live document, a tombstone or Absent
  links,    \* .../evidence_links: link -> "live", "retired" or Absent
  ledger,   \* .../audit_events in the order they were chained
  keys,     \* idempotency_keys/{key}
  now

vars == <<review, links, ledger, keys, now>>

NoVersion == 0          \* the caller states no expected version
Nobody    == "nobody"

PatchType ==
  [move : ReviewStatuses \cup {NoMove}, assign : People \cup {Nobody},
   res : Resolutions \cup {NoMove}, reopen : BOOLEAN]

PatchesAssumption == Patches \subseteq PatchType

\* A review document, and what is left of one; Absent is neither.
ReviewType ==
  [kind : {"review"}, status : ReviewStatuses, ver : Nat, upd : Nat,
   assignee : People \cup {Nobody}, res : Resolutions, imp : {"active", "reversed"},
   hold : BOOLEAN, resolved : BOOLEAN, exp : Nat, ledgerExp : Nat]

TombstoneType == [kind : {"tombstone"}, hold : {FALSE}, ledgerExp : Nat]

AbsentAssumption == Absent \notin ReviewType \cup TombstoneType \cup {"live", "retired"}

Live(r)   == review[r] # Absent /\ review[r].kind = "review"
Tomb(r)   == review[r] # Absent /\ review[r].kind = "tombstone"

\* The clock readings a transaction that commits now may carry.
Readings == {t \in 0 .. now : now - t <= Delay}

(***************************************************************************)
(* Idempotency keys. A key that is live stops the transaction: the same    *)
(* request is answered from the store, another is a conflict.              *)
(***************************************************************************)
\* Mutant of KeyLive: the comparison the wrong way round.
KeyLapsed(k, at) == keys[k] # Absent /\ keys[k].exp <= at

KeyLive(k, at) == keys[k] # Absent /\ keys[k].exp > at

Fresh(k, at) == k # NoKey => ~KeyLive(k, at)

Replayed(k, at, digest) == k # NoKey /\ KeyLive(k, at) /\ keys[k].digest = digest

\* Mutant of RecordKey: the result is not stored.
RecordKeyLost(k, at, digest) == keys' = keys

RecordKey(k, at, digest) ==
  keys' = IF k = NoKey THEN keys
          ELSE [keys EXCEPT ![k] = [digest |-> digest, exp |-> at + KeyTTL]]

(***************************************************************************)
(* Writing                                                                 *)
(***************************************************************************)
\* One event at the head of the chain of r, which the same transaction
\* moves on the parent.
Append1(r, at, type, version) ==
  ledger' = [ledger EXCEPT ![r] =
               Append(@, [at |-> at, type |-> type, ver |-> version,
                          exp |-> at + AuditTTL])]

\* A write of the parent: some fields, the next version, a restarted product
\* clock (parked while a legal hold is on) and one audit event. Whatever the
\* caller does not name is copied from the document, the hold included.
WriteReview(r, at, fields, type) ==
  /\ review' = [review EXCEPT ![r] =
       [f \in DOMAIN review[r] |->
          CASE f = "ver"       -> review[r].ver + 1
            [] f = "upd"       -> at
            [] f = "exp"       -> at + ReviewTTL
            [] f = "ledgerExp" -> at + AuditTTL
            [] f \in DOMAIN fields -> fields[f]
            [] OTHER           -> review[r][f]]]
  /\ Append1(r, at, type, review[r].ver + 1)

\* _assert_version: an expected version must be the current one.
VersionMatches(r, expected) == expected \in {NoVersion, review[r].ver}

(***************************************************************************)
(* Operations                                                              *)
(***************************************************************************)
Init ==
  /\ review = [r \in Reviews |-> Absent]
  /\ links = [r \in Reviews |-> [l \in Links |-> Absent]]
  /\ ledger = [r \in Reviews |-> <<>>]
  /\ keys = [k \in Keys |-> Absent]
  /\ now = 0

\* create_or_get_review. A purged review is not recreated while its
\* tombstone stands.
CreateReview(r, role, at) ==
  /\ role \in ReviewMutators
  /\ review[r] = Absent
  /\ review' = [review EXCEPT ![r] =
       [kind |-> "review", status |-> "unreviewed", ver |-> 1, upd |-> at,
        assignee |-> Nobody, res |-> "none", imp |-> "active", hold |-> FALSE,
        resolved |-> FALSE, exp |-> at + ReviewTTL, ledgerExp |-> at + AuditTTL]]
  /\ Append1(r, at, "review_created", 1)
  /\ UNCHANGED <<links, keys, now>>

\* What patch_review checks before the version: the status edge, with the
\* resolution the patch brings or else the stored one, and the assignment.
PatchAllowed(r, p, role, actor) ==
  LET res == IF p.res = NoMove THEN review[r].res ELSE p.res IN
  /\ role \in ReviewMutators
  /\ p.reopen \/ p.move \notin {NoMove, review[r].status} =>
       ReviewMove(review[r].status,
                  IF p.move = NoMove THEN review[r].status ELSE p.move,
                  role, res, p.reopen)
  /\ p.assign # Nobody =>
       CanAssign(role, actor, p.assign, review[r].assignee, Nobody)

\* The document a patch leaves: resolved_at is set on the way into a terminal
\* status and cleared by a reopening.
Patched(r, p) ==
  LET status == IF p.move = NoMove THEN review[r].status ELSE p.move IN
  [status   |-> status,
   assignee |-> IF p.assign = Nobody THEN review[r].assignee ELSE p.assign,
   res      |-> IF p.res = NoMove THEN review[r].res ELSE p.res,
   resolved |-> CASE p.reopen -> FALSE
                  [] ~p.reopen /\ status \in TerminalReview /\ status # review[r].status -> TRUE
                  [] OTHER -> review[r].resolved]

PatchDigest(r, p, expected) == <<"patch_review", r, p, expected>>

PatchReview(r, p, expected, role, actor, k, at) ==
  /\ Live(r)
  /\ Fresh(k, at)
  /\ PatchAllowed(r, p, role, actor)
  /\ VersionMatches(r, expected)
  /\ WriteReview(r, at, Patched(r, p),
                 IF p.reopen THEN "review_reopened" ELSE "review_updated")
  /\ RecordKey(k, at, PatchDigest(r, p, expected))
  /\ UNCHANGED <<links, now>>

\* _simple_review_field_update. Its digest leaves the expected version out.
FieldDigest(r, fields, type) == <<type, r, fields>>

FieldUpdate(r, fields, type, expected, role, k, at) ==
  /\ Live(r)
  /\ Fresh(k, at)
  /\ role \in ReviewMutators
  /\ VersionMatches(r, expected)
  /\ WriteReview(r, at, fields, type)
  /\ RecordKey(k, at, FieldDigest(r, fields, type))
  /\ UNCHANGED <<links, now>>

MarkImportState(r, state, type, expected, role, k, at) ==
  FieldUpdate(r, [imp |-> state], type, expected, role, k, at)

SetLegalHold(r, hold, expected, role, k, at) ==
  /\ role = "admin"
  /\ FieldUpdate(r, [hold |-> hold], "review_legal_hold_set", expected, role, k, at)

\* create_evidence_link, for a candidate issued to this caller for this
\* review and still valid; a link that is already live is returned as it is.
LinkEvidence(r, l, expected, role, k, at) ==
  /\ role \in ReviewMutators
  /\ Live(r)
  /\ Fresh(k, at)
  /\ links[r][l] # "live"
  /\ VersionMatches(r, expected)
  /\ links' = [links EXCEPT ![r][l] = "live"]
  /\ WriteReview(r, at, <<>>, "evidence_linked")
  /\ RecordKey(k, at, <<"create_evidence_link", r, l>>)
  /\ UNCHANGED now

\* unlink_evidence_link retires the link in place. It looks its key up but
\* stores none.
UnlinkEvidence(r, l, expected, role, k, at) ==
  /\ role \in ReviewMutators
  /\ Live(r)
  /\ Fresh(k, at)
  /\ links[r][l] = "live"
  /\ VersionMatches(r, expected)
  /\ links' = [links EXCEPT ![r][l] = "retired"]
  /\ WriteReview(r, at, <<>>, "evidence_unlinked")
  /\ UNCHANGED <<keys, now>>

Tick ==
  /\ now < MaxNow
  /\ now' = now + 1
  /\ UNCHANGED <<review, links, ledger, keys>>

Versions(r) == {NoVersion} \cup IF Live(r) THEN {review[r].ver} ELSE {}

\* Anything a user of the console may do to a review.
Edit(r) ==
  \E at \in Readings :
    \/ CreateReview(r, "reviewer", at)
    \/ /\ Live(r) /\ review[r].ver < MaxVersion
       /\ \E v \in Versions(r), k \in Keys \cup {NoKey}, role \in {"reviewer", "admin"} :
            \/ \E p \in Patches, who \in People : PatchReview(r, p, v, role, who, k, at)
            \/ \E hold \in BOOLEAN : SetLegalHold(r, hold, v, role, k, at)
            \/ \E l \in Links : \/ LinkEvidence(r, l, v, role, k, at)
                                \/ UnlinkEvidence(r, l, v, role, k, at)

(***************************************************************************)
(* verify_audit_chain: the events in the order of their times, ties broken *)
(* by random ids, must be the order they were chained in, from the start.  *)
(***************************************************************************)
ChainVerifies(r) ==
  \A i, j \in DOMAIN ledger[r] : i < j => ledger[r][i].at < ledger[r][j].at
=============================================================================

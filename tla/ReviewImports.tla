---------------------------- MODULE ReviewImports ----------------------------
(***************************************************************************)
(* CSV imports into the review console: an import document with counters,  *)
(* chunks of rows that are applied or reversed one review at a time, each  *)
(* row in a transaction of its own under an idempotency key derived from   *)
(* the chunk's, and a last transaction that adds the counts. An attempt at *)
(* a chunk may die between any two of them, and be sent again, also while  *)
(* the first one still runs.                                               *)
(***************************************************************************)
EXTENDS ReviewStore

CONSTANTS
  Attempts,   \* deliveries of chunks that may run at once
  Chunks,     \* chunk requests: [key, reversing, rows], see ChunkType
  MaxImport   \* bound: versions of the import

ImportAssumption == MaxImport \in Nat

VARIABLES
  import,     \* ticket_imports/{id}, or Absent
  rows,       \* its rows: review -> error_code recorded last, or Absent
  attempt     \* [Attempts -> what an attempt keeps between transactions]

ivars == <<vars, import, rows, attempt>>

\* A row of a chunk names its review, the version it was planned at and the
\* patch; there is one row per review.
RowType == [ver : Nat \ {NoVersion}, patch : Patches]

\* Mutant of Derived: the rows share the key of the chunk.
DerivedShared(key, suffix) == <<key, 0>>

\* Every sub-operation of a chunk has its own key, and the summary one too.
Derived(key, suffix) == <<key, suffix>>

Summary == 0    \* rows are numbered from 1

Resting == [chunk |-> Absent, left |-> {}, done |-> {}, conflicted |-> {}, failed |-> {}]

(***************************************************************************)
(* The import document                                                     *)
(***************************************************************************)
\* create_import.
CreateImport(role) ==
  /\ role = "admin"
  /\ import = Absent
  /\ import' = [status |-> "uploaded", ver |-> 1, applied |-> 0, conflicted |-> 0,
                failed |-> 0, reversed |-> 0]
  /\ UNCHANGED <<vars, rows, attempt>>

\* patch_import: a status change along the table. The rows are applied
\* whatever the status says.
PatchImport(role, target, expected, reasoned) ==
  /\ role = "admin"
  /\ import # Absent
  /\ import.ver = expected
  /\ target # import.status => ImportMove(import.status, target, reasoned)
  /\ import' = [import EXCEPT !.status = target, !.ver = @ + 1]
  /\ UNCHANGED <<vars, rows, attempt>>

(***************************************************************************)
(* _write_import_rows                                                      *)
(***************************************************************************)
\* A chunk is planned from versions that were read.
Planned(c) == \A r \in DOMAIN c.rows : Live(r) /\ c.rows[r].ver <= review[r].ver

StartChunk(a, c, role) ==
  /\ role = "admin"
  /\ Planned(c)
  /\ attempt[a].chunk = Absent
  /\ attempt' = [attempt EXCEPT ![a] = [Resting EXCEPT !.chunk = c, !.left = DOMAIN c.rows]]
  /\ UNCHANGED <<vars, import, rows>>

Marks(a, r, outcome) ==
  attempt' = [attempt EXCEPT ![a] =
    [f \in DOMAIN attempt[a] |->
       CASE f = "left"  -> attempt[a].left \ {r}
         [] f = outcome -> attempt[a][f] \cup {r}
         [] OTHER       -> attempt[a][f]]]

\* What the row's own operation digests and does.
RowDigest(c, r) ==
  IF c.reversing
  THEN FieldDigest(r, [imp |-> "reversed"], "review_import_reversed")
  ELSE PatchDigest(r, c.rows[r].patch, c.rows[r].ver)

RowCommits(c, r, at) ==
  LET key == Derived(c.key, r) IN
  IF c.reversing
  THEN MarkImportState(r, "reversed", "review_import_reversed", c.rows[r].ver,
                       "admin", key, at)
  ELSE \E who \in People :
         PatchReview(r, c.rows[r].patch, c.rows[r].ver, "admin", who, key, at)

\* The checks before the version check refuse the row.
RowRefused(c, r, at) ==
  LET key == Derived(c.key, r) IN
  \/ KeyLive(key, at) /\ keys[key].digest # RowDigest(c, r)
  \/ ~KeyLive(key, at) /\ ~Live(r)
  \/ /\ ~KeyLive(key, at) /\ Live(r) /\ ~c.reversing
     /\ \A who \in People : ~PatchAllowed(r, c.rows[r].patch, "admin", who)

\* One row: done now, done by an earlier delivery, in conflict with a later
\* edit, or refused. A conflict or a refusal is noted and the chunk goes on.
Row(a, r) ==
  LET c == attempt[a].chunk IN
  /\ c # Absent /\ r \in attempt[a].left
  /\ \E at \in Readings :
     \/ RowCommits(c, r, at) /\ Marks(a, r, "done")
     \/ /\ Live(r) /\ Replayed(Derived(c.key, r), at, RowDigest(c, r))
        /\ Marks(a, r, "done") /\ UNCHANGED vars
     \/ RowRefused(c, r, at) /\ Marks(a, r, "failed") /\ UNCHANGED vars
     \/ /\ ~KeyLive(Derived(c.key, r), at) /\ ~RowRefused(c, r, at)
        /\ ~VersionMatches(r, c.rows[r].ver)
        /\ Marks(a, r, "conflicted") /\ UNCHANGED vars
  /\ UNCHANGED <<import, rows>>

SummaryDigest(c) == <<"import_chunk", c.reversing, DOMAIN c.rows>>

-----------------------------------------------------------------------------
\* The documents: the import, and the keys its chunks leave behind.
ImportType ==
  [status : ImportStatuses, ver : Nat, applied : Nat, conflicted : Nat, failed : Nat,
   reversed : Nat]

ImportDigests ==
  UNION {{SummaryDigest(c)} \cup {RowDigest(c, r) : r \in DOMAIN c.rows} : c \in Chunks}

ImportKeyType == [digest : ImportDigests, exp : Nat]

\* A caller sends one chunk under one key; an absent document is none.
ChunksAssumption ==
  /\ Summary \notin Reviews
  /\ Absent \notin Chunks \cup ImportType \cup ImportKeyType
  /\ \A c \in Chunks :
       /\ c.reversing \in BOOLEAN
       /\ DOMAIN c.rows \subseteq Reviews
       /\ \A r \in DOMAIN c.rows : c.rows[r] \in RowType
       /\ \A x \in DOMAIN c.rows \cup {Summary} : Derived(c.key, x) \in Keys \ {NoKey}
  /\ \A c, d \in Chunks : c.key = d.key => c = d

-----------------------------------------------------------------------------
\* The last transaction: the counters, unless an earlier delivery of the
\* chunk has added them.
Summarize(a) ==
  LET c == attempt[a].chunk
      key == Derived(c.key, Summary) IN
  /\ c # Absent /\ attempt[a].left = {}
  /\ import # Absent
  /\ \E at \in Readings :
       IF KeyLive(key, at)
       THEN UNCHANGED <<import, rows, keys>>
       ELSE LET done == Cardinality(attempt[a].done) IN
            /\ import' = [import EXCEPT
                 !.ver = @ + 1,
                 !.applied    = @ + (IF c.reversing THEN 0 ELSE done),
                 !.reversed   = @ + (IF c.reversing THEN done ELSE 0),
                 !.conflicted = @ + Cardinality(attempt[a].conflicted),
                 !.failed     = @ + Cardinality(attempt[a].failed)]
            /\ rows' = [r \in Reviews |->
                 CASE r \in attempt[a].done -> "none"
                   [] r \in attempt[a].conflicted -> "review_version_conflict"
                   [] r \in attempt[a].failed -> "failed"
                   [] OTHER -> rows[r]]
            /\ RecordKey(key, at, SummaryDigest(c))
  /\ attempt' = [attempt EXCEPT ![a] = Resting]
  /\ UNCHANGED <<review, links, ledger, now>>

\* The process dies, or the store fails under it.
AttemptDies(a) ==
  /\ attempt[a].chunk # Absent
  /\ attempt' = [attempt EXCEPT ![a] = Resting]
  /\ UNCHANGED <<vars, import, rows>>

\* The reviews an import is planned against exist.
IInit ==
  /\ review = [r \in Reviews |->
       [kind |-> "review", status |-> "unreviewed", ver |-> 1, upd |-> 0,
        assignee |-> Nobody, res |-> "none", imp |-> "active", hold |-> FALSE,
        resolved |-> FALSE, exp |-> ReviewTTL, ledgerExp |-> AuditTTL]]
  /\ links = [r \in Reviews |-> [l \in Links |-> Absent]]
  /\ ledger = [r \in Reviews |->
       <<[at |-> 0, type |-> "review_created", ver |-> 1, exp |-> AuditTTL]>>]
  /\ keys = [k \in Keys |-> Absent]
  /\ now = 0
  /\ import = Absent
  /\ rows = [r \in Reviews |-> Absent]
  /\ attempt = [a \in Attempts |-> Resting]

\* A reviewer works on the queue meanwhile.
Interferes(r) ==
  /\ review[r].ver < MaxVersion
  /\ \E at \in Readings, p \in Patches, who \in People :
       PatchReview(r, p, NoVersion, "reviewer", who, NoKey, at)
  /\ UNCHANGED <<import, rows, attempt>>

Administers ==
  \/ CreateImport("admin")
  \/ /\ import # Absent /\ import.ver < MaxImport
     /\ \E target \in ImportStatuses, reasoned \in BOOLEAN :
          PatchImport("admin", target, import.ver, reasoned)

Proceeds(a) == Summarize(a) \/ \E r \in Reviews : Row(a, r)

INext ==
  \/ Administers
  \/ Tick /\ UNCHANGED <<import, rows, attempt>>
  \/ \E r \in Reviews : Interferes(r)
  \/ \E a \in Attempts : \/ Proceeds(a) \/ AttemptDies(a)
                         \/ \E c \in Chunks : StartChunk(a, c, "admin")

ISpec == IInit /\ [][INext]_ivars

\* Deliveries do not die for ever.
DeathsEnd ==
  <>[][\A a \in Attempts : attempt[a].chunk # Absent /\ attempt'[a].chunk = Absent
                             => Summarize(a)]_ivars

\* The admin's tool creates the import and sends each chunk again and again.
IFairSpec ==
  /\ ISpec
  /\ WF_ivars(CreateImport("admin"))
  /\ \A a \in Attempts : WF_ivars(Proceeds(a))
  /\ \A a \in Attempts, c \in Chunks : SF_ivars(StartChunk(a, c, "admin"))
  /\ DeathsEnd

-----------------------------------------------------------------------------
(***************************************************************************)
(* Properties                                                              *)
(***************************************************************************)
Counted(c) == keys[Derived(c.key, Summary)] # Absent

RowsDone(c) == {r \in DOMAIN c.rows : keys[Derived(c.key, r)] # Absent}

Total(reversing) ==
  LET S == {c \in Chunks : c.reversing = reversing /\ Counted(c)}
      pairs == UNION {{<<c.key, r>> : r \in RowsDone(c)} : c \in S} IN
  Cardinality(pairs)

\* A chunk that died half-way, was sent again, or ran twice at once is
\* counted once, and the counters say what happened to the reviews: so many
\* rows applied and so many reversed as have committed (_write_import_rows,
\* "a retried chunk must not add its counters a second time"), as long as no
\* key has lapsed.
CountersAreTrue ==
  import # Absent /\ now < KeyTTL =>
    import.applied = Total(FALSE) /\ import.reversed = Total(TRUE)

\* However often a chunk is delivered, no row of a reversal moves its review
\* twice: the ledger of a review holds no more events of reversals than chunks
\* that have reversed it, as long as no key has lapsed.
RowsApplyOnce ==
  now < KeyTTL => \A r \in Reviews :
    Cardinality({i \in DOMAIN ledger[r] : ledger[r][i].type = "review_import_reversed"})
      <= Cardinality({c \in Chunks : c.reversing /\ r \in RowsDone(c)})

\* A chunk with many rows under one idempotency key gets through: sent again
\* until it returns, it is counted, with none of its rows shut out by the key
\* of another (_derive_context).
ChunksGetThrough ==
  \A c \in Chunks : <>[](Counted(c) /\ \A r \in DOMAIN c.rows : rows[r] # "failed")
=============================================================================

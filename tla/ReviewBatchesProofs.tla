------------------------ MODULE ReviewBatchesProofs ------------------------
(* Proofs about the remediation batches, for every set of batches, agents    *)
(* and tokens and for every length of the lease, the cap and the extensions, *)
(* and about the listings, for every set of rows and every size of a page.   *)
EXTENDS ReviewBatches, ReviewReads, FiniteSetTheorems, FunctionTheorems, TLAPS

\* A batch that is there has the fields of one.
LEMMA ThereIsABatch ==
  ASSUME TypeOK, NEW b \in Batches, Exists(b)
  PROVE  /\ batch[b] \in BatchType
         /\ DOMAIN batch[b] = {"status", "ver", "lease", "work", "granted", "extUntil"}
         /\ batch[b].status \in BatchStatuses /\ batch[b].ver \in Nat
         /\ batch[b].lease \in LeaseType \cup {NoLease}
         /\ batch[b].work \in BOOLEAN /\ batch[b].granted \in {0, 1}
         /\ batch[b].extUntil \in Nat
<1>1. batch[b] \in BatchType
  BY DEF TypeOK, Exists
<1> QED BY <1>1 DEF BatchType

\* What a write of a batch leaves behind: the fields named, the version moved
\* on, everything else as it was.
LEMMA WriteEffect ==
  ASSUME TypeOK, NEW b \in Batches, Exists(b), NEW STATE fields, Write(b, fields),
         "ver" \notin DOMAIN fields
  PROVE  /\ \A c \in Batches : c # b => batch'[c] = batch[c]
         /\ batch'[b] = [f \in DOMAIN batch[b] |->
                           IF f = "ver" THEN batch[b].ver + 1
                           ELSE IF f \in DOMAIN fields THEN fields[f] ELSE batch[b][f]]
         /\ \A f \in DOMAIN batch[b] \ {"ver"} :
              batch'[b][f] = IF f \in DOMAIN fields THEN fields[f] ELSE batch[b][f]
         /\ batch'[b].ver = batch[b].ver + 1
         /\ DOMAIN batch' = Batches
<1>1. batch \in [Batches -> BatchType \cup {Absent}]
  BY DEF TypeOK
<1>2. "ver" \in DOMAIN batch[b]
  BY ThereIsABatch
<1> QED BY <1>1, <1>2 DEF Write

\* A write of well-typed fields leaves well-typed batches.
LEMMA WriteTypes ==
  ASSUME TypeOK, NEW b \in Batches, Exists(b), NEW STATE fields, Write(b, fields),
         "ver" \notin DOMAIN fields,
         "status"   \in DOMAIN fields => fields.status \in BatchStatuses,
         "lease"    \in DOMAIN fields => fields.lease \in LeaseType \cup {NoLease},
         "work"     \in DOMAIN fields => fields.work \in BOOLEAN,
         "granted"  \in DOMAIN fields => fields.granted \in {0, 1},
         "extUntil" \in DOMAIN fields => fields.extUntil \in Nat
  PROVE  batch' \in [Batches -> BatchType \cup {Absent}] /\ batch'[b] \in BatchType
<1>1. DOMAIN batch[b] = {"status", "ver", "lease", "work", "granted", "extUntil"}
  BY ThereIsABatch
<1>2. /\ batch'[b] = [f \in DOMAIN batch[b] |-> batch'[b][f]]
      /\ DOMAIN batch'[b] = DOMAIN batch[b]
  BY WriteEffect
<1>3. /\ batch'[b].status \in BatchStatuses /\ batch'[b].ver \in Nat
      /\ batch'[b].lease \in LeaseType \cup {NoLease}
      /\ batch'[b].work \in BOOLEAN /\ batch'[b].granted \in {0, 1}
      /\ batch'[b].extUntil \in Nat
  <2>1. \A f \in DOMAIN batch[b] \ {"ver"} :
          batch'[b][f] = IF f \in DOMAIN fields THEN fields[f] ELSE batch[b][f]
    BY WriteEffect
  <2>2. batch[b].ver \in Nat /\ batch'[b].ver = batch[b].ver + 1
    BY ThereIsABatch, WriteEffect
  <2>3. batch'[b].status \in BatchStatuses
    BY <1>1, <2>1, ThereIsABatch
  <2>4. batch'[b].lease \in LeaseType \cup {NoLease}
    BY <1>1, <2>1, ThereIsABatch
  <2>5. batch'[b].work \in BOOLEAN
    BY <1>1, <2>1, ThereIsABatch
  <2>6. batch'[b].granted \in {0, 1}
    BY <1>1, <2>1, ThereIsABatch
  <2>7. batch'[b].extUntil \in Nat
    BY <1>1, <2>1, ThereIsABatch
  <2> QED BY <2>2, <2>3, <2>4, <2>5, <2>6, <2>7
<1>4. batch'[b] \in BatchType
  BY <1>1, <1>2, <1>3 DEF BatchType
<1>5. batch \in [Batches -> BatchType \cup {Absent}]
  BY DEF TypeOK
<1>6. batch' = [batch EXCEPT ![b] = batch'[b]]
  BY <1>5 DEF Write
<1> QED BY <1>4, <1>5, <1>6

\* A reading is a time, and not a late one.
LEMMA ReadingsAreRecent ==
  ASSUME TypeOK, NEW at \in BatchReadings
  PROVE  /\ at \in Nat /\ at <= batchNow /\ batchNow < at + Lease
         /\ batchNow <= at + Delay /\ Delay \in Nat
BY TimesAssumption DEF TypeOK, BatchReadings

\* The lease of a new claim, and of a renewal.
LEMMA LeaseTypes ==
  ASSUME TypeOK, NEW at \in BatchReadings
  PROVE  /\ \A a \in Agents, t \in Tokens :
              /\ NewLease(a, t, at) \in LeaseType
              /\ NewLease(a, t, at).exp = at + Lease /\ NewLease(a, t, at).since = at
              /\ NewLease(a, t, at).holder = a /\ NewLease(a, t, at).token = t
         /\ \A b \in Batches : Leased(b) =>
              /\ batch[b].lease \in LeaseType
              /\ Renewed(b, at) \in LeaseType
              /\ Renewed(b, at).exp = at + Lease
              /\ Renewed(b, at).since = batch[b].lease.since
              /\ Renewed(b, at).holder = batch[b].lease.holder
              /\ Renewed(b, at).token = batch[b].lease.token
<1>1. at \in Nat /\ Lease \in Nat
  BY ReadingsAreRecent, TimesAssumption
<1>2. ASSUME NEW a \in Agents, NEW t \in Tokens
      PROVE  /\ NewLease(a, t, at) \in LeaseType
             /\ NewLease(a, t, at).exp = at + Lease /\ NewLease(a, t, at).since = at
             /\ NewLease(a, t, at).holder = a /\ NewLease(a, t, at).token = t
  BY <1>1 DEF NewLease, LeaseType
<1>3. ASSUME NEW b \in Batches, Leased(b)
      PROVE  /\ batch[b].lease \in LeaseType
             /\ Renewed(b, at) \in LeaseType
             /\ Renewed(b, at).exp = at + Lease
             /\ Renewed(b, at).since = batch[b].lease.since
             /\ Renewed(b, at).holder = batch[b].lease.holder
             /\ Renewed(b, at).token = batch[b].lease.token
  <2>1. batch[b].lease \in LeaseType
    BY <1>3, ThereIsABatch DEF Leased
  <2> QED BY <1>1, <2>1 DEF Renewed, LeaseType
<1> QED BY <1>2, <1>3

\* The lease a batch has.
LEMMA HeldLease ==
  ASSUME TypeOK, NEW b \in Batches, Leased(b)
  PROVE  /\ batch[b].lease \in LeaseType
         /\ batch[b].lease.exp \in Nat /\ batch[b].lease.since \in Nat
BY ThereIsABatch DEF Leased, LeaseType

\* What a request can do to the lease of its batch: leave it alone, install a
\* new one over none or an elapsed one, prolong a running one, drop it. Elapsed
\* and running are what the request's reading `at` makes of it.
KeepsLease(b) ==
  batch'[b].lease = batch[b].lease /\ batch'[b].extUntil = batch[b].extUntil

Acquires(b, at) ==
  /\ ~LeaseLive(b, at)
  /\ \E a \in Agents, t \in Tokens : batch'[b].lease = NewLease(a, t, at)

Renews(b, at) ==
  /\ LeaseLive(b, at)
  /\ batch'[b].lease = Renewed(b, at)
  /\ \/ WithinCap(b, at) /\ batch'[b].extUntil = batch[b].extUntil
     \/ \E minutes \in Extensions : batch'[b].extUntil = at + minutes

Drops(b) == Leased(b) /\ batch'[b].lease = NoLease

\* Every request on an existing batch leaves well-typed batches, touches no
\* other batch and treats the lease in one of these four ways.
LEMMA CallShapes ==
  ASSUME TypeOK, NEW b \in Batches, Call(b)
  PROVE  /\ batch' \in [Batches -> BatchType \cup {Absent}] /\ batch'[b] \in BatchType
         /\ \A c \in Batches : c # b => batch'[c] = batch[c]
         /\ UNCHANGED <<items, reviewVer, batchNow>>
         /\ Exists(b)
         /\ \/ KeepsLease(b) \/ Drops(b)
            \/ \E at \in BatchReadings : Acquires(b, at) \/ Renews(b, at)
<1> DEFINE Shape == /\ batch' \in [Batches -> BatchType \cup {Absent}]
                    /\ batch'[b] \in BatchType
                    /\ \A c \in Batches : c # b => batch'[c] = batch[c]
                    /\ UNCHANGED <<items, reviewVer, batchNow>>
                    /\ \/ KeepsLease(b) \/ Drops(b)
                       \/ \E at \in BatchReadings : Acquires(b, at) \/ Renews(b, at)
<1>1. Exists(b)
  BY DEF Call
<1>2. batchNow \in Nat /\ "lease" \in DOMAIN batch[b] /\ "extUntil" \in DOMAIN batch[b]
  BY <1>1, ThereIsABatch DEF TypeOK
<1>3. ASSUME NEW a \in Agents, NEW t \in Tokens, NEW k,
             NEW at \in BatchReadings, Claim(b, a, t, k, at)
      PROVE  Shape
  <2> DEFINE fields == [status |-> "claimed", lease |-> NewLease(a, t, at)]
  <2>1. Write(b, fields) /\ ~LeaseLive(b, at) /\ UNCHANGED <<items, reviewVer, batchNow>>
    BY <1>3 DEF Claim
  <2>2. /\ DOMAIN fields = {"status", "lease"} /\ fields.status = "claimed"
        /\ fields.lease = NewLease(a, t, at) /\ "claimed" \in BatchStatuses
        /\ NewLease(a, t, at) \in LeaseType
    BY LeaseTypes DEF BatchStatuses, BatchTransitions
  <2> HIDE DEF fields
  <2>3. batch' \in [Batches -> BatchType \cup {Absent}] /\ batch'[b] \in BatchType
    BY <1>1, <2>1, <2>2, WriteTypes
  <2>4. /\ \A c \in Batches : c # b => batch'[c] = batch[c]
        /\ batch'[b].lease = NewLease(a, t, at)
    BY <1>1, <1>2, <2>1, <2>2, WriteEffect
  <2> QED BY <2>1, <2>3, <2>4 DEF Acquires
<1>4. ASSUME NEW a \in Agents, NEW t \in Tokens, NEW k,
             NEW at \in BatchReadings, Heartbeat(b, a, t, k, at)
      PROVE  Shape
  <2> DEFINE fields == [lease |-> Renewed(b, at)]
  <2>1. /\ Write(b, fields) /\ LeaseLive(b, at) /\ WithinCap(b, at)
        /\ UNCHANGED <<items, reviewVer, batchNow>>
    BY <1>4 DEF Heartbeat, Holds
  <2>2. /\ DOMAIN fields = {"lease"} /\ fields.lease = Renewed(b, at)
        /\ Renewed(b, at) \in LeaseType
    BY <2>1, LeaseTypes DEF LeaseLive
  <2> HIDE DEF fields
  <2>3. batch' \in [Batches -> BatchType \cup {Absent}] /\ batch'[b] \in BatchType
    BY <1>1, <2>1, <2>2, WriteTypes
  <2>4. /\ \A c \in Batches : c # b => batch'[c] = batch[c]
        /\ \A f \in DOMAIN batch[b] \ {"ver"} :
             batch'[b][f] = IF f \in DOMAIN fields THEN fields[f] ELSE batch[b][f]
    BY <1>1, <2>1, <2>2, WriteEffect
  <2>5. batch'[b].lease = Renewed(b, at)
    BY <1>2, <2>2, <2>4
  <2>6. batch'[b].extUntil = batch[b].extUntil
    BY <1>2, <2>2, <2>4
  <2> QED BY <2>1, <2>3, <2>4, <2>5, <2>6 DEF Renews
<1>5. ASSUME NEW minutes \in Extensions, NEW k,
             NEW at \in BatchReadings, ExtendLease(b, minutes, k, at)
      PROVE  Shape
  <2> DEFINE fields == [lease |-> Renewed(b, at), granted |-> 1, extUntil |-> at + minutes]
  <2>1. /\ Write(b, fields) /\ LeaseLive(b, at) /\ UNCHANGED <<items, reviewVer, batchNow>>
    BY <1>5 DEF ExtendLease
  <2>2. /\ DOMAIN fields = {"lease", "granted", "extUntil"}
        /\ fields.lease = Renewed(b, at) /\ fields.granted = 1
        /\ fields.extUntil = at + minutes
        /\ Renewed(b, at) \in LeaseType
    BY <2>1, LeaseTypes DEF LeaseLive
  <2> HIDE DEF fields
  <2>3. at + minutes \in Nat
    BY ReadingsAreRecent, TimesAssumption
  <2>4. batch' \in [Batches -> BatchType \cup {Absent}] /\ batch'[b] \in BatchType
    BY <1>1, <2>1, <2>2, <2>3, WriteTypes
  <2>5. /\ \A c \in Batches : c # b => batch'[c] = batch[c]
        /\ batch'[b].lease = Renewed(b, at) /\ batch'[b].extUntil = at + minutes
    BY <1>1, <1>2, <2>1, <2>2, WriteEffect
  <2> QED BY <2>1, <2>4, <2>5 DEF Renews
<1>6. ASSUME NEW role, NEW a, NEW t, NEW move \in BatchStatuses \cup {NoMove},
             NEW adds \in BOOLEAN, NEW again, NEW k, NEW at \in BatchReadings,
             PatchBatch(b, role, a, t, move, adds, again, k, at)
      PROVE  Shape
  <2> DEFINE fields == [status |-> IF move = NoMove THEN batch[b].status ELSE move,
                        work |-> batch[b].work \/ adds]
  <2>1. Write(b, fields) /\ UNCHANGED <<items, reviewVer, batchNow>>
    BY <1>6 DEF PatchBatch
  <2>2. /\ DOMAIN fields = {"status", "work"}
        /\ fields.status = IF move = NoMove THEN batch[b].status ELSE move
        /\ fields.work = (batch[b].work \/ adds)
    OBVIOUS
  <2> HIDE DEF fields
  <2>3. fields.status \in BatchStatuses /\ fields.work \in BOOLEAN
    BY <1>1, <2>2, ThereIsABatch
  <2>4. batch' \in [Batches -> BatchType \cup {Absent}] /\ batch'[b] \in BatchType
    BY <1>1, <2>1, <2>2, <2>3, WriteTypes
  <2>5. /\ \A c \in Batches : c # b => batch'[c] = batch[c]
        /\ \A f \in DOMAIN batch[b] \ {"ver"} :
             batch'[b][f] = IF f \in DOMAIN fields THEN fields[f] ELSE batch[b][f]
    BY <1>1, <2>1, <2>2, WriteEffect
  <2>6. batch'[b].lease = batch[b].lease
    BY <1>2, <2>2, <2>5
  <2>7. batch'[b].extUntil = batch[b].extUntil
    BY <1>2, <2>2, <2>5
  <2> QED BY <2>1, <2>4, <2>5, <2>6, <2>7 DEF KeepsLease
<1>7. ASSUME NEW a, NEW t, NEW d \in {"ready", "blocked"}, NEW k,
             NEW at \in BatchReadings, ReleaseBatch(b, a, t, d, k, at)
      PROVE  Shape
  <2> DEFINE fields == [status |-> d, lease |-> NoLease]
  <2>1. /\ Write(b, fields) /\ Leased(b) /\ UNCHANGED <<items, reviewVer, batchNow>>
    BY <1>7 DEF ReleaseBatch, Holds, LeaseLive
  <2>2. /\ DOMAIN fields = {"status", "lease"} /\ fields.status = d
        /\ fields.lease = NoLease /\ d \in BatchStatuses
    BY DEF BatchStatuses, BatchTransitions
  <2> HIDE DEF fields
  <2>3. batch' \in [Batches -> BatchType \cup {Absent}] /\ batch'[b] \in BatchType
    BY <1>1, <2>1, <2>2, WriteTypes
  <2>4. /\ \A c \in Batches : c # b => batch'[c] = batch[c]
        /\ batch'[b].lease = NoLease
    BY <1>1, <1>2, <2>1, <2>2, WriteEffect
  <2> QED BY <2>1, <2>3, <2>4 DEF Drops
<1> HIDE DEF Shape
<1>8. Shape
  <2>1. PICK k \in BatchKeys \cup {NoKey}, at \in BatchReadings :
          \/ \E a \in Agents, t \in Tokens :
               \/ Claim(b, a, t, k, at)
               \/ Heartbeat(b, a, t, k, at)
               \/ \E d \in {"ready", "blocked"} : ReleaseBatch(b, a, t, d, k, at)
               \/ \E move \in BatchStatuses \cup {NoMove}, adds, again \in BOOLEAN :
                    PatchBatch(b, "agent", a, t, move, adds, again, k, at)
          \/ \E minutes \in Extensions : ExtendLease(b, minutes, k, at)
          \/ \E role \in {"reviewer", "admin"}, move \in BatchStatuses \cup {NoMove},
                adds, again \in BOOLEAN :
               PatchBatch(b, role, NoLease, NoLease, move, adds, again, k, at)
    BY Zenon DEF Call
  <2> QED BY <1>3, <1>4, <1>5, <1>6, <1>7, <2>1
<1> QED BY <1>1, <1>8 DEF Shape

\* A new batch is well typed and nobody holds it.
LEMMA CreateShape ==
  ASSUME TypeOK, NEW b \in Batches, Create(b)
  PROVE  /\ batch' \in [Batches -> BatchType \cup {Absent}]
         /\ batch'[b] \in BatchType /\ batch'[b].lease = NoLease
         /\ \A c \in Batches : c # b => batch'[c] = batch[c]
         /\ items' \in [Batches -> UNION {[S -> Nat] : S \in SUBSET Freezable}]
         /\ ~Exists(b)
         /\ UNCHANGED <<reviewVer, batchNow>>
<1> DEFINE new == [status |-> "draft", ver |-> 1, lease |-> NoLease,
                   work |-> FALSE, granted |-> 0, extUntil |-> 0]
           frozen == UNION {[S -> Nat] : S \in SUBSET Freezable}
<1>1. PICK S \in SUBSET Freezable, role \in {"admin", "reviewer"}, k \in BatchKeys \cup {NoKey},
           at \in BatchReadings :
        CreateBatch(b, [r \in S |-> reviewVer[r]], role, k, at)
  BY DEF Create
<1>2. /\ batch' = [batch EXCEPT ![b] = new] /\ ~Exists(b)
      /\ items' = [items EXCEPT ![b] = [r \in S |-> reviewVer[r]]]
      /\ UNCHANGED <<reviewVer, batchNow>>
  BY <1>1 DEF CreateBatch
<1>3. new.lease = NoLease /\ new \in BatchType
  BY DEF BatchType, BatchStatuses, BatchTransitions
<1>4. [r \in S |-> reviewVer[r]] \in [S -> Nat]
  BY DEF TypeOK
<1>5. [r \in S |-> reviewVer[r]] \in frozen
  BY <1>4
<1>6. items \in [Batches -> frozen] /\ batch \in [Batches -> BatchType \cup {Absent}]
  BY DEF TypeOK
<1> HIDE DEF new, frozen
<1>7. items' \in [Batches -> frozen]
  BY <1>2, <1>5, <1>6
<1>8. /\ batch' \in [Batches -> BatchType \cup {Absent}]
      /\ batch'[b] = new
      /\ \A c \in Batches : c # b => batch'[c] = batch[c]
  BY <1>2, <1>3, <1>6
<1> QED BY <1>2, <1>3, <1>7, <1>8 DEF frozen

(***************************************************************************)
(* Type correctness                                                        *)
(***************************************************************************)
LEMMA TypesStart == BatchInit => TypeOK
<1> SUFFICES ASSUME BatchInit PROVE TypeOK
  OBVIOUS
<1>1. batch \in [Batches -> BatchType \cup {Absent}]
      /\ reviewVer \in [Freezable -> Nat] /\ batchNow \in Nat
  BY DEF BatchInit
<1>2. <<>> \in [{} -> Nat]
  OBVIOUS
<1>3. <<>> \in UNION {[S -> Nat] : S \in SUBSET Freezable}
  BY <1>2
<1>4. items \in [Batches -> UNION {[S -> Nat] : S \in SUBSET Freezable}]
  BY <1>3 DEF BatchInit
<1> QED BY <1>1, <1>4 DEF TypeOK

LEMMA TypesStep == TypeOK /\ [BatchNext]_bvars => TypeOK'
<1> SUFFICES ASSUME TypeOK, [BatchNext]_bvars PROVE TypeOK'
  OBVIOUS
<1>1. ASSUME NEW b \in Batches, Create(b) PROVE TypeOK'
  BY <1>1, CreateShape DEF TypeOK
<1>2. ASSUME NEW b \in Batches, Call(b) PROVE TypeOK'
  BY <1>2, CallShapes DEF TypeOK
<1>3. ASSUME NEW r \in Freezable, ReviewChanges(r) PROVE TypeOK'
  <2>1. PICK v \in {0, reviewVer[r] + 1} : reviewVer' = [reviewVer EXCEPT ![r] = v]
    BY <1>3 DEF ReviewChanges
  <2>2. v \in Nat
    BY <2>1 DEF TypeOK
  <2> QED BY <1>3, <2>1, <2>2 DEF ReviewChanges, TypeOK
<1>4. CASE BatchTick
  BY <1>4 DEF BatchTick, TypeOK
<1>5. CASE UNCHANGED bvars
  BY <1>5 DEF bvars, TypeOK
<1> QED BY <1>1, <1>2, <1>3, <1>4, <1>5 DEF BatchNext

\* Every document of a batch keeps its shape.
THEOREM BatchesTypeCorrect == BatchSpec => []TypeOK
<1> QED BY TypesStart, TypesStep, PTL DEF BatchSpec

(***************************************************************************)
(* The cap on a continuous run                                             *)
(***************************************************************************)
\* RunIsBounded of one batch.
BoundedRun(b) ==
  Leased(b) =>
    \/ batch[b].lease.exp < batch[b].lease.since + Cap + Lease
    \/ batch[b].lease.exp < batch[b].extUntil + Lease

\* A batch a step leaves alone keeps its bound.
LEMMA BoundKept ==
  ASSUME NEW b \in Batches, BoundedRun(b), batch'[b] = batch[b]
  PROVE  BoundedRun(b)'
BY DEF BoundedRun, Leased, Exists

\* A request keeps the bound of its batch: a claim starts a run, a heartbeat
\* is within the cap or the extension, an extension starts now.
LEMMA CallBound ==
  ASSUME TypeOK, NEW b \in Batches, Call(b), BoundedRun(b)
  PROVE  BoundedRun(b)'
<1>1. /\ batch[b] \in BatchType /\ batch'[b] \in BatchType
      /\ batchNow \in Nat /\ Lease \in Nat /\ Cap \in Nat \ {0} /\ Exists(b)
  BY CallShapes, ThereIsABatch, TimesAssumption DEF TypeOK
<1>2. /\ batch[b].extUntil \in Nat /\ batch'[b].extUntil \in Nat
  BY <1>1 DEF BatchType
<1>3. CASE KeepsLease(b)
  BY <1>1, <1>3 DEF KeepsLease, BoundedRun, Leased, Exists
<1>4. ASSUME NEW at \in BatchReadings, Acquires(b, at) PROVE BoundedRun(b)'
  <2>1. /\ batch'[b].lease.exp = at + Lease /\ batch'[b].lease.since = at
        /\ at \in Nat
    BY <1>4, LeaseTypes, ReadingsAreRecent DEF Acquires
  <2> QED BY <1>1, <2>1 DEF BoundedRun
<1>5. ASSUME NEW at \in BatchReadings, Renews(b, at) PROVE BoundedRun(b)'
  <2>1. /\ batch[b].lease.since \in Nat /\ at \in Nat
        /\ batch'[b].lease.exp = at + Lease
        /\ batch'[b].lease.since = batch[b].lease.since
    BY <1>5, LeaseTypes, HeldLease, ReadingsAreRecent DEF Renews, LeaseLive
  <2>2. CASE WithinCap(b, at) /\ batch'[b].extUntil = batch[b].extUntil
    BY <1>1, <1>2, <2>1, <2>2 DEF BoundedRun, WithinCap
  <2>3. CASE \E minutes \in Extensions : batch'[b].extUntil = at + minutes
    <3>1. PICK minutes \in Extensions : batch'[b].extUntil = at + minutes
      BY <2>3
    <3>2. minutes \in Nat \ {0}
      BY TimesAssumption
    <3> QED BY <1>1, <2>1, <3>1, <3>2 DEF BoundedRun
  <2> QED BY <1>5, <2>2, <2>3 DEF Renews
<1>6. CASE Drops(b)
  BY <1>6 DEF Drops, BoundedRun, Leased
<1> QED BY <1>3, <1>4, <1>5, <1>6, CallShapes

LEMMA BoundStep == TypeOK /\ RunIsBounded /\ [BatchNext]_bvars => RunIsBounded'
<1> SUFFICES ASSUME TypeOK, RunIsBounded, [BatchNext]_bvars, NEW b \in Batches
             PROVE  BoundedRun(b)'
  BY DEF RunIsBounded, BoundedRun
<1>1. BoundedRun(b)
  BY DEF RunIsBounded, BoundedRun
<1>2. ASSUME NEW c \in Batches, Create(c) PROVE BoundedRun(b)'
  <2>1. CASE b = c
    BY <1>2, <2>1, CreateShape DEF BoundedRun, Leased
  <2>2. CASE b # c
    BY <1>1, <1>2, <2>2, CreateShape, BoundKept
  <2> QED BY <2>1, <2>2
<1>3. ASSUME NEW c \in Batches, Call(c) PROVE BoundedRun(b)'
  <2>1. CASE b = c
    BY <1>1, <1>3, <2>1, CallBound
  <2>2. CASE b # c
    BY <1>1, <1>3, <2>2, CallShapes, BoundKept
  <2> QED BY <2>1, <2>2
<1>4. ASSUME batch' = batch PROVE BoundedRun(b)'
  BY <1>1, <1>4, BoundKept
<1> QED BY <1>2, <1>3, <1>4 DEF BatchNext, ReviewChanges, BatchTick, bvars

\* Whatever renewals, extensions and reclaims follow each other, no lease
\* runs for a whole window past its cap or past its extension.
THEOREM RunsAreBounded == BatchSpec => []RunIsBounded
<1>1. BatchInit => RunIsBounded
  BY DEF BatchInit, RunIsBounded, Leased, Exists
<1> QED BY <1>1, TypesStart, TypesStep, BoundStep, PTL DEF BatchSpec

(***************************************************************************)
(* Batch leases are exclusive leases                                       *)
(***************************************************************************)
\* A step that leaves a batch's lease alone leaves its holder and time alone.
LEMMA SameLease ==
  ASSUME NEW b \in Batches, Exists(b), Exists(b)', batch'[b].lease = batch[b].lease
  PROVE  Holder(b)' = Holder(b) /\ Until(b)' = Until(b)
BY DEF Holder, Until, Leased

\* Holder and time of the batches a step does not touch.
LEMMA OthersKeep ==
  ASSUME NEW b \in Batches, batch'[b] = batch[b]
  PROVE  Holder(b)' = Holder(b) /\ Until(b)' = Until(b)
BY DEF Holder, Until, Leased, Exists

\* No lease reaches further than one window from now, so that a renewal cuts
\* it by no more than the lag of its reading; and it was claimed in the past and
\* ends after that, so that a claim over it is a later one.
InWindow(b) ==
  /\ batch[b].lease.since <= batchNow
  /\ batch[b].lease.since < batch[b].lease.exp
  /\ batch[b].lease.exp <= batchNow + Lease

WithinWindow == \A b \in Batches : Leased(b) => InWindow(b)

LEMMA WindowStep == TypeOK /\ WithinWindow /\ [BatchNext]_bvars => WithinWindow'
<1> SUFFICES ASSUME TypeOK, WithinWindow, [BatchNext]_bvars, NEW b \in Batches, Leased(b)'
             PROVE  InWindow(b)'
  BY DEF WithinWindow
<1>1. batchNow \in Nat /\ Lease \in Nat \ {0}
  BY TimesAssumption DEF TypeOK
<1>2. ASSUME batch'[b] = batch[b], batchNow' \in Nat, batchNow' >= batchNow
      PROVE  InWindow(b)'
  <2>1. Leased(b) /\ InWindow(b)
    BY <1>2 DEF WithinWindow, Leased, Exists
  <2>2. batch[b].lease.exp \in Nat /\ batch[b].lease.since \in Nat
    BY <2>1, HeldLease
  <2> QED BY <1>1, <1>2, <2>1, <2>2 DEF InWindow
<1>3. ASSUME NEW c \in Batches, Create(c) PROVE InWindow(b)'
  <2>1. b # c
    BY <1>3, CreateShape DEF Leased
  <2> QED BY <1>1, <1>2, <1>3, <2>1, CreateShape
<1>4. ASSUME NEW c \in Batches, Call(c) PROVE InWindow(b)'
  <2>1. CASE b # c
    BY <1>1, <1>2, <1>4, <2>1, CallShapes
  <2>2. ASSUME b = c, NEW at \in BatchReadings, Acquires(b, at)
        PROVE  InWindow(b)'
    <3>1. /\ batch'[b].lease.since = at /\ batchNow' = batchNow
          /\ batch'[b].lease.exp = at + Lease /\ at \in Nat /\ at <= batchNow
      BY <1>4, <2>2, LeaseTypes, CallShapes, ReadingsAreRecent DEF Acquires
    <3> QED BY <1>1, <3>1 DEF InWindow
  <2>5. ASSUME b = c, NEW at \in BatchReadings, Renews(b, at)
        PROVE  InWindow(b)'
    <3>1. /\ batch'[b].lease.since = batch[b].lease.since /\ batchNow' = batchNow
          /\ batch'[b].lease.exp = at + Lease
          /\ batch[b].lease.since \in Nat
      BY <1>4, <2>5, LeaseTypes, HeldLease, CallShapes DEF Renews, LeaseLive
    <3>2. at \in Nat /\ at <= batchNow /\ batchNow < at + Lease
      BY <2>5, ReadingsAreRecent
    <3>3. InWindow(b)
      BY <2>5 DEF Renews, LeaseLive, WithinWindow
    <3> QED BY <1>1, <3>1, <3>2, <3>3 DEF InWindow
  <2>3. ASSUME b = c, KeepsLease(b)
        PROVE  InWindow(b)'
    <3>1. Exists(b) /\ batch'[b].lease = batch[b].lease /\ batchNow' = batchNow
      BY <1>4, <2>3, CallShapes DEF KeepsLease
    <3> QED BY <3>1 DEF WithinWindow, InWindow, Leased
  <2>4. ~Drops(b)
    BY DEF Drops, Leased
  <2> QED BY <1>4, <2>1, <2>2, <2>3, <2>4, <2>5, CallShapes
<1>5. ASSUME batch' = batch, batchNow' \in {batchNow, batchNow + 1}
      PROVE  InWindow(b)'
  BY <1>1, <1>2, <1>5
<1> QED BY <1>3, <1>4, <1>5 DEF BatchNext, ReviewChanges, BatchTick, bvars

\* Every request on a batch is a step of the lease on it, or a stutter.
LEMMA CallImplements ==
  ASSUME TypeOK, WithinWindow, NEW b \in Batches, Call(b)
  PROVE  [Leases!Next]_(Leases!vars)
<1> DEFINE H == [c \in Batches |-> Holder(c)]
           U == [c \in Batches |-> Until(c)]
<1>1. /\ Exists(b) /\ Exists(b)' /\ batchNow' = batchNow /\ batchNow \in Nat /\ Lease \in Nat \ {0}
      /\ \A c \in Batches : c # b => batch'[c] = batch[c]
      /\ batch[b].lease \in LeaseType \cup {NoLease}
      /\ batch'[b].lease \in LeaseType \cup {NoLease}
  BY CallShapes, ThereIsABatch, SentinelsAssumption, TimesAssumption
     DEF Exists, TypeOK, BatchType
<1>2. \A c \in Batches : c # b => Holder(c)' = Holder(c) /\ Until(c)' = Until(c)
  BY <1>1, OthersKeep
<1>3. H' = [H EXCEPT ![b] = H'[b]] /\ U' = [U EXCEPT ![b] = U'[b]]
  BY <1>2
<1>4. H[b] = Holder(b) /\ H'[b] = Holder(b)' /\ U[b] = Until(b) /\ U'[b] = Until(b)'
  OBVIOUS
<1>5. CASE KeepsLease(b)
  <2>1. Holder(b)' = Holder(b) /\ Until(b)' = Until(b)
    BY <1>1, <1>5, SameLease DEF KeepsLease
  <2>2. H' = H /\ U' = U
    BY <1>2, <2>1
  <2> QED BY <1>1, <2>2 DEF Leases!vars
<1>6. ASSUME NEW at \in BatchReadings, Acquires(b, at) PROVE [Leases!Next]_(Leases!vars)
  <2>1. PICK a \in Agents, t \in Tokens : batch'[b].lease = NewLease(a, t, at)
    BY <1>6 DEF Acquires
  <2>2. /\ NewLease(a, t, at) # NoLease /\ NewLease(a, t, at).holder = a
        /\ NewLease(a, t, at).token = t /\ NewLease(a, t, at).exp = at + Lease
        /\ NewLease(a, t, at).since = at
    BY LeaseTypes, SentinelsAssumption
  <2>3. Holder(b)' = <<a, t, at>> /\ Until(b)' = at + Lease
    BY <1>1, <2>1, <2>2 DEF Holder, Until, Leased
  <2>4. at \in Nat /\ at <= batchNow /\ batchNow < at + Lease
    BY ReadingsAreRecent
  <2>5. Leased(b) => /\ batch[b].lease.since < batch[b].lease.exp
                     /\ ~(at < batch[b].lease.exp)
                     /\ batch[b].lease.since \in Nat /\ batch[b].lease.exp \in Nat
    BY <1>6, <2>4, HeldLease DEF Acquires, LeaseLive, WithinWindow, InWindow
  <2>6. ~(Holder(b) # NoLease /\ batchNow < Until(b))
    BY <1>1, <2>4, <2>5 DEF Holder, Until
  <2>7. Holder(b)' # Holder(b)
    <3>1. CASE Leased(b)
      <4>1. batch[b].lease.since # at
        BY <2>4, <2>5, <3>1
      <4> QED BY <2>3, <3>1, <4>1 DEF Holder
    <3>2. CASE ~Leased(b)
      BY <2>3, <2>4, <3>2, SentinelsAssumption DEF Holder
    <3> QED BY <3>1, <3>2
  <2> HIDE DEF H, U
  <2>8. Leases!Acquire(b)
    BY <1>1, <1>3, <1>4, <2>3, <2>4, <2>6, <2>7
       DEF Leases!Acquire, Leases!Held, Leases!Retimes, H, U
  <2> QED BY <2>8 DEF Leases!Next
<1>7. ASSUME NEW at \in BatchReadings, Renews(b, at) PROVE [Leases!Next]_(Leases!vars)
  <2>1. /\ Leased(b) /\ batch[b].lease \in LeaseType /\ batch[b].lease.exp > at
        /\ batch'[b].lease = Renewed(b, at)
        /\ Renewed(b, at) # NoLease /\ Renewed(b, at).exp = at + Lease
        /\ Renewed(b, at).holder = batch[b].lease.holder
        /\ Renewed(b, at).token = batch[b].lease.token
        /\ Renewed(b, at).since = batch[b].lease.since
    BY <1>7, LeaseTypes, SentinelsAssumption DEF Renews, LeaseLive
  <2>2. /\ batch[b].lease.exp \in Nat /\ batch[b].lease.exp <= batchNow + Lease
        /\ <<batch[b].lease.holder, batch[b].lease.token, batch[b].lease.since>>
          \in Agents \X Tokens \X Nat
    BY <2>1 DEF LeaseType, WithinWindow, InWindow
  <2>3. /\ Holder(b) = <<batch[b].lease.holder, batch[b].lease.token, batch[b].lease.since>>
        /\ Until(b) = batch[b].lease.exp
    BY <2>1 DEF Holder, Until
  <2>4. /\ Holder(b)' = <<batch[b].lease.holder, batch[b].lease.token, batch[b].lease.since>>
        /\ Until(b)' = at + Lease
    BY <1>1, <2>1 DEF Holder, Until, Leased
  <2>5. /\ at \in Nat /\ at <= batchNow /\ batchNow < at + Lease
        /\ batchNow <= at + Delay /\ Delay \in Nat
    BY ReadingsAreRecent
  <2>6. Holder(b) # NoLease /\ batchNow < Until(b) + Delay
    BY <1>1, <2>1, <2>2, <2>3, <2>5, SentinelsAssumption
  <2>7. H' = H
    BY <1>2, <2>3, <2>4
  <2> HIDE DEF H, U
  <2>8. Until(b)' \in Nat /\ Until(b)' > batchNow /\ Until(b)' + Delay >= Until(b)
    BY <1>1, <2>2, <2>3, <2>4, <2>5
  <2>9. Leases!Renew(b)
    BY <1>1, <1>3, <1>4, <2>6, <2>7, <2>8
       DEF Leases!Renew, Leases!Retimes, H, U
  <2> QED BY <2>9 DEF Leases!Next
<1>8. CASE Drops(b)
  <2>1. /\ Leased(b) /\ batch[b].lease \in LeaseType
    BY <1>8, HeldLease DEF Drops
  <2>2. <<batch[b].lease.holder, batch[b].lease.token, batch[b].lease.since>>
          \in Agents \X Tokens \X Nat
    BY <2>1 DEF LeaseType
  <2>3. Holder(b) # NoLease
    BY <2>1, <2>2, SentinelsAssumption DEF Holder
  <2>4. Holder(b)' = NoLease /\ Until(b)' = 0
    BY <1>8 DEF Drops, Holder, Until, Leased
  <2> HIDE DEF H, U
  <2>5. Leases!Release(b)
    BY <1>1, <1>3, <1>4, <2>3, <2>4 DEF Leases!Release, Leases!Retimes, H, U
  <2> QED BY <2>5 DEF Leases!Next
<1> QED BY <1>5, <1>6, <1>7, <1>8, CallShapes

\* A new batch is not leased: creating it changes neither holder nor time.
LEMMA CreateImplements ==
  ASSUME TypeOK, NEW b \in Batches, Create(b)
  PROVE  UNCHANGED Leases!vars
<1>1. batchNow' = batchNow /\ \A c \in Batches : c # b => batch'[c] = batch[c]
  BY CreateShape
<1>2. \A c \in Batches : c # b => Holder(c)' = Holder(c) /\ Until(c)' = Until(c)
  BY <1>1, OthersKeep
<1>3. Holder(b) = NoLease /\ Until(b) = 0
  BY CreateShape DEF Holder, Until, Leased
<1>4. Holder(b)' = NoLease /\ Until(b)' = 0
  BY CreateShape DEF Holder, Until, Leased
<1> QED BY <1>1, <1>2, <1>3, <1>4 DEF Leases!vars

LEMMA StepImplements ==
  TypeOK /\ WithinWindow /\ [BatchNext]_bvars => [Leases!Next]_(Leases!vars)
<1> SUFFICES ASSUME TypeOK, WithinWindow, [BatchNext]_bvars
             PROVE  [Leases!Next]_(Leases!vars)
  OBVIOUS
<1>1. ASSUME batch' = batch
      PROVE  /\ [b \in Batches |-> Holder(b)]' = [b \in Batches |-> Holder(b)]
             /\ [b \in Batches |-> Until(b)]' = [b \in Batches |-> Until(b)]
  BY <1>1, OthersKeep
<1>2. CASE BatchTick
  <2>1. batch' = batch /\ batchNow' = batchNow + 1 /\ batchNow \in Nat
    BY <1>2 DEF BatchTick, TypeOK
  <2>2. Leases!Advance
    BY <1>1, <2>1 DEF Leases!Advance
  <2> QED BY <2>2 DEF Leases!Next
<1>3. ASSUME NEW r \in Freezable, ReviewChanges(r) PROVE UNCHANGED Leases!vars
  BY <1>1, <1>3 DEF ReviewChanges, Leases!vars
<1>4. CASE UNCHANGED bvars
  BY <1>1, <1>4 DEF bvars, Leases!vars
<1> QED BY <1>2, <1>3, <1>4, CallImplements, CreateImplements DEF BatchNext

\* Claims, heartbeats, the admin's extension and releases, by callers with
\* whatever tokens at whatever times, implement the lease every part of the
\* program promises.
THEOREM BatchesImplementLease == BatchSpec => ImplementsLease
<1>1. BatchInit => Leases!Init
  <2> SUFFICES ASSUME BatchInit PROVE Leases!Init
    OBVIOUS
  <2>1. \A b \in Batches : Holder(b) = NoLease /\ Until(b) = 0
    BY DEF BatchInit, Holder, Until, Leased, Exists
  <2> QED BY <2>1 DEF BatchInit, Leases!Init
<1>2. BatchInit => WithinWindow
  BY DEF BatchInit, WithinWindow, Leased, Exists
<1> QED BY <1>1, <1>2, TypesStart, TypesStep, WindowStep, StepImplements, PTL
        DEF BatchSpec, ImplementsLease, Leases!Spec

-----------------------------------------------------------------------------
(* The listings.                                                             *)

ListRows == [upd : Nat, id : Nat]

\* Newest first, then by id, is a total order.
LEMMA RowsAreOrdered ==
  /\ \A p \in ListRows : ~Precedes(p, p)
  /\ \A p, q, r \in ListRows : Precedes(p, q) /\ Precedes(q, r) => Precedes(p, r)
  /\ \A p, q \in ListRows : p = q \/ Precedes(p, q) \/ Precedes(q, p)
BY DEF ListRows, Precedes

\* The rows before one.
Before(S, row) == {q \in S : Precedes(q, row)}

\* A finite set of rows is enumerated by how many of it come before.
LEMMA OrderEnumerates ==
  ASSUME NEW S \in SUBSET ListRows, IsFiniteSet(S)
  PROVE  /\ Cardinality(S) \in Nat
         /\ \A p \in S : /\ IsFiniteSet(Before(S, p))
                         /\ Cardinality(Before(S, p)) \in 0 .. Cardinality(S) - 1
         /\ \A p, q \in S : Precedes(p, q) =>
              Cardinality(Before(S, p)) < Cardinality(Before(S, q))
         /\ \A n \in 0 .. Cardinality(S) - 1 : \E p \in S : Cardinality(Before(S, p)) = n
<1>1. Cardinality(S) \in Nat
  BY FS_CardinalityType
<1>2. ASSUME NEW p \in S
      PROVE  /\ IsFiniteSet(Before(S, p))
             /\ Cardinality(Before(S, p)) \in 0 .. Cardinality(S) - 1
  <2>1. Before(S, p) \in SUBSET S /\ p \notin Before(S, p)
    BY RowsAreOrdered DEF Before
  <2>2. /\ IsFiniteSet(Before(S, p)) /\ Cardinality(Before(S, p)) <= Cardinality(S)
        /\ Cardinality(S) = Cardinality(Before(S, p)) => S = Before(S, p)
    BY <2>1, FS_Subset
  <2>3. Cardinality(Before(S, p)) \in Nat
    BY <2>2, FS_CardinalityType
  <2> QED BY <1>1, <2>1, <2>2, <2>3
<1>3. ASSUME NEW p \in S, NEW q \in S, Precedes(p, q)
      PROVE  Cardinality(Before(S, p)) < Cardinality(Before(S, q))
  <2>1. Before(S, p) \in SUBSET Before(S, q) /\ p \in Before(S, q) /\ p \notin Before(S, p)
    BY <1>3, RowsAreOrdered DEF Before
  <2>2. /\ Cardinality(Before(S, p)) <= Cardinality(Before(S, q))
        /\ Cardinality(Before(S, q)) = Cardinality(Before(S, p)) => Before(S, q) = Before(S, p)
    BY <1>2, <2>1, FS_Subset
  <2>3. Cardinality(Before(S, p)) \in Int /\ Cardinality(Before(S, q)) \in Int
    BY <1>2
  <2> QED BY <2>1, <2>2, <2>3
<1> DEFINE T == 0 .. Cardinality(S) - 1
           f == [p \in S |-> Cardinality(Before(S, p))]
<1>4. f \in [S -> T] /\ f \in Injection(S, T)
  <2>1. f \in [S -> T]
    BY <1>2
  <2>2. ASSUME NEW p \in S, NEW q \in S, f[p] = f[q] PROVE p = q
    <3>1. f[p] \in Int /\ ~Precedes(p, q) /\ ~Precedes(q, p)
      BY <1>2, <1>3, <2>2
    <3> QED BY <3>1, RowsAreOrdered
  <2> QED BY <2>1, <2>2 DEF Injection, IsInjective
<1>5. IsFiniteSet(T) /\ Cardinality(T) = Cardinality(S)
  <2>1. 0 \in Int /\ Cardinality(S) - 1 \in Int
    BY <1>1
  <2> QED BY <1>1, <2>1, FS_Interval
<1>6. f \in Surjection(S, T)
  <2> HIDE DEF f, T
  <2> QED BY <1>4, <1>5, FS_Injection
<1>7. ASSUME NEW n \in T PROVE \E p \in S : Cardinality(Before(S, p)) = n
  <2>1. PICK p \in S : f[p] = n
    BY <1>6 DEF Surjection
  <2> QED BY <2>1
<1> HIDE DEF T, f
<1> QED BY <1>1, <1>2, <1>3, <1>7 DEF T

\* A finite set of rows that is not empty has a last one.
LEMMA LastIsThere ==
  ASSUME NEW S \in SUBSET ListRows, IsFiniteSet(S), S # {}
  PROVE  LastOf(S) \in S /\ \A q \in S : q = LastOf(S) \/ Precedes(q, LastOf(S))
<1>1. Cardinality(S) \in Nat /\ Cardinality(S) # 0
  BY OrderEnumerates, FS_EmptySet
<1>2. PICK m \in S : Cardinality(Before(S, m)) = Cardinality(S) - 1
  <2>1. Cardinality(S) - 1 \in 0 .. Cardinality(S) - 1
    BY <1>1
  <2> QED BY <2>1, OrderEnumerates
<1>3. IsFiniteSet(S \ {m}) /\ Cardinality(S \ {m}) = Cardinality(S) - 1
  BY FS_RemoveElement
<1>4. Before(S, m) \in SUBSET (S \ {m})
  BY RowsAreOrdered DEF Before
<1>5. Before(S, m) = S \ {m}
  BY <1>2, <1>3, <1>4, FS_Subset
<1>6. \A q \in S : q = m \/ Precedes(q, m)
  BY <1>5 DEF Before
<1> QED BY <1>6 DEF LastOf

\* A page that holds all the rows is the last one. Of other pages the last row
\* parts what was scanned from what is left.
LEMMA PageParts ==
  ASSUME NEW S \in SUBSET ListRows, IsFiniteSet(S)
  PROVE  /\ Cardinality(S) \in Nat
         /\ Cardinality(S) <= PageSize => PageOf(S) = S
         /\ Cardinality(S) > PageSize =>
              /\ LastOf(PageOf(S)) \in PageOf(S)
              /\ \A row \in S : row \in PageOf(S) <=> ~Precedes(LastOf(PageOf(S)), row)
<1>1. PageSize \in Nat \ {0} /\ Cardinality(S) \in Nat
  BY ReadsAssumption, OrderEnumerates
<1>2. PageOf(S) = {row \in S : Cardinality(Before(S, row)) < PageSize}
  BY DEF PageOf, Before
<1>3. ASSUME Cardinality(S) <= PageSize PROVE PageOf(S) = S
  <2>1. \A row \in S : Cardinality(Before(S, row)) \in 0 .. Cardinality(S) - 1
    BY OrderEnumerates
  <2> QED BY <1>1, <1>2, <1>3, <2>1
<1>4. ASSUME Cardinality(S) > PageSize
      PROVE  /\ LastOf(PageOf(S)) \in PageOf(S)
             /\ \A row \in S : row \in PageOf(S) <=> ~Precedes(LastOf(PageOf(S)), row)
  <2> DEFINE P == PageOf(S)
             m == LastOf(P)
  <2>1. P \in SUBSET S /\ P \in SUBSET ListRows /\ IsFiniteSet(P)
    <3>1. P \in SUBSET S
      BY <1>2
    <3> HIDE DEF P
    <3> QED BY <3>1, FS_Subset
  <2>2. P # {}
    <3>1. 0 \in 0 .. Cardinality(S) - 1
      BY <1>1, <1>4
    <3>2. PICK p \in S : Cardinality(Before(S, p)) = 0
      BY <3>1, OrderEnumerates
    <3> QED BY <1>1, <1>2, <3>2
  <2> HIDE DEF P
  <2>3. m \in P /\ \A q \in P : q = m \/ Precedes(q, m)
    BY <2>1, <2>2, LastIsThere
  <2> HIDE DEF m
  <2>4. m \in S /\ Cardinality(Before(S, m)) < PageSize
    BY <1>2, <2>3 DEF P
  <2>5. ASSUME NEW row \in S, row \in P PROVE ~Precedes(m, row)
    BY <2>1, <2>3, <2>4, <2>5, RowsAreOrdered
  <2>6. ASSUME NEW row \in S, row \notin P PROVE Precedes(m, row)
    <3>1. CASE Precedes(row, m)
      <4>1. /\ Cardinality(Before(S, row)) < Cardinality(Before(S, m))
            /\ Cardinality(Before(S, row)) \in Int /\ Cardinality(Before(S, m)) \in Int
        BY <2>4, <3>1, OrderEnumerates
      <4>2. row \in P
        BY <1>1, <1>2, <2>4, <4>1 DEF P
      <4> QED BY <2>6, <4>2
    <3>2. row # m
      BY <2>3, <2>6
    <3> QED BY <2>4, <3>1, <3>2, RowsAreOrdered
  <2> QED BY <2>3, <2>5, <2>6 DEF m, P
<1> QED BY <1>1, <1>3, <1>4

\* The row of an id in a listing, of q the reviews.
RowOf(q, what, id) == IF what = "queue" THEN [upd |-> q[id].upd, id |-> id] ELSE LinkRow(id)

\* The listing would show the id, of q the reviews and of l the links.
Listed(q, l, what, id) ==
  IF what = "queue" THEN id \in QueueIds /\ q[id] # Nothing /\ q[id].imp # "reversed"
  ELSE id \in LinkIds /\ l[id] # Nothing /\ l[id] = "live"

WalkFields == {"what", "cursor", "due", "done", "seen"}

\* A row the cursor has not come to.
Ahead(s, row) == ~s.done /\ (s.cursor # Nothing => Precedes(s.cursor.payload, row))

\* What a listing owes its reader is there, and has been shown once when the
\* cursor has passed it, and else not yet.
Owes(q, l, s, id) ==
  /\ Listed(q, l, s.what, id)
  /\ s.seen[id] = IF Ahead(s, RowOf(q, s.what, id)) THEN 0 ELSE 1

WalkOK(q, l, s) ==
  /\ s = [x \in WalkFields |-> s[x]]
  /\ s.what \in {"nothing", "queue", "links"}
  /\ s.seen = [id \in QueueIds \cup LinkIds |-> s.seen[id]]
  /\ s.cursor # Nothing => s.cursor.payload \in ListRows
  /\ s.what = "nothing" => s.due = {}
  /\ \A id \in s.due : Owes(q, l, s, id)

DocumentsOK ==
  /\ queue = [r \in QueueIds |-> queue[r]]
  /\ \A r \in QueueIds : queue[r] # Nothing => queue[r].upd \in Nat
  /\ link = [l \in LinkIds |-> link[l]]
  /\ readNow \in Nat

ReadsOK ==
  /\ DocumentsOK
  /\ walk = [w \in Walkers |-> walk[w]]
  /\ \A w \in Walkers : WalkOK(queue, link, walk[w])

\* The rows of a listing are finitely many, an id has one, and what the filter
\* keeps is what the listing would show.
LEMMA RowsOfListings ==
  ASSUME DocumentsOK, NEW what \in {"queue", "links"}
  PROVE  /\ RowsNow(what) \in SUBSET ListRows /\ IsFiniteSet(RowsNow(what))
         /\ \A row \in RowsNow(what) : row = RowOf(queue, what, row.id)
         /\ \A row \in RowsNow(what) : Keeps(what, row) <=> Listed(queue, link, what, row.id)
         /\ \A id : Listed(queue, link, what, id) =>
              /\ RowOf(queue, what, id) \in RowsNow(what)
              /\ RowOf(queue, what, id).id = id
              /\ id \in QueueIds \cup LinkIds
<1>1. CASE what = "queue"
  <2> DEFINE Q == {q \in QueueIds : queue[q] # Nothing}
  <2>1. RowsNow(what) = {QueueRow(r) : r \in Q}
    BY <1>1 DEF RowsNow
  <2>2. IsFiniteSet(Q)
    <3>1. Q \in SUBSET QueueIds
      OBVIOUS
    <3> HIDE DEF Q
    <3> QED BY <3>1, ReadsAssumption, FS_Subset
  <2>3. IsFiniteSet({QueueRow(r) : r \in Q})
    <3> DEFINE f == [r \in Q |-> QueueRow(r)]
    <3>1. f \in Surjection(Q, {QueueRow(r) : r \in Q})
      BY DEF Surjection
    <3> HIDE DEF Q, f
    <3> QED BY <2>2, <3>1, FS_Surjection
  <2>4. \A r \in Q : /\ QueueRow(r) \in ListRows /\ QueueRow(r).id = r
                     /\ QueueRow(r) = RowOf(queue, what, r)
    BY <1>1, ReadsAssumption DEF DocumentsOK, QueueRow, ListRows, RowOf
  <2>5. \A row \in RowsNow(what) : row.id \in Q /\ row = QueueRow(row.id)
    BY <2>1, <2>4
  <2>6. \A row \in RowsNow(what) : Keeps(what, row) <=> Listed(queue, link, what, row.id)
    BY <1>1, <2>5 DEF Keeps, Listed
  <2>7. \A id : Listed(queue, link, what, id) => id \in Q
    BY <1>1 DEF Listed
  <2> HIDE DEF Q
  <2>8. RowsNow(what) \in SUBSET ListRows /\ IsFiniteSet(RowsNow(what))
    BY <2>1, <2>3, <2>4
  <2>9. \A id \in Q : RowOf(queue, what, id) \in RowsNow(what) /\ RowOf(queue, what, id).id = id
    BY <2>1, <2>4
  <2>10. Q \in SUBSET QueueIds
    BY DEF Q
  <2> QED BY <2>4, <2>5, <2>6, <2>7, <2>8, <2>9, <2>10
<1>2. CASE what = "links"
  <2> DEFINE L == {m \in LinkIds : link[m] # Nothing}
  <2>1. RowsNow(what) = {LinkRow(l) : l \in L}
    BY <1>2 DEF RowsNow
  <2>2. IsFiniteSet(L)
    <3>1. L \in SUBSET LinkIds
      OBVIOUS
    <3> HIDE DEF L
    <3> QED BY <3>1, ReadsAssumption, FS_Subset
  <2>3. IsFiniteSet({LinkRow(l) : l \in L})
    <3> DEFINE f == [l \in L |-> LinkRow(l)]
    <3>1. f \in Surjection(L, {LinkRow(l) : l \in L})
      BY DEF Surjection
    <3> HIDE DEF L, f
    <3> QED BY <2>2, <3>1, FS_Surjection
  <2>4. \A l \in L : LinkRow(l) \in ListRows
    BY ReadsAssumption DEF LinkRow, ListRows
  <2>5. \A l : LinkRow(l).id = l /\ LinkRow(l) = RowOf(queue, what, l)
    BY <1>2 DEF LinkRow, RowOf
  <2>6. \A row \in RowsNow(what) : row.id \in L /\ row = LinkRow(row.id)
    BY <2>1, <2>5
  <2>7. \A row \in RowsNow(what) : Keeps(what, row) <=> Listed(queue, link, what, row.id)
    BY <1>2, <2>6 DEF Keeps, Listed
  <2>8. \A id : Listed(queue, link, what, id) => id \in L
    BY <1>2 DEF Listed
  <2> HIDE DEF L
  <2>9. RowsNow(what) \in SUBSET ListRows /\ IsFiniteSet(RowsNow(what))
    BY <2>1, <2>3, <2>4
  <2>10. \A id \in L : RowOf(queue, what, id) \in RowsNow(what) /\ RowOf(queue, what, id).id = id
    BY <2>1, <2>5
  <2>11. L \in SUBSET LinkIds
    BY DEF L
  <2> QED BY <2>5, <2>6, <2>7, <2>8, <2>9, <2>10, <2>11
<1> QED BY <1>1, <1>2

LEMMA NoWalkOK ==
  ASSUME NEW q, NEW l
  PROVE  WalkOK(q, l, NoWalk)
BY DEF WalkOK, NoWalk, WalkFields

LEMMA OpenStep ==
  ASSUME ReadsOK, NEW w \in Walkers, NEW what \in {"queue", "links"}, OpenListing(w, what)
  PROVE  ReadsOK'
<1> DEFINE s == [NoWalk EXCEPT !.what = what,
                   !.due = {row.id : row \in {q \in RowsNow(what) : Keeps(what, q)}}]
<1>1. walk' = [walk EXCEPT ![w] = s] /\ UNCHANGED <<queue, link, readNow>>
  BY DEF OpenListing
<1>2. /\ s = [x \in WalkFields |-> s[x]]
      /\ s.what = what /\ s.cursor = Nothing /\ s.done = FALSE
      /\ s.due = {row.id : row \in {q \in RowsNow(what) : Keeps(what, q)}}
      /\ s.seen = [id \in QueueIds \cup LinkIds |-> 0]
  BY DEF NoWalk, WalkFields
<1> HIDE DEF s
<1>3. ASSUME NEW id \in s.due PROVE Owes(queue, link, s, id)
  <2>1. PICK row \in RowsNow(what) : Keeps(what, row) /\ row.id = id
    BY <1>2
  <2>2. Listed(queue, link, what, id) /\ id \in QueueIds \cup LinkIds
    BY <2>1, RowsOfListings DEF ReadsOK
  <2> QED BY <1>2, <2>2 DEF Owes, Ahead
<1>4. WalkOK(queue, link, s)
  BY <1>2, <1>3 DEF WalkOK
<1>5. /\ walk' = [v \in Walkers |-> walk'[v]]
      /\ \A v \in Walkers : WalkOK(queue, link, walk'[v])
  BY <1>1, <1>4 DEF ReadsOK
<1> QED BY <1>1, <1>5 DEF ReadsOK, DocumentsOK

LEMMA ReadStep ==
  ASSUME ReadsOK, NEW w \in Walkers, ReadPage(w)
  PROVE  ReadsOK'
<1> DEFINE s       == walk[w]
           after   == {row \in RowsNow(s.what) :
                         s.cursor # Nothing => Precedes(s.cursor.payload, row)}
           scanned == PageOf(after)
           kept    == {row \in scanned : Keeps(s.what, row)}
           more    == HasMore(after, kept)
           token   == SealCursor(s.what, LastOf(scanned), readNow, CursorTTL)
           count   == [id \in DOMAIN s.seen |-> IF \E row \in kept : row.id = id
                                              THEN s.seen[id] + 1 ELSE s.seen[id]]
           t       == [s EXCEPT !.seen = count, !.done = ~more,
                                !.cursor = IF more THEN token ELSE Nothing]
<1>1. /\ s.what # "nothing" /\ ~s.done
      /\ walk' = [walk EXCEPT ![w] = t] /\ UNCHANGED <<queue, link, readNow>>
  BY Zenon DEF ReadPage
<1>2. WalkOK(queue, link, s) /\ DocumentsOK /\ s.what \in {"queue", "links"}
  BY <1>1 DEF ReadsOK, WalkOK
<1>3. /\ t = [x \in WalkFields |-> t[x]]
      /\ t.what = s.what /\ t.due = s.due /\ t.seen = count /\ t.done = ~more
      /\ t.cursor = IF more THEN token ELSE Nothing
  <2>1. s = [x \in WalkFields |-> s[x]]
    BY <1>2 DEF WalkOK
  <2> HIDE DEF count, more, token, s
  <2> QED BY <2>1 DEF WalkFields
<1>4. after \in SUBSET ListRows /\ IsFiniteSet(after) /\ after \in SUBSET RowsNow(s.what)
  <2>1. after \in SUBSET RowsNow(s.what)
    OBVIOUS
  <2>2. RowsNow(s.what) \in SUBSET ListRows /\ IsFiniteSet(RowsNow(s.what))
    BY <1>2, RowsOfListings
  <2> HIDE DEF after
  <2> QED BY <2>1, <2>2, FS_Subset
<1>5. (more <=> Cardinality(after) > PageSize) /\ PageSize \in Nat
  BY ReadsAssumption DEF HasMore
<1>6. scanned \in SUBSET after
  BY DEF PageOf
<1>7. count = [id \in QueueIds \cup LinkIds |-> count[id]]
  <2>1. DOMAIN s.seen = QueueIds \cup LinkIds
    BY <1>2 DEF WalkOK
  <2> HIDE DEF kept, s
  <2> QED BY <2>1
<1>8. ASSUME more
      PROVE  /\ LastOf(scanned) \in scanned /\ LastOf(scanned) \in ListRows
             /\ \A row \in after : row \in scanned <=> ~Precedes(LastOf(scanned), row)
             /\ token # Nothing /\ token.payload = LastOf(scanned)
  <2>1. /\ LastOf(scanned) \in scanned
        /\ \A row \in after : row \in scanned <=> ~Precedes(LastOf(scanned), row)
    <3>1. Cardinality(after) > PageSize
      BY <1>5, <1>8
    <3> HIDE DEF after
    <3> QED BY <1>4, <3>1, PageParts
  <2> HIDE DEF scanned, after
  <2>2. LastOf(scanned) \in [upd : Nat, id : Nat]
    BY <1>4, <1>6, <2>1 DEF ListRows
  <2>3. readNow + CursorTTL \in Nat /\ s.what \in {"queue", "links"}
    BY <1>2, ReadsAssumption DEF DocumentsOK
  <2>4. /\ token \in [context : {"queue", "links"}, payload : [upd : Nat, id : Nat], exp : Nat]
        /\ token.payload = LastOf(scanned)
    BY <2>2, <2>3 DEF SealCursor
  <2> QED BY <2>1, <2>2, <2>4, ReadsAssumption DEF ListRows
<1>9. ASSUME ~more PROVE scanned = after
  <2>1. Cardinality(after) \in Nat
    <3> HIDE DEF after
    <3> QED BY <1>4, PageParts
  <2> HIDE DEF after, kept, scanned, more
  <2>2. Cardinality(after) <= PageSize
    BY <1>5, <1>9, <2>1
  <2> USE DEF scanned
  <2> QED BY <1>4, <2>2, PageParts
<1>10. ASSUME NEW id \in s.due PROVE Owes(queue, link, t, id)
  <2> DEFINE row == RowOf(queue, s.what, id)
  <2>1. /\ row \in RowsNow(s.what) /\ Keeps(s.what, row) /\ row.id = id
        /\ Listed(queue, link, s.what, id)
        /\ id \in QueueIds \cup LinkIds
        /\ s.seen[id] = IF Ahead(s, row) THEN 0 ELSE 1
    <3>1. Owes(queue, link, s, id)
      BY <1>2 DEF WalkOK
    <3> QED BY <1>2, <3>1, RowsOfListings DEF Owes
  <2> HIDE DEF row
  <2>2. Ahead(s, row) <=> row \in after
    BY <1>1, <2>1 DEF Ahead
  <2>3. (\E r \in kept : r.id = id) <=> row \in scanned
    <3>1. row \in scanned => row \in kept
      BY <2>1
    <3>2. ASSUME NEW r \in kept, r.id = id PROVE row \in scanned
      <4>1. r \in RowsNow(s.what) /\ r \in scanned
        BY <1>4, <1>6
      <4>2. r = RowOf(queue, s.what, id)
        BY <1>2, <3>2, <4>1, RowsOfListings
      <4> QED BY <4>1, <4>2 DEF row
    <3> QED BY <2>1, <3>1, <3>2
  <2>4. t.seen[id] = IF row \in scanned THEN s.seen[id] + 1 ELSE s.seen[id]
    <3>1. id \in DOMAIN s.seen
      BY <1>2, <2>1 DEF WalkOK
    <3> HIDE DEF t, kept, scanned, s
    <3> QED BY <1>3, <2>3, <3>1
  <2>5. t.seen[id] = IF Ahead(t, row) THEN 0 ELSE 1
    <3>1. CASE more
      <4>1. Ahead(t, row) <=> Precedes(LastOf(scanned), row)
        <5> HIDE DEF t, token, scanned, after, more
        <5> QED BY <1>3, <1>8, <3>1 DEF Ahead
      <4>2. CASE row \in after
        <5> HIDE DEF t, token, scanned, after, more, s
        <5> QED BY <1>8, <2>1, <2>2, <2>4, <3>1, <4>1, <4>2
      <4>3. CASE row \notin after
        <5>1. s.cursor # Nothing /\ ~Precedes(s.cursor.payload, row) /\ s.cursor.payload \in ListRows
          BY <1>2, <2>1, <4>3 DEF WalkOK
        <5>2. Precedes(s.cursor.payload, LastOf(scanned))
          BY <1>6, <1>8, <3>1, <5>1
        <5>3. row \in ListRows
          BY <1>2, <2>1, RowsOfListings
        <5> HIDE DEF t, token, scanned, after, more, s
        <5>4. ~Precedes(LastOf(scanned), row)
          BY <1>8, <3>1, <5>1, <5>2, <5>3, RowsAreOrdered
        <5> QED BY <1>6, <2>1, <2>2, <2>4, <4>1, <4>3, <5>4
      <4> QED BY <4>2, <4>3
    <3>2. CASE ~more
      <4> HIDE DEF t, token, scanned, after, more, s
      <4>1. ~Ahead(t, row) /\ scanned = after
        BY <1>3, <1>9, <3>2, Zenon DEF Ahead
      <4> QED BY <2>1, <2>2, <2>4, <4>1
    <3> QED BY <3>1, <3>2
  <2> QED BY <1>3, <2>1, <2>5 DEF Owes, row
<1>11. WalkOK(queue, link, t)
  <2>1. t.cursor # Nothing => t.cursor.payload \in ListRows
    <3> HIDE DEF t, token, scanned, after, more, s
    <3> QED BY <1>3, <1>8
  <2> HIDE DEF t, count, s
  <2> QED BY <1>2, <1>3, <1>7, <1>10, <2>1 DEF WalkOK
<1> HIDE DEF t, s
<1>12. walk' = [v \in Walkers |-> walk'[v]] /\ \A v \in Walkers : WalkOK(queue, link, walk'[v])
  BY <1>1, <1>11 DEF ReadsOK
<1> QED BY <1>1, <1>12 DEF ReadsOK, DocumentsOK

LEMMA CloseStep ==
  ASSUME ReadsOK, NEW w \in Walkers, CloseListing(w)
  PROVE  ReadsOK'
<1>1. walk' = [walk EXCEPT ![w] = NoWalk] /\ UNCHANGED <<queue, link, readNow>>
  BY DEF CloseListing
<1>2. walk' = [v \in Walkers |-> walk'[v]] /\ \A v \in Walkers : WalkOK(queue, link, walk'[v])
  BY <1>1, NoWalkOK DEF ReadsOK
<1> QED BY <1>1, <1>2 DEF ReadsOK, DocumentsOK

\* An edit takes the document from what the listings owe; the rows of the
\* others stay.
LEMMA EditStep ==
  ASSUME ReadsOK, DocumentsOK', NEW what \in {"queue", "links"}, NEW x,
         Untouched(what, x),
         \A r \in QueueIds : queue'[r] = queue[r] \/ (what = "queue" /\ r = x),
         \A l \in LinkIds : link'[l] = link[l] \/ (what = "links" /\ l = x)
  PROVE  ReadsOK'
<1>1. ASSUME NEW w \in Walkers PROVE WalkOK(queue', link', walk'[w])
  <2> DEFINE s == walk[w]
             t == walk'[w]
  <2>1. WalkOK(queue, link, s)
    BY DEF ReadsOK
  <2>2. /\ t = [f \in WalkFields |-> t[f]]
        /\ t.what = s.what /\ t.cursor = s.cursor /\ t.done = s.done /\ t.seen = s.seen
        /\ t.due = IF s.what = what THEN s.due \ {x} ELSE s.due
    <3>1. s = [f \in WalkFields |-> s[f]]
      BY <2>1 DEF WalkOK
    <3>2. t = [s EXCEPT !.due = IF s.what = what THEN s.due \ {x} ELSE s.due]
      BY DEF Untouched
    <3> HIDE DEF s, t
    <3> QED BY <3>1, <3>2 DEF WalkFields
  <2> HIDE DEF s, t
  <2>3. ASSUME NEW id \in t.due PROVE Owes(queue', link', t, id)
    <3>1. Owes(queue, link, s, id) /\ s.what \in {"queue", "links"} /\ (s.what = what => id # x)
      BY <2>1, <2>2, <2>3 DEF WalkOK
    <3>2. Listed(queue, link, s.what, id)
      BY <3>1 DEF Owes
    <3>3. IF s.what = "queue" THEN id \in QueueIds /\ queue'[id] = queue[id]
          ELSE id \in LinkIds /\ link'[id] = link[id]
      BY <3>1, <3>2 DEF Listed
    <3>4. Listed(queue', link', s.what, id) /\ RowOf(queue', s.what, id) = RowOf(queue, s.what, id)
      BY <3>2, <3>3 DEF Listed, RowOf
    <3> QED BY <2>2, <3>1, <3>4 DEF Owes, Ahead
  <2> QED BY <2>1, <2>2, <2>3 DEF WalkOK, t
<1>2. walk' = [w \in Walkers |-> walk'[w]]
  BY DEF Untouched
<1> QED BY <1>1, <1>2 DEF ReadsOK

LEMMA ReadsBegin == ReadInit => ReadsOK
BY NoWalkOK DEF ReadInit, ReadsOK, DocumentsOK

LEMMA ReadsStep == ReadsOK /\ [ReadNext]_wvars => ReadsOK'
<1> SUFFICES ASSUME ReadsOK, [ReadNext]_wvars PROVE ReadsOK'
  OBVIOUS
<1>1. CASE UNCHANGED wvars
  BY <1>1 DEF wvars, ReadsOK, DocumentsOK
<1>2. CASE ReadTick
  BY <1>2 DEF ReadTick, ReadsOK, DocumentsOK
<1>3. ASSUME NEW r \in QueueIds, ReviewWritten(r) PROVE ReadsOK'
  <2>1. PICK imp \in {"active", "reversed"} :
          queue' = [queue EXCEPT ![r] = [upd |-> readNow, imp |-> imp]]
    BY <1>3 DEF ReviewWritten
  <2>2. UNCHANGED <<link, readNow>> /\ Untouched("queue", r)
    BY <1>3 DEF ReviewWritten
  <2>3. DocumentsOK'
    BY <2>1, <2>2 DEF ReadsOK, DocumentsOK
  <2>4. \A q \in QueueIds : queue'[q] = queue[q] \/ q = r
    BY <2>1 DEF ReadsOK, DocumentsOK
  <2> QED BY <2>2, <2>3, <2>4, EditStep
<1>4. ASSUME NEW r \in QueueIds, ReviewPurged(r) PROVE ReadsOK'
  <2>1. /\ queue' = [queue EXCEPT ![r] = Nothing]
        /\ UNCHANGED <<link, readNow>> /\ Untouched("queue", r)
    BY <1>4 DEF ReviewPurged
  <2>2. DocumentsOK'
    BY <2>1 DEF ReadsOK, DocumentsOK
  <2>3. \A q \in QueueIds : queue'[q] = queue[q] \/ q = r
    BY <2>1 DEF ReadsOK, DocumentsOK
  <2> QED BY <2>1, <2>2, <2>3, EditStep
<1>5. ASSUME NEW l \in LinkIds, LinkWritten(l) PROVE ReadsOK'
  <2>1. /\ link' = [link EXCEPT ![l] = IF @ = "live" THEN "retired" ELSE "live"]
        /\ UNCHANGED <<queue, readNow>> /\ Untouched("links", l)
    BY <1>5 DEF LinkWritten
  <2>2. DocumentsOK'
    BY <2>1 DEF ReadsOK, DocumentsOK
  <2>3. \A m \in LinkIds : link'[m] = link[m] \/ m = l
    BY <2>1 DEF ReadsOK, DocumentsOK
  <2> QED BY <2>1, <2>2, <2>3, EditStep
<1> QED BY <1>1, <1>2, <1>3, <1>4, <1>5, OpenStep, ReadStep, CloseStep DEF ReadNext

\* A reader who comes to the end of a listing (list_reviews and
\* list_evidence_links) has seen everything that was there all along and was not
\* touched, each once, whatever was edited, reversed, purged or unlinked between
\* its pages.
THEOREM WalksMissNothing == ReadSpec => []WalkMissesNothing
<1>1. ReadsOK => WalkMissesNothing
  <2> SUFFICES ASSUME ReadsOK, NEW w \in Walkers, walk[w].done, NEW id \in walk[w].due
               PROVE  walk[w].seen[id] = 1
    BY Zenon DEF WalkMissesNothing
  <2>1. Owes(queue, link, walk[w], id)
    BY DEF ReadsOK, WalkOK
  <2>2. ~Ahead(walk[w], RowOf(queue, walk[w].what, id))
    BY Zenon DEF Ahead
  <2> QED BY <2>1, <2>2 DEF Owes
<1> QED BY <1>1, ReadsBegin, ReadsStep, PTL DEF ReadSpec
=============================================================================

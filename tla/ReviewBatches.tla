---------------------------- MODULE ReviewBatches ----------------------------
(***************************************************************************)
(* Remediation batches of the review console                               *)
(* (data_pipeline/ticket_review_repository.py): a set of reviews frozen at *)
(* their versions, leased to an agent who proposes a remedy, verified by a *)
(* human. Every method is one Firestore transaction and one action here,   *)
(* judged and stamped by `at`, the reading of the clock the method took    *)
(* before the transaction, which Firestore may have retried since.         *)
(* Callers are the most general ones: any role, any token, any time. A     *)
(* refused or replayed call changes nothing and is a stuttering step.      *)
(***************************************************************************)
EXTENDS ReviewContract, FiniteSets

CONSTANTS
  Batches,          \* batch ids
  Freezable,        \* reviews that can be frozen
  Agents,           \* e-mail addresses of agents, the possible holders
  Tokens,           \* lease tokens an agent may make up
  BatchKeys,        \* idempotency keys a caller may send
  NoLease,          \* no lease on the batch
  Lease,            \* REMEDIATION_LEASE_S
  Cap,              \* REMEDIATION_MAX_CONTINUOUS_LEASE_S
  Extensions,       \* lengths an admin may grant, 1..MAX_LEASE_EXTENSION_MINUTES
  MaxBatchNow,      \* bound: the clock
  MaxBatchVersion,  \* bound: versions of a batch
  MaxReview         \* bound: versions of a review

ASSUME TimesAssumption ==
  /\ Lease \in Nat \ {0} /\ Cap \in Nat \ {0} /\ KeyTTL \in Nat \ {0}
  /\ Delay \in Nat /\ Delay < Lease    \* a transaction against 15 minutes
  /\ Extensions \subseteq Nat \ {0}
  /\ MaxBatchNow \in Nat /\ MaxBatchVersion \in Nat /\ MaxReview \in Nat

VARIABLES
  batch,      \* remediation_batches/{id}, or Absent
  items,      \* remediation_batches/{id}/items: review -> frozen version
  reviewVer,  \* version of each review, 0 when absent or purged
  batchKeys,  \* idempotency_keys/{key}: digest of the request and expiry
  batchNow

bvars == <<batch, items, reviewVer, batchKeys, batchNow>>

Exists(b) == batch[b] # Absent

Leased(b) == Exists(b) /\ batch[b].lease # NoLease

\* The readings a transaction that commits now may have been given.
BatchReadings == {t \in 0 .. batchNow : batchNow - t <= Delay}

\* Mutant of LeaseLive: off by one.
LeaseLongLive(b, at) == Leased(b) /\ batch[b].lease.exp > at + 1

\* _live for a lease: it is over at the instant it expires.
LeaseLive(b, at) == Leased(b) /\ batch[b].lease.exp > at

\* _assert_lease: the token and the holder match and the time is not over.
Holds(a, t, b, at) ==
  /\ LeaseLive(b, at)
  /\ batch[b].lease.token = t
  /\ batch[b].lease.holder = a

NewLease(a, t, at) == [holder |-> a, token |-> t, exp |-> at + Lease, since |-> at]

\* Renewal keeps the holder and the start of the continuous run.
Renewed(b, at) == [batch[b].lease EXCEPT !.exp = at + Lease]

(***************************************************************************)
(* Idempotency: a key that is stored and live answers the call, with the   *)
(* stored result or, for another request, with a conflict. Either way the  *)
(* transaction writes nothing.                                             *)
(***************************************************************************)
BatchKeyLive(k, at) == batchKeys[k] # Absent /\ batchKeys[k].exp > at

ClaimKey(k, at) == k # NoKey => ~BatchKeyLive(k, at)

RecordBatchKey(k, digest, at) ==
  batchKeys' = IF k = NoKey THEN batchKeys
               ELSE [batchKeys EXCEPT ![k] = [digest |-> digest, exp |-> at + KeyTTL]]

\* A parent write: fields of the batch change, its version moves by one.
Write(b, fields) ==
  batch' = [batch EXCEPT ![b] =
             [f \in DOMAIN batch[b] |->
                IF f = "ver" THEN batch[b].ver + 1
                ELSE IF f \in DOMAIN fields THEN fields[f] ELSE batch[b][f]]]

(***************************************************************************)
(* Operations                                                              *)
(***************************************************************************)
BatchInit ==
  /\ batch = [b \in Batches |-> Absent]
  /\ items = [b \in Batches |-> <<>>]
  /\ reviewVer = [r \in Freezable |-> 1]
  /\ batchKeys = [k \in BatchKeys |-> Absent]
  /\ batchNow = 0

\* create_batch: the caller names (review, version) pairs; each must be the
\* review's version now.
CreateBatch(b, refs, role, k, at) ==
  /\ ~Exists(b)
  /\ role \in {"admin", "reviewer"}
  /\ DOMAIN refs # {}
  /\ ClaimKey(k, at)
  /\ \A r \in DOMAIN refs : reviewVer[r] # 0 /\ reviewVer[r] = refs[r]
  /\ batch' = [batch EXCEPT ![b] =
                [status |-> "draft", ver |-> 1, lease |-> NoLease,
                 work |-> FALSE, granted |-> 0, extUntil |-> 0]]
  /\ items' = [items EXCEPT ![b] = refs]
  /\ RecordBatchKey(k, <<"create_batch", refs>>, at)
  /\ UNCHANGED <<reviewVer, batchNow>>

\* The status a claim starts from: a lease whose time is over is first
\* recorded as an expiry, an edge of its own.
ClaimableFrom(b) ==
  IF Leased(b) THEN BatchEdge(batch[b].status, "expired")
                    /\ BatchEdge("expired", "claimed")
               ELSE BatchEdge(batch[b].status, "claimed")

\* claim_batch, by an agent with a token of its own choice.
Claim(b, a, t, k, at) ==
  /\ Exists(b)
  /\ ClaimKey(k, at)
  /\ ~LeaseLive(b, at)
  /\ ClaimableFrom(b)
  /\ Write(b, [status |-> "claimed", lease |-> NewLease(a, t, at)])
  /\ RecordBatchKey(k, <<"claim_batch", b, t>>, at)
  /\ UNCHANGED <<items, reviewVer, batchNow>>

\* Mutant of WithinCap: an extension never ends.
WithinCapOnceExtended(b, at) ==
  at < batch[b].lease.since + Cap \/ batch[b].extUntil # 0

\* Past the cap only an admin's extension, while it runs, lets a renewal by.
WithinCap(b, at) ==
  \/ at < batch[b].lease.since + Cap
  \/ batch[b].extUntil # 0 /\ at < batch[b].extUntil

\* heartbeat_batch. The expected version is the version now; any other is
\* refused.
Heartbeat(b, a, t, k, at) ==
  /\ ClaimKey(k, at)
  /\ Holds(a, t, b, at)
  /\ WithinCap(b, at)
  /\ Write(b, [lease |-> Renewed(b, at)])
  /\ RecordBatchKey(k, <<"heartbeat_batch", b, batch[b].ver>>, at)
  /\ UNCHANGED <<items, reviewVer, batchNow>>

\* extend_lease: once per batch, by an admin, only while the lease runs.
ExtendLease(b, minutes, k, at) ==
  /\ ClaimKey(k, at)
  /\ Exists(b)
  /\ batch[b].granted = 0
  /\ LeaseLive(b, at)
  /\ Write(b, [lease |-> Renewed(b, at), granted |-> 1, extUntil |-> at + minutes])
  /\ RecordBatchKey(k, <<"extend_lease", b, batch[b].ver, minutes>>, at)
  /\ UNCHANGED <<items, reviewVer, batchNow>>

\* Who patches: a lease-holding agent, or a human without a token.
BatchPatchAllowed(b, role, a, t, at) ==
  \/ role = "agent" /\ Holds(a, t, b, at)
  \/ role \in {"admin", "reviewer"}

\* The fields a request updates, as its digest sees them. The transaction
\* function adds the new status to the very dictionary it digests, so the
\* second attempt of a transaction Firestore retries digests one field more.
BatchPatchDigest(b, move, adds, again) ==
  <<"patch_batch", b, batch[b].ver, move,
    (IF adds THEN {"work"} ELSE {})
      \cup (IF again /\ move \notin {NoMove, batch[b].status} THEN {"status"} ELSE {})>>

\* patch_batch: a status move, durable work, or both. again: this commit is
\* the second attempt of the transaction.
PatchBatch(b, role, a, t, move, adds, again, k, at) ==
  /\ Exists(b)
  /\ ClaimKey(k, at)
  /\ again => k # NoKey    \* it makes no other difference
  /\ BatchPatchAllowed(b, role, a, t, at)
  /\ move \notin {NoMove, batch[b].status} =>
       BatchMove(batch[b].status, move, role, role = "agent")
  /\ Write(b, [status |-> IF move = NoMove THEN batch[b].status ELSE move,
               work |-> batch[b].work \/ adds])
  /\ RecordBatchKey(k, BatchPatchDigest(b, move, adds, again), at)
  /\ UNCHANGED <<items, reviewVer, batchNow>>

\* Every frozen review is there and still has its frozen version.
Undrifted(b) ==
  \A r \in DOMAIN items[b] : reviewVer[r] # 0 /\ reviewVer[r] = items[b][r]

\* release_batch: the holder gives the lease up. Back to ready only before
\* any durable work and while nothing drifted. The edge is not looked up in
\* the table of transitions.
ReleaseBatch(b, a, t, disposition, k, at) ==
  /\ ClaimKey(k, at)
  /\ Holds(a, t, b, at)
  /\ disposition \in {"ready", "blocked"}
  /\ disposition = "ready" => ~batch[b].work /\ Undrifted(b)
  /\ Write(b, [status |-> disposition, lease |-> NoLease])
  /\ RecordBatchKey(k, <<"release_batch", b, batch[b].ver, disposition>>, at)
  /\ UNCHANGED <<items, reviewVer, batchNow>>

\* Any committed write of the review store to a review moves its version; a
\* purge takes the review away.
ReviewChanges(r) ==
  /\ reviewVer[r] # 0
  /\ \E v \in {0, reviewVer[r] + 1} :
       v <= MaxReview /\ reviewVer' = [reviewVer EXCEPT ![r] = v]
  /\ UNCHANGED <<batch, items, batchKeys, batchNow>>

BatchTick ==
  /\ batchNow < MaxBatchNow
  /\ batchNow' = batchNow + 1
  /\ UNCHANGED <<batch, items, reviewVer, batchKeys>>

\* The requests a caller may make of an existing batch.
Call(b) ==
  /\ Exists(b) /\ batch[b].ver < MaxBatchVersion
  /\ \E k \in BatchKeys \cup {NoKey}, at \in BatchReadings :
     \/ \E a \in Agents, t \in Tokens :
          \/ Claim(b, a, t, k, at)
          \/ Heartbeat(b, a, t, k, at)
          \/ \E d \in {"ready", "blocked"} : ReleaseBatch(b, a, t, d, k, at)
          \/ \E move \in BatchStatuses \cup {NoMove}, adds, again \in BOOLEAN :
               PatchBatch(b, "agent", a, t, move, adds, again, k, at)
     \/ \E minutes \in Extensions : ExtendLease(b, minutes, k, at)
     \/ \E role \in {"reviewer", "admin"}, move \in BatchStatuses \cup {NoMove},
           adds, again \in BOOLEAN :
          PatchBatch(b, role, NoLease, NoLease, move, adds, again, k, at)

Create(b) ==
  \E S \in SUBSET Freezable, role \in {"admin", "reviewer"}, k \in BatchKeys \cup {NoKey},
     at \in BatchReadings :
    CreateBatch(b, [r \in S |-> reviewVer[r]], role, k, at)

BatchNext ==
  \/ BatchTick
  \/ \E r \in Freezable : ReviewChanges(r)
  \/ \E b \in Batches : Create(b) \/ Call(b)

BatchSpec == BatchInit /\ [][BatchNext]_bvars

-----------------------------------------------------------------------------
(***************************************************************************)
(* Properties                                                              *)
(***************************************************************************)
LeaseType == [holder : Agents, token : Tokens, exp : Nat, since : Nat]

BatchType ==
  [status : BatchStatuses, ver : Nat, lease : LeaseType \cup {NoLease},
   work : BOOLEAN, granted : {0, 1}, extUntil : Nat]

\* The sentinels are no documents, no leases and no holders.
ASSUME SentinelsAssumption ==
  /\ Absent \notin BatchType
  /\ NoLease \notin LeaseType /\ NoLease \notin Agents \X Tokens \X Nat

\* Every document has its shape.
TypeOK ==
  /\ batch \in [Batches -> BatchType \cup {Absent}]
  /\ items \in [Batches -> UNION {[S -> Nat] : S \in SUBSET Freezable}]
  /\ reviewVer \in [Freezable -> Nat]
  /\ batchNow \in Nat

\* However renewals, the admin's extension and reclaims follow each other, a
\* lease never runs on for a whole window past its cap or past the extension
\* (heartbeat_batch against continuous_cap_reached, extend_lease).
RunIsBounded ==
  \A b \in Batches : Leased(b) =>
    \/ batch[b].lease.exp < batch[b].lease.since + Cap + Lease
    \/ batch[b].lease.exp < batch[b].extUntil + Lease

\* Who holds the lease of a batch, and until when.  A token is the client's and
\* may come again; the time of the claim tells the two apart.
Holder(b) ==
  IF Leased(b) THEN <<batch[b].lease.holder, batch[b].lease.token, batch[b].lease.since>>
  ELSE NoLease

Until(b) == IF Leased(b) THEN batch[b].lease.exp ELSE 0

\* Batch leases keep the promise of every lease, with the lag of a clock read
\* before the transaction: claims, heartbeats, extensions and releases by
\* callers with stale tokens never displace a holder within its time, who
\* takes over an elapsed lease is another one, and a lease that elapsed is
\* prolonged only within Delay of its end, while nobody took it over.
Leases ==
  INSTANCE ExclusiveLease WITH
    Things <- Batches, Holders <- Agents \X Tokens \X Nat, Nobody <- NoLease,
    holder <- [b \in Batches |-> Holder(b)],
    until  <- [b \in Batches |-> Until(b)],
    clock  <- batchNow, Lag <- Delay

ImplementsLease == Leases!Spec

\* extend_lease, as its comment has it: "An elapsed lease is reclaimed, never
\* extended". It is judged by a reading from before the transaction, and the
\* commit of a retry may come after the end of the lease.
ElapsedIsNotExtended ==
  [][\A b \in Batches :
       Exists(b) /\ batch'[b].granted # batch[b].granted => LeaseLive(b, batchNow)]_bvars

\* completed and cancelled have no way out in the table of batch transitions.
TerminalBatchIsFinal ==
  [][\A b \in Batches :
       Exists(b) /\ BatchTransitions[batch[b].status] = {}
         => batch'[b].status = batch[b].status]_bvars

\* A batch that is ready and that nobody holds can be claimed, as the table
\* of batch transitions says of ready.
ReadyIsClaimable ==
  \A b \in Batches :
    Exists(b) /\ batch[b].status = "ready" /\ ~LeaseLive(b, batchNow) => ClaimableFrom(b)
=============================================================================

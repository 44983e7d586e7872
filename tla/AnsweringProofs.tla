--------------------------- MODULE AnsweringProofs ----------------------------
(* Proofs about what an answer is made of, for every configuration: what a   *)
(* call to DevRev brings back and what it costs, where an inquiry is routed, *)
(* what lets the extraction of required data begin, what a context leaves    *)
(* out and when an answer that lacks data may proceed all the same.          *)
EXTENDS DevRevClient, RagRetrieval, RagAnswer, FiniteSetTheorems, FunctionTheorems,
        SequenceTheorems, WellFoundedInduction, TLAPS

\* The fields of a call.
Fields == {"op", "pc", "strict", "parts", "cursor", "requested", "buffer", "next", "items",
           "pages", "attempt", "requests", "waited", "truncated", "partial", "outcome"}

\* A function with the fields of a call.
HasFields(k) == k = [x \in Fields |-> k[x]]

\* Every call has its fields.
Shaped == call = [c \in Callers |-> call[c]] /\ \A c \in Callers : HasFields(call[c])

LEMMA NoCallShaped == HasFields(NoCall)
BY DEF HasFields, NoCall, Fields

\* An update of a call replaces the fields it names and no other.
LEMMA UpdateFields ==
  ASSUME Shaped, NEW c \in Callers, NEW f, DOMAIN f \subseteq Fields, Update(c, f)
  PROVE  /\ Shaped'
         /\ \A d \in Callers \ {c} : call'[d] = call[d]
         /\ \A x \in Fields : call'[c][x] = IF x \in DOMAIN f THEN f[x] ELSE call[c][x]
<1>1. DOMAIN call[c] = Fields /\ DOMAIN call = Callers
  BY DEF Shaped, HasFields
<1>2. call' = [call EXCEPT ![c] = [x \in Fields |-> IF x \in DOMAIN f THEN f[x] ELSE call[c][x]]]
  BY <1>1 DEF Update
<1> QED BY <1>1, <1>2 DEF Shaped, HasFields

-----------------------------------------------------------------------------
(* What a call costs.                                                        *)

\* What n pages may wait.
Waits(n) == n * ((MaxRetries - 1) * DelayCap)

\* The pages a call may ask for.
PagesOf(k) == IF k.op = "walk" THEN PageGuard ELSE 1

\* What was spent before the page under way, and what is spent on it.
CostOK(k) ==
  /\ k.pages \in Nat /\ k.attempt \in 1 .. MaxRetries
  /\ k.requests \in Int /\ k.waited \in Int
  /\ k.pages <= PagesOf(k)
  /\ k.pc = "send" =>
       /\ k.pages < PagesOf(k)
       /\ k.requests <= k.pages * MaxRetries + (k.attempt - 1)
       /\ k.waited <= Waits(k.pages) + (k.attempt - 1) * DelayCap
  /\ k.pc = "yield" =>
       /\ k.op = "walk"
       /\ k.attempt = 1
       /\ k.requests <= k.pages * MaxRetries
       /\ k.waited <= Waits(k.pages)
  /\ k.requests <= PagesOf(k) * MaxRetries
  /\ k.waited <= Waits(PagesOf(k))

\* One page more costs no more than its attempts and the pauses between them.
LEMMA OnePageMore ==
  ASSUME DevRevAssumption, NEW n \in Nat, NEW p \in Nat, n < p, NEW a \in 1 .. MaxRetries
  PROVE  /\ n * MaxRetries + a <= (n + 1) * MaxRetries
         /\ (n + 1) * MaxRetries <= p * MaxRetries
         /\ Waits(n) + (a - 1) * DelayCap <= Waits(n + 1)
         /\ Waits(n + 1) <= Waits(p)
         /\ n * MaxRetries \in Nat /\ (n + 1) * MaxRetries \in Nat /\ p * MaxRetries \in Nat
         /\ Waits(n) \in Nat /\ Waits(n + 1) \in Nat /\ Waits(p) \in Nat
         /\ (a - 1) * DelayCap \in Nat
<1>1. MaxRetries \in Nat \ {0} /\ DelayCap \in Nat \ {0}
  BY DEF DevRevAssumption
<1> DEFINE W == (MaxRetries - 1) * DelayCap
<1>2. W \in Nat /\ (a - 1) * DelayCap <= W /\ (a - 1) * DelayCap \in Nat
  BY <1>1
<1>3. ASSUME NEW u \in Nat, NEW m \in Nat, NEW q \in Nat, m < q
      PROVE  (m + 1) * u = m * u + u /\ (m + 1) * u <= q * u /\ m * u \in Nat /\ q * u \in Nat
  <2>1. m * u \in Nat /\ q * u \in Nat /\ (m + 1) * u = m * u + u
    OBVIOUS
  <2>2. PICK r \in Nat : q = (m + 1) + r
    <3>1. q - (m + 1) \in Nat /\ q = (m + 1) + (q - (m + 1))
      BY <1>3
    <3> QED BY <3>1
  <2>3. r * u \in Nat /\ q * u = (m + 1) * u + r * u
    BY <2>2
  <2> QED BY <2>1, <2>3
<1>4. MaxRetries \in Nat /\ n + 1 \in Nat
  BY <1>1
<1>5. Waits(n) = n * W /\ Waits(n + 1) = (n + 1) * W /\ Waits(p) = p * W
  BY DEF Waits
<1> HIDE DEF W
<1>6. /\ (n + 1) * MaxRetries = n * MaxRetries + MaxRetries
      /\ (n + 1) * MaxRetries <= p * MaxRetries
      /\ n * MaxRetries \in Nat /\ p * MaxRetries \in Nat
  BY <1>3, <1>4
<1>7. /\ (n + 1) * W = n * W + W
      /\ (n + 1) * W <= p * W
      /\ n * W \in Nat /\ p * W \in Nat
  BY <1>2, <1>3
<1>8. /\ Waits(n) + (a - 1) * DelayCap <= Waits(n + 1) /\ Waits(n + 1) <= Waits(p)
      /\ Waits(n) \in Nat /\ Waits(n + 1) \in Nat /\ Waits(p) \in Nat
  BY <1>2, <1>5, <1>7
<1>9. n * MaxRetries + a <= (n + 1) * MaxRetries /\ (n + 1) * MaxRetries \in Nat
  BY <1>1, <1>6
<1> QED BY <1>2, <1>6, <1>8, <1>9

\* A call that begins owes nothing.
LEMMA BeginCost ==
  ASSUME DevRevAssumption, NEW k, k.op \in Ops \cup {"none"}, k.pc \in {"send", "idle"},
         k.pages = 0, k.attempt = 1, k.requests = 0, k.waited = 0
  PROVE  CostOK(k)
<1>1. MaxRetries \in Nat \ {0} /\ DelayCap \in Nat \ {0} /\ PagesOf(k) \in Nat \ {0}
  BY DEF DevRevAssumption, PagesOf
<1>2. /\ Waits(0) \in Nat /\ 0 * MaxRetries \in Nat
      /\ PagesOf(k) * MaxRetries \in Nat /\ Waits(PagesOf(k)) \in Nat
  BY <1>1, OnePageMore
<1>3. (1 - 1) * DelayCap = 0
  BY <1>1
<1> QED BY <1>1, <1>2, <1>3 DEF CostOK

\* A delay is capped.
LEMMA DelayIsCapped ==
  ASSUME DevRevAssumption, NEW a \in Nat, NEW d \in Delays(a)
  PROVE  d \in Int /\ d <= DelayCap
<1>1. DelayCap \in Nat
  BY DEF DevRevAssumption
<1>2. PICK e \in {0, DelayCap + 1} \cup Backoff(a) .. 2 * Backoff(a) : d = AtMostCap(e)
  BY DEF Delays
<1>3. e \in Int
  BY <1>1, <1>2
<1> QED BY <1>1, <1>2, <1>3 DEF AtMostCap

-----------------------------------------------------------------------------
(* What a page brings.                                                       *)

\* A finite set of numbers is enumerated by how many of it are less.
LEMMA CountingEnumerates ==
  ASSUME NEW I \in SUBSET Nat, IsFiniteSet(I)
  PROVE  /\ Cardinality(I) \in Nat
         /\ \A i \in I : Cardinality({j \in I : j < i}) \in 0 .. Cardinality(I) - 1
         /\ \A n \in 1 .. Cardinality(I) :
              \E i \in I : Cardinality({j \in I : j < i}) = n - 1
         /\ \A i, k \in I : Cardinality({j \in I : j < i}) = Cardinality({j \in I : j < k}) => i = k
<1> DEFINE Below(i) == {j \in I : j < i}
<1>1. Cardinality(I) \in Nat
  BY FS_CardinalityType
<1>2. ASSUME NEW i \in I PROVE IsFiniteSet(Below(i)) /\ Cardinality(Below(i)) \in 0 .. Cardinality(I) - 1
  <2>1. Below(i) \in SUBSET I /\ i \notin Below(i)
    OBVIOUS
  <2>2. /\ IsFiniteSet(Below(i)) /\ Cardinality(Below(i)) <= Cardinality(I)
        /\ Cardinality(I) = Cardinality(Below(i)) => I = Below(i)
    BY <2>1, FS_Subset
  <2>3. Cardinality(Below(i)) \in Nat
    BY <2>2, FS_CardinalityType
  <2> QED BY <1>1, <2>1, <2>2, <2>3
<1>3. ASSUME NEW i \in I, NEW k \in I, i < k
      PROVE  Cardinality(Below(i)) # Cardinality(Below(k))
  <2>1. Below(i) \in SUBSET Below(k) /\ i \in Below(k) /\ i \notin Below(i)
    <3>1. i \in Nat /\ k \in Nat /\ \A j \in Nat : j < i => j < k
      BY <1>3
    <3>2. Below(i) \subseteq Below(k)
      BY <3>1
    <3>3. i \in Below(k) /\ i \notin Below(i)
      BY <1>3, <3>1
    <3> QED BY <3>2, <3>3
  <2>2. Cardinality(Below(k)) = Cardinality(Below(i)) => Below(k) = Below(i)
    BY <1>2, <2>1, FS_Subset
  <2> QED BY <2>1, <2>2
<1>4. ASSUME NEW i \in I, NEW k \in I, Cardinality(Below(i)) = Cardinality(Below(k)) PROVE i = k
  <2>1. ~(i < k) /\ ~(k < i)
    BY <1>3, <1>4
  <2> QED BY <2>1
<1> DEFINE T == 0 .. Cardinality(I) - 1
           f == [i \in I |-> Cardinality(Below(i))]
<1>5. f \in [I -> T] /\ f \in Injection(I, T)
  BY <1>2, <1>4 DEF Injection, IsInjective
<1>6. IsFiniteSet(T) /\ Cardinality(T) = Cardinality(I)
  <2>1. 0 \in Int /\ Cardinality(I) - 1 \in Int
    BY <1>1
  <2> QED BY <1>1, <2>1, FS_Interval
<1>7. f \in Surjection(I, T)
  <2> HIDE DEF f, T
  <2> QED BY <1>5, <1>6, FS_Injection
<1>8. ASSUME NEW n \in 1 .. Cardinality(I) PROVE \E i \in I : Cardinality(Below(i)) = n - 1
  <2>1. n - 1 \in T
    BY <1>1
  <2>2. PICK i \in I : f[i] = n - 1
    BY <1>7, <2>1 DEF Surjection
  <2> QED BY <2>2
<1> HIDE DEF T, f
<1> QED BY <1>1, <1>2, <1>4, <1>8

\* What is kept of a page are its good rows.
LEMMA KeptRows ==
  ASSUME NEW op, NEW rows \in Seq(Rows)
  PROVE  /\ Kept(op, rows) \in Seq(Rows)
         /\ {Kept(op, rows)[i].id : i \in DOMAIN Kept(op, rows)} = Good(op, rows)
<1> DEFINE at == {i \in DOMAIN rows : Keeps(op, rows[i])}
           before(i) == Cardinality({j \in at : j < i})
           pick(n) == CHOOSE i \in at : before(i) = n - 1
<1>1. at \in SUBSET (1 .. Len(rows)) /\ Len(rows) \in Nat /\ \A i \in at : rows[i] \in Rows
  OBVIOUS
<1>2. IsFiniteSet(at) /\ at \in SUBSET Nat
  <2>1. IsFiniteSet(1 .. Len(rows)) /\ (1 .. Len(rows)) \subseteq Nat
    BY <1>1, FS_Interval
  <2> HIDE DEF at
  <2> QED BY <1>1, <2>1, FS_Subset
<1>3. Kept(op, rows) = [n \in 1 .. Cardinality(at) |-> rows[pick(n)]]
  BY Zenon DEF Kept
<1>4. Good(op, rows) = {rows[i].id : i \in at}
  BY Zenon DEF Good
<1> HIDE DEF at
<1>5. /\ Cardinality(at) \in Nat
      /\ \A i \in at : before(i) \in 0 .. Cardinality(at) - 1
      /\ \A n \in 1 .. Cardinality(at) : \E i \in at : before(i) = n - 1
      /\ \A i, k \in at : before(i) = before(k) => i = k
  BY <1>2, CountingEnumerates
<1> HIDE DEF before
<1>6. \A n \in 1 .. Cardinality(at) : pick(n) \in at /\ before(pick(n)) = n - 1
  BY <1>5
<1>7. \A i \in at : before(i) + 1 \in 1 .. Cardinality(at) /\ pick(before(i) + 1) = i
  <2> TAKE i \in at
  <2>1. before(i) + 1 \in 1 .. Cardinality(at)
    BY <1>5
  <2>2. pick(before(i) + 1) \in at /\ before(pick(before(i) + 1)) = (before(i) + 1) - 1
    BY <1>6, <2>1
  <2>3. (before(i) + 1) - 1 = before(i)
    BY <1>5
  <2> HIDE DEF pick
  <2> QED BY <1>5, <2>1, <2>2, <2>3
<1> HIDE DEF pick
<1>8. Kept(op, rows) \in Seq(Rows) /\ DOMAIN Kept(op, rows) = 1 .. Cardinality(at)
  <2>1. Kept(op, rows) \in [1 .. Cardinality(at) -> Rows]
    BY <1>1, <1>3, <1>6
  <2> QED BY <1>5, <2>1, SeqDef
<1>9. ASSUME NEW n \in 1 .. Cardinality(at) PROVE Kept(op, rows)[n].id \in Good(op, rows)
  BY <1>3, <1>4, <1>6
<1>10. ASSUME NEW i \in at
       PROVE  \E n \in DOMAIN Kept(op, rows) : Kept(op, rows)[n].id = rows[i].id
  BY <1>3, <1>7
<1> QED BY <1>4, <1>8, <1>9, <1>10

-----------------------------------------------------------------------------
(* What a call says of what it brings.                                       *)

Waiting(k) == {k.buffer[i].id : i \in DOMAIN k.buffer}

Unflagged(k) == ~k.truncated /\ ~k.partial

\* Of the good rows that were sent to an unflagged call each is shown or waits
\* to be shown; none waits at the end.
FullOK(k, sent) ==
  /\ k.items \in Seq(Rows) /\ k.buffer \in Seq(Rows)
  /\ k.op \in Ops \cup {"none"}
  /\ k.truncated \in BOOLEAN /\ k.partial \in BOOLEAN
  /\ k.op = "walk" => IsFiniteSet(Shown(k)) /\ Cardinality(Shown(k)) = Len(k.items)
  /\ k.pc = "send" => k.outcome = "none" /\ k.buffer = <<>>
  /\ k.pc = "send" /\ k.op # "walk" => sent = {}
  /\ k.pc = "yield" => k.op = "walk" /\ k.outcome = "none"
  /\ k.pc \in {"send", "yield"} /\ k.op = "walk" /\ Unflagged(k) =>
       sent \subseteq Shown(k) \cup Waiting(k)
  /\ k.pc = "done" /\ k.outcome = "ok" /\ k.op # "ticket" /\ Unflagged(k) => sent \subseteq Shown(k)
  /\ k.pc \in {"idle", "send", "yield", "done"}
  /\ k.outcome \in {"none", "ok", "error"}
  /\ k.outcome # "none" => k.pc = "done"

CallOK(k, sent) == CostOK(k) /\ FullOK(k, sent)

\* Only the call of c is under way.
OnlyOf(c) == \A d \in Callers \ {c} : call'[d] = call[d] /\ delivered'[d] = delivered[d]

\* A call that ends with an error promises nothing more.
LEMMA ErrorStep ==
  ASSUME DevRevAssumption, Shaped, NEW c \in Callers, CallOK(call[c], delivered[c]),
         call[c].pc = "send", UNCHANGED delivered,
         Update(c, [pc |-> "done", outcome |-> "error", requests |-> call[c].requests + 1])
  PROVE  Shaped' /\ OnlyOf(c) /\ CallOK(call'[c], delivered'[c])
<1> DEFINE f == [pc |-> "done", outcome |-> "error", requests |-> call[c].requests + 1]
           k == call[c]
           l == call'[c]
<1>1. /\ DOMAIN f = {"pc", "outcome", "requests"}
      /\ f["pc"] = "done" /\ f["outcome"] = "error" /\ f["requests"] = call[c].requests + 1
  OBVIOUS
<1>2. Update(c, f)
  OBVIOUS
<1> HIDE DEF f
<1>3. /\ Shaped' /\ OnlyOf(c)
      /\ l.pc = "done" /\ l.outcome = "error" /\ l.requests = k.requests + 1
      /\ l.op = k.op /\ l.items = k.items /\ l.buffer = k.buffer /\ l.pages = k.pages
      /\ l.attempt = k.attempt /\ l.waited = k.waited
      /\ l.truncated = k.truncated /\ l.partial = k.partial
  BY <1>1, <1>2, UpdateFields DEF Fields, OnlyOf
<1>4. PagesOf(l) = PagesOf(k) /\ PagesOf(k) \in Nat /\ MaxRetries \in Nat
  BY <1>3 DEF PagesOf, DevRevAssumption
<1>5. CostOK(k)
  BY DEF CallOK
<1>6. k.requests + 1 <= PagesOf(k) * MaxRetries
  <2>1. /\ k.pages * MaxRetries + k.attempt <= (k.pages + 1) * MaxRetries
        /\ (k.pages + 1) * MaxRetries <= PagesOf(k) * MaxRetries
        /\ k.pages * MaxRetries \in Nat /\ (k.pages + 1) * MaxRetries \in Nat
        /\ PagesOf(k) * MaxRetries \in Nat
    BY <1>4, <1>5, OnePageMore DEF CostOK
  <2>2. /\ k.requests <= k.pages * MaxRetries + (k.attempt - 1)
        /\ k.requests \in Int /\ k.attempt \in Int
    BY <1>4, <1>5 DEF CostOK
  <2> QED BY <2>1, <2>2
<1>7. CostOK(l)
  BY <1>3, <1>4, <1>5, <1>6 DEF CostOK
<1>8. FullOK(l, delivered'[c])
  BY <1>3 DEF CallOK, FullOK, Shown
<1> QED BY <1>3, <1>7, <1>8 DEF CallOK

LEMMA RetryableStep ==
  ASSUME DevRevAssumption, Shaped, NEW c \in Callers, CallOK(call[c], delivered[c]), Retryable(c)
  PROVE  Shaped' /\ OnlyOf(c) /\ CallOK(call'[c], delivered'[c])
<1>1. CASE call[c].attempt >= MaxRetries
  BY <1>1, ErrorStep DEF Retryable
<1>2. CASE ~(call[c].attempt >= MaxRetries)
  <2> DEFINE k == call[c]
             l == call'[c]
  <2>1. PICK d \in Delays(k.attempt) :
          Update(c, [attempt |-> k.attempt + 1, waited |-> k.waited + d,
                     requests |-> k.requests + 1])
    BY <1>2 DEF Retryable
  <2> DEFINE f == [attempt |-> k.attempt + 1, waited |-> k.waited + d, requests |-> k.requests + 1]
  <2>2. /\ DOMAIN f = {"attempt", "waited", "requests"}
        /\ f["attempt"] = k.attempt + 1 /\ f["waited"] = k.waited + d
        /\ f["requests"] = k.requests + 1
    OBVIOUS
  <2>3. Update(c, f) /\ k.pc = "send" /\ UNCHANGED delivered
    BY <2>1 DEF Retryable
  <2> HIDE DEF f
  <2>4. /\ Shaped' /\ OnlyOf(c)
        /\ l.attempt = k.attempt + 1 /\ l.waited = k.waited + d /\ l.requests = k.requests + 1
        /\ l.pc = k.pc /\ l.outcome = k.outcome
        /\ l.op = k.op /\ l.items = k.items /\ l.buffer = k.buffer /\ l.pages = k.pages
        /\ l.truncated = k.truncated /\ l.partial = k.partial
    BY <2>2, <2>3, UpdateFields DEF Fields, OnlyOf
  <2>5. CostOK(k) /\ PagesOf(l) = PagesOf(k) /\ PagesOf(k) \in Nat /\ MaxRetries \in Nat
        /\ DelayCap \in Nat
    BY <2>4 DEF PagesOf, DevRevAssumption, CallOK
  <2>6. d \in Int /\ d <= DelayCap
    BY <2>5, DelayIsCapped DEF CostOK
  <2>7. k.attempt + 1 \in 1 .. MaxRetries /\ k.attempt \in Nat \ {0}
    BY <1>2, <2>5 DEF CostOK
  <2> DEFINE b == k.attempt + 1
  <2>8. b \in 1 .. MaxRetries /\ b \in Nat /\ b - 1 = k.attempt
        /\ (b - 1) * DelayCap = (k.attempt - 1) * DelayCap + DelayCap
        /\ (k.attempt - 1) * DelayCap \in Nat
    <3>1. ASSUME NEW m \in Nat, NEW u \in Nat
          PROVE  (m + 1) * u = m * u + u /\ m * u \in Nat
      OBVIOUS
    <3>2. k.attempt - 1 \in Nat /\ (k.attempt - 1) + 1 = b - 1 /\ b - 1 = k.attempt
      BY <2>5, <2>7
    <3> HIDE DEF b
    <3>3. ((k.attempt - 1) + 1) * DelayCap = (k.attempt - 1) * DelayCap + DelayCap
          /\ (k.attempt - 1) * DelayCap \in Nat
      BY <2>5, <3>1, <3>2
    <3> QED BY <2>7, <3>2, <3>3 DEF b
  <2> HIDE DEF b
  <2>9. /\ k.pages * MaxRetries + b <= (k.pages + 1) * MaxRetries
        /\ (k.pages + 1) * MaxRetries <= PagesOf(k) * MaxRetries
        /\ Waits(k.pages) + (b - 1) * DelayCap <= Waits(k.pages + 1)
        /\ Waits(k.pages + 1) <= Waits(PagesOf(k))
        /\ k.pages * MaxRetries \in Nat /\ (k.pages + 1) * MaxRetries \in Nat
        /\ PagesOf(k) * MaxRetries \in Nat
        /\ Waits(k.pages) \in Nat /\ Waits(k.pages + 1) \in Nat /\ Waits(PagesOf(k)) \in Nat
    <3>1. k.pages \in Nat /\ k.pages < PagesOf(k)
      BY <2>3, <2>5 DEF CostOK
    <3> QED BY <2>5, <2>8, <3>1, OnePageMore
  <2>10. /\ k.requests <= k.pages * MaxRetries + (k.attempt - 1)
         /\ k.waited <= Waits(k.pages) + (k.attempt - 1) * DelayCap
         /\ k.requests \in Int /\ k.waited \in Int /\ k.pages \in Nat
         /\ k.pages < PagesOf(k)
    BY <2>3, <2>5 DEF CostOK
  <2>11. /\ k.requests + 1 <= k.pages * MaxRetries + (b - 1)
         /\ k.requests + 1 <= PagesOf(k) * MaxRetries
    BY <2>7, <2>8, <2>9, <2>10
  <2>12. /\ k.waited + d <= Waits(k.pages) + (b - 1) * DelayCap
         /\ k.waited + d <= Waits(PagesOf(k))
    BY <2>5, <2>6, <2>7, <2>8, <2>9, <2>10
  <2>13. CostOK(l)
    <3>1. l.attempt = b
      BY <2>4 DEF b
    <3> QED BY <2>3, <2>4, <2>5, <2>6, <2>8, <2>10, <2>11, <2>12, <3>1 DEF CostOK
  <2>14. FullOK(l, delivered'[c])
    BY <2>3, <2>4 DEF CallOK, FullOK, Shown, Waiting, Unflagged
  <2> QED BY <2>4, <2>13, <2>14 DEF CallOK
<1> QED BY <1>1, <1>2

LEMMA FatalStep ==
  ASSUME DevRevAssumption, Shaped, NEW c \in Callers, CallOK(call[c], delivered[c]), Fatal(c)
  PROVE  Shaped' /\ OnlyOf(c) /\ CallOK(call'[c], delivered'[c])
BY ErrorStep DEF Fatal

\* An answer uses up one request of the page under way.
LEMMA AnswerCost ==
  ASSUME DevRevAssumption, NEW k, CostOK(k), k.pc = "send"
  PROVE  /\ k.requests + 1 <= (k.pages + 1) * MaxRetries /\ k.waited <= Waits(k.pages + 1)
         /\ k.requests + 1 <= PagesOf(k) * MaxRetries /\ k.waited <= Waits(PagesOf(k))
         /\ k.pages + 1 <= PagesOf(k) /\ k.pages + 1 \in Nat
         /\ k.requests + 1 \in Int
<1>1. PagesOf(k) \in Nat /\ MaxRetries \in Nat /\ k.pages \in Nat /\ k.attempt \in 1 .. MaxRetries
      /\ k.pages < PagesOf(k)
  BY DEF PagesOf, DevRevAssumption, CostOK
<1>2. /\ k.pages * MaxRetries + k.attempt <= (k.pages + 1) * MaxRetries
      /\ (k.pages + 1) * MaxRetries <= PagesOf(k) * MaxRetries
      /\ k.pages * MaxRetries \in Nat /\ (k.pages + 1) * MaxRetries \in Nat
      /\ PagesOf(k) * MaxRetries \in Nat
  BY <1>1, OnePageMore
<1>3. /\ Waits(k.pages) + (k.attempt - 1) * DelayCap <= Waits(k.pages + 1)
      /\ Waits(k.pages + 1) <= Waits(PagesOf(k))
      /\ Waits(k.pages) \in Nat /\ Waits(k.pages + 1) \in Nat /\ Waits(PagesOf(k)) \in Nat
      /\ (k.attempt - 1) * DelayCap \in Nat
  BY <1>1, OnePageMore
<1>4. /\ k.requests <= k.pages * MaxRetries + (k.attempt - 1) /\ k.requests \in Int
      /\ k.waited <= Waits(k.pages) + (k.attempt - 1) * DelayCap /\ k.waited \in Int
  BY DEF CostOK
<1>5. k.requests + 1 <= (k.pages + 1) * MaxRetries /\ k.requests + 1 <= PagesOf(k) * MaxRetries
  BY <1>1, <1>2, <1>4
<1>6. k.waited <= Waits(k.pages + 1) /\ k.waited <= Waits(PagesOf(k))
  BY <1>3, <1>4
<1> QED BY <1>1, <1>4, <1>5, <1>6

LEMMA TicketStep ==
  ASSUME DevRevAssumption, Shaped, NEW c \in Callers, CallOK(call[c], delivered[c]),
         NEW row \in Rows, TicketAnswer(c, row)
  PROVE  Shaped' /\ OnlyOf(c) /\ CallOK(call'[c], delivered'[c])
<1>1. CASE ~KeepsTicket(row)
  BY <1>1, ErrorStep DEF TicketAnswer
<1>2. CASE KeepsTicket(row)
  <2> DEFINE k == call[c]
             l == call'[c]
             f == [pc |-> "done", outcome |-> "ok", items |-> <<row>>,
                   truncated |-> Clips(row), requests |-> k.requests + 1]
  <2>1. /\ DOMAIN f = {"pc", "outcome", "items", "truncated", "requests"}
        /\ f["pc"] = "done" /\ f["outcome"] = "ok" /\ f["items"] = <<row>>
        /\ f["truncated"] = Clips(row) /\ f["requests"] = k.requests + 1
    OBVIOUS
  <2>2. Update(c, f) /\ k.pc = "send" /\ k.op = "ticket" /\ UNCHANGED delivered
    BY <1>2 DEF TicketAnswer
  <2> HIDE DEF f
  <2>3. /\ Shaped' /\ OnlyOf(c)
        /\ l.pc = "done" /\ l.outcome = "ok" /\ l.items = <<row>>
        /\ l.truncated = Clips(row) /\ l.requests = k.requests + 1
        /\ l.op = k.op /\ l.buffer = k.buffer /\ l.pages = k.pages
        /\ l.attempt = k.attempt /\ l.waited = k.waited /\ l.partial = k.partial
    BY <2>1, <2>2, UpdateFields DEF Fields, OnlyOf
  <2>4. CostOK(k) /\ PagesOf(l) = PagesOf(k)
    BY <2>3 DEF PagesOf, CallOK
  <2>5. CostOK(l)
    BY <2>2, <2>3, <2>4, AnswerCost DEF CostOK
  <2>6. <<row>> \in Seq(Rows) /\ Clips(row) \in BOOLEAN
    BY DEF Clips
  <2>7. FullOK(l, delivered'[c])
    BY <2>2, <2>3, <2>6 DEF CallOK, FullOK
  <2> QED BY <2>3, <2>5, <2>7 DEF CallOK
<1> QED BY <1>1, <1>2

LEMMA PageStep ==
  ASSUME DevRevAssumption, Shaped, NEW c \in Callers, CallOK(call[c], delivered[c]),
         delivered = [d \in Callers |-> delivered[d]],
         NEW rows \in Pages, NEW next, PageAnswer(c, rows, next)
  PROVE  Shaped' /\ OnlyOf(c) /\ CallOK(call'[c], delivered'[c])
<1> DEFINE k == call[c]
           l == call'[c]
           kept == Kept(k.op, rows)
           walk == k.op = "walk"
           over == \/ k.truncated \/ Len(rows) > Limit
                   \/ \E i \in DOMAIN kept : Clips(kept[i])
           short == k.partial \/ Len(kept) < Len(rows)
           f == [pc |-> IF walk THEN "yield" ELSE "done",
                 outcome |-> IF walk THEN "none" ELSE "ok",
                 items  |-> IF walk THEN k.items ELSE kept,
                 buffer |-> IF walk THEN kept ELSE <<>>,
                 next |-> next, pages |-> k.pages + 1, attempt |-> 1,
                 requests |-> k.requests + 1,
                 partial |-> short, truncated |-> over]
<1>1. rows \in Seq(Rows)
  BY DEF Pages
<1>2. kept \in Seq(Rows) /\ {kept[i].id : i \in DOMAIN kept} = Good(k.op, rows)
  BY <1>1, KeptRows
<1>3. /\ DOMAIN f = {"pc", "outcome", "items", "buffer", "next", "pages", "attempt", "requests",
                     "partial", "truncated"}
      /\ f["pc"] = IF walk THEN "yield" ELSE "done"
      /\ f["outcome"] = IF walk THEN "none" ELSE "ok"
      /\ f["items"] = IF walk THEN k.items ELSE kept
      /\ f["buffer"] = IF walk THEN kept ELSE <<>>
      /\ f["pages"] = k.pages + 1 /\ f["attempt"] = 1 /\ f["requests"] = k.requests + 1
      /\ f["partial"] = short /\ f["truncated"] = over
  <2> HIDE DEF kept, short, over
  <2> QED OBVIOUS
<1>4. Update(c, f) /\ k.pc = "send" /\ k.op # "ticket"
      /\ delivered' = [delivered EXCEPT ![c] = @ \cup Good(k.op, rows)]
  BY Zenon DEF PageAnswer
<1>5. /\ (~short => ~k.partial) /\ short \in BOOLEAN
      /\ (~over => ~k.truncated) /\ over \in BOOLEAN
  BY DEF CallOK, FullOK
<1> HIDE DEF f, kept, short, over
<1>6. /\ Shaped' /\ OnlyOf(c)
      /\ delivered'[c] = delivered[c] \cup Good(k.op, rows)
      /\ l.pc = (IF walk THEN "yield" ELSE "done")
      /\ l.outcome = (IF walk THEN "none" ELSE "ok")
      /\ l.items = (IF walk THEN k.items ELSE kept)
      /\ l.buffer = (IF walk THEN kept ELSE <<>>)
      /\ l.pages = k.pages + 1 /\ l.attempt = 1 /\ l.requests = k.requests + 1
      /\ l.partial = short /\ l.truncated = over
      /\ l.op = k.op /\ l.waited = k.waited
  BY <1>3, <1>4, UpdateFields DEF Fields, OnlyOf
<1>7. CostOK(k) /\ PagesOf(l) = PagesOf(k) /\ 1 \in 1 .. MaxRetries
  BY <1>6 DEF PagesOf, CallOK, DevRevAssumption
<1>8. CostOK(l)
  BY <1>4, <1>6, <1>7, AnswerCost DEF CostOK
<1>9. FullOK(k, delivered[c])
  BY DEF CallOK
<1>10. CASE walk
  <2>1. l.pc = "yield" /\ l.outcome = "none" /\ l.items = k.items /\ l.buffer = kept
    BY <1>6, <1>10
  <2>2. Shown(l) = Shown(k) /\ Waiting(l) = Good(k.op, rows) /\ Waiting(k) = {}
    <3>1. k.buffer = <<>>
      BY <1>4, <1>9 DEF FullOK
    <3> QED BY <1>2, <2>1, <3>1 DEF Shown, Waiting
  <2>3. Unflagged(l) => delivered'[c] \subseteq Shown(l) \cup Waiting(l)
    BY <1>4, <1>5, <1>6, <1>9, <1>10, <2>2 DEF FullOK, Unflagged
  <2> QED BY <1>2, <1>5, <1>6, <1>8, <1>9, <1>10, <2>1, <2>2, <2>3 DEF FullOK, CallOK
<1>11. CASE ~walk
  <2>1. l.pc = "done" /\ l.outcome = "ok" /\ l.items = kept /\ l.buffer = <<>>
    BY <1>6, <1>11
  <2>2. delivered'[c] = Shown(l)
    BY <1>2, <1>4, <1>6, <1>9, <1>11, <2>1 DEF FullOK, Shown
  <2> QED BY <1>2, <1>5, <1>6, <1>8, <1>9, <1>11, <2>1, <2>2 DEF FullOK, CallOK
<1> QED BY <1>10, <1>11

\* A walk that a guard ends is flagged.
LEMMA GuardedStep ==
  ASSUME Shaped, NEW c \in Callers, CallOK(call[c], delivered[c]), call[c].pc = "yield",
         Guarded(c), UNCHANGED delivered
  PROVE  Shaped' /\ OnlyOf(c) /\ CallOK(call'[c], delivered'[c])
<1> DEFINE k == call[c]
           l == call'[c]
           f == [pc |-> "done", truncated |-> TRUE, partial |-> TRUE,
                 outcome |-> IF k.strict THEN "error" ELSE "ok"]
<1>1. /\ DOMAIN f = {"pc", "truncated", "partial", "outcome"}
      /\ f["pc"] = "done" /\ f["truncated"] = TRUE /\ f["partial"] = TRUE
      /\ f["outcome"] \in {"error", "ok"}
  OBVIOUS
<1>2. Update(c, f)
  BY DEF Guarded
<1> HIDE DEF f
<1>3. /\ Shaped' /\ OnlyOf(c)
      /\ l.pc = "done" /\ l.truncated = TRUE /\ l.partial = TRUE /\ l.outcome \in {"error", "ok"}
      /\ l.op = k.op /\ l.items = k.items /\ l.buffer = k.buffer /\ l.pages = k.pages
      /\ l.attempt = k.attempt /\ l.waited = k.waited /\ l.requests = k.requests
  BY <1>1, <1>2, UpdateFields DEF Fields, OnlyOf
<1>4. PagesOf(l) = PagesOf(k) /\ Shown(l) = Shown(k)
  BY <1>3 DEF PagesOf, Shown
<1>5. CostOK(l)
  BY <1>3, <1>4 DEF CostOK, CallOK
<1>6. FullOK(l, delivered'[c])
  BY <1>3, <1>4 DEF FullOK, CallOK, Unflagged
<1> QED BY <1>3, <1>5, <1>6 DEF CallOK

LEMMA YieldStep ==
  ASSUME Shaped, NEW c \in Callers, CallOK(call[c], delivered[c]), Yield(c)
  PROVE  Shaped' /\ OnlyOf(c) /\ CallOK(call'[c], delivered'[c])
<1> DEFINE k == call[c]
           l == call'[c]
           row == Head(k.buffer)
<1>1. k.pc = "yield" /\ k.buffer # <<>> /\ UNCHANGED delivered
  BY DEF Yield
<1>2. k.buffer \in Seq(Rows) /\ k.items \in Seq(Rows) /\ k.op = "walk"
  BY <1>1 DEF CallOK, FullOK
<1>3. /\ row \in Rows /\ Tail(k.buffer) \in Seq(Rows)
      /\ \A i \in DOMAIN k.buffer : k.buffer[i] = row \/ \E j \in DOMAIN Tail(k.buffer) :
           Tail(k.buffer)[j] = k.buffer[i]
  <2>1. /\ Len(k.buffer) \in Nat \ {0} /\ DOMAIN k.buffer = 1 .. Len(k.buffer)
        /\ row = k.buffer[1]
        /\ Tail(k.buffer) \in Seq(Rows) /\ DOMAIN Tail(k.buffer) = 1 .. Len(k.buffer) - 1
        /\ \A j \in 1 .. Len(k.buffer) - 1 : Tail(k.buffer)[j] = k.buffer[j + 1]
    BY <1>1, <1>2, HeadTailProperties, EmptySeq
  <2>2. ASSUME NEW i \in DOMAIN k.buffer, i # 1
        PROVE  i - 1 \in DOMAIN Tail(k.buffer) /\ Tail(k.buffer)[i - 1] = k.buffer[i]
    BY <2>1, <2>2
  <2>3. row \in Rows
    <3>1. 1 \in 1 .. Len(k.buffer)
      BY <2>1
    <3> QED BY <1>2, <2>1, <3>1, ElementOfSeq
  <2>4. ASSUME NEW i \in DOMAIN k.buffer
        PROVE  k.buffer[i] = row \/ \E j \in DOMAIN Tail(k.buffer) :
                 Tail(k.buffer)[j] = k.buffer[i]
    <3>1. CASE i = 1
      BY <2>1, <3>1
    <3>2. CASE i # 1
      BY <2>2, <3>2
    <3> QED BY <3>1, <3>2
  <2> HIDE DEF k, row
  <2> QED BY <2>1, <2>3, <2>4
<1>4. CASE row.id \in Shown(k)
  <2> DEFINE f == [buffer |-> Tail(k.buffer)]
  <2>1. DOMAIN f = {"buffer"} /\ f["buffer"] = Tail(k.buffer)
    OBVIOUS
  <2>2. Update(c, f)
    BY <1>4 DEF Yield
  <2> HIDE DEF f
  <2>3. /\ Shaped' /\ OnlyOf(c)
        /\ l.buffer = Tail(k.buffer)
        /\ l.pc = k.pc /\ l.truncated = k.truncated /\ l.partial = k.partial
        /\ l.outcome = k.outcome /\ l.op = k.op /\ l.items = k.items /\ l.pages = k.pages
        /\ l.attempt = k.attempt /\ l.waited = k.waited /\ l.requests = k.requests
    BY <1>1, <2>1, <2>2, UpdateFields DEF Fields, OnlyOf
  <2>4. PagesOf(l) = PagesOf(k) /\ Shown(l) = Shown(k)
    BY <2>3 DEF PagesOf, Shown
  <2>5. Waiting(k) \subseteq Waiting(l) \cup Shown(l)
    BY <1>3, <1>4, <2>3, <2>4 DEF Waiting
  <2>6. CostOK(l)
    BY <2>3, <2>4 DEF CostOK, CallOK
  <2>7. FullOK(l, delivered'[c])
    BY <1>1, <1>3, <2>3, <2>4, <2>5 DEF FullOK, CallOK, Unflagged
  <2> QED BY <2>3, <2>6, <2>7 DEF CallOK
<1>5. CASE row.id \notin Shown(k) /\ Len(k.items) >= EntryGuard
  <2>1. Guarded(c)
    BY <1>5 DEF Yield
  <2> QED BY <1>1, <2>1, GuardedStep
<1>6. CASE row.id \notin Shown(k) /\ ~(Len(k.items) >= EntryGuard)
  <2> DEFINE f == [buffer |-> Tail(k.buffer), items |-> Append(k.items, row)]
  <2>1. DOMAIN f = {"buffer", "items"} /\ f["buffer"] = Tail(k.buffer)
        /\ f["items"] = Append(k.items, row)
    OBVIOUS
  <2>2. Update(c, f)
    BY <1>6 DEF Yield
  <2> HIDE DEF f
  <2>3. /\ Shaped' /\ OnlyOf(c)
        /\ l.buffer = Tail(k.buffer) /\ l.items = Append(k.items, row)
        /\ l.pc = k.pc /\ l.truncated = k.truncated /\ l.partial = k.partial
        /\ l.outcome = k.outcome /\ l.op = k.op /\ l.pages = k.pages
        /\ l.attempt = k.attempt /\ l.waited = k.waited /\ l.requests = k.requests
    BY <1>1, <2>1, <2>2, UpdateFields DEF Fields, OnlyOf
  <2>4. /\ l.items \in Seq(Rows) /\ Len(l.items) = Len(k.items) + 1
        /\ Shown(l) = Shown(k) \cup {row.id}
    <3>1. /\ Append(k.items, row) \in Seq(Rows)
          /\ Len(Append(k.items, row)) = Len(k.items) + 1
          /\ \A i \in 1 .. Len(k.items) : Append(k.items, row)[i] = k.items[i]
          /\ Append(k.items, row)[Len(k.items) + 1] = row
          /\ Len(k.items) \in Nat /\ DOMAIN k.items = 1 .. Len(k.items)
          /\ DOMAIN Append(k.items, row) = 1 .. Len(k.items) + 1
      BY <1>2, <1>3
    <3>2. Shown(l) \subseteq Shown(k) \cup {row.id}
      BY <2>3, <3>1 DEF Shown
    <3>3. Shown(k) \cup {row.id} \subseteq Shown(l)
      BY <2>3, <3>1 DEF Shown
    <3> QED BY <2>3, <3>1, <3>2, <3>3
  <2>5. PagesOf(l) = PagesOf(k)
    BY <2>3 DEF PagesOf
  <2>6. Waiting(k) \subseteq Waiting(l) \cup Shown(l)
    <3>1. ASSUME NEW i \in DOMAIN k.buffer
          PROVE  k.buffer[i].id \in Waiting(l) \cup Shown(l)
      <4>1. CASE k.buffer[i] = row
        BY <2>4, <4>1
      <4>2. CASE \E j \in DOMAIN Tail(k.buffer) : Tail(k.buffer)[j] = k.buffer[i]
        <5>1. PICK j \in DOMAIN l.buffer : l.buffer[j] = k.buffer[i]
          BY <2>3, <4>2
        <5> QED BY <5>1 DEF Waiting
      <4> QED BY <1>3, <4>1, <4>2
    <3> QED BY <3>1 DEF Waiting
  <2>7. IsFiniteSet(Shown(l)) /\ Cardinality(Shown(l)) = Len(l.items)
    <3>1. IsFiniteSet(Shown(k)) /\ Cardinality(Shown(k)) = Len(k.items)
      BY <1>2 DEF CallOK, FullOK
    <3> QED BY <1>6, <2>4, <3>1, FS_AddElement
  <2>8. CostOK(l)
    BY <2>3, <2>5 DEF CostOK, CallOK
  <2>9. FullOK(l, delivered'[c])
    BY <1>1, <1>3, <2>3, <2>4, <2>6, <2>7 DEF FullOK, CallOK, Unflagged
  <2> QED BY <2>3, <2>8, <2>9 DEF CallOK
<1> QED BY <1>4, <1>5, <1>6

LEMMA TurnStep ==
  ASSUME DevRevAssumption, Shaped, NEW c \in Callers, CallOK(call[c], delivered[c]), Turn(c)
  PROVE  Shaped' /\ OnlyOf(c) /\ CallOK(call'[c], delivered'[c])
<1> DEFINE k == call[c]
           l == call'[c]
<1>1. k.pc = "yield" /\ k.buffer = <<>> /\ UNCHANGED delivered /\ k.op = "walk"
  BY DEF Turn, CallOK, FullOK
<1>2. ASSUME NEW o \in {"ok", "error"}, Ends(c, o)
      PROVE  Shaped' /\ OnlyOf(c) /\ CallOK(l, delivered'[c])
  <2> DEFINE f == [pc |-> "done", outcome |-> o]
  <2>1. DOMAIN f = {"pc", "outcome"} /\ f["pc"] = "done" /\ f["outcome"] = o
    OBVIOUS
  <2>2. Update(c, f)
    BY <1>2 DEF Ends
  <2> HIDE DEF f
  <2>3. /\ Shaped' /\ OnlyOf(c)
        /\ l.pc = "done" /\ l.outcome = o
        /\ l.truncated = k.truncated /\ l.partial = k.partial
        /\ l.op = k.op /\ l.items = k.items /\ l.buffer = k.buffer /\ l.pages = k.pages
        /\ l.attempt = k.attempt /\ l.waited = k.waited /\ l.requests = k.requests
    BY <1>1, <2>1, <2>2, UpdateFields DEF Fields, OnlyOf
  <2>4. PagesOf(l) = PagesOf(k) /\ Shown(l) = Shown(k) /\ Waiting(k) = {}
    BY <1>1, <2>3 DEF PagesOf, Shown, Waiting
  <2>5. CostOK(l)
    BY <2>3, <2>4 DEF CostOK, CallOK
  <2>6. FullOK(l, delivered'[c])
    BY <1>1, <1>2, <2>3, <2>4 DEF FullOK, CallOK, Unflagged
  <2> QED BY <2>3, <2>5, <2>6 DEF CallOK
<1>3. CASE k.next = NoCursor
  BY <1>2, <1>3 DEF Turn
<1>4. CASE k.next # NoCursor /\ k.next \in k.requested
  BY <1>2, <1>4 DEF Turn
<1>5. CASE k.next # NoCursor /\ k.next \notin k.requested /\ k.pages >= PageGuard
  <2>1. Guarded(c)
    BY <1>5 DEF Turn
  <2> QED BY <1>1, <2>1, GuardedStep
<1>6. CASE k.next # NoCursor /\ k.next \notin k.requested /\ ~(k.pages >= PageGuard)
  <2> DEFINE f == [pc |-> "send", cursor |-> k.next, requested |-> k.requested \cup {k.next}]
  <2>1. DOMAIN f = {"pc", "cursor", "requested"} /\ f["pc"] = "send"
    OBVIOUS
  <2>2. Update(c, f)
    BY <1>6 DEF Turn
  <2> HIDE DEF f
  <2>3. /\ Shaped' /\ OnlyOf(c)
        /\ l.pc = "send" /\ l.outcome = k.outcome
        /\ l.truncated = k.truncated /\ l.partial = k.partial
        /\ l.op = k.op /\ l.items = k.items /\ l.buffer = k.buffer /\ l.pages = k.pages
        /\ l.attempt = k.attempt /\ l.waited = k.waited /\ l.requests = k.requests
    BY <1>1, <2>1, <2>2, UpdateFields DEF Fields, OnlyOf
  <2>4. PagesOf(l) = PagesOf(k) /\ Shown(l) = Shown(k) /\ Waiting(l) = Waiting(k)
    BY <1>1, <2>3 DEF PagesOf, Shown, Waiting
  <2>5. CostOK(l)
    <3>1. CostOK(k) /\ PagesOf(k) = PageGuard /\ DelayCap \in Nat /\ PageGuard \in Nat
      BY <1>1 DEF CallOK, PagesOf, DevRevAssumption
    <3>2. k.pages \in Nat /\ k.pages < PagesOf(k) /\ k.attempt = 1
      BY <1>1, <1>6, <3>1 DEF CostOK
    <3>3. (k.attempt - 1) * DelayCap = 0 /\ k.attempt - 1 = 0
      BY <3>1, <3>2
    <3>4. Waits(k.pages) \in Nat /\ k.pages * MaxRetries \in Nat
      BY <3>1, <3>2, OnePageMore DEF CostOK
    <3> QED BY <1>1, <2>3, <2>4, <3>1, <3>2, <3>3, <3>4 DEF CostOK
  <2>6. FullOK(l, delivered'[c])
    BY <1>1, <2>3, <2>4 DEF FullOK, CallOK, Unflagged
  <2> QED BY <2>3, <2>5, <2>6 DEF CallOK
<1> QED BY <1>3, <1>4, <1>5, <1>6

LEMMA StartStep ==
  ASSUME DevRevAssumption, Shaped, delivered = [d \in Callers |-> delivered[d]],
         NEW c \in Callers, NEW op \in Ops, NEW strict \in BOOLEAN, NEW parts, Start(c, op, strict, parts)
  PROVE  Shaped' /\ OnlyOf(c) /\ CallOK(call'[c], delivered'[c])
<1> DEFINE l == [NoCall EXCEPT !.op = op, !.pc = "send", !.strict = strict, !.parts = Scoped(parts)]
<1>1. HasFields(l)
  BY NoCallShaped DEF HasFields
<1>2. /\ l.op = op /\ l.pc = "send" /\ l.pages = 0 /\ l.attempt = 1 /\ l.requests = 0
      /\ l.waited = 0 /\ l.items = <<>> /\ l.buffer = <<>> /\ l.outcome = "none"
      /\ l.truncated = FALSE /\ l.partial = FALSE
  BY DEF NoCall
<1>3. call' = [call EXCEPT ![c] = l] /\ delivered' = [delivered EXCEPT ![c] = {}]
  BY DEF Start
<1> HIDE DEF l
<1>4. Shaped' /\ OnlyOf(c) /\ call'[c] = l /\ delivered'[c] = {}
  <2>1. DOMAIN call = Callers /\ DOMAIN delivered = Callers
    BY DEF Shaped
  <2> QED BY <1>1, <1>3, <2>1 DEF Shaped, OnlyOf
<1>5. CostOK(l)
  BY <1>2, BeginCost
<1>6. FullOK(l, {})
  <2>1. Shown(l) = {} /\ <<>> \in Seq(Rows) /\ Len(<<>>) = 0
    BY <1>2 DEF Shown
  <2>2. IsFiniteSet(Shown(l)) /\ Cardinality(Shown(l)) = 0
    BY <2>1, FS_EmptySet
  <2> QED BY <1>2, <2>1, <2>2 DEF FullOK
<1> QED BY <1>4, <1>5, <1>6 DEF CallOK

\* No call is under way.
LEMMA NoCallOK ==
  ASSUME DevRevAssumption, NEW sent
  PROVE  CallOK(NoCall, sent)
<1>1. /\ NoCall.op = "none" /\ NoCall.pc = "idle" /\ NoCall.pages = 0 /\ NoCall.attempt = 1
      /\ NoCall.requests = 0 /\ NoCall.waited = 0 /\ NoCall.items = <<>> /\ NoCall.buffer = <<>>
      /\ NoCall.outcome = "none" /\ NoCall.truncated = FALSE /\ NoCall.partial = FALSE
  BY DEF NoCall
<1>2. CostOK(NoCall)
  BY <1>1, BeginCost
<1>3. FullOK(NoCall, sent)
  <2>1. <<>> \in Seq(Rows)
    OBVIOUS
  <2> QED BY <1>1, <2>1 DEF FullOK
<1> QED BY <1>2, <1>3 DEF CallOK

LEMMA LeaveStep ==
  ASSUME DevRevAssumption, Shaped, NEW c \in Callers, Leave(c)
  PROVE  Shaped' /\ OnlyOf(c) /\ CallOK(call'[c], delivered'[c])
<1>1. DOMAIN call = Callers /\ call' = [call EXCEPT ![c] = NoCall] /\ UNCHANGED delivered
  BY DEF Leave, Shaped
<1>2. Shaped' /\ OnlyOf(c) /\ call'[c] = NoCall
  BY <1>1, NoCallShaped DEF Shaped, OnlyOf
<1> QED BY <1>2, NoCallOK

\* What every call keeps to.
CallsOK ==
  /\ Shaped
  /\ delivered = [c \in Callers |-> delivered[c]]
  /\ \A c \in Callers : CallOK(call[c], delivered[c])

LEMMA CallsBegin == CallInit => CallsOK
<1> SUFFICES ASSUME CallInit PROVE CallsOK
  OBVIOUS
<1>1. call = [c \in Callers |-> NoCall] /\ delivered = [c \in Callers |-> {}]
  BY DEF CallInit
<1> QED BY <1>1, NoCallShaped, NoCallOK, DevRevConstants DEF CallsOK, Shaped

LEMMA CallsStep == CallsOK /\ [CallNext]_cvars => CallsOK'
<1> SUFFICES ASSUME CallsOK, [CallNext]_cvars PROVE CallsOK'
  OBVIOUS
<1> USE DevRevConstants
<1>1. CASE UNCHANGED cvars
  BY <1>1 DEF cvars, CallsOK, Shaped
<1>2. ASSUME NEW c \in Callers, Shaped', OnlyOf(c), CallOK(call'[c], delivered'[c]),
             delivered' = [d \in Callers |-> delivered'[d]]
      PROVE  CallsOK'
  <2>1. \A d \in Callers : CallOK(call'[d], delivered'[d])
    <3> TAKE d \in Callers
    <3>1. CASE d = c
      BY <1>2, <3>1
    <3>2. CASE d # c
      <4>1. call'[d] = call[d] /\ delivered'[d] = delivered[d]
        BY <1>2, <3>2 DEF OnlyOf
      <4>2. CallOK(call[d], delivered[d])
        BY DEF CallsOK
      <4> QED BY <4>1, <4>2
    <3> QED BY <3>1, <3>2
  <2> QED BY <1>2, <2>1 DEF CallsOK
<1>3. CASE CallNext
  <2>1. PICK c \in Callers :
          \/ \E op \in Ops, strict \in BOOLEAN, parts \in SUBSET Parts : Start(c, op, strict, parts)
          \/ Works(c)
          \/ Leave(c)
    BY <1>3 DEF CallNext
  <2>2. Shaped /\ CallOK(call[c], delivered[c]) /\ delivered = [d \in Callers |-> delivered[d]]
    BY DEF CallsOK
  <2>3. delivered' = delivered => delivered' = [d \in Callers |-> delivered'[d]]
    BY <2>2
  <2>4. CASE \E op \in Ops, strict \in BOOLEAN, parts \in SUBSET Parts : Start(c, op, strict, parts)
    <3>1. PICK op \in Ops, strict \in BOOLEAN, parts \in SUBSET Parts : Start(c, op, strict, parts)
      BY <2>4
    <3>2. delivered' = [d \in Callers |-> delivered'[d]]
      BY <2>2, <3>1 DEF Start
    <3> QED BY <1>2, <2>2, <3>1, <3>2, StartStep
  <2>5. CASE Retryable(c)
    BY <1>2, <2>2, <2>3, <2>5, RetryableStep DEF Retryable
  <2>6. CASE Fatal(c)
    BY <1>2, <2>2, <2>3, <2>6, FatalStep DEF Fatal
  <2>7. CASE \E row \in Rows : TicketAnswer(c, row)
    BY <1>2, <2>2, <2>3, <2>7, TicketStep DEF TicketAnswer
  <2>8. CASE \E rows \in Pages, next \in Cursors \cup {NoCursor} : PageAnswer(c, rows, next)
    <3>1. PICK rows \in Pages, next \in Cursors \cup {NoCursor} : PageAnswer(c, rows, next)
      BY <2>8
    <3>2. delivered' = [d \in Callers |-> delivered'[d]]
      <4>1. delivered' = [delivered EXCEPT ![c] = @ \cup Good(call[c].op, rows)]
        BY <3>1, Zenon DEF PageAnswer
      <4> QED BY <2>2, <4>1
    <3> QED BY <1>2, <2>2, <3>1, <3>2, PageStep
  <2>9. CASE Yield(c)
    BY <1>2, <2>2, <2>3, <2>9, YieldStep DEF Yield
  <2>10. CASE Turn(c)
    BY <1>2, <2>2, <2>3, <2>10, TurnStep DEF Turn
  <2>11. CASE Leave(c)
    BY <1>2, <2>2, <2>3, <2>11, LeaveStep DEF Leave
  <2> QED BY <2>1, <2>4, <2>5, <2>6, <2>7, <2>8, <2>9, <2>10, <2>11 DEF Works, Respond
<1> QED BY <1>1, <1>3

LEMMA CallsKeepTo == CallSpec => []CallsOK
BY CallsBegin, CallsStep, PTL DEF CallSpec

\* However DevRev behaves, a call to it (_request_json around _send_once,
\* _walk_timeline) costs a bounded number of requests and a bounded wait.
THEOREM CallsAreBounded == CallSpec => []CostIsBounded
<1>1. CallsOK => CostIsBounded
  <2> SUFFICES ASSUME CallsOK, NEW c \in Callers
               PROVE  /\ call[c].requests <= PagesOf(call[c]) * MaxRetries
                      /\ call[c].waited <= PagesOf(call[c]) * (MaxRetries - 1) * DelayCap
    BY Zenon DEF CostIsBounded, PagesOf
  <2>1. CostOK(call[c])
    BY DEF CallsOK, CallOK
  <2>2. Waits(PagesOf(call[c])) = PagesOf(call[c]) * (MaxRetries - 1) * DelayCap
    <3>1. PagesOf(call[c]) \in Nat /\ MaxRetries - 1 \in Int /\ DelayCap \in Int
      BY DevRevConstants DEF PagesOf, DevRevAssumption
    <3>2. ASSUME NEW x \in Int, NEW y \in Int, NEW z \in Int PROVE x * (y * z) = x * y * z
      OBVIOUS
    <3> QED BY <3>1, <3>2 DEF Waits
  <2> QED BY <2>1, <2>2 DEF CostOK
<1> QED BY <1>1, CallsKeepTo, PTL

\* A listing or a walk that claims neither truncated nor partial holds every
\* good row DevRev sent to it, once each (list_tickets, _fetch_timeline_page,
\* _walk_timeline).
THEOREM ListingsAreHonest == CallSpec => []CompleteUnlessFlagged
<1>1. CallsOK => CompleteUnlessFlagged
  <2> SUFFICES ASSUME CallsOK, NEW c \in Callers
               PROVE  /\ call[c].op = "walk" => Cardinality(Shown(call[c])) = Len(call[c].items)
                      /\ call[c].op # "ticket" /\ call[c].outcome = "ok"
                           /\ ~call[c].truncated /\ ~call[c].partial
                         => delivered[c] \subseteq Shown(call[c])
    BY Zenon DEF CompleteUnlessFlagged
  <2>1. FullOK(call[c], delivered[c])
    BY DEF CallsOK, CallOK
  <2> QED BY <2>1 DEF FullOK, Unflagged
<1> QED BY <1>1, CallsKeepTo, PTL

-----------------------------------------------------------------------------
(* Where an inquiry is routed.                                               *)

\* Whatever signals come together, the article they route to is not one that
\* they keep out.
LEMMA RoutingAgrees ==
  ASSUME NEW s, NEW named
  PROVE  Profile(s, named, Nobody).primary \notin Profile(s, named, Nobody).excluded
<1> DEFINE g == SignalsOf(s, named)
           p == PrimaryArticle(s, g, Nobody)
<1>1. Profile(s, named, Nobody).primary = p /\ Profile(s, named, Nobody).excluded = Excluded(s, g)
  BY DEF Profile
<1>2. g.claimed => g.termination
  BY DEF SignalsOf, Termination, Says
<1> HIDE DEF g
<1>3. p = "sixty_day" => g.sixtyDay
  BY NobodyIsNoArticle DEF PrimaryArticle, Named
<1>4. p = "termination" => ~g.sixtyDay /\ (ExactRollover(s, g) \/ ExactDistribution(s, g) \/ ExactIncoming(s, g))
  BY NobodyIsNoArticle DEF PrimaryArticle, Named
<1>5. p = "loan" => ExactLoan(s, g)
  BY NobodyIsNoArticle DEF PrimaryArticle, Named
<1>6. p \in {"sixty_day", "termination", "loan", Nobody}
  BY DEF PrimaryArticle
<1> HIDE DEF p
<1>7. ExactLoan(s, g) => g.loan /\ ~g.claimed /\ ~g.termination
  BY <1>2 DEF ExactLoan
<1>8. ExactRollover(s, g) \/ ExactDistribution(s, g) \/ ExactIncoming(s, g) => ~ExactLoan(s, g)
  BY DEF ExactLoan, ExactRollover, ExactDistribution, ExactIncoming
<1>9. /\ Excluded(s, g) \subseteq Named
      /\ "sixty_day" \in Excluded(s, g) => ~g.sixtyDay
      /\ "loan" \in Excluded(s, g) => ~g.loan \/ g.claimed
      /\ "termination" \in Excluded(s, g) => g.sixtyDay \/ ExactLoan(s, g)
  BY DEF Excluded, Named
<1> QED BY <1>1, <1>3, <1>4, <1>5, <1>6, <1>7, <1>8, <1>9, NobodyIsNoArticle

\* The article an inquiry is routed to (_build_retrieval_profile) is never among
\* those its signals keep out.
THEOREM RoutesAgree == AnswerSpec => []PrimaryIsNotExcluded
<1>1. AnswerInit => PrimaryIsNotExcluded
  BY DEF AnswerInit, PrimaryIsNotExcluded
<1>2. PrimaryIsNotExcluded /\ [AnswerNext]_avars => PrimaryIsNotExcluded'
  <2> SUFFICES ASSUME PrimaryIsNotExcluded, [AnswerNext]_avars PROVE PrimaryIsNotExcluded'
    OBVIOUS
  <2>1. CASE Route
    <3>1. /\ profile'.primary = Profile(asked.situation, asked.kind = "required", Nobody).primary
          /\ profile'.excluded = Profile(asked.situation, asked.kind = "required", Nobody).excluded
      <4> DEFINE P == Profile(asked.situation, asked.kind = "required", Nobody)
      <4>1. profile' = [P EXCEPT !.mode = IF asked.kind = "response" THEN @ ELSE "broad_search"]
        BY <2>1 DEF Route
      <4>2. DOMAIN P = {"mode", "primary", "action", "intent", "excluded", "contact", "core",
                        "detected", "options"}
        BY DEF Profile
      <4> HIDE DEF P
      <4>3. profile'.primary = P.primary /\ profile'.excluded = P.excluded
        BY <4>1, <4>2
      <4> QED BY <4>3 DEF P
    <3> QED BY <3>1, RoutingAgrees DEF PrimaryIsNotExcluded
  <2>2. ASSUME pc # "route", profile' = profile PROVE PrimaryIsNotExcluded'
    BY <2>2 DEF PrimaryIsNotExcluded
  <2>3. CASE Fetch
    BY <2>2, <2>3, Zenon DEF Fetch
  <2>4. CASE Search
    BY <2>2, <2>4, Zenon DEF Search
  <2>5. CASE Pack
    BY <2>2, <2>5, Zenon DEF Pack
  <2>6. CASE Phase1
    BY <2>2, <2>6 DEF Phase1
  <2>7. CASE Answer
    BY <2>2, <2>7, Zenon DEF Answer
  <2>8. CASE AnswerKnowledge
    BY <2>2, <2>8, Zenon DEF AnswerKnowledge
  <2>9. CASE Fail
    BY <2>2, <2>9 DEF Fail
  <2>10. CASE UNCHANGED avars
    BY <2>10 DEF avars, PrimaryIsNotExcluded
  <2> QED BY <2>1, <2>3, <2>4, <2>5, <2>6, <2>7, <2>8, <2>9, <2>10 DEF AnswerNext
<1> QED BY <1>1, <1>2, PTL DEF AnswerSpec

-----------------------------------------------------------------------------
(* Lists of chunks.  Induction over them is by the least member of a set.    *)

\* A set of naturals has a least member.
LEMMA Least ==
    ASSUME NEW S, S \subseteq Nat, S # {}
    PROVE  \E n \in S : \A m \in S : n <= m
<1> DEFINE R == OpToRel(<, Nat)
<1>1. IsWellFoundedOn(R, Nat)
  BY NatLessThanWellFounded
<1>2. \A x, y \in Nat : y < x => <<y, x>> \in R
  BY DEF OpToRel
<1> HIDE DEF R
<1>3. PICK x \in S : \A y \in S : ~ (<<y, x>> \in R)
  BY <1>1, WFMin
<1>4. \A y \in S : ~ (y < x)
  BY <1>2, <1>3
<1> QED BY <1>4

\* Min and Max of what has bounds are members.
LEMMA MinIsIn ==
    ASSUME NEW S, S \subseteq Nat, S # {}
    PROVE  Min(S) \in S /\ \A m \in S : Min(S) <= m
BY Least DEF Min

LEMMA MaxIsIn ==
    ASSUME NEW b \in Nat, NEW S, S \subseteq Int, S # {}, \A x \in S : x <= b
    PROVE  Max(S) \in S /\ \A x \in S : x <= Max(S)
<1> DEFINE T == {b - x : x \in S}
<1>1. T \subseteq Nat /\ T # {}
  OBVIOUS
<1>2. PICK n \in T : \A m \in T : n <= m
  BY <1>1, Least
<1>3. PICK x \in S : n = b - x
  BY <1>2
<1>4. \A y \in S : x >= y
  <2> TAKE y \in S
  <2>1. n <= b - y
    BY <1>2
  <2> QED BY <1>3, <2>1
<1>5. \E z \in S : \A y \in S : z >= y
  BY <1>4
<1> QED BY <1>5 DEF Max

\* A finite set in a strict order: each member has a place of its own, and
\* every place is taken.
LEMMA Lines ==
    ASSUME NEW S, IsFiniteSet(S), NEW R,
           \A x \in S : <<x, x>> \notin R,
           \A x, y, z \in S : <<x, y>> \in R /\ <<y, z>> \in R => <<x, z>> \in R,
           \A x, y \in S : x # y => <<x, y>> \in R \/ <<y, x>> \in R
    PROVE  /\ Cardinality(S) \in Nat
           /\ Line(S, R) \in [1 .. Cardinality(S) -> S]
           /\ \A x \in S : \E n \in 1 .. Cardinality(S) : Line(S, R)[n] = x
<1> DEFINE below(x) == {y \in S : <<y, x>> \in R}
           rank == [x \in S |-> Cardinality(below(x)) + 1]
<1>1. Cardinality(S) \in Nat
  BY FS_CardinalityType
<1>2. \A x \in S : below(x) \in SUBSET S /\ x \notin below(x)
  OBVIOUS
<1>3. ASSUME NEW x \in S PROVE IsFiniteSet(below(x)) /\ Cardinality(below(x)) \in 0 .. Cardinality(S) - 1
  <2> HIDE DEF below
  <2>1. IsFiniteSet(below(x)) /\ Cardinality(below(x)) <= Cardinality(S)
        /\ (Cardinality(below(x)) = Cardinality(S) => below(x) = S)
    BY <1>2, FS_Subset
  <2>2. Cardinality(below(x)) \in Nat
    BY <2>1, FS_CardinalityType
  <2>3. Cardinality(below(x)) # Cardinality(S)
    BY <1>2, <2>1
  <2> QED BY <1>1, <2>1, <2>2, <2>3
<1>4. ASSUME NEW x \in S, NEW y \in S, <<x, y>> \in R
      PROVE  Cardinality(below(x)) # Cardinality(below(y))
  <2>1. below(x) \in SUBSET below(y) /\ x \in below(y) /\ x \notin below(x)
    BY <1>4
  <2> HIDE DEF below
  <2> QED BY <1>3, <2>1, FS_Subset
<1>5. \A x, y \in S : rank[x] = rank[y] => x = y
  <2> SUFFICES ASSUME NEW x \in S, NEW y \in S, x # y PROVE rank[x] # rank[y]
    OBVIOUS
  <2> HIDE DEF below
  <2>1. Cardinality(below(x)) # Cardinality(below(y))
    BY <1>4
  <2> QED BY <1>3, <2>1
<1>6. rank \in [S -> 1 .. Cardinality(S)]
  <2> HIDE DEF below
  <2> QED BY <1>1, <1>3
<1>7. rank \in Surjection(S, 1 .. Cardinality(S))
  <2>1. IsFiniteSet(1 .. Cardinality(S)) /\ Cardinality(1 .. Cardinality(S)) = Cardinality(S)
    BY <1>1, FS_Interval
  <2>2. rank \in Injection(S, 1 .. Cardinality(S))
    <3> HIDE DEF rank
    <3> QED BY <1>5, <1>6 DEF Injection, IsInjective
  <2> HIDE DEF rank
  <2> QED BY <2>1, <2>2, FS_Injection
<1>8. \A n \in 1 .. Cardinality(S) : \E x \in S : rank[x] = n
  <2> HIDE DEF rank
  <2> QED BY <1>7 DEF Surjection
<1> DEFINE at(n) == CHOOSE x \in S : Cardinality(below(x)) = n - 1
<1>9. \A n \in 1 .. Cardinality(S) : at(n) \in S /\ rank[at(n)] = n
  <2> TAKE n \in 1 .. Cardinality(S)
  <2> HIDE DEF below
  <2>1. PICK x \in S : rank[x] = n
    BY <1>8
  <2>2. Cardinality(below(x)) = n - 1
    BY <1>3, <2>1
  <2>3. at(n) \in S /\ Cardinality(below(at(n))) = n - 1
    BY <2>2
  <2> HIDE DEF at
  <2> QED BY <1>3, <2>3
<1>10. Line(S, R) = [n \in 1 .. Cardinality(S) |-> at(n)]
  BY DEF Line
<1>11. \A x \in S : rank[x] \in 1 .. Cardinality(S) /\ at(rank[x]) = x
  <2> HIDE DEF at, rank
  <2> QED BY <1>5, <1>6, <1>9
<1> HIDE DEF at, rank
<1> QED BY <1>1, <1>9, <1>10, <1>11

\* What holds at the beginning and from step to step holds all along.
LEMMA Along ==
    ASSUME NEW N \in Nat, NEW B, 0 \in B, \A n \in 1 .. N : n - 1 \in B => n \in B
    PROVE  \A n \in 0 .. N : n \in B
<1> SUFFICES ASSUME NEW k \in 0 .. N, k \notin B PROVE FALSE
  OBVIOUS
<1>1. PICK m \in (0 .. N) \ B : \A n \in (0 .. N) \ B : m <= n
  <2> DEFINE S == (0 .. N) \ B
  <2>1. S \subseteq Nat /\ S # {}
    OBVIOUS
  <2> HIDE DEF S
  <2>2. \E m \in S : \A n \in S : m <= n
    BY <2>1, Least
  <2> QED BY <2>2 DEF S
<1>2. m \in 1 .. N /\ m - 1 \in 0 .. N /\ ~ (m <= m - 1)
  OBVIOUS
<1> QED BY <1>1, <1>2

\* What a loop of N turns has after each of them.
Turns(f, N, S, base, step) ==
    f \in [0 .. N -> S] /\ f[0] = base /\ \A n \in 1 .. N : f[n] = step[n][f[n - 1]]

\* A loop of N turns that stays in S has a result after each of them.
LEMMA Loops ==
    ASSUME NEW N \in Nat, NEW S, NEW base \in S, NEW step \in [1 .. N -> [S -> S]]
    PROVE  \E f : Turns(f, N, S, base, step)
<1> DEFINE Runs(g, k) == /\ g \in [0 .. k -> S] /\ g[0] = base
                         /\ \A n \in 1 .. k : g[n] = step[n][g[n - 1]]
           B == {k \in 0 .. N : \E g : Runs(g, k)}
<1>1. 0 \in B
  <2>1. Runs([n \in 0 .. 0 |-> base], 0)
    OBVIOUS
  <2> HIDE DEF Runs
  <2> QED BY <2>1
<1>2. ASSUME NEW k \in 1 .. N, k - 1 \in B PROVE k \in B
  <2>1. PICK g : Runs(g, k - 1)
    BY <1>2
  <2> DEFINE h == [n \in 0 .. k |-> IF n = k THEN step[k][g[k - 1]] ELSE g[n]]
  <2>2. g[k - 1] \in S
    BY <2>1
  <2>3. step[k][g[k - 1]] \in S
    BY <2>2
  <2>4. h \in [0 .. k -> S] /\ h[0] = base
    BY <2>1, <2>3
  <2>5. \A n \in 1 .. k : h[n] = step[n][h[n - 1]]
    <3> TAKE n \in 1 .. k
    <3>1. CASE n = k
      <4>1. k \in 0 .. k /\ k - 1 \in 0 .. k /\ k - 1 # k
        OBVIOUS
      <4>2. h[k] = step[k][g[k - 1]] /\ h[k - 1] = g[k - 1]
        BY <4>1
      <4> QED BY <3>1, <4>2
    <3>2. CASE n # k
      <4>1. n \in 1 .. k - 1 /\ n - 1 \in 0 .. k /\ n - 1 # k
        BY <3>2
      <4>2. h[n] = g[n] /\ h[n - 1] = g[n - 1]
        BY <4>1, <3>2
      <4> QED BY <2>1, <4>1, <4>2
    <3> QED BY <3>1, <3>2
  <2>6. Runs(h, k)
    BY <2>4, <2>5
  <2> HIDE DEF Runs, h
  <2> QED BY <2>6
<1>3. N \in B
  <2> HIDE DEF B
  <2>1. \A n \in 0 .. N : n \in B
    BY <1>1, <1>2, Along
  <2> QED BY <2>1
<1>4. PICK g : Runs(g, N)
  BY <1>3
<1> QED BY <1>4 DEF Turns

\* What is picked from a list is in it, and nothing at the places is left out.
LEMMA Picking ==
    ASSUME NEW E, NEW list \in Seq(E), NEW places, NEW t, t = Picked(list, places)
    PROVE  /\ t \in Seq(E)
           /\ \A n \in DOMAIN t : \E i \in places \cap DOMAIN list : t[n] = list[i]
           /\ \A i \in places \cap DOMAIN list : \E n \in DOMAIN t : t[n] = list[i]
<1> DEFINE N == Len(list)
           step == [n \in 1 .. N |-> [x \in Seq(E) |-> IF n \in places THEN Append(x, list[n]) ELSE x]]
<1>1. N \in Nat /\ DOMAIN list = 1 .. N /\ \A i \in 1 .. N : list[i] \in E
  OBVIOUS
<1>2. step \in [1 .. N -> [Seq(E) -> Seq(E)]]
  BY <1>1
<1>3. <<>> \in Seq(E)
  OBVIOUS
<1>0. PICK f : Turns(f, N, Seq(E), <<>>, step)
  <2> DEFINE S == Seq(E)
             base == <<>>
  <2>1. N \in Nat /\ base \in S /\ step \in [1 .. N -> [S -> S]]
    BY <1>1, <1>2, <1>3
  <2> HIDE DEF step, N, S, base
  <2>2. \E f : Turns(f, N, S, base, step)
    BY <2>1, Loops
  <2> QED BY <2>2 DEF S, base
<1>4. f \in [0 .. N -> Seq(E)] /\ f[0] = <<>> /\ \A n \in 1 .. N : f[n] = step[n][f[n - 1]]
  <2> HIDE DEF step, N
  <2> QED BY <1>0 DEF Turns
<1> DEFINE turn(g, n) == IF n = 0 THEN <<>>
                         ELSE IF n \in places THEN Append(g[n - 1], list[n]) ELSE g[n - 1]
           upTo == CHOOSE g : g = [n \in 0 .. N |-> turn(g, n)]
<1>5. f = [n \in 0 .. N |-> turn(f, n)]
  <2>1. \A n \in 1 .. N : step[n][f[n - 1]] = turn(f, n)
    <3> TAKE n \in 1 .. N
    <3>1. n - 1 \in 0 .. N
      BY <1>1
    <3>2. f[n - 1] \in Seq(E)
      BY <1>4, <3>1
    <3> QED BY <3>2
  <2> HIDE DEF step
  <2>2. \A n \in 0 .. N : f[n] = turn(f, n)
    <3> TAKE n \in 0 .. N
    <3>1. CASE n = 0
      BY <1>4, <3>1
    <3>2. CASE n # 0
      <4>1. n \in 1 .. N
        BY <1>1, <3>2
      <4>2. f[n] = step[n][f[n - 1]]
        BY <1>4, <3>2
      <4> QED BY <2>1, <4>1, <4>2
    <3> QED BY <3>1, <3>2
  <2>3. f = [n \in 0 .. N |-> f[n]]
    BY <1>4
  <2> HIDE DEF turn
  <2> QED BY <2>2, <2>3
<1>6. upTo = [n \in 0 .. N |-> turn(upTo, n)]
  <2> HIDE DEF turn
  <2> QED BY <1>5
<1>7. t = upTo[N]
  BY DEF Picked
<1> HIDE DEF upTo
<1>8. upTo[0] = <<>> /\ \A n \in 1 .. N : upTo[n] = IF n \in places THEN Append(upTo[n - 1], list[n]) ELSE upTo[n - 1]
  <2>1. \A n \in 0 .. N : upTo[n] = turn(upTo, n)
    <3> HIDE DEF turn
    <3> QED BY <1>6
  <2>2. 0 \in 0 .. N /\ \A n \in 1 .. N : n \in 0 .. N /\ n # 0
    BY <1>1
  <2> QED BY <2>1, <2>2
<1> HIDE DEF turn, step
<1> DEFINE Ok(n) == /\ upTo[n] \in Seq(E)
                    /\ \A k \in DOMAIN upTo[n] : \E i \in places \cap DOMAIN list : upTo[n][k] = list[i]
                    /\ \A i \in places \cap (1 .. n) : \E k \in DOMAIN upTo[n] : upTo[n][k] = list[i]
<1>9. Ok(0)
  BY <1>8
<1>10. ASSUME NEW n \in 1 .. N, Ok(n - 1) PROVE Ok(n)
  <2> DEFINE u == upTo[n - 1]
  <2>1. CASE n \in places
    <3>1. upTo[n] = Append(u, list[n]) /\ list[n] \in E /\ u \in Seq(E) /\ n \in places \cap DOMAIN list
      BY <1>1, <1>8, <1>10, <2>1
    <3> SUFFICES ASSUME NEW v, v = upTo[n]
                 PROVE /\ v \in Seq(E)
                       /\ \A k \in DOMAIN v : \E i \in places \cap DOMAIN list : v[k] = list[i]
                       /\ \A i \in places \cap (1 .. n) : \E k \in DOMAIN v : v[k] = list[i]
      OBVIOUS
    <3>2. /\ v \in Seq(E) /\ DOMAIN v = 1 .. Len(u) + 1
          /\ \A k \in 1 .. Len(u) : v[k] = u[k]
          /\ v[Len(u) + 1] = list[n] /\ Len(u) \in Nat /\ DOMAIN u = 1 .. Len(u)
      BY <3>1
    <3>3. \A k \in DOMAIN v : \E i \in places \cap DOMAIN list : v[k] = list[i]
      BY <1>10, <3>1, <3>2
    <3>4. \A i \in places \cap (1 .. n) : \E k \in DOMAIN v : v[k] = list[i]
      <4> TAKE i \in places \cap (1 .. n)
      <4>1. CASE i = n
        <5>1. Len(u) + 1 \in DOMAIN v
          BY <3>2
        <5> QED BY <3>2, <4>1, <5>1
      <4>2. CASE i # n
        <5>1. i \in places \cap (1 .. n - 1)
          BY <4>2
        <5>2. PICK k \in DOMAIN u : u[k] = list[i]
          BY <1>10, <5>1
        <5> QED BY <3>2, <5>2
      <4> QED BY <4>1, <4>2
    <3> QED BY <3>2, <3>3, <3>4
  <2>2. CASE n \notin places
    <3>1. upTo[n] = u
      BY <1>8, <2>2
    <3>2. places \cap (1 .. n) = places \cap (1 .. n - 1)
      BY <2>2
    <3> HIDE DEF u
    <3>3. /\ u \in Seq(E)
          /\ \A k \in DOMAIN u : \E i \in places \cap DOMAIN list : u[k] = list[i]
          /\ \A i \in places \cap (1 .. n - 1) : \E k \in DOMAIN u : u[k] = list[i]
      BY <1>10 DEF u
    <3> QED BY <3>1, <3>2, <3>3
  <2> QED BY <2>1, <2>2
<1>11. Ok(N)
  <2> DEFINE B == {n \in 0 .. N : Ok(n)}
  <2> HIDE DEF Ok
  <2>1. 0 \in B /\ \A n \in 1 .. N : n - 1 \in B => n \in B
    BY <1>1, <1>9, <1>10
  <2> HIDE DEF B
  <2>2. \A n \in 0 .. N : n \in B
    BY <1>1, <2>1, Along
  <2>3. N \in B
    BY <1>1, <2>2
  <2> QED BY <2>3 DEF B
<1> QED BY <1>1, <1>7, <1>11

\* v is x with y behind it.
Chained(E, x, y, v) ==
    /\ v \in Seq(E) /\ Len(v) = Len(x) + Len(y) /\ DOMAIN v = 1 .. Len(x) + Len(y)
    /\ Len(x) \in Nat /\ Len(y) \in Nat /\ DOMAIN x = 1 .. Len(x) /\ DOMAIN y = 1 .. Len(y)
    /\ \A i \in DOMAIN x : i \in DOMAIN v /\ v[i] = x[i]
    /\ \A i \in DOMAIN y : Len(x) + i \in DOMAIN v /\ v[Len(x) + i] = y[i]

LEMMA Chaining ==
    ASSUME NEW E, NEW x \in Seq(E), NEW y \in Seq(E), NEW v, v = x \o y
    PROVE  Chained(E, x, y, v)
<1>1. /\ v \in Seq(E) /\ Len(v) = Len(x) + Len(y)
      /\ \A i \in 1 .. Len(x) + Len(y) : v[i] = IF i <= Len(x) THEN x[i] ELSE y[i - Len(x)]
  BY ConcatProperties
<1>2. /\ DOMAIN v = 1 .. Len(x) + Len(y) /\ Len(x) \in Nat /\ Len(y) \in Nat
      /\ DOMAIN x = 1 .. Len(x) /\ DOMAIN y = 1 .. Len(y)
  BY <1>1
<1>3. \A i \in DOMAIN x : i \in DOMAIN v /\ v[i] = x[i]
  BY <1>1, <1>2
<1>4. ASSUME NEW i \in DOMAIN y PROVE Len(x) + i \in DOMAIN v /\ v[Len(x) + i] = y[i]
  <2>1. Len(x) + i \in 1 .. Len(x) + Len(y) /\ ~ (Len(x) + i <= Len(x)) /\ (Len(x) + i) - Len(x) = i
    BY <1>2
  <2> QED BY <1>1, <1>2, <2>1
<1> QED BY <1>1, <1>2, <1>3, <1>4 DEF Chained

\* Insertion makes a list longer by what is inserted.
LEMMA Inserting ==
    ASSUME NEW E, NEW s \in Seq(E), NEW e \in E, NEW k \in 0 .. Len(s), NEW v,
           v = InsertAt(s, k + 1, e)
    PROVE  /\ v \in Seq(E)
           /\ \A i \in DOMAIN v : v[i] = e \/ \E j \in DOMAIN s : v[i] = s[j]
           /\ \E i \in DOMAIN v : v[i] = e
           /\ \A j \in DOMAIN s : \E i \in DOMAIN v : v[i] = s[j]
<1> DEFINE a == SubSeq(s, 1, k)
           b == SubSeq(s, k + 1, Len(s))
<1>1. /\ a \in Seq(E) /\ Len(a) = k /\ \A i \in 1 .. k : a[i] = s[i]
      /\ k \in Nat /\ Len(s) \in Nat /\ DOMAIN s = 1 .. Len(s)
  OBVIOUS
<1>2. b \in Seq(E) /\ Len(b) = Len(s) - k /\ \A i \in 1 .. Len(s) - k : b[i] = s[k + i]
  OBVIOUS
<1>3. v = (a \o <<e>>) \o b
  <2>1. (k + 1) - 1 = k
    BY <1>1
  <2>2. v = (SubSeq(s, 1, (k + 1) - 1) \o <<e>>) \o SubSeq(s, k + 1, Len(s))
    BY Zenon DEF InsertAt
  <2> QED BY <2>1, <2>2, Zenon
<1> HIDE DEF a, b
<1> DEFINE c == a \o <<e>>
<1>4. c \in Seq(E) /\ Len(c) = k + 1 /\ c[k + 1] = e /\ \A i \in 1 .. k : c[i] = s[i]
  BY <1>1
<1> HIDE DEF c
<1>5. /\ v \in Seq(E) /\ DOMAIN v = 1 .. Len(s) + 1
      /\ \A i \in 1 .. k + 1 : v[i] = c[i]
      /\ \A i \in k + 2 .. Len(s) + 1 : v[i] = b[i - (k + 1)]
  <2>0. v = c \o b
    BY <1>3 DEF c
  <2>1. /\ v \in Seq(E) /\ DOMAIN v = 1 .. Len(c) + Len(b)
        /\ \A i \in DOMAIN c : v[i] = c[i]
        /\ \A i \in DOMAIN b : v[Len(c) + i] = b[i]
    <3>1. Chained(E, c, b, v)
      BY <1>2, <1>4, <2>0, Chaining
    <3> QED BY <3>1 DEF Chained
  <2>2. /\ Len(c) + Len(b) = Len(s) + 1 /\ DOMAIN c = 1 .. k + 1 /\ DOMAIN b = 1 .. Len(s) - k
        /\ \A i \in k + 2 .. Len(s) + 1 : i - (k + 1) \in 1 .. Len(s) - k /\ (k + 1) + (i - (k + 1)) = i
    BY <1>1, <1>2, <1>4
  <2>3. \A i \in k + 2 .. Len(s) + 1 : v[i] = b[i - (k + 1)]
    BY <1>4, <2>1, <2>2
  <2> QED BY <2>1, <2>2, <2>3
<1>6. \A i \in k + 2 .. Len(s) + 1 : v[i] = s[i - 1] /\ i - 1 \in DOMAIN s
  <2> TAKE i \in k + 2 .. Len(s) + 1
  <2>1. i - (k + 1) \in 1 .. Len(s) - k /\ k + (i - (k + 1)) = i - 1 /\ i - 1 \in 1 .. Len(s)
    BY <1>1
  <2> QED BY <1>1, <1>2, <1>5, <2>1
<1>7. v[k + 1] = e /\ k + 1 \in DOMAIN v
  BY <1>1, <1>4, <1>5
<1>8. \A i \in 1 .. k : v[i] = s[i] /\ i \in DOMAIN s /\ i \in DOMAIN v
  BY <1>1, <1>4, <1>5
<1>9. \A i \in DOMAIN v : v[i] = e \/ \E j \in DOMAIN s : v[i] = s[j]
  <2> TAKE i \in DOMAIN v
  <2>1. CASE i \in 1 .. k
    BY <1>8, <2>1
  <2>2. CASE i = k + 1
    BY <1>7, <2>2
  <2>3. CASE i \in k + 2 .. Len(s) + 1
    BY <1>6, <2>3
  <2>4. i \in 1 .. Len(s) + 1
    BY <1>5
  <2> QED BY <1>1, <2>1, <2>2, <2>3, <2>4
<1>10. \A j \in DOMAIN s : \E i \in DOMAIN v : v[i] = s[j]
  <2> TAKE j \in DOMAIN s
  <2>1. CASE j \in 1 .. k
    BY <1>8, <2>1
  <2>2. CASE j \in k + 1 .. Len(s)
    <3>1. j + 1 \in k + 2 .. Len(s) + 1 /\ (j + 1) - 1 = j /\ j + 1 \in DOMAIN v
      BY <1>1, <1>5, <2>2
    <3> QED BY <1>6, <3>1
  <2> QED BY <1>1, <2>1, <2>2
<1> QED BY <1>5, <1>7, <1>9, <1>10

\* v is the line x with n in it.
Placed(P, x, n, v) ==
    /\ v \in Seq(P)
    /\ \E i \in DOMAIN v : v[i] = n
    /\ \A j \in DOMAIN x : \E i \in DOMAIN v : v[i] = x[j]

\* Sorting changes the order alone.
LEMMA Sorting ==
    ASSUME NEW E, NEW list \in Seq(E), NEW keys, NEW t, t = SortedBy(list, keys)
    PROVE  /\ t \in Seq(E)
           /\ \A n \in DOMAIN t : \E i \in DOMAIN list : t[n] = list[i]
           /\ \A i \in DOMAIN list : \E n \in DOMAIN t : t[n] = list[i]
<1> DEFINE N == Len(list)
           P == 1 .. N
           step == [n \in 1 .. N |-> [x \in Seq(P) |-> Inserted(x, keys, n)]]
<1>1. N \in Nat /\ DOMAIN list = P /\ \A i \in P : list[i] \in E
  OBVIOUS
<1>2. ASSUME NEW x \in Seq(P), NEW n \in 1 .. N, NEW v, v = Inserted(x, keys, n)
      PROVE  Placed(P, x, n, v)
  <2> DEFINE F == {m \in DOMAIN x : keys[x[m]] <= keys[n]}
             k == Cardinality(F)
  <2>1. F \in SUBSET DOMAIN x /\ DOMAIN x = 1 .. Len(x) /\ Len(x) \in Nat
    OBVIOUS
  <2>2. IsFiniteSet(1 .. Len(x)) /\ Cardinality(1 .. Len(x)) = Len(x)
    <3> SUFFICES ASSUME NEW m \in Nat PROVE IsFiniteSet(1 .. m) /\ Cardinality(1 .. m) = m
      BY <2>1
    <3> QED BY FS_Interval
  <2>3. k \in 0 .. Len(x)
    <3> HIDE DEF F
    <3>1. IsFiniteSet(F) /\ Cardinality(F) <= Len(x)
      BY <2>1, <2>2, FS_Subset
    <3>2. Cardinality(F) \in Nat
      BY <3>1, FS_CardinalityType
    <3> QED BY <2>1, <3>1, <3>2
  <2>4. v = InsertAt(x, k + 1, n)
    BY <1>2 DEF Inserted
  <2> HIDE DEF k
  <2>5. n \in P
    OBVIOUS
  <2> HIDE DEF P
  <2> QED BY <2>3, <2>4, <2>5, Inserting DEF Placed
<1>3. step \in [1 .. N -> [Seq(P) -> Seq(P)]]
  BY <1>2 DEF Placed
<1>4. <<>> \in Seq(P)
  OBVIOUS
<1>5. PICK g : Turns(g, N, Seq(P), <<>>, step)
  <2> DEFINE S == Seq(P)
             base == <<>>
  <2>1. N \in Nat /\ base \in S /\ step \in [1 .. N -> [S -> S]]
    BY <1>1, <1>3, <1>4
  <2> HIDE DEF step, N, S, base
  <2>2. \E g : Turns(g, N, S, base, step)
    BY <2>1, Loops
  <2> QED BY <2>2 DEF S, base
<1>6. g \in [0 .. N -> Seq(P)] /\ g[0] = <<>> /\ \A n \in 1 .. N : g[n] = step[n][g[n - 1]]
  <2> HIDE DEF step, N, P
  <2> QED BY <1>5 DEF Turns
<1> DEFINE turn(f, n) == IF n = 0 THEN <<>> ELSE Inserted(f[n - 1], keys, n)
           order == CHOOSE f : f = [n \in 0 .. N |-> turn(f, n)]
<1>7. g = [n \in 0 .. N |-> turn(g, n)]
  <2>1. \A n \in 1 .. N : g[n] = Inserted(g[n - 1], keys, n)
    <3> TAKE n \in 1 .. N
    <3>1. n - 1 \in 0 .. N
      BY <1>1
    <3>2. g[n - 1] \in Seq(P)
      BY <1>6, <3>1
    <3> QED BY <1>6, <3>2
  <2> HIDE DEF step
  <2>2. \A n \in 0 .. N : g[n] = turn(g, n)
    <3> TAKE n \in 0 .. N
    <3>1. CASE n = 0
      BY <1>6, <3>1
    <3>2. CASE n # 0
      BY <1>1, <2>1, <3>2
    <3> QED BY <3>1, <3>2
  <2>3. g = [n \in 0 .. N |-> g[n]]
    BY <1>6
  <2> HIDE DEF turn
  <2> QED BY <2>2, <2>3
<1>8. order = [n \in 0 .. N |-> turn(order, n)]
  <2> HIDE DEF turn
  <2> QED BY <1>7
<1> DEFINE line == order[N]
<1>9. t = [n \in DOMAIN line |-> list[line[n]]]
  BY DEF SortedBy
<1> HIDE DEF order
<1>10. order[0] = <<>> /\ \A n \in 1 .. N : order[n] = Inserted(order[n - 1], keys, n)
  <2>1. \A n \in 0 .. N : order[n] = turn(order, n)
    <3> HIDE DEF turn
    <3> QED BY <1>8
  <2>2. 0 \in 0 .. N /\ \A n \in 1 .. N : n \in 0 .. N /\ n # 0
    BY <1>1
  <2> QED BY <2>1, <2>2
<1> HIDE DEF turn, step, P
<1> DEFINE Ok(n) == order[n] \in Seq(P) /\ \A i \in 1 .. n : \E k \in DOMAIN order[n] : order[n][k] = i
<1>11. Ok(0)
  BY <1>4, <1>10
<1>12. ASSUME NEW n \in 1 .. N, Ok(n - 1) PROVE Ok(n)
  <2> SUFFICES ASSUME NEW x, x = order[n - 1], NEW v, v = order[n]
               PROVE  v \in Seq(P) /\ \A i \in 1 .. n : \E k \in DOMAIN v : v[k] = i
    OBVIOUS
  <2>1. x \in Seq(P) /\ \A i \in 1 .. n - 1 : \E k \in DOMAIN x : x[k] = i
    BY <1>12
  <2>2. v = Inserted(x, keys, n)
    BY <1>10
  <2>5. Placed(P, x, n, v)
    BY <1>2, <2>1, <2>2
  <2>3. /\ v \in Seq(P)
        /\ \E i \in DOMAIN v : v[i] = n
        /\ \A j \in DOMAIN x : \E i \in DOMAIN v : v[i] = x[j]
    BY <2>5 DEF Placed
  <2>4. ASSUME NEW i \in 1 .. n PROVE \E k \in DOMAIN v : v[k] = i
    <3>1. CASE i = n
      BY <2>3, <3>1
    <3>2. CASE i # n
      <4>1. i \in 1 .. n - 1
        BY <3>2
      <4>2. PICK k \in DOMAIN x : x[k] = i
        BY <2>1, <4>1
      <4> QED BY <2>3, <4>2
    <3> QED BY <3>1, <3>2
  <2> QED BY <2>3, <2>4
<1>13. Ok(N)
  <2> DEFINE B == {n \in 0 .. N : Ok(n)}
  <2> HIDE DEF Ok
  <2>1. 0 \in B /\ \A n \in 1 .. N : n - 1 \in B => n \in B
    BY <1>1, <1>11, <1>12
  <2> HIDE DEF B
  <2>2. \A n \in 0 .. N : n \in B
    BY <1>1, <2>1, Along
  <2>3. N \in B
    BY <1>1, <2>2
  <2> QED BY <2>3 DEF B
<1>14. line \in Seq(P) /\ \A i \in P : \E k \in DOMAIN line : line[k] = i
  BY <1>13 DEF P
<1> HIDE DEF line, N
<1>15. /\ t \in Seq(E) /\ DOMAIN t = DOMAIN line
       /\ \A n \in DOMAIN line : line[n] \in P /\ t[n] = list[line[n]]
  <2>1. DOMAIN line = 1 .. Len(line) /\ Len(line) \in Nat /\ \A n \in DOMAIN line : line[n] \in P
    BY <1>14
  <2>2. t \in [1 .. Len(line) -> E]
    BY <1>1, <1>9, <2>1
  <2> QED BY <1>9, <2>1, <2>2, SeqDef
<1> QED BY <1>1, <1>14, <1>15

\* What is in one of the lists is in all of them together, and nothing else is.
LEMMA Joining ==
    ASSUME NEW E, NEW lists \in Seq(Seq(E)), NEW t, t = Concatenated(lists)
    PROVE  /\ t \in Seq(E)
           /\ \A n \in DOMAIN lists : \A i \in DOMAIN lists[n] : \E k \in DOMAIN t : t[k] = lists[n][i]
<1> DEFINE N == Len(lists)
           step == [n \in 1 .. N |-> [x \in Seq(E) |-> x \o lists[n]]]
<1>1. N \in Nat /\ DOMAIN lists = 1 .. N /\ \A n \in 1 .. N : lists[n] \in Seq(E)
  <2> DEFINE S == Seq(E)
  <2>1. lists \in Seq(S)
    OBVIOUS
  <2> HIDE DEF S
  <2>2. Len(lists) \in Nat /\ DOMAIN lists = 1 .. Len(lists) /\ \A n \in 1 .. Len(lists) : lists[n] \in S
    BY <2>1
  <2> QED BY <2>2 DEF S
<1> HIDE DEF N
<1>3. step \in [1 .. N -> [Seq(E) -> Seq(E)]]
  BY <1>1
<1>4. <<>> \in Seq(E)
  OBVIOUS
<1>5. PICK g : Turns(g, N, Seq(E), <<>>, step)
  <2> DEFINE S == Seq(E)
             base == <<>>
  <2>1. N \in Nat /\ base \in S /\ step \in [1 .. N -> [S -> S]]
    BY <1>1, <1>3, <1>4
  <2> HIDE DEF step, S, base
  <2>2. \E g : Turns(g, N, S, base, step)
    BY <2>1, Loops
  <2> QED BY <2>2 DEF S, base
<1>6. g \in [0 .. N -> Seq(E)] /\ g[0] = <<>> /\ \A n \in 1 .. N : g[n] = step[n][g[n - 1]]
  <2> HIDE DEF step
  <2> QED BY <1>5 DEF Turns
<1> DEFINE turn(f, n) == IF n = 0 THEN <<>> ELSE f[n - 1] \o lists[n]
           upTo == CHOOSE f : f = [n \in 0 .. N |-> turn(f, n)]
<1>7. g = [n \in 0 .. N |-> turn(g, n)]
  <2>1. \A n \in 1 .. N : g[n] = g[n - 1] \o lists[n]
    <3> TAKE n \in 1 .. N
    <3>1. n - 1 \in 0 .. N
      BY <1>1
    <3>2. g[n - 1] \in Seq(E)
      BY <1>6, <3>1
    <3> QED BY <1>6, <3>2
  <2> HIDE DEF step
  <2>2. \A n \in 0 .. N : g[n] = turn(g, n)
    <3> TAKE n \in 0 .. N
    <3>1. CASE n = 0
      BY <1>6, <3>1
    <3>2. CASE n # 0
      <4>1. n \in 1 .. N
        BY <1>1, <3>2
      <4> QED BY <2>1, <3>2, <4>1
    <3> QED BY <3>1, <3>2
  <2>3. g = [n \in 0 .. N |-> g[n]]
    BY <1>6
  <2> HIDE DEF turn
  <2> QED BY <2>2, <2>3
<1>8. upTo = [n \in 0 .. N |-> turn(upTo, n)]
  <2> HIDE DEF turn
  <2> QED BY <1>7
<1>9. t = upTo[N]
  BY DEF Concatenated, N
<1> HIDE DEF upTo
<1>10. upTo[0] = <<>> /\ \A n \in 1 .. N : upTo[n] = upTo[n - 1] \o lists[n]
  <2>1. \A n \in 0 .. N : upTo[n] = turn(upTo, n)
    <3> HIDE DEF turn
    <3> QED BY <1>8
  <2>2. 0 \in 0 .. N /\ \A n \in 1 .. N : n \in 0 .. N /\ n # 0
    BY <1>1
  <2> QED BY <2>1, <2>2
<1> HIDE DEF turn, step
<1> DEFINE Ok(n) == /\ upTo[n] \in Seq(E)
                    /\ \A m \in 1 .. n : \A i \in DOMAIN lists[m] : \E k \in DOMAIN upTo[n] : upTo[n][k] = lists[m][i]
<1>11. Ok(0)
  BY <1>4, <1>10
<1>12. ASSUME NEW n \in 1 .. N, Ok(n - 1) PROVE Ok(n)
  <2> DEFINE x == upTo[n - 1]
             v == upTo[n]
             l == lists[n]
  <2>1. /\ x \in Seq(E) /\ l \in Seq(E) /\ v = x \o l
        /\ \A m \in 1 .. n - 1 : \A i \in DOMAIN lists[m] : \E k \in DOMAIN x : x[k] = lists[m][i]
    BY <1>1, <1>10, <1>12
  <2> HIDE DEF x, v
  <2>5. Chained(E, x, l, v)
    BY <2>1, Chaining
  <2>2. v \in Seq(E) /\ \A i \in DOMAIN x : i \in DOMAIN v /\ v[i] = x[i]
    BY <2>5 DEF Chained
  <2>3. \A i \in DOMAIN l : Len(x) + i \in DOMAIN v /\ v[Len(x) + i] = l[i]
    BY <2>5 DEF Chained
  <2>4. ASSUME NEW m \in 1 .. n, NEW i \in DOMAIN lists[m]
        PROVE  \E k \in DOMAIN v : v[k] = lists[m][i]
    <3>1. CASE m = n
      BY <2>3, <3>1
    <3>2. CASE m # n
      <4>1. m \in 1 .. n - 1
        BY <3>2
      <4>2. PICK k \in DOMAIN x : x[k] = lists[m][i]
        BY <2>1, <4>1
      <4> QED BY <2>2, <4>2
    <3> QED BY <3>1, <3>2
  <2> QED BY <2>2, <2>4 DEF v
<1>13. Ok(N)
  <2> DEFINE B == {n \in 0 .. N : Ok(n)}
  <2> HIDE DEF Ok
  <2>1. 0 \in B /\ \A n \in 1 .. N : n - 1 \in B => n \in B
    BY <1>1, <1>11, <1>12
  <2> HIDE DEF B
  <2>2. \A n \in 0 .. N : n \in B
    BY <1>1, <2>1, Along
  <2>3. N \in B
    BY <1>1, <2>2
  <2> QED BY <2>3 DEF B
<1> QED BY <1>1, <1>9, <1>13

\* Ranking changes the order alone.
LEMMA Ranking ==
    ASSUME NEW E, NEW list \in Seq(E), NEW points, NEW t, t = Ranked(list, points)
    PROVE  /\ t \in Seq(E)
           /\ \A n \in DOMAIN t : \E i \in DOMAIN list : t[n] = list[i]
           /\ \A i \in DOMAIN list : \E n \in DOMAIN t : t[n] = list[i]
<1> DEFINE keys == [i \in DOMAIN list |-> -points[list[i]]]
<1>1. t = SortedBy(list, keys)
  BY DEF Ranked
<1> HIDE DEF keys
<1> QED BY <1>1, Sorting

\* A merge is of what is merged.
LEMMA Merging ==
    ASSUME NEW E, NEW these \in Seq(E), NEW those \in Seq(E), NEW points,
           \A e \in E : points[e] \in Int
    PROVE  Merged(these, those, points) \in Seq(E)
<1> DEFINE all == these \o those
           first == {i \in DOMAIN all : \A j \in 1 .. i - 1 : ChunkOf(all[j]) # ChunkOf(all[i])}
<1>1. all \in Seq(E) /\ first \in SUBSET DOMAIN all
  OBVIOUS
<1>2. Merged(these, those, points) = Ranked(Picked(all, first), points)
  BY DEF Merged
<1> HIDE DEF all, first
<1>3. Picked(all, first) \in Seq(E)
  BY <1>1, Picking
<1> QED BY <1>2, <1>3, Ranking

-----------------------------------------------------------------------------
(* The search of required data.                                            *)

\* An object that a search brings, not one that was fetched.
SearchObjects == {o \in Objects : o[2] # PromotedKey}

SearchFields == {"pc", "scoped", "level", "own", "hits", "acc", "saved", "verdict"}

\* The keys of the level a request with profile p is at.
KeysFor(p, q) == {<<f, q.scoped>> : f \in Levels(p, q.scoped)[q.level].filters}

\* What stands for request r: chunks of searches, and the one that was fetched
\* for it from the article it was routed to.
Sound(r, p, list) ==
    \A i \in DOMAIN list :
        \/ list[i] \in SearchObjects
        \/ ArticleOf(list[i]) = p.primary /\ list[i][1] = r /\ list[i][2] = PromotedKey

\* The state q of request r with profile p.
RequestOK(r, p, q) ==
    /\ DOMAIN q = SearchFields
    /\ q.scoped \in BOOLEAN /\ q.level \in 1 .. Len(Levels(p, q.scoped))
    /\ q.saved \in Seq(SearchObjects) /\ q.acc \in Seq(Objects)
    /\ q.pc \in {"search", "await", "promote"} => q.acc \in Seq(SearchObjects)
    /\ q.pc = "await" => \A k \in KeysFor(p, q) : k \in q.own \/ q.hits[k] \in Requests
    /\ q.pc \in {"context", "extract"} => q.acc # <<>> /\ Sound(r, p, q.acc)
    /\ q.verdict = "answered" => q.pc = "done"

\* The gate was passed on the raw score of something sound.
Passed(r, p, q, raws) ==
    q.pc = "extract" \/ q.verdict = "answered" =>
        /\ Sound(r, p, q.acc)
        /\ \E i \in DOMAIN q.acc : raws[q.acc[i]] >= GateRaw

\* The raw score of what a search brought is the cosine, from the first ranking on.
ScoresFit(scores, raws, cosines) ==
    /\ scores \in [Objects -> Int]
    /\ raws \in [Objects -> Int]
    /\ \A o \in Objects : raws[o] <= 100
    /\ \A o \in SearchObjects :
          \/ raws[o] = -1 /\ scores[o] = cosines[ChunkOf(o)]
          \/ raws[o] = cosines[ChunkOf(o)]

\* What passed the gate still does.
KeepsPassing(raws, next) == \A o \in Objects : raws[o] >= GateRaw => next[o] >= GateRaw

SearchInv ==
    /\ wanted \in [Requests -> Profiles]
    /\ cosine \in [Chunks -> Cosines]
    /\ cache \in [Keys -> Requests \cup {NoOne}]
    /\ ScoresFit(score, raw, cosine)
    /\ req = [r \in Requests |-> req[r]]
    /\ \A r \in Requests : RequestOK(r, wanted[r], req[r]) /\ Passed(r, wanted[r], req[r], raw)

\* A search asks for nothing under the key of what is fetched.
LEMMA LevelsAreSearched ==
    ASSUME NEW p \in Profiles, NEW scoped \in BOOLEAN
    PROVE  /\ Len(Levels(p, scoped)) \in 1 .. 4
           /\ \A n \in 1 .. Len(Levels(p, scoped)) :
                 /\ Levels(p, scoped)[n].filters \subseteq {p.keeper, "global", Default, "any"}
                 /\ Levels(p, scoped)[n].rule \in {"staged", "join", "iterate"}
<1> DEFINE All == {p.keeper, "global", Default, "any"}
           LV == {Level(f, rule) : f \in SUBSET All, rule \in {"iterate", "join", "staged"}}
<1>1. \A f \in SUBSET All : \A rule \in {"iterate", "join", "staged"} : Level(f, rule) \in LV
  OBVIOUS
<1>2. \A v \in LV : v.filters \subseteq All /\ v.rule \in {"staged", "join", "iterate"}
  BY DEF Level
<1>3. {"global"} \in SUBSET All /\ {Default} \in SUBSET All /\ {"any"} \in SUBSET All
      /\ {p.keeper, "global"} \in SUBSET All
  OBVIOUS
<1> HIDE DEF All, LV
<1> DEFINE G == Level({"global"}, "iterate")
           D == Level({Default}, "iterate")
           A == Level({"any"}, "iterate")
           S == Level({Default}, "staged")
           J == Level({"global"}, "join")
           K == Level({p.keeper, "global"}, "join")
<1>4. G \in LV /\ D \in LV /\ A \in LV /\ S \in LV /\ J \in LV /\ K \in LV
  BY <1>1, <1>3
<1> DEFINE levels == Levels(p, scoped)
<1> SUFFICES levels \in Seq(LV) /\ Len(levels) \in 1 .. 4
  <2>1. \A n \in 1 .. Len(levels) : levels[n] \in LV
    OBVIOUS
  <2> QED BY <1>2, <2>1 DEF All
<1> HIDE DEF levels
<1>5. ASSUME NEW keeper
      PROVE  Tail2(keeper) \in Seq(LV) /\ Len(Tail2(keeper)) \in 1 .. 2
  <2>1. CASE keeper = Default
    <3>1. Tail2(keeper) = <<>> \o <<A>>
      BY <2>1 DEF Tail2
    <3>2. <<A>> \in Seq(LV) /\ Len(<<A>>) = 1 /\ <<>> \in Seq(LV)
      BY <1>4
    <3> HIDE DEF A
    <3> QED BY <3>1, <3>2
  <2>2. CASE keeper # Default
    <3>1. Tail2(keeper) = <<D>> \o <<A>>
      BY <2>2 DEF Tail2
    <3>2. <<D>> \in Seq(LV) /\ <<A>> \in Seq(LV) /\ Len(<<A>>) = 1 /\ Len(<<D>>) = 1
      BY <1>4
    <3> HIDE DEF D, A
    <3> QED BY <3>1, <3>2
  <2> QED BY <2>1, <2>2
<1>6. CASE p.keeper = NoOne
  <2>1. levels = <<G, D, A>>
    BY <1>6, RetrievalConstants DEF levels, Levels, RetrievalAssumption
  <2> HIDE DEF G, D, A
  <2> QED BY <1>4, <2>1
<1>7. CASE p.keeper # NoOne /\ p.topic = "global_only"
  <2>1. levels = <<G, A>>
    BY <1>7 DEF levels, Levels
  <2> HIDE DEF G, D, A
  <2> QED BY <1>4, <2>1
<1>8. CASE /\ p.keeper # NoOne /\ p.keeper = Default /\ p.topic # "global_only"
           /\ ~(scoped /\ p.topic = "optional")
  <2>1. levels = <<S, J>> \o Tail2(Default)
    BY <1>8 DEF levels, Levels
  <2>2. <<S, J>> \in Seq(LV) /\ Len(<<S, J>>) = 2
    BY <1>4
  <2>3. Tail2(Default) \in Seq(LV) /\ Len(Tail2(Default)) \in 1 .. 2
    BY <1>5
  <2> HIDE DEF G, D, A, S, J
  <2> QED BY <2>1, <2>2, <2>3
<1>9. CASE p.keeper # NoOne /\ p.topic # "global_only"
           /\ (p.keeper # Default \/ (scoped /\ p.topic = "optional"))
  <2>1. levels = <<K>> \o Tail2(p.keeper)
    BY <1>9 DEF levels, Levels
  <2>2. <<K>> \in Seq(LV) /\ Len(<<K>>) = 1
    BY <1>4
  <2>3. Tail2(p.keeper) \in Seq(LV) /\ Len(Tail2(p.keeper)) \in 1 .. 2
    BY <1>5
  <2> HIDE DEF G, D, A, K, S, J
  <2>4. \A x, y \in Seq(LV) : x \o y \in Seq(LV) /\ Len(x \o y) = Len(x) + Len(y)
    OBVIOUS
  <2>5. levels \in Seq(LV) /\ Len(levels) = 1 + Len(Tail2(p.keeper))
    BY <2>1, <2>2, <2>3, <2>4
  <2>6. PICK n \in 1 .. 2 : Len(Tail2(p.keeper)) = n
    BY <2>3
  <2>7. Len(levels) \in 1 .. 4
    BY <2>5, <2>6
  <2> QED BY <2>5, <2>7
<1> QED BY <1>6, <1>7, <1>8, <1>9

LEMMA KeysAreSearched ==
    ASSUME NEW p \in Profiles, NEW q, q.scoped \in BOOLEAN, q.level \in 1 .. Len(Levels(p, q.scoped))
    PROVE  KeysFor(p, q) \subseteq Keys \ {PromotedKey}
<1>1. Levels(p, q.scoped)[q.level].filters \subseteq {p.keeper, "global", Default, "any"}
  BY LevelsAreSearched
<1>2. \A f \in {p.keeper, "global", Default, "any"} : f \in Filters /\ f # "fetched"
  <2>1. p.keeper \in Filters /\ p.keeper # "fetched"
    BY RetrievalConstants DEF RetrievalAssumption, Filters
  <2>2. "global" \in Filters /\ Default \in Filters /\ "any" \in Filters
    BY DEF Filters
  <2>3. Default # "fetched"
    BY DEF Default
  <2> QED BY <2>1, <2>2, <2>3
<1> SUFFICES ASSUME NEW f \in Levels(p, q.scoped)[q.level].filters
             PROVE  <<f, q.scoped>> \in Keys /\ <<f, q.scoped>> # PromotedKey
  BY DEF KeysFor
<1>3. f \in Filters /\ f # "fetched"
  BY <1>1, <1>2
<1> QED BY <1>3 DEF Keys, PromotedKey

\* An answer that the cache and the index give is of searched chunks.
LEMMA FoundIsSearched ==
    ASSUME SearchInv, NEW r \in Requests, req[r].pc = "await", NEW key \in KeysOf(r)
    PROVE  Found(r, key) \in Seq(SearchObjects)
<1> DEFINE by == IF key \in req[r].own THEN r ELSE req[r].hits[key]
           before == {p \in Chunks \X Chunks :
                      \/ cosine[p[1]] > cosine[p[2]]
                      \/ cosine[p[1]] = cosine[p[2]] /\ p[1] < p[2]}
<1>1. RequestOK(r, wanted[r], req[r]) /\ wanted[r] \in Profiles /\ cosine \in [Chunks -> Cosines]
  BY DEF SearchInv
<1>2. KeysOf(r) = KeysFor(wanted[r], req[r])
  BY DEF KeysOf, KeysFor, Here
<1>3. key \in Keys /\ key # PromotedKey
  BY <1>1, <1>2, KeysAreSearched DEF RequestOK
<1>4. by \in Requests
  BY <1>1, <1>2 DEF RequestOK
<1>5. Chunks \subseteq Nat /\ IsFiniteSet(Chunks) /\ Cosines \subseteq Int
  BY RetrievalConstants DEF RetrievalAssumption
<1>6. \A x, y \in Chunks : <<x, y>> \in before <=> cosine[x] > cosine[y] \/ (cosine[x] = cosine[y] /\ x < y)
  OBVIOUS
<1>7. \A x \in Chunks : cosine[x] \in Int
  BY <1>1, <1>5
<1> SUFFICES ASSUME NEW S, S = Matches(key) PROVE Found(r, key) \in Seq(SearchObjects)
  OBVIOUS
<1>8. S \subseteq Chunks /\ IsFiniteSet(S)
  BY <1>5, FS_Subset DEF Matches
<1> SUFFICES ASSUME NEW line, line = Line(S, before) PROVE Found(r, key) \in Seq(SearchObjects)
  OBVIOUS
<1>9. Cardinality(S) \in Nat /\ line \in [1 .. Cardinality(S) -> S]
  <2> HIDE DEF before
  <2>1. \A x \in S : <<x, x>> \notin before
    BY <1>5, <1>6, <1>7, <1>8
  <2>2. \A x, y, z \in S : <<x, y>> \in before /\ <<y, z>> \in before => <<x, z>> \in before
    BY <1>5, <1>6, <1>7, <1>8
  <2>3. \A x, y \in S : x # y => <<x, y>> \in before \/ <<y, x>> \in before
    BY <1>5, <1>6, <1>7, <1>8
  <2> QED BY <1>8, <2>1, <2>2, <2>3, Lines
<1>10. Found(r, key) = [n \in DOMAIN line |-> <<by, key, line[n]>>]
  BY DEF Found
<1>11. \A c \in Chunks : <<by, key, c>> \in SearchObjects
  BY <1>3, <1>4 DEF SearchObjects, Objects
<1> HIDE DEF by, before
<1>12. Found(r, key) \in [1 .. Cardinality(S) -> SearchObjects]
  BY <1>8, <1>9, <1>10, <1>11
<1> QED BY <1>9, <1>12, SeqDef

LEMMA LevelIsSearched ==
    ASSUME SearchInv, NEW r \in Requests, req[r].pc = "await"
    PROVE  LevelFound(r) \in Seq(SearchObjects)
<1> DEFINE of(filters) == IF filters = {} THEN <<>>
                          ELSE Found(r, <<CHOOSE f \in filters : TRUE, req[r].scoped>>)
<1>1. \A filters \in SUBSET Here(r).filters : of(filters) \in Seq(SearchObjects)
  <2> SUFFICES ASSUME NEW filters \in SUBSET Here(r).filters, filters # {}
               PROVE  Found(r, <<CHOOSE f \in filters : TRUE, req[r].scoped>>) \in Seq(SearchObjects)
    OBVIOUS
  <2>1. (CHOOSE f \in filters : TRUE) \in Here(r).filters
    OBVIOUS
  <2>2. <<CHOOSE f \in filters : TRUE, req[r].scoped>> \in KeysOf(r)
    BY <2>1 DEF KeysOf
  <2> QED BY <2>2, FoundIsSearched
<1>2. \A o \in SearchObjects : score[o] \in Int
  BY DEF SearchInv, ScoresFit, SearchObjects
<1>3. LevelFound(r) = Merged(of(Here(r).filters \ {"global"}), of(Here(r).filters \cap {"global"}), score)
  BY DEF LevelFound
<1>4. of(Here(r).filters \ {"global"}) \in Seq(SearchObjects)
      /\ of(Here(r).filters \cap {"global"}) \in Seq(SearchObjects)
  BY <1>1
<1> HIDE DEF of
<1> QED BY <1>2, <1>3, <1>4, Merging

\* Of searched chunks alone everything is sound.
LEMMA SearchedIsSound ==
    ASSUME NEW r, NEW p, NEW list \in Seq(SearchObjects)
    PROVE  Sound(r, p, list) /\ list \in Seq(Objects)
<1>1. \A i \in DOMAIN list : list[i] \in SearchObjects
  OBVIOUS
<1> QED BY <1>1 DEF Sound, SearchObjects

\* The cap on articles leaves the best chunk.
LEMMA Capping ==
    ASSUME NEW E, NEW list \in Seq(E)
    PROVE  Capped(list) \in Seq(E) /\ (list # <<>> => Capped(list) # <<>>)
<1> DEFINE leading(i) == Min({j \in DOMAIN list : ArticleOf(list[j]) = ArticleOf(list[i])})
           kept == {i \in DOMAIN list :
                       Cardinality({ArticleOf(list[j]) : j \in 1 .. leading(i)}) <= MaxArticles}
<1>1. Capped(list) = Picked(list, kept) /\ kept \in SUBSET DOMAIN list
  BY DEF Capped
<1>2. ASSUME list # <<>> PROVE 1 \in kept
  <2> DEFINE same == {j \in DOMAIN list : ArticleOf(list[j]) = ArticleOf(list[1])}
  <2>1. 1 \in same /\ same \subseteq Nat /\ \A j \in same : j >= 1
    BY <1>2
  <2> HIDE DEF same
  <2>2. Min(same) = 1
    <3>1. same # {}
      BY <2>1
    <3>2. Min(same) \in same /\ \A m \in same : Min(same) <= m
      BY <2>1, <3>1, MinIsIn
    <3>3. Min(same) \in Nat /\ Min(same) >= 1
      BY <2>1, <3>2
    <3>4. Min(same) <= 1
      BY <2>1, <3>2
    <3> QED BY <3>3, <3>4
  <2>3. {ArticleOf(list[j]) : j \in 1 .. 1} = {ArticleOf(list[1])}
    OBVIOUS
  <2>4. Cardinality({ArticleOf(list[1])}) = 1
    BY FS_Singleton
  <2>5. leading(1) = 1
    BY <2>2 DEF same
  <2> HIDE DEF leading
  <2> DEFINE seen(i) == {ArticleOf(list[j]) : j \in 1 .. leading(i)}
  <2>6. Cardinality(seen(1)) <= MaxArticles
    <3>1. seen(1) = {ArticleOf(list[1])}
      BY <2>3, <2>5
    <3>2. Cardinality(seen(1)) = 1
      BY <2>4, <3>1, Zenon
    <3> HIDE DEF seen
    <3> QED BY <3>2 DEF MaxArticles
  <2>7. 1 \in DOMAIN list
    BY <1>2
  <2> QED BY <2>6, <2>7
<1> HIDE DEF kept
<1>3. Capped(list) \in Seq(E) /\ \A i \in kept : \E n \in DOMAIN Capped(list) : Capped(list)[n] = list[i]
  BY <1>1, Picking
<1> QED BY <1>2, <1>3

\* What a step does that keeps what is said of the search.
Goes(r) ==
    /\ ScoresFit(score', raw', cosine)
    /\ KeepsPassing(raw, raw')
    /\ \E q : /\ req' = [req EXCEPT ![r] = q]
              /\ RequestOK(r, wanted[r], q) /\ Passed(r, wanted[r], q, raw')

\* The first ranking of a searched chunk sets its raw score to its cosine, and
\* no ranking changes one that is set.
LEMMA RankingScores ==
    ASSUME SearchInv, NEW mine \in SUBSET SearchObjects, NEW r \in Requests,
           raw' = [o \in Objects |-> IF o \in mine THEN RawOf(o) ELSE raw[o]],
           score' = [o \in Objects |-> IF o \in mine THEN raw'[o] + Boost(r, ChunkOf(o)) ELSE score[o]]
    PROVE  ScoresFit(score', raw', cosine) /\ KeepsPassing(raw, raw')
<1> DEFINE close(o) == cosine[ChunkOf(o)]
           boost(o) == Boost(r, ChunkOf(o))
<1>1. /\ score \in [Objects -> Int] /\ raw \in [Objects -> Int]
      /\ \A o \in Objects : raw[o] <= 100
      /\ \A o \in SearchObjects : (raw[o] = -1 /\ score[o] = close(o)) \/ raw[o] = close(o)
  BY DEF SearchInv, ScoresFit
<1>2. \A o \in SearchObjects : o \in Objects /\ close(o) \in 0 .. 100
  <2>1. Cosines \subseteq 0 .. 100 /\ cosine \in [Chunks -> Cosines]
    BY RetrievalConstants DEF RetrievalAssumption, SearchInv
  <2> QED BY <2>1 DEF SearchObjects, Objects, ChunkOf
<1>3. \A o : boost(o) \in Int
  BY DEF Boost, BoostRk, BoostTopic, BoostSubtopic, BoostCap
<1>4. score' = [o \in Objects |-> IF o \in mine THEN raw'[o] + boost(o) ELSE score[o]]
  OBVIOUS
<1>5. \A o : o \in mine => o \in SearchObjects
  OBVIOUS
<1> HIDE DEF close, boost
<1>6. ASSUME NEW o \in mine PROVE raw'[o] = close(o) /\ close(o) \in 0 .. 100
  <2>1. o \in SearchObjects /\ o \in Objects
    BY <1>2, <1>5
  <2>2. close(o) \in 0 .. 100
    BY <1>2, <2>1
  <2>3. (raw[o] = -1 /\ score[o] = close(o)) \/ raw[o] = close(o)
    BY <1>1, <2>1
  <2>4. RawOf(o) = close(o)
    BY <2>2, <2>3 DEF RawOf
  <2> QED BY <2>1, <2>2, <2>4
<1>7. ASSUME NEW o \in Objects, o \notin mine PROVE raw'[o] = raw[o] /\ score'[o] = score[o]
  BY <1>4, <1>7
<1>8. ASSUME NEW o \in Objects PROVE raw'[o] \in Int /\ raw'[o] <= 100 /\ score'[o] \in Int
  <2>1. CASE o \in mine
    <3>1. score'[o] = raw'[o] + boost(o)
      BY <1>4, <2>1
    <3>2. boost(o) \in Int
      BY <1>3
    <3>3. PICK v \in 0 .. 100 : raw'[o] = v
      BY <1>6, <2>1
    <3>4. raw'[o] \in Int
      BY <3>3
    <3>5. raw'[o] <= 100
      BY <3>3
    <3>6. score'[o] \in Int
      BY <3>1, <3>2, <3>4
    <3> QED BY <3>4, <3>5, <3>6
  <2>2. CASE o \notin mine
    BY <1>1, <1>7, <2>2
  <2> QED BY <2>1, <2>2
<1>9. ASSUME NEW o \in SearchObjects
      PROVE  (raw'[o] = -1 /\ score'[o] = close(o)) \/ raw'[o] = close(o)
  <2>1. o \in Objects
    BY <1>2
  <2> QED BY <1>1, <1>6, <1>7, <2>1
<1>10. ASSUME NEW o \in Objects, raw[o] >= GateRaw PROVE raw'[o] >= GateRaw
  <2>1. raw'[o] = raw[o]
    BY <1>10 DEF RawOf, GateRaw
  <2> QED BY <1>10, <2>1
<1>11. raw' \in [Objects -> Int] /\ score' \in [Objects -> Int]
  <2>1. \A o \in Objects : raw'[o] \in Int /\ score'[o] \in Int
    BY <1>8
  <2> QED BY <2>1
<1> QED BY <1>8, <1>9, <1>10, <1>11 DEF ScoresFit, KeepsPassing, close

\* The ranking: from here on a searched chunk's raw score is its cosine.
LEMMA RankGoes ==
    ASSUME SearchInv, NEW r \in Requests, req[r].pc = "await",
           NEW found \in Seq(SearchObjects), Rank(r, found)
    PROVE  Goes(r)
<1> DEFINE list == NotExcluded(r, found)
           mine == Range(list)
           ranked == Ranked(list, score')
           at == Primaries(r, ranked)
<1>0. /\ RequestOK(r, wanted[r], req[r]) /\ wanted[r] \in Profiles
      /\ ScoresFit(score, raw, cosine) /\ cosine \in [Chunks -> Cosines]
  BY DEF SearchInv
<1>1. list \in Seq(SearchObjects)
  <2>1. {i \in DOMAIN found : ArticleOf(found[i]) \notin wanted[r].excluded} \in SUBSET DOMAIN found
    OBVIOUS
  <2> QED BY <2>1, Picking DEF NotExcluded
<1>2. mine \subseteq SearchObjects
  BY <1>1 DEF Range
<1>4. /\ raw' = [o \in Objects |-> IF o \in mine THEN RawOf(o) ELSE raw[o]]
      /\ score' = [o \in Objects |-> IF o \in mine THEN raw'[o] + Boost(r, ChunkOf(o)) ELSE score[o]]
  BY DEF Rank
<1>7. ScoresFit(score', raw', cosine) /\ KeepsPassing(raw, raw')
  <2> HIDE DEF mine
  <2> QED BY <1>2, <1>4, RankingScores
<1>9. ranked \in Seq(SearchObjects)
  <2>1. \A o \in SearchObjects : score'[o] \in Int
    BY <1>7 DEF ScoresFit, SearchObjects
  <2> HIDE DEF list
  <2> QED BY <1>1, <2>1, Ranking
<1>10. \/ at = {} /\ Set(r, [pc |-> "promote", acc |-> ranked])
       \/ at # {} /\ Set(r, [pc |-> "context", acc |-> OnlyPrimary(r, ToFront(ranked, Min(at)))])
       \/ Set(r, [pc |-> IF ranked = <<>> THEN "done" ELSE "context",
                  verdict |-> IF ranked = <<>> THEN "empty" ELSE "none",
                  acc |-> Capped(ranked)])
  BY DEF Rank
<1> SUFFICES ASSUME NEW f,
                    \/ at = {} /\ f = [pc |-> "promote", acc |-> ranked]
                    \/ at # {} /\ f = [pc |-> "context",
                                       acc |-> OnlyPrimary(r, ToFront(ranked, Min(at)))]
                    \/ f = [pc |-> IF ranked = <<>> THEN "done" ELSE "context",
                            verdict |-> IF ranked = <<>> THEN "empty" ELSE "none",
                            acc |-> Capped(ranked)]
             PROVE  LET q == With(req[r], f)
                    IN  RequestOK(r, wanted[r], q) /\ Passed(r, wanted[r], q, raw')
  <2> HIDE DEF ranked, at
  <2> QED BY <1>7, <1>10 DEF Set, Goes
<1> SUFFICES ASSUME NEW q, q = With(req[r], f)
             PROVE  RequestOK(r, wanted[r], q) /\ Passed(r, wanted[r], q, raw')
  OBVIOUS
<1>11. CASE at = {} /\ f = [pc |-> "promote", acc |-> ranked]
  <2> HIDE DEF ranked, at
  <2>1. /\ DOMAIN q = SearchFields /\ q.pc = "promote" /\ q.acc = ranked
        /\ q.scoped = req[r].scoped /\ q.level = req[r].level /\ q.saved = req[r].saved
        /\ q.verdict = req[r].verdict
    BY <1>0, <1>11 DEF RequestOK, With, SearchFields
  <2>2. q.acc \in Seq(Objects)
    BY <1>9, <2>1, SearchedIsSound
  <2> QED BY <1>0, <1>9, <2>1, <2>2 DEF RequestOK, Passed
<1>12. CASE at # {} /\ f = [pc |-> "context", acc |-> OnlyPrimary(r, ToFront(ranked, Min(at)))]
  <2>1. /\ DOMAIN q = SearchFields /\ q.pc = "context" /\ q.acc = OnlyPrimary(r, ToFront(ranked, Min(at)))
        /\ q.scoped = req[r].scoped /\ q.level = req[r].level /\ q.saved = req[r].saved
        /\ q.verdict = req[r].verdict
    <3> HIDE DEF ranked, at
    <3> QED BY <1>0, <1>12 DEF RequestOK, With, SearchFields
  <2>2. Min(at) \in at /\ at \in SUBSET DOMAIN ranked
    <3> HIDE DEF ranked
    <3>1. at \subseteq DOMAIN ranked /\ DOMAIN ranked \subseteq Nat
      BY <1>9 DEF Primaries
    <3> HIDE DEF at
    <3> QED BY <1>12, <3>1, MinIsIn
  <2> SUFFICES ASSUME NEW line \in Seq(SearchObjects), NEW i \in DOMAIN line, IsPrimary(r, line[i]),
                      q.acc = OnlyPrimary(r, ToFront(line, i))
               PROVE  q.acc # <<>> /\ q.acc \in Seq(SearchObjects)
    <3>1. Min(at) \in DOMAIN ranked /\ IsPrimary(r, ranked[Min(at)])
      <4>1. Min(at) \in at
        BY <2>2
      <4> HIDE DEF ranked
      <4> QED BY <2>2, <4>1 DEF Primaries
    <3> HIDE DEF ranked, at
    <3>2. q.acc # <<>> /\ q.acc \in Seq(SearchObjects)
      BY <1>9, <2>1, <3>1
    <3>3. Sound(r, wanted[r], q.acc) /\ q.acc \in Seq(Objects)
      BY <3>2, SearchedIsSound
    <3> QED BY <1>0, <2>1, <3>2, <3>3 DEF RequestOK, Passed
  <2> DEFINE rest == Picked(line, DOMAIN line \ {i})
             front == ToFront(line, i)
  <2>3. rest \in Seq(SearchObjects)
    BY Picking
  <2>4. line[i] \in SearchObjects
    OBVIOUS
  <2>5. front = <<line[i]>> \o rest
    BY DEF ToFront
  <2> HIDE DEF rest, front
  <2>6. front \in Seq(SearchObjects) /\ Len(front) >= 1 /\ front[1] = line[i]
    BY <2>3, <2>4, <2>5
  <2>7. 1 \in Primaries(r, front) /\ Primaries(r, front) \in SUBSET DOMAIN front
    BY <2>6 DEF Primaries
  <2>8. q.acc = Picked(front, Primaries(r, front))
    BY DEF OnlyPrimary, front
  <2>9. q.acc \in Seq(SearchObjects) /\ \E n \in DOMAIN q.acc : q.acc[n] = front[1]
    BY <2>6, <2>7, <2>8, Picking
  <2> QED BY <2>9
<1>13. CASE f = [pc |-> IF ranked = <<>> THEN "done" ELSE "context",
                 verdict |-> IF ranked = <<>> THEN "empty" ELSE "none", acc |-> Capped(ranked)]
  <2>1. /\ DOMAIN q = SearchFields /\ q.acc = Capped(ranked)
        /\ q.pc = (IF ranked = <<>> THEN "done" ELSE "context")
        /\ q.verdict = (IF ranked = <<>> THEN "empty" ELSE "none")
        /\ q.scoped = req[r].scoped /\ q.level = req[r].level /\ q.saved = req[r].saved
    <3> HIDE DEF ranked, at
    <3> QED BY <1>0, <1>13 DEF RequestOK, With, SearchFields
  <2> HIDE DEF ranked, at
  <2>2. q.acc \in Seq(SearchObjects) /\ (ranked # <<>> => q.acc # <<>>)
    BY <1>9, <2>1, Capping
  <2>3. Sound(r, wanted[r], q.acc) /\ q.acc \in Seq(Objects)
    BY <2>2, SearchedIsSound
  <2>4. CASE ranked = <<>>
    BY <1>0, <2>1, <2>3, <2>4 DEF RequestOK, Passed
  <2>5. CASE ranked # <<>>
    BY <1>0, <2>1, <2>2, <2>3, <2>5 DEF RequestOK, Passed
  <2> QED BY <2>4, <2>5
<1> HIDE DEF ranked, at
<1> QED BY <1>11, <1>12, <1>13

LEMMA LaneGoes ==
    ASSUME SearchInv, NEW r \in Requests, req[r].pc = "await",
           NEW found \in Seq(SearchObjects), LaneEnds(r, found)
    PROVE  Goes(r)
<1>1. RequestOK(r, wanted[r], req[r]) /\ wanted[r] \in Profiles /\ ScoresFit(score, raw, cosine)
  BY DEF SearchInv
<1>2. CASE /\ Set(r, [pc |-> "search", scoped |-> FALSE, level |-> 1, acc |-> <<>>, saved |-> found])
           /\ UNCHANGED <<score, raw>>
  <2> SUFFICES ASSUME NEW q,
                      q = With(req[r], [pc |-> "search", scoped |-> FALSE, level |-> 1,
                                        acc |-> <<>>, saved |-> found])
               PROVE  RequestOK(r, wanted[r], q) /\ Passed(r, wanted[r], q, raw')
    BY <1>1, <1>2 DEF Set, Goes, KeepsPassing
  <2>1. /\ DOMAIN q = SearchFields /\ q.pc = "search" /\ q.scoped = FALSE /\ q.level = 1
        /\ q.acc = <<>> /\ q.saved = found /\ q.verdict = req[r].verdict
    BY <1>1 DEF RequestOK, With, SearchFields
  <2>2. 1 \in 1 .. Len(Levels(wanted[r], q.scoped))
    <3>1. PICK n \in 1 .. 4 : Len(Levels(wanted[r], q.scoped)) = n
      BY <1>1, <2>1, LevelsAreSearched
    <3> QED BY <3>1
  <2>3. q.acc \in Seq(SearchObjects) /\ q.acc \in Seq(Objects)
    <3>1. <<>> \in Seq(SearchObjects) /\ <<>> \in Seq(Objects)
      OBVIOUS
    <3> QED BY <2>1, <3>1
  <2> QED BY <1>1, <2>1, <2>2, <2>3 DEF RequestOK, Passed
<1>3. CASE Rank(r, IF req[r].saved = <<>> THEN found ELSE Merged(req[r].saved, found, score))
  <2>1. \A o \in SearchObjects : score[o] \in Int
    BY <1>1 DEF ScoresFit, SearchObjects
  <2>2. Merged(req[r].saved, found, score) \in Seq(SearchObjects)
    BY <1>1, <2>1, Merging DEF RequestOK
  <2> QED BY <1>3, <2>2, RankGoes
<1> QED BY <1>2, <1>3 DEF LaneEnds

LEMMA LevelGoes ==
    ASSUME SearchInv, NEW r \in Requests, req[r].pc = "await",
           NEW acc \in Seq(SearchObjects), NextLevel(r, acc)
    PROVE  Goes(r)
<1>1. RequestOK(r, wanted[r], req[r]) /\ wanted[r] \in Profiles /\ ScoresFit(score, raw, cosine)
  BY DEF SearchInv
<1>2. CASE /\ req[r].level # Len(Levels(wanted[r], req[r].scoped))
           /\ Set(r, [pc |-> "search", level |-> req[r].level + 1, acc |-> acc])
           /\ UNCHANGED <<score, raw>>
  <2> SUFFICES ASSUME NEW q, q = With(req[r], [pc |-> "search", level |-> req[r].level + 1, acc |-> acc])
               PROVE  RequestOK(r, wanted[r], q) /\ Passed(r, wanted[r], q, raw')
    BY <1>1, <1>2 DEF Set, Goes, KeepsPassing
  <2>1. /\ DOMAIN q = SearchFields /\ q.pc = "search" /\ q.scoped = req[r].scoped
        /\ q.level = req[r].level + 1
        /\ q.acc = acc /\ q.saved = req[r].saved /\ q.verdict = req[r].verdict
    BY <1>1 DEF RequestOK, With, SearchFields
  <2>2. q.level \in 1 .. Len(Levels(wanted[r], req[r].scoped))
    <3>1. Len(Levels(wanted[r], req[r].scoped)) \in Nat
      BY <1>1, LevelsAreSearched DEF RequestOK
    <3> QED BY <1>1, <1>2, <2>1, <3>1 DEF RequestOK
  <2>3. q.acc \in Seq(Objects)
    BY <2>1, SearchedIsSound
  <2> QED BY <1>1, <2>1, <2>2, <2>3 DEF RequestOK, Passed
<1> QED BY <1>2, LaneGoes DEF NextLevel

\* A step that goes for one request keeps what is said of all of them.
LEMMA StepsCompose ==
    ASSUME SearchInv, NEW r \in Requests, Goes(r), UNCHANGED <<wanted, cosine>>,
           cache' \in [Keys -> Requests \cup {NoOne}]
    PROVE  SearchInv'
<1>1. PICK q : /\ req' = [req EXCEPT ![r] = q]
               /\ RequestOK(r, wanted[r], q) /\ Passed(r, wanted[r], q, raw')
  BY DEF Goes
<1>2. DOMAIN req = Requests
  BY DEF SearchInv
<1>3. req' = [x \in Requests |-> req'[x]]
  BY <1>1, <1>2
<1>4. ASSUME NEW x \in Requests
      PROVE  RequestOK(x, wanted'[x], req'[x]) /\ Passed(x, wanted'[x], req'[x], raw')
  <2>1. CASE x = r
    BY <1>1, <1>2, <2>1
  <2>2. CASE x # r
    <3>1. req'[x] = req[x] /\ RequestOK(x, wanted[x], req[x]) /\ Passed(x, wanted[x], req[x], raw)
      BY <1>1, <1>2, <2>2 DEF SearchInv
    <3>2. req[x].acc \in Seq(Objects)
      BY <3>1 DEF RequestOK
    <3>3. KeepsPassing(raw, raw')
      BY DEF Goes
    <3>4. \A i \in DOMAIN req[x].acc : req[x].acc[i] \in Objects
      BY <3>2
    <3>5. Passed(x, wanted[x], req[x], raw')
      BY <3>1, <3>3, <3>4 DEF Passed, KeepsPassing
    <3> QED BY <3>1, <3>5
  <2> QED BY <2>1, <2>2
<1>5. ScoresFit(score', raw', cosine')
  BY DEF Goes
<1> QED BY <1>3, <1>4, <1>5 DEF SearchInv

LEMMA JudgeKeeps ==
    ASSUME SearchInv, NEW r \in Requests, Judge(r)
    PROVE  SearchInv'
<1>1. RequestOK(r, wanted[r], req[r]) /\ ScoresFit(score, raw, cosine)
  BY DEF SearchInv
<1>2. req[r].pc = "await" /\ req[r].acc \in Seq(SearchObjects)
  BY <1>1 DEF Judge, RequestOK
<1> SUFFICES ASSUME NEW found, found = LevelFound(r), NEW more, more = Merged(req[r].acc, found, score)
             PROVE  SearchInv'
  OBVIOUS
<1>3. found \in Seq(SearchObjects)
  BY <1>2, LevelIsSearched
<1>4. more \in Seq(SearchObjects)
  <2>1. \A o \in SearchObjects : score[o] \in Int
    BY <1>1 DEF ScoresFit, SearchObjects
  <2> QED BY <1>2, <1>3, <2>1, Merging
<1>5. \/ LaneEnds(r, found) \/ LaneEnds(r, more)
      \/ NextLevel(r, found) \/ NextLevel(r, more) \/ NextLevel(r, req[r].acc)
      \/ Here(r).rule \notin {"staged", "join", "iterate"}
  BY DEF Judge
<1>6. Here(r).rule \in {"staged", "join", "iterate"}
  <2>1. /\ wanted[r] \in Profiles /\ req[r].scoped \in BOOLEAN
        /\ req[r].level \in 1 .. Len(Levels(wanted[r], req[r].scoped))
    BY <1>1 DEF RequestOK, SearchInv
  <2> QED BY <2>1, LevelsAreSearched DEF Here
<1>7. Goes(r)
  BY <1>2, <1>3, <1>4, <1>5, <1>6, LaneGoes, LevelGoes
<1>8. cache' \in [Keys -> Requests \cup {NoOne}]
  BY DEF Judge, SearchInv
<1> QED BY <1>7, <1>8, StepsCompose DEF Judge

\* A step that sets some fields of one request and no score.
LEMMA FieldsGo ==
    ASSUME SearchInv, NEW r \in Requests, NEW f, Set(r, f), UNCHANGED <<wanted, cosine, cache, score, raw>>,
           RequestOK(r, wanted[r], With(req[r], f)), Passed(r, wanted[r], With(req[r], f), raw)
    PROVE  SearchInv'
<1>1. Goes(r)
  BY DEF SearchInv, Set, Goes, KeepsPassing
<1>2. cache' \in [Keys -> Requests \cup {NoOne}]
  BY DEF SearchInv
<1> QED BY <1>1, <1>2, StepsCompose

LEMMA AskKeeps ==
    ASSUME SearchInv, NEW r \in Requests, Ask(r)
    PROVE  SearchInv'
<1>1. RequestOK(r, wanted[r], req[r]) /\ req[r].pc = "search" /\ DOMAIN req = Requests
      /\ wanted[r] \in Profiles /\ ScoresFit(score, raw, cosine)
  BY DEF SearchInv, Ask
<1>2. KeysOf(r) = KeysFor(wanted[r], req[r])
  BY DEF KeysOf, KeysFor, Here
<1> SUFFICES ASSUME NEW q,
                    q = [req[r] EXCEPT !.pc = "await",
                                       !.own = {k \in KeysOf(r) : cache[k] = NoOne},
                                       !.hits = [k \in KeysOf(r) |-> cache[k]]]
             PROVE  RequestOK(r, wanted[r], q) /\ Passed(r, wanted[r], q, raw)
  <2>1. PICK q : /\ req' = [req EXCEPT ![r] = q]
                 /\ RequestOK(r, wanted[r], q) /\ Passed(r, wanted[r], q, raw)
    BY DEF Ask
  <2>2. Goes(r)
    BY <1>1, <2>1 DEF Ask, Goes, KeepsPassing
  <2>3. cache' \in [Keys -> Requests \cup {NoOne}]
    BY DEF SearchInv, Ask
  <2> QED BY <2>2, <2>3, StepsCompose DEF Ask
<1>3. /\ DOMAIN q = SearchFields /\ q.pc = "await" /\ q.scoped = req[r].scoped /\ q.level = req[r].level
      /\ q.acc = req[r].acc /\ q.saved = req[r].saved /\ q.verdict = req[r].verdict
      /\ q.own = {k \in KeysOf(r) : cache[k] = NoOne}
      /\ q.hits = [k \in KeysOf(r) |-> cache[k]]
  BY <1>1 DEF RequestOK, SearchFields
<1>4. KeysFor(wanted[r], q) = KeysOf(r)
  BY <1>2, <1>3 DEF KeysFor
<1>5. KeysOf(r) \subseteq Keys
  BY <1>1, <1>2, KeysAreSearched DEF RequestOK
<1>6. \A k \in KeysOf(r) : k \in q.own \/ q.hits[k] \in Requests
  <2> TAKE k \in KeysOf(r)
  <2>1. cache[k] \in Requests \cup {NoOne}
    BY <1>5 DEF SearchInv
  <2> QED BY <1>3, <2>1
<1> QED BY <1>1, <1>3, <1>4, <1>6 DEF RequestOK, Passed

LEMMA GateKeeps ==
    ASSUME SearchInv, NEW r \in Requests, Gate(r)
    PROVE  SearchInv'
<1> DEFINE passes == Passes(req[r].acc, score, raw)
           f == [pc |-> IF passes THEN "extract" ELSE "done",
                 verdict |-> IF passes THEN "none" ELSE "no_match"]
<1>1. RequestOK(r, wanted[r], req[r]) /\ req[r].pc = "context" /\ ScoresFit(score, raw, cosine)
  BY DEF SearchInv, Gate
<1> SUFFICES ASSUME NEW q, q = With(req[r], f)
             PROVE  RequestOK(r, wanted[r], q) /\ Passed(r, wanted[r], q, raw)
  BY FieldsGo DEF Gate
<1>2. passes => \E i \in DOMAIN req[r].acc : raw[req[r].acc[i]] >= GateRaw
  <2> SUFFICES ASSUME passes, NEW list, list = req[r].acc
               PROVE  \E i \in DOMAIN list : raw[list[i]] >= GateRaw
    OBVIOUS
  <2> DEFINE marks == {raw[o] : o \in Range(list)}
  <2>1. list \in Seq(Objects) /\ list # <<>>
    BY <1>1 DEF RequestOK
  <2>2. \A o \in Range(list) : o \in Objects /\ \E i \in DOMAIN list : o = list[i]
    BY <2>1 DEF Range
  <2>3. list[1] \in Range(list)
    BY <2>1 DEF Range
  <2>4. marks \subseteq Int /\ marks # {} /\ \A x \in marks : x <= 100
    BY <1>1, <2>2, <2>3 DEF ScoresFit
  <2>5. Max(marks) >= GateRaw
    BY DEF Passes
  <2>6. \A x \in marks : \E i \in DOMAIN list : x = raw[list[i]]
    BY <2>2
  <2> HIDE DEF marks
  <2>7. Max(marks) \in marks
    BY <2>4, MaxIsIn
  <2> QED BY <2>5, <2>6, <2>7
<1> HIDE DEF passes
<1>3. /\ DOMAIN q = SearchFields /\ q.scoped = req[r].scoped /\ q.level = req[r].level
      /\ q.acc = req[r].acc /\ q.saved = req[r].saved
      /\ q.pc = (IF passes THEN "extract" ELSE "done")
      /\ q.verdict = (IF passes THEN "none" ELSE "no_match")
  BY <1>1 DEF RequestOK, With, SearchFields
<1> QED BY <1>1, <1>2, <1>3 DEF RequestOK, Passed

LEMMA ExtractKeeps ==
    ASSUME SearchInv, NEW r \in Requests, ExtractFields(r)
    PROVE  SearchInv'
<1>1. RequestOK(r, wanted[r], req[r]) /\ Passed(r, wanted[r], req[r], raw) /\ req[r].pc = "extract"
  BY DEF SearchInv, ExtractFields
<1>2. PICK verdict \in {"failed", "no_match", "answered"} : Set(r, [pc |-> "done", verdict |-> verdict])
  BY DEF ExtractFields
<1> SUFFICES ASSUME NEW q, q = With(req[r], [pc |-> "done", verdict |-> verdict])
             PROVE  RequestOK(r, wanted[r], q) /\ Passed(r, wanted[r], q, raw)
  BY <1>2, FieldsGo DEF ExtractFields
<1>3. /\ DOMAIN q = SearchFields /\ q.scoped = req[r].scoped /\ q.level = req[r].level
      /\ q.acc = req[r].acc /\ q.saved = req[r].saved /\ q.pc = "done"
  BY <1>1 DEF RequestOK, With, SearchFields
<1> QED BY <1>1, <1>3 DEF RequestOK, Passed

LEMMA FailKeeps ==
    ASSUME SearchInv, NEW r \in Requests, Fails(r)
    PROVE  SearchInv'
<1>1. RequestOK(r, wanted[r], req[r]) /\ req[r].pc # "done"
  BY DEF SearchInv, Fails
<1> SUFFICES ASSUME NEW q, q = With(req[r], [pc |-> "done", verdict |-> "failed"])
             PROVE  RequestOK(r, wanted[r], q) /\ Passed(r, wanted[r], q, raw)
  BY FieldsGo DEF Fails
<1>3. /\ DOMAIN q = SearchFields /\ q.scoped = req[r].scoped /\ q.level = req[r].level
      /\ q.acc = req[r].acc /\ q.saved = req[r].saved /\ q.pc = "done" /\ q.verdict = "failed"
  BY <1>1 DEF RequestOK, With, SearchFields
<1> QED BY <1>1, <1>3 DEF RequestOK, Passed

\* The scores a fetched chunk is given pass the gate.
LEMMA Floors ==
    ASSUME SearchInv, NEW list \in Seq(Objects)
    PROVE  FloorScore(list) \in Int /\ FloorRaw(list) \in GateRaw .. 100
<1>1. CASE list = <<>>
  BY <1>1 DEF FloorScore, FloorRaw, GateScore, GateRaw
<1>2. CASE list # <<>>
  <2>1. list[1] \in Objects
    BY <1>2
  <2> SUFFICES ASSUME NEW s \in Int, NEW w \in Int, w <= 100
               PROVE  Max({GateScore, s}) \in Int /\ Max({GateRaw, w}) \in GateRaw .. 100
    BY <1>2, <2>1 DEF SearchInv, ScoresFit, FloorScore, FloorRaw
  <2>2. PICK b \in Nat : GateScore <= b /\ s <= b
    <3>1. CASE s <= 25
      BY <3>1 DEF GateScore
    <3>2. CASE ~ (s <= 25)
      BY <3>2 DEF GateScore
    <3> QED BY <3>1, <3>2
  <2> SUFFICES ASSUME NEW S, S = {GateScore, s}, NEW W, W = {GateRaw, w}
               PROVE  Max(S) \in Int /\ Max(W) \in GateRaw .. 100
    OBVIOUS
  <2>3. S \subseteq Int /\ S # {} /\ \A x \in S : x <= b
    BY <2>2 DEF GateScore
  <2>4. W \subseteq Int /\ W # {} /\ GateRaw \in W /\ \A x \in W : x <= 100
    BY DEF GateRaw
  <2>5. Max(S) \in S
    BY <2>3, MaxIsIn
  <2>6. Max(W) \in W /\ \A x \in W : x <= Max(W)
    BY <2>4, MaxIsIn
  <2>7. PICK m \in W : m = Max(W)
    BY <2>6
  <2>8. m \in Int /\ m <= 100 /\ GateRaw <= m
    BY <2>4, <2>6, <2>7
  <2>9. Max(S) \in Int
    BY <2>3, <2>5
  <2>10. m \in GateRaw .. 100
    BY <2>8 DEF GateRaw
  <2> QED BY <2>7, <2>9, <2>10
<1> QED BY <1>1, <1>2

LEMMA PromoteKeeps ==
    ASSUME SearchInv, NEW r \in Requests, Promote(r)
    PROVE  SearchInv'
<1> DEFINE ofPrimary == {c \in Chunks : ArticleId[c] = wanted[r].primary}
           o == <<r, PromotedKey, Min(ofPrimary)>>
           list == req[r].acc
<1>1. RequestOK(r, wanted[r], req[r]) /\ req[r].pc = "promote" /\ ScoresFit(score, raw, cosine)
  BY DEF SearchInv, Promote
<1>2. CASE /\ Set(r, [pc |-> "done", verdict |-> "empty", acc |-> <<>>])
           /\ UNCHANGED <<wanted, cosine, cache, score, raw>>
  <2> SUFFICES ASSUME NEW q, q = With(req[r], [pc |-> "done", verdict |-> "empty", acc |-> <<>>])
               PROVE  RequestOK(r, wanted[r], q) /\ Passed(r, wanted[r], q, raw)
    BY <1>2, FieldsGo
  <2>1. /\ DOMAIN q = SearchFields /\ q.scoped = req[r].scoped /\ q.level = req[r].level
        /\ q.acc = <<>> /\ q.saved = req[r].saved /\ q.pc = "done" /\ q.verdict = "empty"
    BY <1>1 DEF RequestOK, With, SearchFields
  <2>2. <<>> \in Seq(Objects)
    OBVIOUS
  <2> QED BY <1>1, <2>1, <2>2 DEF RequestOK, Passed
<1>3. CASE /\ ofPrimary # {}
           /\ score' = [score EXCEPT ![o] = FloorScore(list)]
           /\ raw' = [raw EXCEPT ![o] = FloorRaw(list)]
           /\ Set(r, [pc |-> "context", acc |-> <<o>>])
           /\ UNCHANGED <<wanted, cosine, cache>>
  <2>1. Min(ofPrimary) \in ofPrimary
    <3>1. ofPrimary \subseteq Nat
      BY RetrievalConstants DEF RetrievalAssumption
    <3> HIDE DEF ofPrimary
    <3> QED BY <1>3, <3>1, MinIsIn
  <2>2. PromotedKey \in Keys
    BY DEF PromotedKey, Keys, Filters
  <2>3. o \in Objects /\ o \notin SearchObjects /\ o[1] = r /\ o[2] = PromotedKey
        /\ ArticleOf(o) = wanted[r].primary
    <3>1. o[3] = Min(ofPrimary) /\ Min(ofPrimary) \in Chunks
          /\ ArticleId[Min(ofPrimary)] = wanted[r].primary
      BY <2>1
    <3> HIDE DEF ofPrimary
    <3> QED BY <2>2, <3>1 DEF Objects, SearchObjects, ArticleOf, ChunkOf
  <2> HIDE DEF o
  <2>4. FloorScore(list) \in Int /\ FloorRaw(list) \in GateRaw .. 100
    BY <1>1, Floors DEF RequestOK
  <2>5. ScoresFit(score', raw', cosine)
    <3>1. score' \in [Objects -> Int] /\ raw' \in [Objects -> Int]
      <4>1. FloorRaw(list) \in Int
        BY <2>4 DEF GateRaw
      <4> HIDE DEF list
      <4> QED BY <1>1, <1>3, <2>4, <4>1 DEF ScoresFit
    <3>2. \A x \in Objects : raw'[x] <= 100
      BY <1>1, <1>3, <2>3, <2>4 DEF ScoresFit
    <3>3. \A x \in SearchObjects : raw'[x] = raw[x] /\ score'[x] = score[x]
      BY <1>1, <1>3, <2>3 DEF ScoresFit
    <3> QED BY <1>1, <3>1, <3>2, <3>3 DEF ScoresFit
  <2>6. KeepsPassing(raw, raw')
    BY <1>1, <1>3, <2>4 DEF ScoresFit, KeepsPassing, GateRaw
  <2>7. Goes(r)
    <3> SUFFICES ASSUME NEW q, q = With(req[r], [pc |-> "context", acc |-> <<o>>])
                 PROVE  RequestOK(r, wanted[r], q) /\ Passed(r, wanted[r], q, raw')
      BY <1>3, <2>5, <2>6 DEF Set, Goes
    <3>1. /\ DOMAIN q = SearchFields /\ q.scoped = req[r].scoped /\ q.level = req[r].level
          /\ q.acc = <<o>> /\ q.saved = req[r].saved /\ q.pc = "context"
          /\ q.verdict = req[r].verdict
      BY <1>1 DEF RequestOK, With, SearchFields
    <3>2. q.acc \in Seq(Objects) /\ q.acc # <<>> /\ Sound(r, wanted[r], q.acc)
      <4>1. <<o>> \in Seq(Objects) /\ <<o>> # <<>> /\ DOMAIN <<o>> = {1} /\ <<o>>[1] = o
        BY <2>3
      <4>2. Sound(r, wanted[r], <<o>>)
        BY <2>3, <4>1 DEF Sound
      <4> QED BY <3>1, <4>1, <4>2
    <3> QED BY <1>1, <3>1, <3>2 DEF RequestOK, Passed
  <2>8. cache' \in [Keys -> Requests \cup {NoOne}]
    BY <1>3 DEF SearchInv
  <2> QED BY <1>3, <2>7, <2>8, StepsCompose
<1> QED BY <1>2, <1>3 DEF Promote

LEMMA SearchStarts == SearchInit => SearchInv
<1> SUFFICES ASSUME SearchInit PROVE SearchInv
  OBVIOUS
<1>1. Cosines \subseteq 0 .. 100
  BY RetrievalConstants DEF RetrievalAssumption
<1>2. ScoresFit(score, raw, cosine)
  <2>1. \A o \in Objects : ChunkOf(o) \in Chunks
    BY DEF Objects, ChunkOf
  <2>2. score \in [Objects -> Int]
    BY <1>1, <2>1 DEF SearchInit
  <2>3. \A o \in SearchObjects : o \in Objects
    BY DEF SearchObjects
  <2> QED BY <2>2, <2>3 DEF SearchInit, ScoresFit
<1>3. ASSUME NEW r \in Requests
      PROVE  RequestOK(r, wanted[r], req[r]) /\ Passed(r, wanted[r], req[r], raw)
  <2>1. /\ DOMAIN req[r] = SearchFields /\ req[r].pc = "search" /\ req[r].scoped \in BOOLEAN
        /\ req[r].level = 1 /\ req[r].acc = <<>> /\ req[r].saved = <<>> /\ req[r].verdict = "none"
    BY DEF SearchInit, NoSearch, SearchFields
  <2>2. 1 \in 1 .. Len(Levels(wanted[r], req[r].scoped))
    <3>1. wanted[r] \in Profiles
      BY DEF SearchInit
    <3>2. PICK n \in 1 .. 4 : Len(Levels(wanted[r], req[r].scoped)) = n
      BY <2>1, <3>1, LevelsAreSearched
    <3> QED BY <3>2
  <2>3. <<>> \in Seq(SearchObjects) /\ <<>> \in Seq(Objects)
    OBVIOUS
  <2> QED BY <2>1, <2>2, <2>3 DEF RequestOK, Passed
<1> QED BY <1>2, <1>3 DEF SearchInit, SearchInv

LEMMA SearchKeeps == SearchInv /\ [SearchNext]_qvars => SearchInv'
<1> SUFFICES ASSUME SearchInv, [SearchNext]_qvars PROVE SearchInv'
  OBVIOUS
<1>1. CASE SearchNext
  <2>1. PICK r \in Requests : Ask(r) \/ Judge(r) \/ Promote(r) \/ Gate(r) \/ ExtractFields(r) \/ Fails(r)
    BY <1>1 DEF SearchNext
  <2> QED BY <2>1, AskKeeps, JudgeKeeps, PromoteKeeps, GateKeeps, ExtractKeeps, FailKeeps
<1>2. CASE UNCHANGED qvars
  BY <1>2 DEF qvars, SearchInv, ScoresFit, RequestOK, Passed
<1> QED BY <1>1, <1>2

\* The raw score that let a request through is a cosine of the index, or of the
\* article fetched for it.
LEMMA PassingIsEvidence == SearchInv => BoostIsNoEvidence
<1> SUFFICES ASSUME SearchInv, NEW r \in Requests, req[r].pc = "extract" \/ req[r].verdict = "answered"
             PROVE  \E o \in Range(req[r].acc) :
                       \/ cosine[ChunkOf(o)] >= GateRaw
                       \/ IsPrimary(r, o) /\ o[1] = r /\ o[2] = PromotedKey
  BY DEF BoostIsNoEvidence
<1>1. /\ Sound(r, wanted[r], req[r].acc)
      /\ \E i \in DOMAIN req[r].acc : raw[req[r].acc[i]] >= GateRaw
  BY DEF SearchInv, Passed
<1>2. PICK i \in DOMAIN req[r].acc : raw[req[r].acc[i]] >= GateRaw
  BY <1>1
<1> SUFFICES ASSUME NEW o, o = req[r].acc[i]
             PROVE  \/ cosine[ChunkOf(o)] >= GateRaw
                    \/ IsPrimary(r, o) /\ o[1] = r /\ o[2] = PromotedKey
  BY DEF Range
<1>3. CASE o \in SearchObjects
  <2>1. raw[o] = -1 \/ raw[o] = cosine[ChunkOf(o)]
    BY <1>3 DEF SearchInv, ScoresFit
  <2>2. raw[o] # -1
    BY <1>2 DEF GateRaw
  <2>3. raw[o] = cosine[ChunkOf(o)]
    BY <2>1, <2>2
  <2> QED BY <1>2, <2>3
<1>4. CASE o \notin SearchObjects
  BY <1>1, <1>4 DEF Sound, IsPrimary
<1> QED BY <1>3, <1>4

\* Past the gate of required data there is always evidence: a chunk the index
\* found close enough, or one fetched from the article the request was routed
\* to. No boost stands in for it, whatever the requests share.
THEOREM BoostsAreNoEvidence == SearchSpec => []BoostIsNoEvidence
<1>1. SearchInit => SearchInv
  BY SearchStarts
<1>2. SearchInv /\ [SearchNext]_qvars => SearchInv'
  BY SearchKeeps
<1>3. SearchInv => BoostIsNoEvidence
  BY PassingIsEvidence
<1> QED BY <1>1, <1>2, <1>3, PTL DEF SearchSpec


-----------------------------------------------------------------------------
(* Contexts.                                                               *)

\* What the lists of an answer are made of.
Pieces == [id : DOMAIN Kb, score : Int]

\* What is known of a chunk of the knowledge base.
LEMMA KbIsTyped ==
    /\ Len(Kb) \in Nat /\ DOMAIN Kb = 1 .. Len(Kb)
    /\ \A id \in DOMAIN Kb :
          /\ Kb[id].tokens \in Nat /\ Kb[id].tier \in Tiers
          /\ Kb[id].points \in Seq(STRING \X STRING)
<1> DEFINE K == [article : STRING, type : STRING, tier : Tiers, tokens : Nat,
                 category : Nat, index : Nat, concepts : SUBSET STRING, points : Seq(STRING \X STRING)]
<1>1. Kb \in Seq(K)
  BY ContextConstants DEF ContextAssumption
<1>2. \A k \in K : k.tokens \in Nat /\ k.tier \in Tiers /\ k.points \in Seq(STRING \X STRING)
  OBVIOUS
<1> HIDE DEF K
<1>3. Len(Kb) \in Nat /\ DOMAIN Kb = 1 .. Len(Kb) /\ \A id \in DOMAIN Kb : Kb[id] \in K
  BY <1>1
<1> QED BY <1>2, <1>3

\* What picks and sorts chunks makes lists of chunks.
LEMMA PickedPieces ==
    ASSUME NEW list \in Seq(Pieces)
    PROVE  /\ \A places : Picked(list, places) \in Seq(Pieces)
           /\ \A keys : SortedBy(list, keys) \in Seq(Pieces)
<1>1. \A places : Picked(list, places) \in Seq(Pieces)
  BY Picking
<1>2. \A keys : SortedBy(list, keys) \in Seq(Pieces)
  BY Sorting
<1> QED BY <1>1, <1>2

LEMMA SelectionsArePieces ==
    ASSUME NEW list \in Seq(Pieces)
    PROVE  /\ ByScore(list) \in Seq(Pieces) /\ BestOfEach(list) \in Seq(Pieces)
           /\ \A types : OfTypes(list, types) \in Seq(Pieces) /\ NotOfTypes(list, types) \in Seq(Pieces)
           /\ \A articles : OfArticles(list, articles) \in Seq(Pieces)
           /\ \A article : OfArticle(list, article) \in Seq(Pieces)
           /\ \A tier : OfTier(list, tier) \in Seq(Pieces)
           /\ \A concepts : Serving(list, concepts) \in Seq(Pieces)
           /\ \A concepts, topics : ByRank(list, concepts, topics) \in Seq(Pieces)
           /\ \A p : NotExcludedOf(list, p) \in Seq(Pieces)
<1>1. \A l \in Seq(Pieces) : ByScore(l) \in Seq(Pieces)
  BY PickedPieces DEF ByScore
<1>2. BestOfEach(list) \in Seq(Pieces)
  BY <1>1, PickedPieces DEF BestOfEach
<1>3. \A types : OfTypes(list, types) \in Seq(Pieces) /\ NotOfTypes(list, types) \in Seq(Pieces)
  BY PickedPieces DEF OfTypes, NotOfTypes
<1>4. \A articles : OfArticles(list, articles) \in Seq(Pieces)
  BY PickedPieces DEF OfArticles
<1>5. \A article : OfArticle(list, article) \in Seq(Pieces)
  BY <1>4 DEF OfArticle
<1>6. \A tier : OfTier(list, tier) \in Seq(Pieces)
  BY PickedPieces DEF OfTier
<1>7. \A concepts : Serving(list, concepts) \in Seq(Pieces)
  BY PickedPieces DEF Serving
<1>8. \A concepts, topics : ByRank(list, concepts, topics) \in Seq(Pieces)
  BY PickedPieces DEF ByRank
<1>9. \A p : NotExcludedOf(list, p) \in Seq(Pieces)
  BY PickedPieces DEF NotExcludedOf
<1> QED BY <1>1, <1>2, <1>3, <1>4, <1>5, <1>6, <1>7, <1>8, <1>9

\* The tokens of a list: a number that grows with what is in it.
TokensUpTo(ids) ==
    CHOOSE f : f = [n \in 0 .. Len(Kb) |->
                      IF n = 0 THEN 0 ELSE f[n - 1] + (IF n \in ids THEN Kb[n].tokens ELSE 0)]

LEMMA TokensRun ==
    ASSUME NEW ids, NEW u, u = TokensUpTo(ids)
    PROVE  /\ u \in [0 .. Len(Kb) -> Nat] /\ u[0] = 0
           /\ \A n \in 1 .. Len(Kb) : u[n] = u[n - 1] + (IF n \in ids THEN Kb[n].tokens ELSE 0)
<1> DEFINE N == Len(Kb)
           weight == [n \in 1 .. N |-> IF n \in ids THEN Kb[n].tokens ELSE 0]
           step == [n \in 1 .. N |-> [x \in Nat |-> x + weight[n]]]
<1>1. N \in Nat /\ weight \in [1 .. N -> Nat]
  BY KbIsTyped
<1> HIDE DEF N
<1>2. step \in [1 .. N -> [Nat -> Nat]]
  <2> HIDE DEF weight
  <2> QED BY <1>1
<1>3. PICK g : Turns(g, N, Nat, 0, step)
  <2> HIDE DEF step
  <2> QED BY <1>1, <1>2, Loops
<1>4. g \in [0 .. N -> Nat] /\ g[0] = 0 /\ \A n \in 1 .. N : g[n] = step[n][g[n - 1]]
  <2> HIDE DEF step
  <2> QED BY <1>3 DEF Turns
<1> DEFINE turn(f, n) == IF n = 0 THEN 0 ELSE f[n - 1] + (IF n \in ids THEN Kb[n].tokens ELSE 0)
<1>5. \A n \in 1 .. N : g[n] = g[n - 1] + (IF n \in ids THEN Kb[n].tokens ELSE 0)
  <2> TAKE n \in 1 .. N
  <2>1. n - 1 \in 0 .. N
    BY <1>1
  <2>2. g[n - 1] \in Nat
    BY <1>4, <2>1
  <2>3. step[n][g[n - 1]] = g[n - 1] + weight[n]
    BY <2>2
  <2> HIDE DEF step
  <2> QED BY <1>4, <2>3
<1>6. g = [n \in 0 .. N |-> turn(g, n)]
  <2>1. \A n \in 0 .. N : g[n] = turn(g, n)
    <3> TAKE n \in 0 .. N
    <3>1. CASE n = 0
      BY <1>4, <3>1
    <3>2. CASE n # 0
      <4>1. n \in 1 .. N
        BY <1>1, <3>2
      <4> QED BY <1>5, <3>2, <4>1
    <3> QED BY <3>1, <3>2
  <2>2. g = [n \in 0 .. N |-> g[n]]
    BY <1>4
  <2> HIDE DEF turn
  <2> QED BY <2>1, <2>2
<1>7. u = [n \in 0 .. N |-> turn(u, n)]
  <2>1. u = CHOOSE f : f = [n \in 0 .. N |-> turn(f, n)]
    BY DEF TokensUpTo, N
  <2> HIDE DEF turn
  <2> QED BY <1>6, <2>1
<1>8. u[0] = 0 /\ \A n \in 1 .. N : u[n] = u[n - 1] + (IF n \in ids THEN Kb[n].tokens ELSE 0)
  <2>1. \A n \in 0 .. N : u[n] = turn(u, n)
    <3> HIDE DEF turn
    <3> QED BY <1>7
  <2>2. 0 \in 0 .. N /\ \A n \in 1 .. N : n \in 0 .. N /\ n # 0
    BY <1>1
  <2> QED BY <2>1, <2>2
<1>9. \A n \in 0 .. N : u[n] \in Nat
  <2> DEFINE B == {n \in 0 .. N : u[n] \in Nat}
  <2>1. 0 \in B
    BY <1>1, <1>8
  <2>2. ASSUME NEW n \in 1 .. N, n - 1 \in B PROVE n \in B
    <3>1. u[n] = u[n - 1] + weight[n] /\ weight[n] \in Nat /\ u[n - 1] \in Nat
      BY <1>1, <1>8, <2>2
    <3> HIDE DEF weight
    <3> QED BY <3>1
  <2> HIDE DEF B
  <2>3. \A n \in 0 .. N : n \in B
    BY <1>1, <2>1, <2>2, Along
  <2> QED BY <2>3 DEF B
<1>10. u \in [0 .. N -> Nat]
  <2> HIDE DEF turn
  <2>1. u = [n \in 0 .. N |-> u[n]]
    BY <1>7
  <2> QED BY <1>9, <2>1
<1> QED BY <1>8, <1>10 DEF N

LEMMA TokensGrow ==
    ASSUME NEW p, NEW q, IdsOf(p) \subseteq IdsOf(q)
    PROVE  TokensOf(p) \in Nat /\ TokensOf(q) \in Nat /\ TokensOf(p) <= TokensOf(q)
<1> DEFINE N == Len(Kb)
<1> SUFFICES ASSUME NEW u, u = TokensUpTo(IdsOf(p)), NEW v, v = TokensUpTo(IdsOf(q))
             PROVE  u[N] \in Nat /\ v[N] \in Nat /\ u[N] <= v[N]
  BY DEF TokensOf, TokensUpTo
<1>1. /\ u \in [0 .. N -> Nat] /\ u[0] = 0
      /\ \A n \in 1 .. N : u[n] = u[n - 1] + (IF n \in IdsOf(p) THEN Kb[n].tokens ELSE 0)
  BY TokensRun
<1>2. /\ v \in [0 .. N -> Nat] /\ v[0] = 0
      /\ \A n \in 1 .. N : v[n] = v[n - 1] + (IF n \in IdsOf(q) THEN Kb[n].tokens ELSE 0)
  BY TokensRun
<1>3. N \in Nat /\ \A n \in 1 .. N : Kb[n].tokens \in Nat
  BY KbIsTyped
<1> HIDE DEF N
<1> DEFINE B == {n \in 0 .. N : u[n] <= v[n]}
<1>4. 0 \in B
  BY <1>1, <1>2, <1>3
<1>5. ASSUME NEW n \in 1 .. N, n - 1 \in B PROVE n \in B
  <2>1. /\ u[n] = u[n - 1] + (IF n \in IdsOf(p) THEN Kb[n].tokens ELSE 0)
        /\ v[n] = v[n - 1] + (IF n \in IdsOf(q) THEN Kb[n].tokens ELSE 0)
        /\ Kb[n].tokens \in Nat /\ (n \in IdsOf(p) => n \in IdsOf(q))
    BY <1>1, <1>2, <1>3
  <2>2. n - 1 \in 0 .. N /\ u[n - 1] <= v[n - 1]
    BY <1>5
  <2>3. u[n - 1] \in Nat /\ v[n - 1] \in Nat
    BY <1>1, <1>2, <2>2
  <2>4. u[n] <= v[n]
    <3> SUFFICES ASSUME NEW a \in Nat, NEW b \in Nat, NEW k \in Nat, a <= b,
                        a = u[n - 1], b = v[n - 1], k = Kb[n].tokens
                 PROVE  u[n] <= v[n]
      BY <2>1, <2>2, <2>3
    <3>1. CASE n \in IdsOf(p)
      BY <2>1, <3>1
    <3>2. CASE n \notin IdsOf(p) /\ n \in IdsOf(q)
      BY <2>1, <3>2
    <3>3. CASE n \notin IdsOf(q)
      BY <2>1, <3>3
    <3> QED BY <3>1, <3>2, <3>3
  <2> QED BY <2>4
<1> HIDE DEF B
<1>6. \A n \in 0 .. N : n \in B
  BY <1>3, <1>4, <1>5, Along
<1>7. N \in B /\ N \in 0 .. N
  BY <1>3, <1>6
<1> QED BY <1>1, <1>2, <1>7 DEF B

\* So does the number of chunks of an article.
LEMMA CountsGrow ==
    ASSUME NEW p \in Seq(Pieces), NEW q \in Seq(Pieces), IdsOf(p) \subseteq IdsOf(q), NEW a
    PROVE  CountOf(p, a) \in Nat /\ CountOf(q, a) \in Nat /\ CountOf(p, a) <= CountOf(q, a)
<1> DEFINE P == {id \in IdsOf(p) : Kb[id].article = a}
           Q == {id \in IdsOf(q) : Kb[id].article = a}
<1>1. IdsOf(q) \subseteq DOMAIN Kb
  <2>1. \A i \in DOMAIN q : q[i] \in Pieces
    OBVIOUS
  <2> QED BY <2>1 DEF IdsOf, Pieces
<1>2. IsFiniteSet(DOMAIN Kb)
  <2>1. ASSUME NEW n \in Nat PROVE IsFiniteSet(1 .. n)
    BY FS_Interval
  <2> QED BY <2>1, KbIsTyped
<1>3. P \in SUBSET Q /\ Q \in SUBSET DOMAIN Kb
  BY <1>1
<1> HIDE DEF P, Q
<1>4. IsFiniteSet(Q)
  BY <1>2, <1>3, FS_Subset
<1>5. IsFiniteSet(P) /\ Cardinality(P) <= Cardinality(Q)
  BY <1>3, <1>4, FS_Subset
<1>6. Cardinality(P) \in Nat /\ Cardinality(Q) \in Nat
  BY <1>4, <1>5, FS_CardinalityType
<1> QED BY <1>5, <1>6 DEF CountOf, P, Q

-----------------------------------------------------------------------------
(* Packing.                                                                *)

\* A chunk that is not in the list would break the cap or the budget.
NoRoom(list, c, cap, budget) ==
    c.id \notin IdsOf(list) =>
        ~ (CountOf(list, Article(c)) < cap) \/ ~ (TokensOf(list) + Kb[c.id].tokens <= budget)

\* Where there is no room there will be none.
LEMMA NoRoomLater ==
    ASSUME NEW p \in Seq(Pieces), NEW q \in Seq(Pieces), IdsOf(p) \subseteq IdsOf(q),
           NEW c \in Pieces, NEW cap \in Int, NEW budget \in Int, NoRoom(p, c, cap, budget)
    PROVE  NoRoom(q, c, cap, budget)
<1> SUFFICES ASSUME c.id \notin IdsOf(q)
             PROVE  ~ (CountOf(q, Article(c)) < cap) \/ ~ (TokensOf(q) + Kb[c.id].tokens <= budget)
  BY DEF NoRoom
<1>1. ~ (CountOf(p, Article(c)) < cap) \/ ~ (TokensOf(p) + Kb[c.id].tokens <= budget)
  BY DEF NoRoom
<1>2. /\ CountOf(p, Article(c)) \in Nat /\ CountOf(q, Article(c)) \in Nat
      /\ CountOf(p, Article(c)) <= CountOf(q, Article(c))
  BY CountsGrow
<1>3. TokensOf(p) \in Nat /\ TokensOf(q) \in Nat /\ TokensOf(p) <= TokensOf(q)
  BY TokensGrow
<1>4. Kb[c.id].tokens \in Nat
  <2>1. c.id \in DOMAIN Kb
    BY DEF Pieces
  <2> QED BY <2>1, KbIsTyped
<1> QED BY <1>1, <1>2, <1>3, <1>4

\* What is known of packed after an attempt to add c.
LEMMA Adding ==
    ASSUME NEW packed \in Seq(Pieces), NEW c \in Pieces, NEW cap \in Int, NEW budget \in Int,
           NEW t, t = TryAdd(packed, c, cap, budget)
    PROVE  /\ t \in Seq(Pieces)
           /\ IdsOf(packed) \subseteq IdsOf(t)
           /\ NoRoom(t, c, cap, budget)
<1>1. CASE t = Append(packed, c)
  <2>1. t \in Seq(Pieces)
    BY <1>1
  <2>2. \A i \in DOMAIN packed : i \in DOMAIN t /\ t[i] = packed[i]
    BY <1>1
  <2>3. \E i \in DOMAIN t : t[i] = c
    <3>1. Len(packed) + 1 \in DOMAIN t /\ t[Len(packed) + 1] = c
      BY <1>1
    <3> QED BY <3>1
  <2> QED BY <2>1, <2>2, <2>3 DEF IdsOf, NoRoom
<1>2. CASE /\ t = packed
           /\ ~ (/\ c.id \notin IdsOf(packed)
                 /\ CountOf(packed, Article(c)) < cap
                 /\ TokensOf(packed) + Kb[c.id].tokens <= budget)
  BY <1>2 DEF NoRoom
<1> QED BY <1>1, <1>2 DEF TryAdd

\* t is packed with what fits of the list.
Filled(t, packed, list, caps, budget) ==
    /\ t \in Seq(Pieces)
    /\ IdsOf(packed) \subseteq IdsOf(t)
    /\ \A i \in DOMAIN list : NoRoom(t, list[i], caps[i], budget)

LEMMA FillingEach ==
    ASSUME NEW packed \in Seq(Pieces), NEW list \in Seq(Pieces), NEW budget \in Int,
           NEW caps, \A i \in DOMAIN list : caps[i] \in Int
    PROVE  Filled(FillEach(packed, list, caps, budget), packed, list, caps, budget)
<1> DEFINE N == Len(list)
           S == Seq(Pieces)
           step == [n \in 1 .. N |-> [x \in S |-> TryAdd(x, list[n], caps[n], budget)]]
<1>1. /\ N \in Nat /\ DOMAIN list = 1 .. N
      /\ \A n \in 1 .. N : list[n] \in Pieces /\ caps[n] \in Int
  OBVIOUS
<1> HIDE DEF N
<1>2. \A x \in S : \A n \in 1 .. N : TryAdd(x, list[n], caps[n], budget) \in S
  BY <1>1, Adding
<1>3. step \in [1 .. N -> [S -> S]]
  <2> HIDE DEF S
  <2> QED BY <1>2
<1>4. packed \in S
  OBVIOUS
<1> HIDE DEF S
<1>5. PICK g : Turns(g, N, S, packed, step)
  <2> HIDE DEF step
  <2> QED BY <1>1, <1>3, <1>4, Loops
<1>6. g \in [0 .. N -> S] /\ g[0] = packed /\ \A n \in 1 .. N : g[n] = step[n][g[n - 1]]
  <2> HIDE DEF step
  <2> QED BY <1>5 DEF Turns
<1> DEFINE turn(f, n) == IF n = 0 THEN packed ELSE TryAdd(f[n - 1], list[n], caps[n], budget)
           upTo == CHOOSE f : f = [n \in 0 .. N |-> turn(f, n)]
<1>7. g = [n \in 0 .. N |-> turn(g, n)]
  <2>1. \A n \in 1 .. N : g[n] = TryAdd(g[n - 1], list[n], caps[n], budget)
    <3> TAKE n \in 1 .. N
    <3>1. n - 1 \in 0 .. N
      BY <1>1
    <3>2. g[n - 1] \in S
      BY <1>6, <3>1
    <3> QED BY <1>6, <3>2
  <2> HIDE DEF step
  <2>2. \A n \in 0 .. N : g[n] = turn(g, n)
    <3> TAKE n \in 0 .. N
    <3>1. CASE n = 0
      BY <1>6, <3>1
    <3>2. CASE n # 0
      <4>1. n \in 1 .. N
        BY <1>1, <3>2
      <4> QED BY <2>1, <3>2, <4>1
    <3> QED BY <3>1, <3>2
  <2>3. g = [n \in 0 .. N |-> g[n]]
    BY <1>6
  <2> HIDE DEF turn
  <2> QED BY <2>2, <2>3
<1>8. upTo = [n \in 0 .. N |-> turn(upTo, n)]
  <2> HIDE DEF turn
  <2> QED BY <1>7
<1>9. FillEach(packed, list, caps, budget) = upTo[N]
  BY DEF FillEach, N
<1> HIDE DEF upTo
<1>10. upTo[0] = packed /\ \A n \in 1 .. N : upTo[n] = TryAdd(upTo[n - 1], list[n], caps[n], budget)
  <2>1. \A n \in 0 .. N : upTo[n] = turn(upTo, n)
    <3> HIDE DEF turn
    <3> QED BY <1>8
  <2>2. 0 \in 0 .. N /\ \A n \in 1 .. N : n \in 0 .. N /\ n # 0
    BY <1>1
  <2> QED BY <2>1, <2>2
<1> HIDE DEF turn, step
<1> DEFINE Ok(n) == /\ upTo[n] \in Seq(Pieces)
                    /\ IdsOf(packed) \subseteq IdsOf(upTo[n])
                    /\ \A i \in 1 .. n : NoRoom(upTo[n], list[i], caps[i], budget)
<1>11. Ok(0)
  BY <1>10
<1>12. ASSUME NEW n \in 1 .. N, Ok(n - 1) PROVE Ok(n)
  <2> DEFINE x == upTo[n - 1]
             v == upTo[n]
  <2>1. /\ x \in Seq(Pieces) /\ IdsOf(packed) \subseteq IdsOf(x)
        /\ \A i \in 1 .. n - 1 : NoRoom(x, list[i], caps[i], budget)
    BY <1>12
  <2>2. v = TryAdd(x, list[n], caps[n], budget)
    BY <1>10
  <2> HIDE DEF x, v
  <2>3. v \in Seq(Pieces) /\ IdsOf(x) \subseteq IdsOf(v) /\ NoRoom(v, list[n], caps[n], budget)
    BY <1>1, <2>1, <2>2, Adding
  <2>4. ASSUME NEW i \in 1 .. n PROVE NoRoom(v, list[i], caps[i], budget)
    <3>1. CASE i = n
      BY <2>3, <3>1
    <3>2. CASE i # n
      <4>1. i \in 1 .. n - 1 /\ i \in 1 .. N
        BY <1>1, <3>2
      <4>2. NoRoom(x, list[i], caps[i], budget) /\ list[i] \in Pieces /\ caps[i] \in Int
        BY <1>1, <2>1, <4>1
      <4> QED BY <2>1, <2>3, <4>2, NoRoomLater
    <3> QED BY <3>1, <3>2
  <2> QED BY <2>1, <2>3, <2>4 DEF v
<1>13. Ok(N)
  <2> DEFINE B == {n \in 0 .. N : Ok(n)}
  <2> HIDE DEF Ok
  <2>1. 0 \in B /\ \A n \in 1 .. N : n - 1 \in B => n \in B
    BY <1>1, <1>11, <1>12
  <2> HIDE DEF B
  <2>2. \A n \in 0 .. N : n \in B
    BY <1>1, <2>1, Along
  <2>3. N \in B
    BY <1>1, <2>2
  <2> QED BY <2>3 DEF B
<1> QED BY <1>1, <1>9, <1>13 DEF Filled

LEMMA Filling ==
    ASSUME NEW packed \in Seq(Pieces), NEW list \in Seq(Pieces), NEW cap \in Int, NEW budget \in Int,
           NEW t, t = Fill(packed, list, cap, budget)
    PROVE  /\ t \in Seq(Pieces)
           /\ IdsOf(packed) \subseteq IdsOf(t)
           /\ \A i \in DOMAIN list : NoRoom(t, list[i], cap, budget)
<1> DEFINE caps == [n \in DOMAIN list |-> cap]
<1>1. t = FillEach(packed, list, caps, budget)
  BY DEF Fill
<1>2. \A i \in DOMAIN list : caps[i] = cap /\ caps[i] \in Int
  OBVIOUS
<1> HIDE DEF caps
<1>3. Filled(t, packed, list, caps, budget)
  BY <1>1, <1>2, FillingEach
<1> QED BY <1>2, <1>3 DEF Filled

\* Sorting by score changes neither what is in nor what there is room for.
LEMMA SortedHasNoRoom ==
    ASSUME NEW list \in Seq(Pieces), NEW t, t = ByScore(list)
    PROVE  /\ t \in Seq(Pieces)
           /\ IdsOf(t) = IdsOf(list)
           /\ \A c \in Pieces : \A cap \in Int : \A budget \in Int :
                 NoRoom(list, c, cap, budget) => NoRoom(t, c, cap, budget)
<1> DEFINE keys == [i \in DOMAIN list |-> -list[i].score]
<1>0. t = SortedBy(list, keys)
  BY DEF ByScore
<1> HIDE DEF keys
<1>1. /\ t \in Seq(Pieces)
      /\ \A n \in DOMAIN t : \E i \in DOMAIN list : t[n] = list[i]
      /\ \A i \in DOMAIN list : \E n \in DOMAIN t : t[n] = list[i]
  BY <1>0, Sorting
<1>2. IdsOf(t) = IdsOf(list)
  BY <1>1 DEF IdsOf
<1> QED BY <1>1, <1>2, NoRoomLater

-----------------------------------------------------------------------------
(* The contexts of an answer.                                              *)

LEMMA OneMore ==
    ASSUME NEW packed \in Seq(Pieces), NEW ranked \in Seq(Pieces), NEW budget
    PROVE  OneFor(packed, ranked, budget) \in Seq(Pieces)
<1> DEFINE fits == {i \in DOMAIN ranked : TryAdd(packed, ranked[i], PerArticle, budget) # packed}
<1>1. fits \subseteq DOMAIN ranked /\ DOMAIN ranked = 1 .. Len(ranked) /\ Len(ranked) \in Nat
  OBVIOUS
<1>2. OneFor(packed, ranked, budget) = IF fits = {} THEN packed ELSE Append(packed, ranked[Min(fits)])
  BY DEF OneFor
<1> HIDE DEF fits
<1>3. CASE fits # {}
  <2>1. Min(fits) \in fits
    BY <1>1, <1>3, MinIsIn
  <2>2. ranked[Min(fits)] \in Pieces
    BY <1>1, <2>1
  <2> QED BY <1>2, <1>3, <2>2
<1> QED BY <1>2, <1>3

LEMMA Hearing ==
    ASSUME NEW packed \in Seq(Pieces), NEW list \in Seq(Pieces), NEW budget,
           NEW E, NEW concepts \in Seq(E)
    PROVE  Quota(packed, list, concepts, budget) \in Seq(Pieces)
<1> DEFINE N == Len(concepts)
           S == Seq(Pieces)
           ranked(concept) == ByRank(Serving(list, {concept}), ToSet(concepts), {concept})
           step == [n \in 1 .. N |-> [x \in S |-> OneFor(x, ranked(concepts[n]), budget)]]
<1>1. N \in Nat
  OBVIOUS
<1>2. \A concept : ranked(concept) \in S
  BY SelectionsArePieces
<1> HIDE DEF N, ranked
<1>3. step \in [1 .. N -> [S -> S]]
  <2>1. \A x \in S : \A n \in 1 .. N : OneFor(x, ranked(concepts[n]), budget) \in S
    BY <1>2, OneMore
  <2> HIDE DEF S
  <2> QED BY <2>1
<1>4. packed \in S
  OBVIOUS
<1> HIDE DEF S
<1>5. PICK g : Turns(g, N, S, packed, step)
  <2> HIDE DEF step
  <2> QED BY <1>1, <1>3, <1>4, Loops
<1>6. g \in [0 .. N -> S] /\ g[0] = packed /\ \A n \in 1 .. N : g[n] = step[n][g[n - 1]]
  <2> HIDE DEF step
  <2> QED BY <1>5 DEF Turns
<1> DEFINE turn(f, n) == IF n = 0 THEN packed ELSE OneFor(f[n - 1], ranked(concepts[n]), budget)
           upTo == CHOOSE f : f = [n \in 0 .. N |-> turn(f, n)]
<1>7. g = [n \in 0 .. N |-> turn(g, n)]
  <2>1. \A n \in 1 .. N : g[n] = OneFor(g[n - 1], ranked(concepts[n]), budget)
    <3> TAKE n \in 1 .. N
    <3>1. n - 1 \in 0 .. N
      BY <1>1
    <3>2. g[n - 1] \in S
      BY <1>6, <3>1
    <3> QED BY <1>6, <3>2
  <2> HIDE DEF step
  <2>2. \A n \in 0 .. N : g[n] = turn(g, n)
    <3> TAKE n \in 0 .. N
    <3>1. CASE n = 0
      BY <1>6, <3>1
    <3>2. CASE n # 0
      <4>1. n \in 1 .. N
        BY <1>1, <3>2
      <4> QED BY <2>1, <3>2, <4>1
    <3> QED BY <3>1, <3>2
  <2>3. g = [n \in 0 .. N |-> g[n]]
    BY <1>6
  <2> HIDE DEF turn
  <2> QED BY <2>2, <2>3
<1>8. upTo = [n \in 0 .. N |-> turn(upTo, n)]
  <2> HIDE DEF turn
  <2> QED BY <1>7
<1>9. Quota(packed, list, concepts, budget) = upTo[N]
  BY DEF Quota, N, ranked
<1> HIDE DEF upTo
<1>10. upTo[0] = packed /\ \A n \in 1 .. N : upTo[n] = OneFor(upTo[n - 1], ranked(concepts[n]), budget)
  <2>1. \A n \in 0 .. N : upTo[n] = turn(upTo, n)
    <3> HIDE DEF turn
    <3> QED BY <1>8
  <2>2. 0 \in 0 .. N /\ \A n \in 1 .. N : n \in 0 .. N /\ n # 0
    BY <1>1
  <2> QED BY <2>1, <2>2
<1> HIDE DEF turn, step
<1> DEFINE B == {n \in 0 .. N : upTo[n] \in S}
<1>11. 0 \in B
  BY <1>1, <1>4, <1>10
<1>12. ASSUME NEW n \in 1 .. N, n - 1 \in B PROVE n \in B
  <2>1. upTo[n - 1] \in Seq(Pieces) /\ ranked(concepts[n]) \in Seq(Pieces)
    BY <1>2, <1>12 DEF S
  <2>2. upTo[n] \in Seq(Pieces)
    BY <1>10, <2>1, OneMore
  <2> QED BY <1>1, <2>2 DEF S
<1> HIDE DEF B
<1>13. \A n \in 0 .. N : n \in B
  BY <1>1, <1>11, <1>12, Along
<1>14. upTo[N] \in S
  <2>1. N \in B
    BY <1>1, <1>13
  <2> QED BY <2>1 DEF B
<1> QED BY <1>9, <1>14 DEF S

\* v is a list of chunks with everything of x in it, and of list.
Covers(v, list) == v \in Seq(Pieces) /\ \A i \in DOMAIN list : \E n \in DOMAIN v : v[n] = list[i]

LEMMA Behind ==
    ASSUME NEW x \in Seq(Pieces), NEW y \in Seq(Pieces), NEW v, v = x \o y
    PROVE  Covers(v, x) /\ Covers(v, y)
<1>1. Chained(Pieces, x, y, v)
  BY Chaining
<1> QED BY <1>1 DEF Chained, Covers

\* Every chunk has one of the tiers.
LEMMA TiersCover ==
    ASSUME NEW list \in Seq(Pieces)
    PROVE  Covers(ByTier(list), list)
<1> DEFINE a == OfTier(list, "critical")
           b == OfTier(list, "high")
           c == OfTier(list, "medium")
           d == OfTier(list, "low")
           ab == a \o b
           abc == ab \o c
           abcd == abc \o d
<1>1. a \in Seq(Pieces) /\ b \in Seq(Pieces) /\ c \in Seq(Pieces) /\ d \in Seq(Pieces)
  BY SelectionsArePieces
<1>2. ByTier(list) = abcd
  BY DEF ByTier
<1>3. \A tier : \A i \in DOMAIN list : Kb[list[i].id].tier = tier =>
         \E n \in DOMAIN OfTier(list, tier) : OfTier(list, tier)[n] = list[i]
  <2> TAKE tier
  <2> DEFINE places == {i \in DOMAIN list : Kb[list[i].id].tier = tier}
  <2>1. OfTier(list, tier) = Picked(list, places)
    BY DEF OfTier
  <2>2. \A i \in DOMAIN list : Kb[list[i].id].tier = tier => i \in places
    OBVIOUS
  <2> HIDE DEF places
  <2>3. \A i \in places \cap DOMAIN list : \E n \in DOMAIN OfTier(list, tier) : OfTier(list, tier)[n] = list[i]
    BY <2>1, Picking
  <2> QED BY <2>2, <2>3
<1>4. \A i \in DOMAIN list : Kb[list[i].id].tier \in Tiers
  <2>1. \A i \in DOMAIN list : list[i].id \in DOMAIN Kb
    <3>1. \A i \in DOMAIN list : list[i] \in Pieces
      OBVIOUS
    <3> QED BY <3>1 DEF Pieces
  <2> QED BY <2>1, KbIsTyped
<1> HIDE DEF a, b, c, d
<1>5. Covers(ab, a) /\ Covers(ab, b)
  BY <1>1, Behind
<1> HIDE DEF ab
<1>6. Covers(abc, ab) /\ Covers(abc, c)
  <2>1. ab \in Seq(Pieces)
    BY <1>5 DEF Covers
  <2> QED BY <1>1, <2>1, Behind
<1> HIDE DEF abc
<1>7. Covers(abcd, abc) /\ Covers(abcd, d)
  <2>1. abc \in Seq(Pieces)
    BY <1>6 DEF Covers
  <2> QED BY <1>1, <2>1, Behind
<1> HIDE DEF abcd
<1>8. ASSUME NEW i \in DOMAIN list PROVE \E n \in DOMAIN abcd : abcd[n] = list[i]
  <2>1. \/ \E n \in DOMAIN a : a[n] = list[i]
        \/ \E n \in DOMAIN b : b[n] = list[i]
        \/ \E n \in DOMAIN c : c[n] = list[i]
        \/ \E n \in DOMAIN d : d[n] = list[i]
    BY <1>3, <1>4 DEF Tiers, a, b, c, d
  <2>2. (\E n \in DOMAIN ab : ab[n] = list[i]) => \E n \in DOMAIN abc : abc[n] = list[i]
    BY <1>6 DEF Covers
  <2>3. (\E n \in DOMAIN abc : abc[n] = list[i]) => \E n \in DOMAIN abcd : abcd[n] = list[i]
    BY <1>7 DEF Covers
  <2>4. CASE \E n \in DOMAIN a : a[n] = list[i]
    BY <1>5, <2>2, <2>3, <2>4 DEF Covers
  <2>5. CASE \E n \in DOMAIN b : b[n] = list[i]
    BY <1>5, <2>2, <2>3, <2>5 DEF Covers
  <2>6. CASE \E n \in DOMAIN c : c[n] = list[i]
    BY <1>6, <2>3, <2>6 DEF Covers
  <2>7. CASE \E n \in DOMAIN d : d[n] = list[i]
    BY <1>7, <2>7 DEF Covers
  <2> QED BY <2>1, <2>4, <2>5, <2>6, <2>7
<1>9. abcd \in Seq(Pieces)
  BY <1>7 DEF Covers
<1> QED BY <1>2, <1>8, <1>9 DEF Covers

\* What is of some types and what is not is everything.
LEMMA TypesCover ==
    ASSUME NEW list \in Seq(Pieces), NEW types
    PROVE  Covers(OfTypes(list, types) \o NotOfTypes(list, types), list)
<1> DEFINE x == OfTypes(list, types)
           y == NotOfTypes(list, types)
           v == x \o y
           ins == {i \in DOMAIN list : Type(list[i]) \in types}
           outs == {i \in DOMAIN list : Type(list[i]) \notin types}
<1>1. x = Picked(list, ins) /\ y = Picked(list, outs)
  BY DEF OfTypes, NotOfTypes
<1>2. \A i \in DOMAIN list : i \in ins \/ i \in outs
  OBVIOUS
<1> HIDE DEF ins, outs
<1>3. x \in Seq(Pieces) /\ \A i \in ins \cap DOMAIN list : \E n \in DOMAIN x : x[n] = list[i]
  BY <1>1, Picking
<1>4. y \in Seq(Pieces) /\ \A i \in outs \cap DOMAIN list : \E n \in DOMAIN y : y[n] = list[i]
  BY <1>1, Picking
<1> HIDE DEF x, y
<1>5. Covers(v, x) /\ Covers(v, y)
  BY <1>3, <1>4, Behind
<1> SUFFICES Covers(v, list)
  BY DEF x, y
<1> HIDE DEF v
<1>6. ASSUME NEW i \in DOMAIN list
      PROVE  \E n \in DOMAIN v : v[n] = list[i]
  <2>1. CASE i \in ins
    <3>1. PICK n \in DOMAIN x : x[n] = list[i]
      BY <1>3, <2>1
    <3> QED BY <1>5, <3>1 DEF Covers
  <2>2. CASE i \in outs
    <3>1. PICK n \in DOMAIN y : y[n] = list[i]
      BY <1>4, <2>2
    <3> QED BY <1>5, <3>1 DEF Covers
  <2> QED BY <1>2, <2>1, <2>2
<1> QED BY <1>5, <1>6 DEF Covers

\* A context that leaves out only what does not fit.
Full(t, list, budget) ==
    t \in Seq(Pieces) /\ \A i \in DOMAIN list : NoRoom(t, list[i], PerArticle, budget)

LEMMA FilledUp ==
    ASSUME NEW packed \in Seq(Pieces), NEW list \in Seq(Pieces), NEW cover, Covers(cover, list),
           NEW budget \in Int
    PROVE  Full(ByScore(Fill(packed, cover, PerArticle, budget)), list, budget)
<1> DEFINE f == Fill(packed, cover, PerArticle, budget)
           t == ByScore(f)
<1>1. cover \in Seq(Pieces) /\ \A i \in DOMAIN list : \E n \in DOMAIN cover : cover[n] = list[i]
  BY DEF Covers
<1>2. PerArticle \in Int
  BY ContextConstants DEF ContextAssumption
<1>3. f \in Seq(Pieces) /\ \A n \in DOMAIN cover : NoRoom(f, cover[n], PerArticle, budget)
  BY <1>1, <1>2, Filling
<1> HIDE DEF f
<1>4. /\ t \in Seq(Pieces)
      /\ \A c \in Pieces : NoRoom(f, c, PerArticle, budget) => NoRoom(t, c, PerArticle, budget)
  BY <1>2, <1>3, SortedHasNoRoom
<1> HIDE DEF t
<1>5. ASSUME NEW i \in DOMAIN list PROVE NoRoom(t, list[i], PerArticle, budget)
  <2>1. NoRoom(f, list[i], PerArticle, budget)
    BY <1>1, <1>3
  <2>2. list[i] \in Pieces
    OBVIOUS
  <2> QED BY <1>4, <2>1, <2>2
<1> QED BY <1>4, <1>5 DEF Full, t, f

LEMMA DiverseIsFull ==
    ASSUME NEW list \in Seq(Pieces), NEW types, NEW budget \in Int
    PROVE  Full(DiverseContext(list, types, budget), list, budget)
<1> DEFINE packed == Fill(<<>>, BestOfEach(list), PerArticle, budget)
           cover == OfTypes(list, types) \o NotOfTypes(list, types)
<1>1. PerArticle \in Int
  BY ContextConstants DEF ContextAssumption
<1>2. packed \in Seq(Pieces)
  <2>1. <<>> \in Seq(Pieces) /\ BestOfEach(list) \in Seq(Pieces)
    BY SelectionsArePieces
  <2> QED BY <1>1, <2>1, Filling
<1>3. Covers(cover, list)
  BY TypesCover
<1>4. DiverseContext(list, types, budget) = ByScore(Fill(packed, cover, PerArticle, budget))
  BY DEF DiverseContext
<1> HIDE DEF packed, cover
<1> QED BY <1>2, <1>3, <1>4, FilledUp

\* The articles of a list of chunks, each with a chunk in it.
ArticlesOf(list) == {Article(list[i]) : i \in DOMAIN list}

LEMMA ArticlesAreSeen ==
    ASSUME NEW list \in Seq(Pieces)
    PROVE  /\ Seen(list) \in Seq(ArticlesOf(list))
           /\ Articles(list) \in Seq(ArticlesOf(list))
<1> DEFINE all == [i \in DOMAIN list |-> Article(list[i])]
           seen == Seen(list)
           keys == [i \in DOMAIN seen |-> -Signal(list, seen[i])]
<1>1. all \in Seq(ArticlesOf(list))
  <2>1. DOMAIN list = 1 .. Len(list) /\ Len(list) \in Nat
    OBVIOUS
  <2>2. all \in [1 .. Len(list) -> ArticlesOf(list)]
    BY <2>1 DEF ArticlesOf
  <2> QED BY <2>1, <2>2, SeqDef
<1>2. seen = Unique(all)
  BY DEF Seen
<1>3. Articles(list) = SortedBy(seen, keys)
  BY DEF Articles
<1> HIDE DEF all, seen, keys
<1>4. seen \in Seq(ArticlesOf(list))
  <2> DEFINE places == {i \in DOMAIN all : \A j \in 1 .. i - 1 : all[j] # all[i]}
  <2>1. seen = Picked(all, places)
    BY <1>2 DEF Unique
  <2> HIDE DEF places
  <2> QED BY <1>1, <2>1, Picking
<1>5. Articles(list) \in Seq(ArticlesOf(list))
  BY <1>3, <1>4, Sorting
<1> QED BY <1>4, <1>5 DEF seen

LEMMA ArticlesHaveABest ==
    ASSUME NEW list \in Seq(Pieces), NEW a \in ArticlesOf(list),
           NEW t, t = ByScore(OfArticle(list, a))
    PROVE  t \in Seq(Pieces) /\ Len(t) \in Nat /\ Len(t) >= 1 /\ t[1] \in Pieces
<1> DEFINE places == {i \in DOMAIN list : Article(list[i]) \in {a}}
           o == OfArticle(list, a)
           keys == [i \in DOMAIN o |-> -o[i].score]
<1>1. o = Picked(list, places)
  BY DEF OfArticle, OfArticles
<1>2. PICK i \in places \cap DOMAIN list : TRUE
  BY DEF ArticlesOf
<1>3. t = SortedBy(o, keys)
  BY DEF ByScore
<1> HIDE DEF places, o, keys
<1>4. o \in Seq(Pieces) /\ \E n \in DOMAIN o : o[n] = list[i]
  BY <1>1, <1>2, Picking
<1>5. t \in Seq(Pieces) /\ \A n \in DOMAIN o : \E k \in DOMAIN t : t[k] = o[n]
  BY <1>3, <1>4, Sorting
<1>6. \E k \in DOMAIN t : TRUE
  BY <1>4, <1>5
<1> QED BY <1>5, <1>6

\* The answer's context is a list of chunks, and full unless an article takes it.
LEMMA TieredIsFull ==
    ASSUME NEW list \in Seq(Pieces), NEW E, NEW concepts \in Seq(E), NEW budget \in Int
    PROVE  /\ TieredContext(list, concepts, budget) \in Seq(Pieces)
           /\ ~Dominant(list) => Full(TieredContext(list, concepts, budget), list, budget)
<1> DEFINE articles == Articles(list)
           heard == Quota(<<>>, list, concepts, budget)
           ofTop == ByScore(OfArticle(list, articles[1]))
           second == ByScore(OfArticle(list, articles[2]))
           runnerUp == SubSeq(second, 1, 1)
           dominant == Fill(heard, ofTop, DominantCap, budget)
           both == Fill(dominant, runnerUp, PerArticle, budget)
           diverse == Fill(heard, BestOfEach(list), PerArticle, budget)
           cover == ByTier(list)
           wide == Fill(diverse, cover, PerArticle, budget)
<1>1. PerArticle \in Int /\ DominantCap \in Int
  BY ContextConstants DEF ContextAssumption
<1>2. heard \in Seq(Pieces)
  <2>1. <<>> \in Seq(Pieces)
    OBVIOUS
  <2> QED BY <2>1, Hearing
<1>3. ofTop \in Seq(Pieces) /\ second \in Seq(Pieces) /\ BestOfEach(list) \in Seq(Pieces)
  <2> DEFINE x == OfArticle(list, articles[1])
             y == OfArticle(list, articles[2])
  <2>1. x \in Seq(Pieces) /\ y \in Seq(Pieces) /\ BestOfEach(list) \in Seq(Pieces)
    BY SelectionsArePieces
  <2> HIDE DEF x, y
  <2>2. ByScore(x) \in Seq(Pieces) /\ ByScore(y) \in Seq(Pieces)
    BY <2>1, SelectionsArePieces
  <2> QED BY <2>1, <2>2 DEF x, y
<1>4. TieredContext(list, concepts, budget)
        = ByScore(IF Dominant(list) THEN IF Len(articles) > 1 THEN both ELSE dominant ELSE wide)
  BY DEF TieredContext
<1>5. Len(articles) > 1 => runnerUp \in Seq(Pieces)
  <2> HAVE Len(articles) > 1
  <2>1. articles[2] \in ArticlesOf(list)
    <3>1. articles \in Seq(ArticlesOf(list))
      BY ArticlesAreSeen
    <3> HIDE DEF articles
    <3> QED BY <3>1
  <2>2. second \in Seq(Pieces) /\ Len(second) \in Nat /\ Len(second) >= 1
    BY <2>1, ArticlesHaveABest
  <2> HIDE DEF second
  <2> QED BY <2>2
<1> HIDE DEF heard, ofTop, second
<1> HIDE DEF runnerUp
<1>6. dominant \in Seq(Pieces) /\ diverse \in Seq(Pieces)
  BY <1>1, <1>2, <1>3, Filling
<1> HIDE DEF dominant, diverse
<1>7. Len(articles) > 1 => both \in Seq(Pieces)
  BY <1>1, <1>5, <1>6, Filling
<1>8. Covers(cover, list)
  BY TiersCover
<1> HIDE DEF cover
<1>9. Full(ByScore(wide), list, budget)
  BY <1>6, <1>8, FilledUp
<1>10. (Len(articles) > 1 => ByScore(both) \in Seq(Pieces)) /\ ByScore(dominant) \in Seq(Pieces)
  <2> HIDE DEF both
  <2> QED BY <1>6, <1>7, SelectionsArePieces
<1> HIDE DEF both, wide
<1>11. ByScore(wide) \in Seq(Pieces)
  BY <1>9 DEF Full
<1>12. CASE Dominant(list)
  <2>1. TieredContext(list, concepts, budget) =
           IF Len(articles) > 1 THEN ByScore(both) ELSE ByScore(dominant)
    BY <1>4, <1>12
  <2> QED BY <1>10, <1>12, <2>1
<1>13. CASE ~Dominant(list)
  <2>1. TieredContext(list, concepts, budget) = ByScore(wide)
    BY <1>4, <1>13
  <2> QED BY <1>9, <1>11, <2>1
<1> QED BY <1>12, <1>13

\* Sorting by one key after the other leaves chunks.
LEMMA OrderedPieces ==
    ASSUME NEW list \in Seq(Pieces), NEW p
    PROVE  ExactOrder(list, p) \in Seq(Pieces)
<1>1. \A l \in Seq(Pieces) : \A keys : SortedBy(l, keys) \in Seq(Pieces)
  BY PickedPieces
<1>2. \A l \in Seq(Pieces) : ByScore(l) \in Seq(Pieces)
  BY <1>1 DEF ByScore
<1> QED BY <1>1, <1>2, Zenon DEF ExactOrder

LEMMA ExactIsAList ==
    ASSUME NEW list \in Seq(Pieces), NEW p, NEW budget \in Int
    PROVE  ExactContext(list, p, budget) \in Seq(Pieces)
<1> DEFINE kept == NotExcludedOf(list, p)
           allowed == OfTypes(kept, ToSet(Allowed(p)))
           primary == OfArticle(allowed, p.primary)
           own == IF primary # <<>> THEN primary ELSE allowed
           listed == ExactOrder(own, p)
           cap(c) == CASE Article(c) # p.primary -> PerArticle
                       [] Article(c) = p.primary /\ p.intent = "informational_options" -> OptionsCap
                       [] OTHER -> DominantCap
           caps == [i \in DOMAIN listed |-> cap(listed[i])]
<1>1. ExactContext(list, p, budget) = FillEach(<<>>, listed, caps, budget)
  BY DEF ExactContext
<1>2. PerArticle \in Int /\ DominantCap \in Int /\ OptionsCap \in Int
  BY ContextConstants DEF ContextAssumption
<1>3. \A c : cap(c) \in Int
  BY <1>2
<1>4. \A i \in DOMAIN listed : caps[i] \in Int
  <2> HIDE DEF listed, cap
  <2> QED BY <1>3
<1>5. kept \in Seq(Pieces)
  BY SelectionsArePieces
<1> HIDE DEF kept, caps
<1>6. allowed \in Seq(Pieces)
  BY <1>5, SelectionsArePieces
<1> HIDE DEF allowed
<1>7. primary \in Seq(Pieces)
  BY <1>6, SelectionsArePieces
<1> HIDE DEF primary
<1>8. listed \in Seq(Pieces)
  <2>1. own \in Seq(Pieces)
    BY <1>6, <1>7
  <2> HIDE DEF own
  <2> QED BY <2>1, OrderedPieces
<1> HIDE DEF listed
<1>9. Filled(FillEach(<<>>, listed, caps, budget), <<>>, listed, caps, budget)
  <2>1. <<>> \in Seq(Pieces)
    OBVIOUS
  <2> QED BY <1>4, <1>8, <2>1, FillingEach
<1> QED BY <1>1, <1>9 DEF Filled

-----------------------------------------------------------------------------
(* The chunks at hand.                                                     *)

LEMMA AllAreChunks ==
    ASSUME NEW ids, NEW scores, \A id \in ids \cap DOMAIN Kb : scores[id] \in Int,
           NEW t, t = AllOf(ids, scores)
    PROVE  t \in Seq(Pieces)
<1> DEFINE all == [id \in DOMAIN Kb |-> id]
           line == Picked(all, ids)
<1>1. t = [n \in DOMAIN line |-> Retrieved(line[n], scores[line[n]])]
  BY DEF AllOf
<1>2. all \in Seq(DOMAIN Kb) /\ DOMAIN all = DOMAIN Kb /\ \A id \in DOMAIN Kb : all[id] = id
  <2>1. Len(Kb) \in Nat /\ DOMAIN Kb = 1 .. Len(Kb)
    BY KbIsTyped
  <2> QED BY <2>1, SeqDef
<1> HIDE DEF all
<1>3. line \in Seq(DOMAIN Kb) /\ \A n \in DOMAIN line : line[n] \in ids \cap DOMAIN Kb
  <2>1. /\ line \in Seq(DOMAIN Kb)
        /\ \A n \in DOMAIN line : \E i \in ids \cap DOMAIN all : line[n] = all[i]
    BY <1>2, Picking
  <2> QED BY <1>2, <2>1
<1> HIDE DEF line
<1>4. \A n \in DOMAIN line : Retrieved(line[n], scores[line[n]]) \in Pieces
  BY <1>3 DEF Retrieved, Pieces
<1>5. t \in [1 .. Len(line) -> Pieces] /\ Len(line) \in Nat
  <2>1. DOMAIN line = 1 .. Len(line) /\ Len(line) \in Nat
    BY <1>3
  <2> QED BY <1>1, <1>4, <2>1
<1> QED BY <1>5, SeqDef

LEMMA Quotas ==
    ASSUME NEW list \in Seq(QuotaConcepts)
    PROVE  QuotaOf(list) \in Seq(QuotaConcepts)
<1> DEFINE firsts == {i \in DOMAIN list : \A j \in 1 .. i - 1 : list[j] # list[i]}
           u == Unique(list)
           places == {i \in DOMAIN u : u[i] \in QuotaConcepts}
<1>1. u = Picked(list, firsts)
  BY DEF Unique
<1>2. QuotaOf(list) = Picked(u, places)
  BY DEF QuotaOf
<1> HIDE DEF firsts, u, places
<1>3. u \in Seq(QuotaConcepts)
  BY <1>1, Picking
<1> QED BY <1>2, <1>3, Picking

\* The concepts of an inquiry are those that may claim a place.
LEMMA ProfileConcepts ==
    ASSUME NEW s, NEW named, NEW nobody
    PROVE  /\ Profile(s, named, nobody).detected \in Seq(QuotaConcepts)
           /\ Profile(s, named, nobody).options \in Seq(QuotaConcepts)
<1>1. \A concept \in QuotaConcepts : \A condition : Listed(concept, condition) \in Seq(QuotaConcepts)
  BY DEF Listed
<1>2. Listed(s.topic, s.topic \in QuotaConcepts) \in Seq(QuotaConcepts)
  BY DEF Listed
<1>3. {"termination_request", "in_service", "hardship", "loan"} = QuotaConcepts
  BY DEF QuotaConcepts
<1>4. \A x, y \in Seq(QuotaConcepts) : x \o y \in Seq(QuotaConcepts)
  <2> SUFFICES ASSUME NEW x \in Seq(QuotaConcepts), NEW y \in Seq(QuotaConcepts)
               PROVE  x \o y \in Seq(QuotaConcepts)
    OBVIOUS
  <2>1. Chained(QuotaConcepts, x, y, x \o y)
    BY Chaining
  <2> QED BY <2>1 DEF Chained
<1>5. Alternatives(s) \in Seq(QuotaConcepts)
  <2> DEFINE a == Listed("in_service", Active(s) /\ WantsFunds(s))
             b == Listed("hardship", (Active(s) /\ WantsFunds(s)) \/ Wants(s, "hardship"))
             c == Listed("loan", (Active(s) /\ WantsFunds(s)) \/ Wants(s, "loan"))
  <2>1. a \in Seq(QuotaConcepts) /\ b \in Seq(QuotaConcepts) /\ c \in Seq(QuotaConcepts)
    BY <1>1, <1>3
  <2>2. Alternatives(s) = a \o b \o c
    BY DEF Alternatives
  <2> HIDE DEF a, b, c
  <2> QED BY <1>4, <2>1, <2>2
<1>6. Detected(s) \in Seq(QuotaConcepts)
  <2> DEFINE a == Listed(s.topic, s.topic \in QuotaConcepts)
             b == Listed("termination_request", Says(s, Terminated) /\ WantsFunds(s))
             c == Listed("hardship", Wants(s, "hardship"))
             d == Listed("loan", Wants(s, "loan"))
             e == Listed("in_service", Active(s) /\ WantsFunds(s))
  <2>1. /\ a \in Seq(QuotaConcepts) /\ b \in Seq(QuotaConcepts) /\ c \in Seq(QuotaConcepts)
        /\ d \in Seq(QuotaConcepts) /\ e \in Seq(QuotaConcepts)
    BY <1>1, <1>2, <1>3
  <2>2. Detected(s) = a \o b \o c \o d \o e
    BY DEF Detected
  <2> HIDE DEF a, b, c, d, e
  <2>3. a \o b \in Seq(QuotaConcepts)
    BY <1>4, <2>1
  <2>4. a \o b \o c \in Seq(QuotaConcepts)
    BY <1>4, <2>1, <2>3
  <2>5. a \o b \o c \o d \in Seq(QuotaConcepts)
    BY <1>4, <2>1, <2>4
  <2> QED BY <1>4, <2>1, <2>2, <2>5
<1>7. Unique(Detected(s)) \in Seq(QuotaConcepts)
  <2> DEFINE x == Detected(s)
             firsts == {i \in DOMAIN x : \A j \in 1 .. i - 1 : x[j] # x[i]}
  <2>1. Unique(x) = Picked(x, firsts)
    BY DEF Unique
  <2> HIDE DEF firsts
  <2> QED BY <1>6, <2>1, Picking
<1> QED BY <1>5, <1>7 DEF Profile

\* The profile at hand has concepts that may claim a place.
Conceptual == profile.detected \in Seq(QuotaConcepts) /\ profile.options \in Seq(QuotaConcepts)

LEMMA ConceptsAreListed ==
    ASSUME Conceptual
    PROVE  Concepts \in Seq(QuotaConcepts)
           /\ QuotaOf(profile.options \o profile.detected) \in Seq(QuotaConcepts)
<1>1. /\ profile.detected \o profile.options \in Seq(QuotaConcepts)
      /\ profile.options \o profile.detected \in Seq(QuotaConcepts)
  BY DEF Conceptual
<1> QED BY <1>1, Quotas DEF Concepts

\* The articles that are bundled have chunks at hand.
LEMMA BundledAreAtHand ==
    ASSUME chunks \in Seq(Pieces), Conceptual
    PROVE  BundledArticles \in Seq(ArticlesOf(chunks))
<1> DEFINE A == ArticlesOf(chunks)
           S == Seq(A)
           near == Near
           seen == Seen(near)
           keys == [i \in DOMAIN seen |-> -BestOf(seen[i], near)]
           ranked == SortedBy(seen, keys)
           concepts == QuotaOf(profile.options \o profile.detected)
           N == Len(concepts)
           more(taken, concept) ==
             LET serving == AboutConcept(Without(ranked, taken), concept, near)
             IN  IF serving = <<>> THEN taken ELSE Append(taken, serving[1])
           step == [n \in 1 .. N |-> [x \in S |-> more(x, concepts[n])]]
<1>1. near \in Seq(Pieces) /\ ArticlesOf(near) \subseteq A
  <2> DEFINE places == {i \in DOMAIN chunks : /\ chunks[i].score >= 20
                                              /\ Serves(chunks[i], ToSet(Concepts))
                                              /\ Article(chunks[i]) \notin profile.excluded}
  <2>1. near = Picked(chunks, places)
    BY DEF Near
  <2> HIDE DEF places, near
  <2>2. near \in Seq(Pieces) /\ \A n \in DOMAIN near : \E i \in places \cap DOMAIN chunks : near[n] = chunks[i]
    BY <2>1, Picking
  <2> QED BY <2>2 DEF ArticlesOf
<1> HIDE DEF near
<1>2. seen \in Seq(A)
  <2>1. seen \in Seq(ArticlesOf(near))
    BY <1>1, ArticlesAreSeen
  <2>2. \A s \in Seq(ArticlesOf(near)) : s \in Seq(A)
    <3> SUFFICES ASSUME NEW X, NEW Y, X \subseteq Y, NEW s \in Seq(X) PROVE s \in Seq(Y)
      BY <1>1
    <3> QED OBVIOUS
  <2> HIDE DEF seen, A
  <2> QED BY <2>1, <2>2
<1> HIDE DEF seen, keys
<1>3. ranked \in Seq(A)
  BY <1>2, Sorting
<1>4. concepts \in Seq(QuotaConcepts) /\ N \in Nat
  BY ConceptsAreListed
<1> HIDE DEF A, ranked, concepts, N
<1>5. \A taken : Without(ranked, taken) \in Seq(A)
  <2> TAKE taken
  <2> DEFINE places == {i \in DOMAIN ranked : ranked[i] \notin ToSet(taken)}
  <2>1. Without(ranked, taken) = Picked(ranked, places)
    BY DEF Without
  <2> HIDE DEF places
  <2> QED BY <1>3, <2>1, Picking
<1>6. ASSUME NEW x \in S, NEW concept PROVE more(x, concept) \in S
  <2> DEFINE w == Without(ranked, x)
             places == {i \in DOMAIN w : Serving(OfArticle(near, w[i]), {concept}) # <<>>}
             serving == AboutConcept(w, concept, near)
  <2>1. serving = Picked(w, places)
    BY DEF AboutConcept
  <2>2. w \in Seq(A)
    BY <1>5
  <2> HIDE DEF places, w
  <2>3. serving \in Seq(A)
    BY <2>1, <2>2, Picking
  <2>4. more(x, concept) = IF serving = <<>> THEN x ELSE Append(x, serving[1])
    BY DEF w
  <2> HIDE DEF serving, more
  <2>5. CASE serving # <<>>
    <3>1. serving[1] \in A
      BY <2>3, <2>5
    <3>2. Append(x, serving[1]) \in Seq(A)
      BY <3>1
    <3> QED BY <2>4, <2>5, <3>2
  <2> QED BY <2>4, <2>5
<1> HIDE DEF more
<1>7. step \in [1 .. N -> [S -> S]] /\ <<>> \in S
  <2>1. <<>> \in S
    OBVIOUS
  <2> HIDE DEF S
  <2> QED BY <1>6, <2>1
<1>8. PICK g : Turns(g, N, S, <<>>, step)
  <2> DEFINE base == <<>>
  <2>1. base \in S /\ step \in [1 .. N -> [S -> S]]
    BY <1>7
  <2> HIDE DEF S, step, base
  <2>2. \E g : Turns(g, N, S, base, step)
    BY <1>4, <2>1, Loops
  <2> QED BY <2>2 DEF base
<1>9. g \in [0 .. N -> S] /\ g[0] = <<>> /\ \A n \in 1 .. N : g[n] = step[n][g[n - 1]]
  <2> HIDE DEF step, S
  <2> QED BY <1>8 DEF Turns
<1> HIDE DEF S
<1> DEFINE turn(f, n) == IF n = 0 THEN <<>> ELSE more(f[n - 1], concepts[n])
           chosen == CHOOSE f : f = [n \in 0 .. N |-> turn(f, n)]
<1>10. g = [n \in 0 .. N |-> turn(g, n)]
  <2>1. \A n \in 1 .. N : g[n] = more(g[n - 1], concepts[n])
    <3> TAKE n \in 1 .. N
    <3>1. n - 1 \in 0 .. N
      BY <1>4
    <3>2. g[n - 1] \in S
      BY <1>9, <3>1
    <3> QED BY <1>9, <3>2
  <2> HIDE DEF step
  <2>2. \A n \in 0 .. N : g[n] = turn(g, n)
    <3> TAKE n \in 0 .. N
    <3>1. CASE n = 0
      BY <1>9, <3>1
    <3>2. CASE n # 0
      <4>1. n \in 1 .. N
        BY <1>4, <3>2
      <4> QED BY <2>1, <3>2, <4>1
    <3> QED BY <3>1, <3>2
  <2>3. g = [n \in 0 .. N |-> g[n]]
    BY <1>9
  <2> HIDE DEF turn
  <2> QED BY <2>2, <2>3
<1>11. chosen = [n \in 0 .. N |-> turn(chosen, n)]
  <2> HIDE DEF turn
  <2> QED BY <1>10
<1> DEFINE all == chosen[N] \o Without(ranked, chosen[N])
<1>12. BundledArticles = SubSeq(all, 1, Min({6, Len(all)}))
  BY DEF BundledArticles, near, seen, keys, ranked, concepts, N, more
<1> HIDE DEF chosen
<1>13. chosen[0] = <<>> /\ \A n \in 1 .. N : chosen[n] = more(chosen[n - 1], concepts[n])
  <2>1. \A n \in 0 .. N : chosen[n] = turn(chosen, n)
    <3> HIDE DEF turn
    <3> QED BY <1>11
  <2>2. 0 \in 0 .. N /\ \A n \in 1 .. N : n \in 0 .. N /\ n # 0
    BY <1>4
  <2> QED BY <2>1, <2>2
<1> HIDE DEF turn, step
<1> DEFINE B == {n \in 0 .. N : chosen[n] \in S}
<1>14. 0 \in B /\ \A n \in 1 .. N : n - 1 \in B => n \in B
  BY <1>4, <1>6, <1>7, <1>13
<1> HIDE DEF B
<1>15. \A n \in 0 .. N : n \in B
  BY <1>4, <1>14, Along
<1>16. chosen[N] \in Seq(A)
  <2>1. N \in B
    BY <1>4, <1>15
  <2> QED BY <2>1 DEF B, S
<1>17. all \in Seq(A)
  <2> DEFINE x == chosen[N]
             y == Without(ranked, chosen[N])
  <2>1. x \in Seq(A) /\ y \in Seq(A)
    BY <1>5, <1>16
  <2> HIDE DEF x, y
  <2>2. Chained(A, x, y, x \o y)
    BY <2>1, Chaining
  <2> QED BY <2>2 DEF Chained, x, y
<1> HIDE DEF all
<1>18. Min({6, Len(all)}) \in 0 .. Len(all)
  <2> DEFINE S2 == {6, Len(all)}
  <2>1. S2 \subseteq Nat /\ S2 # {} /\ Len(all) \in S2
    BY <1>17
  <2> HIDE DEF S2
  <2>2. Min(S2) \in S2 /\ Min(S2) <= Len(all)
    BY <2>1, MinIsIn
  <2> QED BY <1>17, <2>1, <2>2 DEF S2
<1>19. SubSeq(all, 1, Min({6, Len(all)})) \in Seq(A)
  <2> SUFFICES ASSUME NEW m \in 0 .. Len(all) PROVE SubSeq(all, 1, m) \in Seq(A)
    BY <1>18
  <2> QED BY <1>17
<1> QED BY <1>12, <1>19 DEF A

LEMMA BundlesAreChunks ==
    ASSUME chunks \in Seq(Pieces), NEW article \in ArticlesOf(chunks)
    PROVE  Bundle(article) \in Seq(Pieces)
<1> DEFINE fresh == {id \in DOMAIN Kb : /\ Kb[id].article = article /\ Kb[id].type \in BundleTypes
                                        /\ id \notin IdsOf(chunks)}
           at == AtMost(BestOf(article, chunks) + 5, 95)
           scores == [id \in fresh |-> at]
<1>1. at \in Int
  <2> DEFINE t == ByScore(OfArticle(chunks, article))
  <2>1. t[1] \in Pieces
    BY ArticlesHaveABest
  <2>2. BestOf(article, chunks) = t[1].score
    BY DEF BestOf
  <2> HIDE DEF t
  <2>3. BestOf(article, chunks) \in Int
    BY <2>1, <2>2 DEF Pieces
  <2> QED BY <2>3 DEF AtMost
<1>2. Bundle(article) = AllOf(fresh, scores)
  BY DEF Bundle
<1> HIDE DEF at, fresh
<1>3. \A id \in fresh \cap DOMAIN Kb : scores[id] \in Int
  BY <1>1
<1> HIDE DEF scores
<1> QED BY <1>2, <1>3, AllAreChunks

-----------------------------------------------------------------------------
(* What the chunks say of a missing datum.                                 *)

\* Lists of intents, one for each datum.
Telling == Points \X Intended
OneEach(intents) ==
    /\ intents \in Seq(Telling)
    /\ \A j, k \in DOMAIN intents : intents[j][1] = intents[k][1] => j = k

\* The list has entry, or something stricter of the same datum.
Strict(intents, entry) ==
    \E j \in DOMAIN intents : /\ intents[j][1] = entry[1]
                              /\ entry[2] \notin Rescuable => intents[j][2] \notin Rescuable

\* One more intent loses none that blocks.
LEMMA Recording ==
    ASSUME NEW intents, OneEach(intents), NEW entry \in Telling,
           NEW v, v = Record(intents, entry)
    PROVE  /\ OneEach(v)
           /\ Strict(v, entry)
           /\ \A e : Strict(intents, e) => Strict(v, e)
<1> DEFINE at == {n \in DOMAIN intents : intents[n][1] = entry[1]}
           n == CHOOSE k \in at : TRUE
           N == Len(intents)
<1>1. /\ intents \in Seq(Telling) /\ N \in Nat /\ DOMAIN intents = 1 .. N
      /\ \A k \in DOMAIN intents : intents[k] \in Telling
      /\ \A j, k \in DOMAIN intents : intents[j][1] = intents[k][1] => j = k
  BY DEF OneEach
<1>2. at # {} => n \in DOMAIN intents /\ intents[n][1] = entry[1]
  OBVIOUS
<1>3. v = CASE at = {} -> Append(intents, entry)
            [] at # {} /\ (\/ intents[n][2] = "always"
                           \/ intents[n][2] \notin Rescuable /\ entry[2] \in Rescuable) -> intents
            [] OTHER -> [intents EXCEPT ![n] = entry]
  BY DEF Record
<1>4. \A k \in DOMAIN intents : at = {} => intents[k][1] # entry[1]
  OBVIOUS
<1> HIDE DEF at, n, N
<1>5. CASE at = {}
  <2>1. v = Append(intents, entry)
    BY <1>3, <1>5
  <2>2. /\ v \in Seq(Telling) /\ DOMAIN v = 1 .. N + 1 /\ v[N + 1] = entry
        /\ \A k \in 1 .. N : v[k] = intents[k]
    BY <1>1, <2>1 DEF N
  <2>3. \A k \in DOMAIN v : k \in DOMAIN intents \/ k = N + 1
    BY <1>1, <2>2
  <2>4. N + 1 \in DOMAIN v /\ \A k \in DOMAIN intents : k \in DOMAIN v /\ v[k] = intents[k]
    BY <1>1, <2>2
  <2>5. OneEach(v)
    <3>1. ASSUME NEW j \in DOMAIN v, NEW k \in DOMAIN v, v[j][1] = v[k][1] PROVE j = k
      BY <1>1, <1>4, <1>5, <2>2, <2>3, <2>4, <3>1
    <3> QED BY <2>2, <3>1 DEF OneEach
  <2>6. Strict(v, entry)
    BY <2>2, <2>4 DEF Strict
  <2>7. \A e : Strict(intents, e) => Strict(v, e)
    BY <2>4 DEF Strict
  <2> QED BY <2>5, <2>6, <2>7
<1>6. CASE /\ at # {}
           /\ \/ intents[n][2] = "always"
              \/ intents[n][2] \notin Rescuable /\ entry[2] \in Rescuable
  <2>1. v = intents
    BY <1>3, <1>6
  <2>2. Strict(v, entry)
    BY <1>2, <1>6, <2>1 DEF Strict, Rescuable
  <2> QED BY <2>1, <2>2
<1>7. CASE /\ at # {}
           /\ ~ (\/ intents[n][2] = "always"
                 \/ intents[n][2] \notin Rescuable /\ entry[2] \in Rescuable)
  <2>1. v = [intents EXCEPT ![n] = entry]
    BY <1>3, <1>7
  <2>2. /\ DOMAIN v = DOMAIN intents /\ n \in DOMAIN v /\ v[n] = entry
        /\ \A k \in DOMAIN intents : k # n => v[k] = intents[k]
    BY <1>2, <1>7, <2>1
  <2>3. v \in Seq(Telling)
    <3>1. intents \in [1 .. N -> Telling]
      BY <1>1 DEF N
    <3>2. v \in [1 .. N -> Telling]
      BY <2>1, <3>1
    <3> QED BY <1>1, <3>2, SeqDef
  <2>4. OneEach(v)
    <3>1. \A k \in DOMAIN v : v[k][1] = intents[k][1]
      BY <1>2, <1>7, <2>2
    <3> QED BY <1>1, <2>2, <2>3, <3>1 DEF OneEach
  <2>5. Strict(v, entry)
    BY <2>2 DEF Strict
  <2>6. ASSUME NEW e, Strict(intents, e) PROVE Strict(v, e)
    <3>1. PICK j \in DOMAIN intents : /\ intents[j][1] = e[1]
                                      /\ e[2] \notin Rescuable => intents[j][2] \notin Rescuable
      BY <2>6 DEF Strict
    <3>2. CASE j = n
      BY <1>2, <1>7, <2>2, <3>1, <3>2 DEF Strict
    <3>3. CASE j # n
      BY <2>2, <3>1, <3>3 DEF Strict
    <3> QED BY <3>2, <3>3
  <2> QED BY <2>4, <2>5, <2>6
<1> QED BY <1>5, <1>6, <1>7

\* What a chunk of the knowledge base says.
LEMMA PointsAreNamed ==
    /\ \A id \in DOMAIN Kb : Kb[id].points \in Seq(Points \X STRING)
    /\ \A id \in DOMAIN Kb : \A n \in DOMAIN Kb[id].points : Kb[id].type = "must_have"
<1>1. \A id \in DOMAIN Kb : \A n \in DOMAIN Kb[id].points :
         Kb[id].type = "must_have" /\ Kb[id].points[n][1] \in Points
  BY AnswerConstants DEF AnswerAssumption
<1>2. ASSUME NEW id \in DOMAIN Kb PROVE Kb[id].points \in Seq(Points \X STRING)
  <2>1. Kb[id].points \in Seq(STRING \X STRING)
    BY KbIsTyped
  <2> SUFFICES ASSUME NEW p \in Seq(STRING \X STRING), \A n \in DOMAIN p : p[n][1] \in Points
               PROVE  p \in Seq(Points \X STRING)
    BY <1>1, <2>1
  <2>2. DOMAIN p = 1 .. Len(p) /\ Len(p) \in Nat /\ \A n \in 1 .. Len(p) : p[n] \in STRING \X STRING
    OBVIOUS
  <2>3. \A n \in 1 .. Len(p) : p[n] \in Points \X STRING
    BY <2>2
  <2>4. p \in [1 .. Len(p) -> Points \X STRING]
    <3>1. p = [n \in 1 .. Len(p) |-> p[n]]
      BY <2>2
    <3> QED BY <2>3, <3>1
  <2> QED BY <2>2, <2>4, SeqDef
<1> QED BY <1>1, <1>2

\* Every datum that a chunk of the context marks as blocking is blocking.
LEMMA IntentsAreStrict ==
    ASSUME context \in Seq(Pieces)
    PROVE  /\ OneEach(Intents)
           /\ \A i \in DOMAIN context : \A n \in DOMAIN Kb[context[i].id].points :
                 Strict(Intents, Kb[context[i].id].points[n])
<1> DEFINE E == Points \X STRING
           places == {i \in DOMAIN context : Type(context[i]) \in {"must_have"}}
           telling == OfTypes(context, {"must_have"})
           lists == [i \in DOMAIN telling |-> Kb[telling[i].id].points]
           entries == Concatenated(lists)
           N == Len(entries)
           sure(e) == <<e[1], IF e[2] \in Intended THEN e[2] ELSE "always">>
           S == {x \in Seq(Telling) : OneEach(x)}
           step == [n \in 1 .. N |-> [x \in S |-> Record(x, sure(entries[n]))]]
<1>1. telling = Picked(context, places)
  BY DEF OfTypes
<1>2. \A i \in DOMAIN context : context[i].id \in DOMAIN Kb
  <2>1. \A i \in DOMAIN context : context[i] \in Pieces
    OBVIOUS
  <2> QED BY <2>1 DEF Pieces
<1>3. \A i \in DOMAIN context : \A n \in DOMAIN Kb[context[i].id].points : i \in places
  BY <1>2, PointsAreNamed DEF Type
<1> HIDE DEF places, telling
<1>4. /\ telling \in Seq(Pieces)
      /\ \A i \in places \cap DOMAIN context : \E k \in DOMAIN telling : telling[k] = context[i]
  BY <1>1, Picking
<1>5. lists \in Seq(Seq(E)) /\ DOMAIN lists = DOMAIN telling
  <2>1. DOMAIN telling = 1 .. Len(telling) /\ Len(telling) \in Nat /\ \A k \in DOMAIN telling : telling[k] \in Pieces
    BY <1>4
  <2>2. \A k \in DOMAIN telling : Kb[telling[k].id].points \in Seq(E)
    BY <2>1, PointsAreNamed DEF Pieces
  <2> HIDE DEF E
  <2>3. lists \in [1 .. Len(telling) -> Seq(E)]
    BY <2>1, <2>2
  <2> QED BY <2>1, <2>3, SeqDef
<1>6. \A k \in DOMAIN lists : lists[k] = Kb[telling[k].id].points
  BY <1>5
<1> HIDE DEF lists, entries
<1>7. /\ entries \in Seq(E)
      /\ \A k \in DOMAIN lists : \A i \in DOMAIN lists[k] : \E m \in DOMAIN entries : entries[m] = lists[k][i]
  BY <1>5, Joining DEF entries
<1>8. N \in Nat /\ DOMAIN entries = 1 .. N /\ \A n \in 1 .. N : entries[n] \in E
  BY <1>7
<1>9. \A n \in 1 .. N : sure(entries[n]) \in Telling
  <2>1. \A e \in E : sure(e) \in Telling
    BY DEF Telling, Intended
  <2> HIDE DEF E, sure
  <2> QED BY <1>8, <2>1
<1>10. \A e \in E : \A x : Strict(x, sure(e)) => Strict(x, e)
  <2> SUFFICES ASSUME NEW e \in E, NEW x, Strict(x, sure(e)) PROVE Strict(x, e)
    OBVIOUS
  <2>1. sure(e)[1] = e[1] /\ (e[2] \notin Rescuable => sure(e)[2] \notin Rescuable)
    BY DEF Rescuable
  <2> HIDE DEF sure
  <2> QED BY <2>1 DEF Strict
<1> HIDE DEF sure, N, E
<1>11. \A x \in S : \A n \in 1 .. N : Record(x, sure(entries[n])) \in S
  <2> SUFFICES ASSUME NEW x \in S, NEW n \in 1 .. N, NEW v, v = Record(x, sure(entries[n]))
               PROVE  v \in S
    OBVIOUS
  <2>1. OneEach(v)
    BY <1>9, Recording
  <2> QED BY <2>1 DEF OneEach
<1>12. <<>> \in S
  BY DEF OneEach
<1> HIDE DEF S
<1>13. step \in [1 .. N -> [S -> S]]
  BY <1>11
<1>14. PICK g : Turns(g, N, S, <<>>, step)
  <2> DEFINE base == <<>>
  <2>1. base \in S
    BY <1>12
  <2> HIDE DEF step, base
  <2>2. \E g : Turns(g, N, S, base, step)
    BY <1>8, <1>13, <2>1, Loops
  <2> QED BY <2>2 DEF base
<1>15. g \in [0 .. N -> S] /\ g[0] = <<>> /\ \A n \in 1 .. N : g[n] = step[n][g[n - 1]]
  <2> HIDE DEF step
  <2> QED BY <1>14 DEF Turns
<1> DEFINE turn(f, n) == IF n = 0 THEN <<>> ELSE Record(f[n - 1], sure(entries[n]))
           known == CHOOSE f : f = [n \in 0 .. N |-> turn(f, n)]
<1>16. g = [n \in 0 .. N |-> turn(g, n)]
  <2>1. \A n \in 1 .. N : g[n] = Record(g[n - 1], sure(entries[n]))
    <3> TAKE n \in 1 .. N
    <3>1. n - 1 \in 0 .. N
      BY <1>8
    <3>2. g[n - 1] \in S
      BY <1>15, <3>1
    <3> QED BY <1>15, <3>2
  <2> HIDE DEF step
  <2>2. \A n \in 0 .. N : g[n] = turn(g, n)
    <3> TAKE n \in 0 .. N
    <3>1. CASE n = 0
      BY <1>15, <3>1
    <3>2. CASE n # 0
      <4>1. n \in 1 .. N
        BY <1>8, <3>2
      <4> QED BY <2>1, <3>2, <4>1
    <3> QED BY <3>1, <3>2
  <2>3. g = [n \in 0 .. N |-> g[n]]
    BY <1>15
  <2> HIDE DEF turn
  <2> QED BY <2>2, <2>3
<1>17. known = [n \in 0 .. N |-> turn(known, n)]
  <2> HIDE DEF turn
  <2> QED BY <1>16
<1>18. Intents = known[N]
  BY DEF Intents, telling, lists, entries, N, sure
<1> HIDE DEF known
<1>19. known[0] = <<>> /\ \A n \in 1 .. N : known[n] = Record(known[n - 1], sure(entries[n]))
  <2>1. \A n \in 0 .. N : known[n] = turn(known, n)
    <3> HIDE DEF turn
    <3> QED BY <1>17
  <2>2. 0 \in 0 .. N /\ \A n \in 1 .. N : n \in 0 .. N /\ n # 0
    BY <1>8
  <2> QED BY <2>1, <2>2
<1> HIDE DEF turn, step
<1> DEFINE Ok(n) == OneEach(known[n]) /\ \A m \in 1 .. n : Strict(known[n], sure(entries[m]))
<1>20. Ok(0)
  BY <1>12, <1>19 DEF S
<1>21. ASSUME NEW n \in 1 .. N, Ok(n - 1) PROVE Ok(n)
  <2> DEFINE x == known[n - 1]
             v == known[n]
             e == sure(entries[n])
  <2>1. OneEach(x) /\ \A m \in 1 .. n - 1 : Strict(x, sure(entries[m]))
    BY <1>21
  <2>2. v = Record(x, e) /\ e \in Telling
    BY <1>9, <1>19
  <2> HIDE DEF x, v, e
  <2>3. OneEach(v) /\ Strict(v, e) /\ \A y : Strict(x, y) => Strict(v, y)
    BY <2>1, <2>2, Recording
  <2>4. ASSUME NEW m \in 1 .. n PROVE Strict(v, sure(entries[m]))
    <3>1. CASE m = n
      BY <2>3, <3>1 DEF e
    <3>2. CASE m # n
      <4>1. m \in 1 .. n - 1
        BY <1>8, <3>2
      <4> QED BY <2>1, <2>3, <4>1
    <3> QED BY <3>1, <3>2
  <2> QED BY <2>3, <2>4 DEF v
<1>22. Ok(N)
  <2> DEFINE B == {n \in 0 .. N : Ok(n)}
  <2> HIDE DEF Ok
  <2>1. 0 \in B /\ \A n \in 1 .. N : n - 1 \in B => n \in B
    BY <1>8, <1>20, <1>21
  <2> HIDE DEF B
  <2>2. \A n \in 0 .. N : n \in B
    BY <1>8, <2>1, Along
  <2>3. N \in B
    BY <1>8, <2>2
  <2> QED BY <2>3 DEF B
<1>23. OneEach(Intents) /\ \A m \in 1 .. N : Strict(Intents, entries[m])
  <2>1. \A m \in 1 .. N : Strict(Intents, sure(entries[m])) /\ entries[m] \in E
    BY <1>8, <1>18, <1>22
  <2> QED BY <1>10, <1>18, <1>22, <2>1
<1>24. ASSUME NEW i \in DOMAIN context, NEW n \in DOMAIN Kb[context[i].id].points
       PROVE  Strict(Intents, Kb[context[i].id].points[n])
  <2>1. PICK k \in DOMAIN telling : telling[k] = context[i]
    BY <1>3, <1>4, <1>24
  <2>2. k \in DOMAIN lists /\ lists[k] = Kb[context[i].id].points
    BY <1>5, <1>6, <2>1
  <2>3. PICK m \in DOMAIN entries : entries[m] = lists[k][n]
    BY <1>7, <1>24, <2>2
  <2>4. Strict(Intents, entries[m])
    BY <1>8, <1>23
  <2> QED BY <2>2, <2>3, <2>4
<1> QED BY <1>23, <1>24

\* A label that is like one datum alone resolves to what is recorded of it.
LEMMA Resolving ==
    ASSUME NEW intents, OneEach(intents), NEW label \in Labels, NEW entry, Strict(intents, entry),
           {p \in Points : Likeness[<<label, p>>] > 0} = {entry[1]},
           Resolve(label, intents) \in Rescuable
    PROVE  entry[2] \in Rescuable
<1> DEFINE like(n) == Likeness[<<label, intents[n][1]>>]
           within   == {n \in DOMAIN intents : like(n) = 100}
           alike    == {n \in DOMAIN intents : like(n) \in 34 .. 99}
           best     == {n \in alike : \A k \in alike : like(k) <= like(n)}
           rare     == {n \in DOMAIN intents : like(n) \in 1 .. 33}
<1>1. PICK j \in DOMAIN intents : /\ intents[j][1] = entry[1]
                                  /\ entry[2] \notin Rescuable => intents[j][2] \notin Rescuable
  BY DEF Strict
<1>2. \A p \in Points : Likeness[<<label, p>>] \in 0 .. 100
  BY AnswerConstants DEF AnswerAssumption
<1>3. DOMAIN intents \subseteq Nat /\ \A n \in DOMAIN intents : intents[n][1] \in Points
  <2>1. /\ intents \in Seq(Telling)
        /\ \A n \in DOMAIN intents : intents[n] \in Telling
    BY DEF OneEach
  <2>2. \A x \in Telling : x[1] \in Points
    BY DEF Telling
  <2> QED BY <2>1, <2>2
<1>4. \A n \in DOMAIN intents : like(n) \in 0 .. 100 /\ (like(n) > 0 <=> n = j)
  BY <1>1, <1>2, <1>3 DEF OneEach
<1>5. Resolve(label, intents) =
        CASE within # {} -> intents[Min(within)][2]
          [] within = {} /\ alike # {} -> intents[Min(best)][2]
          [] within = {} /\ alike = {} /\ rare # {} -> intents[Min(rare)][2]
          [] OTHER -> "always"
  BY DEF Resolve
<1>6. Min({j}) = j
  <2>1. {j} \subseteq Nat /\ {j} # {}
    BY <1>3
  <2> QED BY <2>1, MinIsIn
<1> HIDE DEF like
<1>7. like(j) \in 1 .. 100
  BY <1>4
<1>8. within \subseteq {j} /\ alike \subseteq {j} /\ rare \subseteq {j}
  BY <1>4
<1>9. (like(j) = 100 => within = {j}) /\ (like(j) \in 1 .. 99 => within = {})
  BY <1>8
<1>10. (like(j) \in 34 .. 99 => alike = {j} /\ best = {j}) /\ (like(j) \in 1 .. 33 => alike = {} /\ rare = {j})
  BY <1>7, <1>8
<1> HIDE DEF within, alike, best, rare
<1>11. Resolve(label, intents) = intents[j][2]
  <2>1. CASE like(j) = 100
    BY <1>5, <1>6, <1>9, <2>1
  <2>2. CASE like(j) \in 34 .. 99
    <3>1. like(j) \in 1 .. 99
      BY <2>2
    <3> QED BY <1>5, <1>6, <1>9, <1>10, <2>2, <3>1
  <2>3. CASE like(j) \in 1 .. 33
    <3>1. like(j) \in 1 .. 99
      BY <2>3
    <3> QED BY <1>5, <1>6, <1>9, <1>10, <2>3, <3>1
  <2> QED BY <1>7, <2>1, <2>2, <2>3
<1> QED BY <1>1, <1>11

-----------------------------------------------------------------------------
(* One answer from routing to outcome.                                     *)

\* What an answer is made of at each step: the kind and the budget of what is
\* asked, concepts to be heard, lists of chunks; a context over many articles is
\* full, and nothing is said of the outcome before the end.
AnswerShape ==
    /\ DOMAIN asked = {"kind", "situation", "budget"} /\ asked.budget \in Nat
    /\ asked.kind \in {"response", "knowledge", "required"}
    /\ scoring \in Scorings
    /\ pc # "route" => Conceptual
    /\ pc \in {"fetch", "bundle", "phase1"} => asked.kind = "response"
    /\ pc \in {"bundle", "phase1", "answer"} => chunks \in Seq(Pieces)
    /\ pc \in {"phase1", "answer"} => context \in Seq(Pieces)
    /\ pc # "done" => result.rescue = "none"

FullContext ==
    /\ pc \in {"phase1", "answer"}
    /\ asked.kind = "knowledge" \/ (profile.mode = "broad_search" /\ ~Dominant(chunks))
    => Full(context, chunks, asked.budget)

AnswerInv == AnswerShape /\ FullContext /\ StrictestIntentBlocks

\* A full context is what ContextIsFull says.
LEMMA FullIsFull == AnswerInv => ContextIsFull
<1> SUFFICES ASSUME AnswerInv, pc \in {"phase1", "answer"},
                    asked.kind = "knowledge" \/ (profile.mode = "broad_search" /\ ~Dominant(chunks)),
                    NEW i \in DOMAIN chunks, chunks[i].id \notin IdsOf(context)
             PROVE  \/ CountOf(context, Article(chunks[i])) >= PerArticle
                    \/ TokensOf(context) + Kb[chunks[i].id].tokens > asked.budget
  BY DEF ContextIsFull
<1>1. Full(context, chunks, asked.budget) /\ chunks \in Seq(Pieces) /\ asked.budget \in Nat
  BY DEF AnswerInv, AnswerShape, FullContext
<1>2. /\ context \in Seq(Pieces)
      /\ \/ ~ (CountOf(context, Article(chunks[i])) < PerArticle)
         \/ ~ (TokensOf(context) + Kb[chunks[i].id].tokens <= asked.budget)
  BY <1>1 DEF Full, NoRoom
<1>3. CountOf(context, Article(chunks[i])) \in Nat
  BY <1>2, CountsGrow
<1>4. TokensOf(context) \in Nat
  BY TokensGrow
<1>5. Kb[chunks[i].id].tokens \in Nat
  <2>1. chunks[i] \in Pieces
    BY <1>1
  <2> QED BY <2>1, KbIsTyped DEF Pieces
<1>6. PerArticle \in Nat
  BY ContextConstants DEF ContextAssumption
<1> QED BY <1>1, <1>2, <1>3, <1>4, <1>5, <1>6

\* An outcome has what it is concluded with, and no rescue unless it says so.
LEMMA Concluding ==
    ASSUME NEW fields, Conclude(fields)
    PROVE  /\ pc' = "done"
           /\ result'.rescue = IF "rescue" \in DOMAIN fields THEN fields.rescue ELSE "none"
           /\ result'.missing = IF "missing" \in DOMAIN fields THEN fields.missing ELSE {}
BY DEF Conclude, With, None

\* What does not touch the outcome while there is no rescue keeps it.
LEMMA NoRescue ==
    ASSUME result'.rescue = "none"
    PROVE  StrictestIntentBlocks'
BY DEF StrictestIntentBlocks

LEMMA AnswersStart == AnswerInit => AnswerInv
<1> SUFFICES ASSUME AnswerInit PROVE AnswerInv
  OBVIOUS
<1>1. /\ DOMAIN asked = {"kind", "situation", "budget"} /\ asked.budget \in Nat
      /\ asked.kind \in {"response", "knowledge", "required"}
  BY AnswerConstants DEF AnswerInit, AnswerAssumption
<1>2. result.rescue = "none"
  BY DEF AnswerInit, None
<1>3. AnswerShape
  BY <1>1, <1>2 DEF AnswerInit, AnswerShape
<1> QED BY <1>2, <1>3 DEF AnswerInit, AnswerInv, FullContext, StrictestIntentBlocks

\* What a step leaves that ends the answer or the search.
LEMMA Ending ==
    ASSUME AnswerInv, pc # "route", pc' = "done", asked' = asked, profile' = profile,
           scoring' = scoring, result'.rescue = "none"
    PROVE  AnswerInv'
<1>1. AnswerShape'
  BY DEF AnswerInv, AnswerShape, Conceptual
<1> QED BY <1>1, NoRescue DEF AnswerInv, FullContext

LEMMA RouteKeepsShape == AnswerInv /\ Route => AnswerInv'
<1> SUFFICES ASSUME AnswerInv, Route PROVE AnswerInv'
  OBVIOUS
<1> DEFINE P == Profile(asked.situation, asked.kind = "required", Nobody)
<1>1. /\ profile' = [P EXCEPT !.mode = IF asked.kind = "response" THEN @ ELSE "broad_search"]
      /\ asked' = [asked EXCEPT !.situation = Nobody]
      /\ pc' = IF profile'.mode = "exact_procedure" THEN "fetch" ELSE "search"
      /\ scoring' = scoring /\ result' = result /\ pc = "route"
  BY DEF Route
<1>2. DOMAIN P = {"mode", "primary", "action", "intent", "excluded", "contact", "core",
                  "detected", "options"}
  BY DEF Profile
<1>3. P.detected \in Seq(QuotaConcepts) /\ P.options \in Seq(QuotaConcepts)
  BY ProfileConcepts
<1> HIDE DEF P
<1>4. /\ profile'.detected = P.detected /\ profile'.options = P.options
      /\ profile'.mode = IF asked.kind = "response" THEN P.mode ELSE "broad_search"
  BY <1>1, <1>2
<1>5. DOMAIN asked' = {"kind", "situation", "budget"} /\ asked'.kind = asked.kind /\ asked'.budget = asked.budget
  BY <1>1 DEF AnswerInv, AnswerShape
<1>6. Conceptual'
  BY <1>3, <1>4 DEF Conceptual
<1>7. pc' \in {"fetch", "search"} /\ (pc' = "fetch" => asked'.kind = "response")
  BY <1>1, <1>4, <1>5
<1>8. result'.rescue = "none"
  BY <1>1 DEF AnswerInv, AnswerShape
<1>9. AnswerShape'
  BY <1>1, <1>5, <1>6, <1>7, <1>8 DEF AnswerInv, AnswerShape
<1> QED BY <1>7, <1>8, <1>9, NoRescue DEF AnswerInv, FullContext

\* What is taken of a list of chunks is a list of chunks.
LEMMA Taking ==
    ASSUME AnswerInv, pc \in {"fetch", "search"}, asked.kind = "response",
           NEW list \in Seq(Pieces), Take(list),
           asked' = asked, profile' = profile, scoring' = scoring
    PROVE  AnswerInv'
<1>1. NotExcludedOf(list, profile) \in Seq(Pieces)
  BY SelectionsArePieces
<1>2. chunks' \in Seq(Pieces) /\ pc' = "bundle" /\ result' = result
  BY <1>1, Zenon DEF Take
<1>3. result'.rescue = "none"
  BY <1>2 DEF AnswerInv, AnswerShape
<1>4. AnswerShape'
  BY <1>2, <1>3 DEF AnswerInv, AnswerShape, Conceptual
<1> QED BY <1>2, <1>3, <1>4, NoRescue DEF AnswerInv, FullContext

LEMMA FetchKeepsShape == AnswerInv /\ Fetch => AnswerInv'
<1> SUFFICES ASSUME AnswerInv, Fetch PROVE AnswerInv'
  OBVIOUS
<1>1. pc = "fetch" /\ asked' = asked /\ profile' = profile /\ scoring' = scoring
  BY Zenon DEF Fetch
<1>2. asked.kind = "response"
  BY <1>1 DEF AnswerInv, AnswerShape
<1> DEFINE usable(got) == {id \in got : Kb[id].type \in ToSet(Allowed(profile))}
           listOf(got) == ByScore(AllOf(usable(got), [id \in usable(got) |-> ExactScore(id)]))
<1>3. PICK got \in SUBSET {id \in DOMAIN Kb : Kb[id].article = profile.primary} :
         IF Enough(listOf(got)) THEN Take(listOf(got))
         ELSE pc' = "search" /\ UNCHANGED <<chunks, relaxed, result>>
  BY Zenon DEF Fetch
<1> DEFINE ids == usable(got)
           scores == [id \in ids |-> ExactScore(id)]
<1>4. \A id \in ids \cap DOMAIN Kb : scores[id] \in Int
  <2> SUFFICES ASSUME NEW id \in ids PROVE ExactScore(id) \in Int
    OBVIOUS
  <2> DEFINE rank == CHOOSE n \in DOMAIN ExactTypes : ExactTypes[n] = Kb[id].type
             tier == CASE Kb[id].tier = "critical" -> 2 [] Kb[id].tier = "high" -> 1 [] OTHER -> 0
             x == 98 - 2 * rank + tier
  <2>1. \E n \in DOMAIN ExactTypes : ExactTypes[n] = Kb[id].type
    <3>1. Kb[id].type \in {"decision_guide", "eligibility", "steps", "business_rules", "response_frames"}
      BY DEF Allowed, OptionsTypes, ExactTypes, ToSet
    <3>2. /\ DOMAIN ExactTypes = 1 .. 5 /\ ExactTypes[1] = "decision_guide"
          /\ ExactTypes[2] = "eligibility" /\ ExactTypes[3] = "steps"
          /\ ExactTypes[4] = "business_rules" /\ ExactTypes[5] = "response_frames"
      BY DEF ExactTypes
    <3> QED BY <3>1, <3>2
  <2>2. rank \in 1 .. 5
    <3>1. DOMAIN ExactTypes = 1 .. 5
      BY DEF ExactTypes
    <3> QED BY <2>1, <3>1
  <2>3. tier \in 0 .. 2
    OBVIOUS
  <2> HIDE DEF rank, tier
  <2>4. x \in Nat
    BY <2>2, <2>3
  <2>5. ExactScore(id) = Min({99, x})
    BY DEF ExactScore, rank, tier
  <2> HIDE DEF x
  <2>6. Min({99, x}) \in {99, x}
    <3> DEFINE S2 == {99, x}
    <3>1. S2 \subseteq Nat /\ S2 # {}
      BY <2>4
    <3> HIDE DEF S2
    <3>2. Min(S2) \in S2
      BY <3>1, MinIsIn
    <3> QED BY <3>2 DEF S2
  <2> QED BY <2>4, <2>5, <2>6
<1>5. listOf(got) \in Seq(Pieces)
  <2> DEFINE all == AllOf(ids, scores)
  <2>1. all \in Seq(Pieces)
    <3> HIDE DEF ids, scores
    <3> QED BY <1>4, AllAreChunks
  <2>2. listOf(got) = ByScore(all)
    OBVIOUS
  <2> HIDE DEF all, listOf
  <2> QED BY <2>1, <2>2, SelectionsArePieces
<1> HIDE DEF listOf
<1>6. CASE Take(listOf(got))
  BY <1>1, <1>2, <1>5, <1>6, Taking
<1>7. CASE pc' = "search" /\ UNCHANGED <<chunks, relaxed, result>>
  <2>1. result'.rescue = "none"
    BY <1>1, <1>7 DEF AnswerInv, AnswerShape
  <2>2. AnswerShape'
    BY <1>1, <1>7, <2>1 DEF AnswerInv, AnswerShape, Conceptual
  <2> QED BY <1>7, <2>1, <2>2, NoRescue DEF AnswerInv, FullContext
<1> QED BY <1>3, <1>6, <1>7

LEMMA SearchKeepsShape == AnswerInv /\ Search => AnswerInv'
<1> SUFFICES ASSUME AnswerInv, Search PROVE AnswerInv'
  OBVIOUS
<1>1. pc = "search" /\ asked' = asked /\ profile' = profile /\ scoring' = scoring
  BY Zenon DEF Search
<1> DEFINE listOf(found) == ByScore(AllOf(found, scoring))
           none == [decision |-> IF asked.kind = "response" THEN "out_of_scope" ELSE "limited_coverage",
                    outcome |-> "blocked_missing_data", error |-> "no_relevant_articles"]
           wide(list) == IF profile.primary = Nobody
                         THEN DiverseContext(list, RequiredFirst, asked.budget)
                         ELSE PrimaryFirstContext(list, profile.primary, asked.budget)
           knowing(list) == /\ context' = DiverseContext(list, KnowledgeFirst, asked.budget)
                            /\ chunks' = list /\ pc' = "answer"
                            /\ UNCHANGED <<relaxed, result>>
           requiring(list) == /\ context' = wide(list)
                              /\ chunks' = list /\ pc' = "done"
                              /\ UNCHANGED <<relaxed, result>>
<1>0. PICK found \in SUBSET DOMAIN Kb :
         CASE found = {} -> Conclude(none) /\ UNCHANGED <<chunks, relaxed, context>>
           [] found # {} /\ asked.kind = "response" -> Take(listOf(found)) /\ UNCHANGED context
           [] found # {} /\ asked.kind = "knowledge" -> knowing(listOf(found))
           [] found # {} /\ asked.kind = "required" -> requiring(listOf(found))
  BY Zenon DEF Search
<1>2. \/ Conclude(none)
      \/ asked.kind = "response" /\ Take(listOf(found))
      \/ /\ asked.kind = "knowledge"
         /\ context' = DiverseContext(listOf(found), KnowledgeFirst, asked.budget)
         /\ chunks' = listOf(found) /\ pc' = "answer" /\ result' = result
      \/ pc' = "done" /\ result' = result
  <2>1. asked.kind \in {"response", "knowledge", "required"}
    BY DEF AnswerInv, AnswerShape
  <2>2. knowing(listOf(found)) => /\ context' = DiverseContext(listOf(found), KnowledgeFirst, asked.budget)
                                  /\ chunks' = listOf(found) /\ pc' = "answer" /\ result' = result
    OBVIOUS
  <2>3. requiring(listOf(found)) => pc' = "done" /\ result' = result
    OBVIOUS
  <2> HIDE DEF listOf, none, knowing, requiring
  <2>4. CASE found = {}
    BY <1>0, <2>4
  <2>5. CASE found # {} /\ asked.kind = "response"
    BY <1>0, <2>5
  <2>6. CASE found # {} /\ asked.kind = "knowledge"
    BY <1>0, <2>2, <2>6
  <2>7. CASE found # {} /\ asked.kind = "required"
    BY <1>0, <2>3, <2>7
  <2> QED BY <2>1, <2>4, <2>5, <2>6, <2>7
<1> DEFINE list == listOf(found)
<1>3. list \in Seq(Pieces)
  <2> DEFINE all == AllOf(found, scoring)
  <2>1. \A id \in found \cap DOMAIN Kb : scoring[id] \in Int
    <3>1. scoring \in [DOMAIN Kb -> 0 .. 100]
      BY AnswerConstants DEF AnswerInv, AnswerShape, AnswerAssumption
    <3> QED BY <3>1
  <2>2. all \in Seq(Pieces)
    BY <2>1, AllAreChunks
  <2>3. list = ByScore(all)
    OBVIOUS
  <2> HIDE DEF all, list, listOf
  <2> QED BY <2>2, <2>3, SelectionsArePieces
<1> HIDE DEF listOf
<1>4. result.rescue = "none"
  BY <1>1 DEF AnswerInv, AnswerShape
<1>5. CASE Conclude(none)
  <2>1. pc' = "done" /\ result'.rescue = "none"
    <3>1. "rescue" \notin DOMAIN none
      OBVIOUS
    <3> HIDE DEF none
    <3> QED BY <1>5, <3>1, Concluding
  <2> QED BY <1>1, <2>1, Ending
<1>6. CASE asked.kind = "response" /\ Take(list)
  BY <1>1, <1>3, <1>6, Taking
<1>7. CASE /\ asked.kind = "knowledge"
           /\ context' = DiverseContext(list, KnowledgeFirst, asked.budget)
           /\ chunks' = list /\ pc' = "answer" /\ result' = result
  <2>1. asked.budget \in Nat
    BY DEF AnswerInv, AnswerShape
  <2>2. Full(context', chunks', asked'.budget)
    BY <1>1, <1>3, <1>7, <2>1, DiverseIsFull
  <2>3. context' \in Seq(Pieces) /\ chunks' \in Seq(Pieces)
    BY <1>3, <1>7, <2>2 DEF Full
  <2>4. AnswerShape'
    BY <1>1, <1>4, <1>7, <2>3 DEF AnswerInv, AnswerShape, Conceptual
  <2>5. result'.rescue = "none"
    BY <1>4, <1>7
  <2> QED BY <2>2, <2>4, <2>5, NoRescue DEF AnswerInv, FullContext
<1>8. CASE pc' = "done" /\ result' = result
  BY <1>1, <1>4, <1>8, Ending
<1> QED BY <1>2, <1>5, <1>6, <1>7, <1>8

LEMMA PackKeepsShape == AnswerInv /\ Pack => AnswerInv'
<1> SUFFICES ASSUME AnswerInv, Pack PROVE AnswerInv'
  OBVIOUS
<1> DEFINE exact == profile.mode = "exact_procedure"
           articles == BundledArticles
           bundles == [n \in DOMAIN articles |-> Bundle(articles[n])]
           added == IF exact \/ Concepts = <<>> THEN <<>> ELSE Concatenated(bundles)
           all == chunks \o added
           ranked == ByRank(all, ToSet(profile.detected \o profile.options), {})
<1>1. /\ pc = "bundle" /\ pc' = "phase1" /\ chunks' = ranked
      /\ context' = IF exact THEN ExactContext(ranked, profile, asked.budget)
                    ELSE TieredContext(ranked, Concepts, asked.budget)
      /\ asked' = asked /\ profile' = profile /\ scoring' = scoring /\ result' = result
  BY DEF Pack
<1>2. chunks \in Seq(Pieces) /\ Conceptual /\ asked.kind = "response" /\ result.rescue = "none"
      /\ asked.budget \in Nat
  BY <1>1 DEF AnswerInv, AnswerShape
<1>3. bundles \in Seq(Seq(Pieces))
  <2>1. articles \in Seq(ArticlesOf(chunks))
    BY <1>2, BundledAreAtHand
  <2> HIDE DEF articles
  <2>2. DOMAIN articles = 1 .. Len(articles) /\ Len(articles) \in Nat
        /\ \A n \in DOMAIN articles : articles[n] \in ArticlesOf(chunks)
    BY <2>1
  <2> DEFINE S == Seq(Pieces)
  <2>3. \A n \in DOMAIN articles : Bundle(articles[n]) \in S
    BY <1>2, <2>2, BundlesAreChunks
  <2> HIDE DEF S
  <2>4. bundles \in [1 .. Len(articles) -> S]
    BY <2>2, <2>3
  <2>5. bundles \in Seq(S)
    BY <2>2, <2>4, SeqDef
  <2> QED BY <2>5 DEF S
<1> HIDE DEF bundles
<1>4. added \in Seq(Pieces)
  <2>1. Concatenated(bundles) \in Seq(Pieces)
    BY <1>3, Joining
  <2> QED BY <2>1
<1> HIDE DEF added
<1>5. all \in Seq(Pieces)
  <2>1. Chained(Pieces, chunks, added, all)
    BY <1>2, <1>4, Chaining
  <2> QED BY <2>1 DEF Chained
<1> HIDE DEF all
<1>6. ranked \in Seq(Pieces)
  BY <1>5, SelectionsArePieces
<1>7. Concepts \in Seq(QuotaConcepts)
  BY <1>2, ConceptsAreListed
<1> HIDE DEF ranked
<1>8. /\ ExactContext(ranked, profile, asked.budget) \in Seq(Pieces)
      /\ TieredContext(ranked, Concepts, asked.budget) \in Seq(Pieces)
      /\ ~Dominant(ranked) => Full(TieredContext(ranked, Concepts, asked.budget), ranked, asked.budget)
  <2>1. asked.budget \in Int
    BY <1>2
  <2>2. ExactContext(ranked, profile, asked.budget) \in Seq(Pieces)
    BY <1>6, <2>1, ExactIsAList
  <2>3. /\ TieredContext(ranked, Concepts, asked.budget) \in Seq(Pieces)
        /\ ~Dominant(ranked) => Full(TieredContext(ranked, Concepts, asked.budget), ranked, asked.budget)
    BY <1>6, <1>7, <2>1, TieredIsFull
  <2> QED BY <2>2, <2>3
<1>9. context' \in Seq(Pieces)
  BY <1>1, <1>8
<1>10. profile'.mode = "broad_search" /\ ~Dominant(chunks') => Full(context', chunks', asked'.budget)
  <2> SUFFICES ASSUME profile'.mode = "broad_search", ~Dominant(chunks')
               PROVE  Full(context', chunks', asked'.budget)
    OBVIOUS
  <2>1. ~exact
    BY <1>1
  <2>2. context' = TieredContext(ranked, Concepts, asked.budget)
    BY <1>1, <2>1
  <2>3. ~Dominant(ranked)
    BY <1>1
  <2> QED BY <1>1, <1>8, <2>2, <2>3
<1>11. asked'.kind # "knowledge" /\ result'.rescue = "none"
  BY <1>1, <1>2
<1>12. AnswerShape'
  BY <1>1, <1>2, <1>6, <1>9 DEF AnswerInv, AnswerShape, Conceptual
<1> QED BY <1>10, <1>11, <1>12, NoRescue DEF AnswerInv, FullContext

LEMMA Phase1KeepsShape == AnswerInv /\ Phase1 => AnswerInv'
<1> SUFFICES ASSUME AnswerInv, Phase1 PROVE AnswerInv'
  OBVIOUS
<1> DEFINE out == [decision |-> "out_of_scope", outcome |-> "out_of_scope_inquiry"]
<1>1. /\ pc = "phase1" /\ asked' = asked /\ profile' = profile /\ scoring' = scoring
      /\ chunks' = chunks /\ context' = context
      /\ Conclude(out) \/ (pc' = "answer" /\ result' = result)
  BY DEF Phase1
<1>2. CASE Conclude(out)
  <2>1. "rescue" \notin DOMAIN out
    OBVIOUS
  <2> HIDE DEF out
  <2>2. pc' = "done" /\ result'.rescue = "none"
    BY <1>2, <2>1, Concluding
  <2> QED BY <1>1, <2>2, Ending
<1>3. CASE pc' = "answer" /\ result' = result
  <2>1. AnswerShape'
    BY <1>1, <1>3 DEF AnswerInv, AnswerShape, Conceptual
  <2>2. FullContext'
    BY <1>1, <1>3 DEF AnswerInv, FullContext, Full, NoRoom
  <2>3. result'.rescue = "none"
    BY <1>1, <1>3 DEF AnswerInv, AnswerShape
  <2> QED BY <2>1, <2>2, <2>3, NoRescue DEF AnswerInv
<1> QED BY <1>1, <1>2, <1>3

LEMMA AnswerKeepsShape == AnswerInv /\ Answer => AnswerInv'
<1> SUFFICES ASSUME AnswerInv, Answer PROVE AnswerInv'
  OBVIOUS
<1>1. /\ pc = "answer" /\ asked' = asked /\ profile' = profile /\ scoring' = scoring
      /\ context' = context
  BY Zenon DEF Answer
<1> DEFINE out(heard) ==
             LET rescue  == Rescue(heard.outcome, heard.missing)
                 outcome == IF rescue = "none" THEN heard.outcome ELSE "can_proceed"
             IN  [decision |-> Decision(outcome, heard.gaps), outcome |-> outcome,
                  rescue |-> rescue, failed |-> heard.failed, missing |-> heard.missing]
<1>2. PICK heard \in Heard : Conclude(out(heard))
  BY Zenon DEF Answer
<1>3. heard.missing \subseteq Labels
  BY AnswerConstants DEF Heard, AnswerAssumption
<1>4. /\ "rescue" \in DOMAIN out(heard) /\ "missing" \in DOMAIN out(heard)
      /\ out(heard).rescue = Rescue(heard.outcome, heard.missing)
      /\ out(heard).missing = heard.missing
  OBVIOUS
<1> HIDE DEF out
<1>5. /\ pc' = "done" /\ result'.rescue = Rescue(heard.outcome, heard.missing)
      /\ result'.missing = heard.missing
  BY <1>2, <1>4, Concluding
<1>6. StrictestIntentBlocks'
  <2> SUFFICES ASSUME result'.rescue = "blocking_intent", NEW label \in result'.missing,
                      NEW i \in DOMAIN context, NEW n \in DOMAIN Kb[context[i].id].points,
                      NEW entry, entry = Kb[context[i].id].points[n],
                      {p \in Points : Likeness[<<label, p>>] > 0} = {entry[1]}
               PROVE  entry[2] \in Rescuable
    BY <1>1 DEF StrictestIntentBlocks
  <2>1. \A l \in heard.missing : Resolve(l, Intents) \in Rescuable
    BY <1>5 DEF Rescue
  <2>2. context \in Seq(Pieces)
    BY <1>1 DEF AnswerInv, AnswerShape
  <2>3. OneEach(Intents) /\ Strict(Intents, entry)
    BY <2>2, IntentsAreStrict
  <2>4. label \in Labels /\ Resolve(label, Intents) \in Rescuable
    BY <1>3, <1>5, <2>1
  <2> QED BY <2>3, <2>4, Resolving
<1>7. AnswerShape'
  BY <1>1, <1>5 DEF AnswerInv, AnswerShape, Conceptual
<1> QED BY <1>5, <1>6, <1>7 DEF AnswerInv, FullContext

LEMMA KnowledgeKeepsShape == AnswerInv /\ AnswerKnowledge => AnswerInv'
<1> SUFFICES ASSUME AnswerInv, AnswerKnowledge PROVE AnswerInv'
  OBVIOUS
<1>1. pc = "answer" /\ asked' = asked /\ profile' = profile /\ scoring' = scoring
  BY Zenon DEF AnswerKnowledge
<1> DEFINE out(gaps, failed) ==
             [decision |-> Coverage(gaps), outcome |-> "answered", failed |-> failed]
<1>2. PICK gaps \in 0 .. 3, failed \in BOOLEAN : Conclude(out(gaps, failed))
  BY Zenon DEF AnswerKnowledge
<1>3. "rescue" \notin DOMAIN out(gaps, failed)
  OBVIOUS
<1> HIDE DEF out
<1>4. pc' = "done" /\ result'.rescue = "none"
  BY <1>2, <1>3, Concluding
<1> QED BY <1>1, <1>4, Ending

LEMMA FailKeepsShape == AnswerInv /\ Fail => AnswerInv'
<1> SUFFICES ASSUME AnswerInv, Fail PROVE AnswerInv'
  OBVIOUS
<1> DEFINE out == [decision |-> IF asked.kind = "knowledge" THEN "limited_coverage" ELSE "out_of_scope",
                   outcome |-> "blocked_missing_data", error |-> "failed", failed |-> TRUE]
<1>1. /\ pc # "route" /\ asked' = asked /\ profile' = profile /\ scoring' = scoring
      /\ Conclude(out)
  BY DEF Fail
<1>2. "rescue" \notin DOMAIN out
  OBVIOUS
<1> HIDE DEF out
<1>3. pc' = "done" /\ result'.rescue = "none"
  BY <1>1, <1>2, Concluding
<1> QED BY <1>1, <1>3, Ending

LEMMA AnswersKeepShape == AnswerInv /\ [AnswerNext]_avars => AnswerInv'
<1> SUFFICES ASSUME AnswerInv, UNCHANGED avars PROVE AnswerInv'
  BY RouteKeepsShape, FetchKeepsShape, SearchKeepsShape, PackKeepsShape, Phase1KeepsShape,
     AnswerKeepsShape, KnowledgeKeepsShape, FailKeepsShape DEF AnswerNext
<1>1. /\ pc' = pc /\ asked' = asked /\ profile' = profile /\ scoring' = scoring
      /\ chunks' = chunks /\ context' = context /\ result' = result
  BY DEF avars
<1>2. AnswerShape'
  BY <1>1 DEF AnswerInv, AnswerShape, Conceptual
<1>3. FullContext'
  BY <1>1 DEF AnswerInv, FullContext, Full, NoRoom
<1>4. StrictestIntentBlocks'
  BY <1>1 DEF AnswerInv, StrictestIntentBlocks
<1> QED BY <1>2, <1>3, <1>4 DEF AnswerInv

\* A context over many articles leaves out only what does not fit
\* (_build_context_with_diversity_and_tiers, _build_context_with_diversity): every chunk at
\* hand that is not in it would break the budget or the cap of its article.
THEOREM ContextsAreFull == AnswerSpec => []ContextIsFull
<1>1. AnswerSpec => []AnswerInv
  BY AnswersStart, AnswersKeepShape, PTL DEF AnswerSpec
<1> QED BY <1>1, FullIsFull, PTL

\* No answer is rescued over a datum that a chunk of its context marks as
\* blocking (_extract_must_have_blocking_intents, _resolve_missing_intent), whatever other
\* chunks say of it and in whatever order they come.
THEOREM StricterIntentsBlock == AnswerSpec => []StrictestIntentBlocks
<1>1. AnswerSpec => []AnswerInv
  BY AnswersStart, AnswersKeepShape, PTL DEF AnswerSpec
<1>2. AnswerInv => StrictestIntentBlocks
  BY DEF AnswerInv
<1> QED BY <1>1, <1>2, PTL
=============================================================================

--------------------------- MODULE ReleaseEvidence ---------------------------
(***************************************************************************)
(* The supply chain of the release controller: an image is built and       *)
(* attested, staging and a rollback are observed, the evidence of one      *)
(* commit is gathered in a write-once manifest and attested into a         *)
(* promotion, which is all that a production plan looks at.  Every command *)
(* is a build of its own; evidence arrives in any order, some of it from   *)
(* outside the controller, and each command sees only what it reads.       *)
(***************************************************************************)
EXTENDS Naturals, FiniteSets

CONSTANTS Shas, Images, Digests, Runs, Nil

\* Nil is no commit.
EvidenceParameters == Nil \notin Shas

ASSUME EvidenceConstants == EvidenceParameters

VARIABLES
    ectl,       \* digest of the controller that the triggers run
    built,      \* the commit an image was built from
    high,       \* HIGH findings a scan of the image shows today
    staging,    \* the image that staging serves, Nil while it is not ready
    docs,       \* evidence artifacts in the bucket
    evidence,   \* the evidence manifest of a commit
    certified   \* promotion documents

evars == <<ectl, built, high, staging, docs, evidence, certified>>

\* The artifacts of a manifest, and the people whose receipts it needs.
Names == {"ci_provenance", "sbom", "scan", "staging_revisions", "e2e",
          "differential", "semantic_review", "rollback"}
ExceptionRoles == {"g5v-security-owner", "g5v-release-owner", "g5v-requester"}
EvidenceRoles == {"g2-gcp-owner", "g4-requester", "g4-n8n-owner",
                  "g4-participant-plan-owner", "g4-forusbots-owner",
                  "g4-delivery-owner"}
AttestRoles == {"g5-maintainer", "g5-requester"}

Doc(name, sha, img, run) == [name |-> name, sha |-> sha, img |-> img, run |-> run]

-----------------------------------------------------------------------------
(* Commands that produce one artifact. *)

\* runtime-image: CI of the candidate, then build, push, SBOM and a scan
\* without a CRITICAL or HIGH finding.
RuntimeImage(s, i) ==
    /\ built[i] = Nil
    /\ high[i] = 0
    /\ built' = [built EXCEPT ![i] = s]
    /\ docs' = docs \union {Doc(n, s, i, Nil) : n \in {"sbom", "scan"}}
    /\ UNCHANGED <<ectl, high, staging, evidence, certified>>

\* runtime-attest: the finalized build binds commit and image; one HIGH
\* finding needs the exception's quorum for exactly it, no finding forbids
\* receipts.  people counts the different approvers of the receipts given.
RuntimeAttest(s, i, people) ==
    /\ built[i] = s
    /\ high[i] <= 1
    /\ people = IF high[i] = 0 THEN 0 ELSE Cardinality(ExceptionRoles)
    /\ docs' = docs \union {Doc("ci_provenance", s, i, Nil)}
    /\ UNCHANGED <<ectl, built, high, staging, evidence, certified>>

\* staging-observe: all three services are ready, in a safe mode, and serve
\* the image; the commit is the caller's word.
StagingObserve(s, i) ==
    /\ staging = i
    /\ docs' = docs \union {Doc("staging_revisions", s, i, Nil)}
    /\ UNCHANGED <<ectl, built, high, staging, evidence, certified>>

\* rollback-observe: polls of one execution before and after, and staging
\* back on a baseline that is not the candidate.
RollbackObserve(s, i, x) ==
    /\ Doc("e2e", s, i, x) \in docs
    /\ staging # i /\ staging # Nil
    /\ docs' = docs \union {Doc("rollback", s, i, x)}
    /\ UNCHANGED <<ectl, built, high, staging, evidence, certified>>

-----------------------------------------------------------------------------
(* The manifest and the promotion. *)

\* validate_artifact: the document is of this commit and this image.
Shown(name, s, i, run) == Doc(name, s, i, run) \in docs

\* evidence-manifest: each name's artifact, the end-to-end run and the
\* differential of one execution, the review bound to that differential.
Complete(s, i, x, back) ==
    /\ \A n \in {"ci_provenance", "sbom", "scan", "staging_revisions"} :
          Shown(n, s, i, Nil)
    /\ \A n \in {"e2e", "differential", "semantic_review"} : Shown(n, s, i, x)
    /\ Shown("rollback", s, i, back)

EvidenceManifest(s, i, x, back, people) ==
    /\ Complete(s, i, x, back)
    /\ people = Cardinality(EvidenceRoles)
    /\ evidence[s] = Nil
    /\ evidence' = [evidence EXCEPT ![s] = [img |-> i, ctl |-> ectl, run |-> x]]
    /\ UNCHANGED <<ectl, built, high, staging, docs, certified>>

\* Mutant of EvidenceFits: the image is not compared.
EvidenceOfCommit(s, i, c) == evidence[s] # Nil /\ evidence[s].ctl = c

\* _validate_evidence_document: the manifest is of this image and of this
\* controller.
EvidenceFits(s, i, c) ==
    evidence[s] # Nil /\ evidence[s].img = i /\ evidence[s].ctl = c

\* staging-attest.
StagingAttest(s, i, people) ==
    /\ EvidenceFits(s, i, ectl)
    /\ people = Cardinality(AttestRoles)
    /\ certified' = certified \union
          {[sha |-> s, img |-> i, ctl |-> ectl, evidenceCtl |-> ectl]}
    /\ UNCHANGED <<ectl, built, high, staging, docs, evidence>>

\* _validate_promotion_document, which plan and apply of production ask.
CertificateFits(s, i, c) ==
    \E p \in certified :
        /\ p.sha = s /\ p.img = i /\ p.ctl = c
        /\ EvidenceFits(s, i, p.evidenceCtl)

-----------------------------------------------------------------------------
(* The world: an end-to-end execution in staging, which may fail its       *)
(* differential; a person who reviews it; what staging serves; a scanner   *)
(* that learns; a new controller.                                          *)

Execution(s, i, x) ==
    /\ \A d \in docs : d.run # x
    /\ \E passed \in {{"e2e"}, {"e2e", "differential"}} :
          docs' = docs \union {Doc(n, s, i, x) : n \in passed}
    /\ UNCHANGED <<ectl, built, high, staging, evidence, certified>>

Review(s, i, x) ==
    /\ Doc("differential", s, i, x) \in docs
    /\ docs' = docs \union {Doc("semantic_review", s, i, x)}
    /\ UNCHANGED <<ectl, built, high, staging, evidence, certified>>

Serves(i) ==
    /\ staging' = i
    /\ UNCHANGED <<ectl, built, high, docs, evidence, certified>>

Finding(i) ==
    /\ high[i] < 2
    /\ high' = [high EXCEPT ![i] = @ + 1]
    /\ UNCHANGED <<ectl, built, staging, docs, evidence, certified>>

NewController(c) ==
    /\ ectl' = c
    /\ UNCHANGED <<built, high, staging, docs, evidence, certified>>

ChainInit ==
    /\ ectl \in Digests
    /\ built = [i \in Images |-> Nil]
    /\ high = [i \in Images |-> 0]
    /\ staging = Nil
    /\ docs = {}
    /\ evidence = [s \in Shas |-> Nil]
    /\ certified = {}

ChainNext ==
    \/ \E s \in Shas, i \in Images :
          \/ RuntimeImage(s, i) \/ StagingObserve(s, i)
          \/ \E people \in 0..6 : \/ RuntimeAttest(s, i, people)
                                  \/ StagingAttest(s, i, people)
                                  \/ \E x, back \in Runs :
                                        EvidenceManifest(s, i, x, back, people)
          \/ \E x \in Runs : \/ RollbackObserve(s, i, x)
                             \/ Execution(s, i, x) \/ Review(s, i, x)
    \/ \E i \in Images : Serves(i) \/ Finding(i)
    \/ \E c \in Digests : NewController(c)

ChainSpec == ChainInit /\ [][ChainNext]_evars

-----------------------------------------------------------------------------
(* Properties. *)

\* What a production plan accepts was built from that commit, was served by
\* staging and rolled back from, and passed the end-to-end tests, the
\* differential and the review of one and the same execution; whatever else
\* was run, observed or attested for other commits and images in between.
PromotionIsWhole ==
    \A s \in Shas, i \in Images, c \in Digests :
        CertificateFits(s, i, c) =>
            /\ built[i] = s
            /\ Shown("staging_revisions", s, i, Nil)
            /\ \E x \in Runs : Shown("rollback", s, i, x)
            /\ \E x \in Runs : \A n \in {"e2e", "differential", "semantic_review"} :
                  Shown(n, s, i, x)
=============================================================================

----------------------------- MODULE ReleaseProofs -----------------------------
(***************************************************************************)
(* The release controller, for any builds, candidates, controllers and     *)
(* requests.  What an apply checked before its first command stays true of *)
(* the plan it holds, since plans, promotions and evidence are only ever   *)
(* added to: ApplyInv says what each build and each applied plan rest on,  *)
(* EvidenceInv what a manifest rests on.                                   *)
(***************************************************************************)
EXTENDS ReleaseApply, ReleaseEvidence, TLAPS

-----------------------------------------------------------------------------
(* Plan and apply.                                                         *)

\* A plan manifest.
PlanSet ==
    [root : Roots, base : Nat, cand : Candidates, ctl : Controllers,
     managed : SUBSET Environments, active : SUBSET Environments, enforce : BOOLEAN]

BuildTypeOK ==
    /\ build = [b \in Builds |-> build[b]]
    /\ \A b \in Builds : DOMAIN build[b] = {"at", "plan", "todo"}

ApplyTypeOK ==
    /\ ctl \in Controllers
    /\ serial \in [Roots -> Nat]
    /\ applied \in [Roots -> 1..Len(plans) \cup {NoPlan}]
    /\ queue \in [Environments -> {"absent", "running", "paused"}]
    /\ plans \in Seq(PlanSet)
    /\ BuildTypeOK

\* What the checks of an apply established of its plan.
Checked(p) ==
    /\ p \in 1..Len(plans)
    /\ ~Blocked(plans[p])
    /\ plans[p].root = "production" => PromotionFits(plans[p].cand, plans[p].ctl)

BuildsAreChecked == \A b \in Builds : At(b, "idle") \/ Checked(build[b].plan)

\* Plans that were applied passed those checks, and are of their root.
AppliedAreChecked ==
    \A root \in Roots : applied[root] # NoPlan =>
        Checked(applied[root]) /\ plans[applied[root]].root = root

ApplyInv == ApplyTypeOK /\ BuildsAreChecked /\ AppliedAreChecked

\* The starting state of the world.
LEMMA ApplyStarts == ApplyInit => ApplyInv
<1> SUFFICES ASSUME ApplyInit PROVE ApplyInv
  OBVIOUS
<1>1. Len(plans) = 0 /\ plans \in Seq(PlanSet)
  BY DEF ApplyInit
<1>2. queue \in [Environments -> {"absent", "running", "paused"}]
  BY DEF ApplyInit
<1>3. BuildTypeOK /\ \A b \in Builds : At(b, "idle")
  BY DEF ApplyInit, BuildTypeOK, Idle, At
<1>4. ctl \in Controllers /\ serial \in [Roots -> Nat]
      /\ applied \in [Roots -> 1..Len(plans) \cup {NoPlan}]
  BY DEF ApplyInit
<1>5. \A root \in Roots : applied[root] = NoPlan
  BY DEF ApplyInit
<1> QED BY <1>1, <1>2, <1>3, <1>4, <1>5 DEF ApplyInv, ApplyTypeOK, BuildsAreChecked, AppliedAreChecked

\* Plans and promotions are only added to, so what was checked stays checked.
Grows ==
    /\ plans' \in Seq(PlanSet) /\ Len(plans') >= Len(plans)
    /\ \A i \in 1..Len(plans) : plans'[i] = plans[i]
    /\ promotions \subseteq promotions'

\* What an apply checked stays true while documents are only added.
LEMMA CheckedStays ==
    ASSUME ApplyInv, Grows
    PROVE  \A p : Checked(p) => Checked(p)' /\ plans'[p] = plans[p]
<1> SUFFICES ASSUME NEW p, Checked(p) PROVE Checked(p)' /\ plans'[p] = plans[p]
  OBVIOUS
<1>1. Len(plans) \in Nat /\ Len(plans') \in Nat
  BY DEF ApplyInv, ApplyTypeOK, Grows
<1>2. p \in 1..Len(plans') /\ plans'[p] = plans[p]
  BY <1>1 DEF Checked, Grows
<1> QED BY <1>2 DEF Checked, Grows, Blocked, PromotionFits

\* A build goes on with the plan it holds, or ends.
BuildSteps(b) ==
    /\ BuildTypeOK'
    /\ \A o \in Builds : o # b => build'[o] = build[o]
    /\ At(b, "idle")' \/ (~At(b, "idle") /\ build'[b].plan = build[b].plan)

\* A build whose record is written.
LEMMA WriteSteps ==
    ASSUME ApplyInv, NEW b \in Builds, NEW q, DOMAIN q = {"at", "plan", "todo"},
           build' = [build EXCEPT ![b] = q]
    PROVE  /\ BuildTypeOK' /\ build'[b] = q
           /\ \A o \in Builds : o # b => build'[o] = build[o]
<1>1. build = [o \in Builds |-> build[o]]
  BY DEF ApplyInv, ApplyTypeOK, BuildTypeOK
<1>2. /\ build' = [o \in Builds |-> build'[o]] /\ build'[b] = q
      /\ \A o \in Builds : o # b => build'[o] = build[o]
  BY <1>1
<1>3. \A o \in Builds : DOMAIN build'[o] = {"at", "plan", "todo"}
  BY <1>2 DEF ApplyInv, ApplyTypeOK, BuildTypeOK
<1> QED BY <1>2, <1>3 DEF BuildTypeOK

\* The next command of a build.
LEMMA GoesSteps ==
    ASSUME ApplyInv, NEW b \in Builds, NEW where, NEW todo, Goes(b, where, todo), ~At(b, "idle")
    PROVE  BuildSteps(b)
<1> DEFINE q == [build[b] EXCEPT !.at = where, !.todo = todo]
<1>1. DOMAIN build[b] = {"at", "plan", "todo"}
  BY DEF ApplyInv, ApplyTypeOK, BuildTypeOK
<1>2. DOMAIN q = {"at", "plan", "todo"} /\ q.plan = build[b].plan
  BY <1>1
<1>3. build' = [build EXCEPT ![b] = q]
  BY DEF Goes, ApplyInv, ApplyTypeOK, BuildTypeOK
<1> HIDE DEF q
<1> QED BY <1>2, <1>3, WriteSteps DEF BuildSteps

\* The end of a build.
LEMMA EndsSteps ==
    ASSUME ApplyInv, NEW b \in Builds, Ends(b)
    PROVE  BuildSteps(b)
<1>1. DOMAIN Idle = {"at", "plan", "todo"} /\ Idle.at = "idle"
  BY DEF Idle
<1>2. build' = [build EXCEPT ![b] = Idle]
  BY DEF Ends
<1> QED BY <1>1, <1>2, WriteSteps DEF BuildSteps, At

\* What a command of a build leaves as it is.
Documents == <<ctl, plans, promotions>>

\* A build that steps, an applied plan at most, and a queue that stays one.
LEMMA BuildKeeps ==
    ASSUME ApplyInv, NEW b \in Builds, BuildSteps(b), UNCHANGED Documents,
           serial' \in [Roots -> Nat],
           queue' \in [Environments -> {"absent", "running", "paused"}],
           \/ UNCHANGED applied
           \/ /\ ~At(b, "idle")
              /\ applied' = [applied EXCEPT ![PlanAt(b).root] = build[b].plan]
    PROVE  ApplyInv'
<1>1. Grows
  BY DEF Grows, Documents, ApplyInv, ApplyTypeOK
<1>2. \A p : Checked(p) => Checked(p)' /\ plans'[p] = plans[p]
  BY <1>1, CheckedStays
<1>3. ~At(b, "idle") => Checked(build[b].plan)
  BY DEF ApplyInv, BuildsAreChecked
<1>4. BuildsAreChecked'
  <2> SUFFICES ASSUME NEW o \in Builds, ~At(o, "idle")' PROVE Checked(build[o].plan)'
    BY DEF BuildsAreChecked
  <2>1. ~At(o, "idle") /\ build'[o].plan = build[o].plan
    BY DEF BuildSteps, At
  <2>2. Checked(build[o].plan)
    BY <2>1 DEF ApplyInv, BuildsAreChecked
  <2> QED BY <2>1, <2>2 DEF Checked, Documents, Blocked, PromotionFits
<1>5. applied' \in [Roots -> 1..Len(plans') \cup {NoPlan}]
  BY <1>3 DEF ApplyInv, ApplyTypeOK, Documents, Checked
<1>6. AppliedAreChecked'
  <2> SUFFICES ASSUME NEW root \in Roots, applied'[root] # NoPlan
               PROVE  Checked(applied[root])' /\ plans'[applied'[root]].root = root
    BY DEF AppliedAreChecked
  <2>1. Checked(applied'[root]) /\ plans[applied'[root]].root = root
    BY <1>3 DEF ApplyInv, ApplyTypeOK, AppliedAreChecked, PlanAt
  <2> QED BY <2>1 DEF Checked, Documents, Blocked, PromotionFits
<1>7. ApplyTypeOK'
  BY <1>5 DEF ApplyInv, ApplyTypeOK, Documents, BuildSteps
<1> QED BY <1>4, <1>6, <1>7 DEF ApplyInv

\* A queue that is written stays a queue; a build that pauses one goes on or ends.
LEMMA PausedSteps ==
    ASSUME ApplyInv, NEW b \in Builds, NEW e, NEW where,
           PausedAndEmpty(b, e, Goes(b, where, <<>>)), ~At(b, "idle")
    PROVE  /\ BuildSteps(b)
           /\ queue' = [queue EXCEPT ![e] = "paused"]
<1>1. Ends(b) \/ Goes(b, where, <<>>) \/ \E rest : Goes(b, build[b].at, rest)
  BY DEF PausedAndEmpty
<1> QED BY <1>1, GoesSteps, EndsSteps DEF PausedAndEmpty

\* A pause stops a queue, or leaves an absent one to Terraform.
LEMMA PauseKeeps ==
    ASSUME ApplyInv, NEW b \in Builds, Pause(b)
    PROVE  ApplyInv' /\ (queue["staging"] = "paused" => queue'["staging"] = "paused")
<1> DEFINE e == Head(build[b].todo)
<1>1. ~At(b, "idle") /\ queue \in [Environments -> {"absent", "running", "paused"}]
  BY DEF Pause, At, ApplyInv, ApplyTypeOK
<1>2. BuildSteps(b) /\ (queue' = queue \/ queue' = [queue EXCEPT ![e] = "paused"])
  BY <1>1, PausedSteps, GoesSteps DEF Pause
<1>3. queue' \in [Environments -> {"absent", "running", "paused"}]
  BY <1>1, <1>2
<1>4. queue["staging"] = "paused" => queue'["staging"] = "paused"
  BY <1>1, <1>2 DEF Environments
<1>5. UNCHANGED <<Documents, serial, applied>>
  BY DEF Pause, Documents
<1> QED BY <1>2, <1>3, <1>4, <1>5, BuildKeeps DEF ApplyInv, ApplyTypeOK

\* Terraform applies the plan that was checked, and creates no paused queue.
LEMMA TerraformKeeps ==
    ASSUME ApplyInv, NEW b \in Builds, Terraform(b)
    PROVE  ApplyInv' /\ (queue["staging"] = "paused" => queue'["staging"] = "paused")
<1> DEFINE root == PlanAt(b).root
<1>1. ~At(b, "idle") /\ queue \in [Environments -> {"absent", "running", "paused"}]
      /\ serial \in [Roots -> Nat]
  BY DEF Terraform, At, ApplyInv, ApplyTypeOK
<1>2. root \in Roots
  <2>1. build[b].plan \in 1..Len(plans) /\ plans \in Seq(PlanSet)
    BY <1>1 DEF ApplyInv, BuildsAreChecked, Checked, ApplyTypeOK
  <2>2. PlanAt(b) \in PlanSet
    BY <2>1 DEF PlanAt
  <2> QED BY <2>2 DEF PlanSet
<1>3. BuildSteps(b)
  BY <1>1, GoesSteps, EndsSteps DEF Terraform
<1>4. serial' \in [Roots -> Nat]
  BY <1>1, <1>2 DEF Terraform
<1>5. /\ queue' \in [Environments -> {"absent", "running", "paused"}]
      /\ queue["staging"] = "paused" => queue'["staging"] = "paused"
  BY <1>1 DEF Terraform, Created, Environments
<1>6. UNCHANGED applied \/ applied' = [applied EXCEPT ![root] = build[b].plan]
  BY DEF Terraform
<1>7. UNCHANGED Documents
  BY DEF Terraform, Documents
<1> QED BY <1>1, <1>3, <1>4, <1>5, <1>6, <1>7, BuildKeeps

\* Only an active environment is resumed, and staging is none.
LEMMA SettleKeeps ==
    ASSUME ApplyInv, NEW b \in Builds, Settle(b)
    PROVE  ApplyInv' /\ (queue["staging"] = "paused" => queue'["staging"] = "paused")
<1> DEFINE e == Head(build[b].todo)
<1>1. ~At(b, "idle") /\ queue \in [Environments -> {"absent", "running", "paused"}]
  BY DEF Settle, At, ApplyInv, ApplyTypeOK
<1>2. "staging" \notin PlanAt(b).active
  BY <1>1 DEF ApplyInv, BuildsAreChecked, Checked, Blocked, PlanAt
<1>3. CASE e \in PlanAt(b).active
  <2>1. Resumed(b, e) /\ e # "staging"
    BY <1>2, <1>3 DEF Settle
  <2>2. BuildSteps(b)
    BY <1>1, <2>1, GoesSteps, EndsSteps DEF Resumed
  <2>3. \E q \in {"running", "paused"} : queue' = [queue EXCEPT ![e] = q]
    BY <2>1 DEF Resumed
  <2>4. /\ queue' \in [Environments -> {"absent", "running", "paused"}]
        /\ queue'["staging"] = queue["staging"]
    BY <1>1, <2>1, <2>3 DEF Environments
  <2>5. UNCHANGED <<Documents, serial, applied>>
    BY DEF Settle, Documents
  <2> QED BY <2>2, <2>4, <2>5, BuildKeeps DEF ApplyInv, ApplyTypeOK
<1>4. CASE e \notin PlanAt(b).active
  <2>1. BuildSteps(b) /\ queue' = [queue EXCEPT ![e] = "paused"]
    BY <1>1, <1>4, PausedSteps DEF Settle
  <2>2. /\ queue' \in [Environments -> {"absent", "running", "paused"}]
        /\ queue["staging"] = "paused" => queue'["staging"] = "paused"
    BY <1>1, <2>1 DEF Environments
  <2>3. UNCHANGED <<Documents, serial, applied>>
    BY DEF Settle, Documents
  <2> QED BY <2>1, <2>2, <2>3, BuildKeeps DEF ApplyInv, ApplyTypeOK
<1> QED BY <1>3, <1>4

\* The publication of the outputs, and a build that dies.
LEMMA LastKeeps ==
    ASSUME ApplyInv, NEW b \in Builds, PublishOutputs(b) \/ Dies(b)
    PROVE  ApplyInv' /\ UNCHANGED queue
<1>1. Ends(b) /\ UNCHANGED <<Documents, serial, applied, queue>>
  BY DEF PublishOutputs, Dies, Documents
<1> QED BY <1>1, EndsSteps, BuildKeeps DEF ApplyInv, ApplyTypeOK

\* A build starts with what _apply checked.
LEMMA CheckKeeps ==
    ASSUME ApplyInv, NEW b \in Builds, NEW p \in 1..Len(plans), NEW scope, NEW people,
           Check(b, p, scope, people)
    PROVE  ApplyInv' /\ UNCHANGED queue
<1> DEFINE q == [at |-> IF plans[p].managed = {} THEN "terraform" ELSE "pausing",
                 plan |-> p, todo |-> Turns(plans[p].managed)]
<1>1. /\ build' = [build EXCEPT ![b] = q]
      /\ UNCHANGED <<Documents, serial, applied, queue>>
  BY DEF Check, Documents
<1>2. DOMAIN q = {"at", "plan", "todo"} /\ q.plan = p
  OBVIOUS
<1>3. Checked(p)
  BY DEF Check, Checked
<1> HIDE DEF q
<1>4. /\ BuildTypeOK' /\ build'[b] = q
      /\ \A o \in Builds : o # b => build'[o] = build[o]
  BY <1>1, <1>2, WriteSteps
<1>5. \A o \in Builds : At(o, "idle")' \/ Checked(build'[o].plan)
  BY <1>2, <1>3, <1>4 DEF ApplyInv, BuildsAreChecked, At
<1>6. BuildsAreChecked'
  BY <1>1, <1>5 DEF BuildsAreChecked, Checked, Documents, Blocked, PromotionFits
<1>7. AppliedAreChecked'
  BY <1>1 DEF ApplyInv, AppliedAreChecked, Checked, Documents, Blocked, PromotionFits
<1>8. ApplyTypeOK'
  BY <1>1, <1>4 DEF ApplyInv, ApplyTypeOK, Documents
<1> QED BY <1>1, <1>6, <1>7, <1>8 DEF ApplyInv

\* What happens between the commands of the builds.
LEMMA GrowthKeeps ==
    ASSUME ApplyInv, Grows, ctl' \in Controllers, UNCHANGED <<serial, applied, queue, build>>
    PROVE  ApplyInv'
<1>1. \A p : Checked(p) => Checked(p)' /\ plans'[p] = plans[p]
  BY CheckedStays
<1>2. BuildsAreChecked'
  <2> SUFFICES ASSUME NEW b \in Builds, ~At(b, "idle")' PROVE Checked(build[b].plan)'
    BY DEF BuildsAreChecked
  <2>1. ~At(b, "idle") /\ build'[b] = build[b]
    BY DEF At
  <2>2. Checked(build[b].plan)
    BY <2>1 DEF ApplyInv, BuildsAreChecked
  <2>3. build[b].plan \in 1..Len(plans') /\ plans'[build[b].plan] = plans[build[b].plan]
    BY <1>1, <2>2 DEF Checked
  <2> QED BY <2>1, <2>2, <2>3 DEF Checked, Grows, Blocked, PromotionFits
<1>3. AppliedAreChecked'
  <2> SUFFICES ASSUME NEW root \in Roots, applied'[root] # NoPlan
               PROVE  Checked(applied[root])' /\ plans'[applied'[root]].root = root
    BY DEF AppliedAreChecked
  <2>1. Checked(applied[root]) /\ plans[applied[root]].root = root /\ applied'[root] = applied[root]
    BY DEF ApplyInv, AppliedAreChecked
  <2>2. applied[root] \in 1..Len(plans') /\ plans'[applied[root]] = plans[applied[root]]
    BY <1>1, <2>1 DEF Checked
  <2> QED BY <2>1, <2>2 DEF Checked, Grows, Blocked, PromotionFits
<1>4. ApplyTypeOK'
  <2>1. Len(plans) \in Nat /\ Len(plans') \in Nat /\ 1..Len(plans) \subseteq 1..Len(plans')
    BY DEF Grows, ApplyInv, ApplyTypeOK
  <2>2. applied' \in [Roots -> 1..Len(plans') \cup {NoPlan}]
    BY <2>1 DEF ApplyInv, ApplyTypeOK
  <2> QED BY <2>2 DEF ApplyInv, ApplyTypeOK, Grows, BuildTypeOK
<1> QED BY <1>2, <1>3, <1>4 DEF ApplyInv

\* A plan is one more manifest.
LEMMA PlanKeeps ==
    ASSUME ApplyInv, NEW ask \in PlanRequests, NEW cand \in Candidates, Plan(ask, cand)
    PROVE  ApplyInv' /\ UNCHANGED queue
<1>1. ask \in [root : Roots, managed : SUBSET Environments,
               active : SUBSET Environments, enforce : BOOLEAN]
  BY RequestsAssumption
<1>2. PlanOf(ask, cand) \in PlanSet
  BY <1>1 DEF PlanOf, PlanSet, ApplyInv, ApplyTypeOK
<1>3. Grows
  BY <1>2 DEF Plan, Grows, ApplyInv, ApplyTypeOK
<1> QED BY <1>3, GrowthKeeps DEF Plan, ApplyInv, ApplyTypeOK

\* Controllers, promotions and tasks come in between.
LEMMA WorldKeeps ==
    ASSUME ApplyInv,
           \/ \E c \in Controllers : Upgrade(c)
           \/ \E cand \in Candidates : Promote(cand)
           \/ \E e \in Environments : TaskMoves(e)
           \/ UNCHANGED rvars
    PROVE  ApplyInv' /\ UNCHANGED queue
<1>1. Grows
  BY DEF Grows, Upgrade, Promote, TaskMoves, rvars, ApplyInv, ApplyTypeOK
<1>2. ctl' \in Controllers /\ UNCHANGED <<serial, applied, queue, build>>
  BY DEF Upgrade, Promote, TaskMoves, rvars, ApplyInv, ApplyTypeOK
<1> QED BY <1>1, <1>2, GrowthKeeps

\* ApplyInv is inductive, and no step starts a paused staging queue.
LEMMA ApplyStep ==
    ASSUME ApplyInv, [ApplyNext]_rvars
    PROVE  ApplyInv' /\ (queue["staging"] = "paused" => queue'["staging"] = "paused")
<1>1. ASSUME NEW ask \in PlanRequests, NEW cand \in Candidates, Plan(ask, cand)
      PROVE  ApplyInv' /\ UNCHANGED queue
  BY <1>1, PlanKeeps
<1>2. ASSUME NEW b \in Builds, NEW p \in 1..Len(plans), NEW scope \in 1..Len(plans),
             NEW people \in 0..4, Check(b, p, scope, people)
      PROVE  ApplyInv' /\ UNCHANGED queue
  BY <1>2, CheckKeeps
<1>3. ASSUME NEW b \in Builds,
             Pause(b) \/ Terraform(b) \/ Settle(b) \/ PublishOutputs(b) \/ Dies(b)
      PROVE  ApplyInv' /\ (queue["staging"] = "paused" => queue'["staging"] = "paused")
  BY <1>3, PauseKeeps, TerraformKeeps, SettleKeeps, LastKeeps
<1> QED BY <1>1, <1>2, <1>3, WorldKeeps DEF ApplyNext

\* What every running build and every applied plan rests on.
THEOREM ApplyKeepsItsChecks == ApplySpec => []ApplyInv
<1>1. ApplyInv /\ [ApplyNext]_rvars => ApplyInv'
  BY ApplyStep
<1> QED BY <1>1, ApplyStarts, PTL DEF ApplySpec

\* Whatever image or controller is swapped between promotion, plan and apply,
\* what production runs was promoted by the controller that planned and applied
\* it, and is dark (_plan, _apply, _validate_promotion_document).
THEOREM PromotionPrecedesProduction == ApplySpec => []ProductionWasPromoted
<1>1. ApplyInv => ProductionWasPromoted
  BY DEF ApplyInv, AppliedAreChecked, Checked, Blocked, PromotionFits, ProductionWasPromoted,
         Roots, Environments
<1> QED BY <1>1, ApplyKeepsItsChecks, PTL

\* No build starts the staging queue again once it is paused, for any plan and
\* any interleaving of builds (_validate_apply_gate_receipts, _apply).
THEOREM StagingIsNotResumed == ApplySpec => StagingStaysQuiet
<1>1. ApplyInv /\ [ApplyNext]_rvars
      => [queue["staging"] = "paused" => queue'["staging"] = "paused"]_rvars
  BY ApplyStep
<1> QED BY <1>1, ApplyKeepsItsChecks, PTL DEF ApplySpec, StagingStaysQuiet

-----------------------------------------------------------------------------
(* The evidence.                                                           *)

\* The build of an image, finalized for a commit, is of that commit.
ProvenanceIsOfBuild ==
    \A s \in Shas, i \in Images :
        Shown("ci_provenance", s, i, Nil) => built[i] = s

\* What a manifest of a commit rests on.
Rests(s, i) ==
    /\ built[i] = s
    /\ Shown("staging_revisions", s, i, Nil)
    /\ \E x \in Runs : Shown("rollback", s, i, x)
    /\ \E x \in Runs : \A n \in {"e2e", "differential", "semantic_review"} :
          Shown(n, s, i, x)

ManifestsRest ==
    \A s \in Shas : evidence[s] # Nil =>
        evidence[s].img \in Images /\ Rests(s, evidence[s].img)

EvidenceInv ==
    /\ built \in [Images -> Shas \cup {Nil}]
    /\ evidence = [s \in Shas |-> evidence[s]]
    /\ ProvenanceIsOfBuild
    /\ ManifestsRest

\* No image is built and no manifest written at the start.
LEMMA EvidenceInit == ChainInit => EvidenceInv
BY DEF ChainInit, EvidenceInv, ProvenanceIsOfBuild, ManifestsRest, Shown

\* Evidence is only added, and an image that was built stays of its commit.
LEMMA RestsStays ==
    ASSUME EvidenceParameters, NEW s \in Shas, NEW i \in Images, Rests(s, i),
           docs \subseteq docs', built[i] # Nil => built'[i] = built[i]
    PROVE  Rests(s, i)'
BY DEF Rests, Shown, EvidenceParameters

\* Only runtime-attest writes a provenance.
LEMMA ProvenanceStays ==
    ASSUME EvidenceParameters, EvidenceInv,
           \A i \in Images : built[i] # Nil => built'[i] = built[i],
           \A s \in Shas, i \in Images :
               Doc("ci_provenance", s, i, Nil) \in docs'
               => Doc("ci_provenance", s, i, Nil) \in docs \/ built[i] = s
    PROVE  ProvenanceIsOfBuild'
BY DEF EvidenceInv, ProvenanceIsOfBuild, Shown, EvidenceParameters

\* Whatever leaves the manifests alone.
LEMMA ArtifactKeeps ==
    ASSUME EvidenceParameters, EvidenceInv,
           UNCHANGED evidence, docs \subseteq docs',
           built' \in [Images -> Shas \cup {Nil}],
           \A i \in Images : built[i] # Nil => built'[i] = built[i],
           \A s \in Shas, i \in Images :
               Doc("ci_provenance", s, i, Nil) \in docs'
               => Doc("ci_provenance", s, i, Nil) \in docs \/ built[i] = s
    PROVE  EvidenceInv'
<1>1. ProvenanceIsOfBuild'
  BY ProvenanceStays
<1>2. ManifestsRest'
  BY RestsStays DEF EvidenceInv, ManifestsRest
<1> QED BY <1>1, <1>2 DEF EvidenceInv

\* A manifest is written over complete evidence.
LEMMA ManifestKeeps ==
    ASSUME EvidenceParameters, EvidenceInv, NEW s \in Shas, NEW i \in Images,
           NEW x \in Runs, NEW back \in Runs, NEW people,
           EvidenceManifest(s, i, x, back, people)
    PROVE  EvidenceInv'
<1>1. UNCHANGED <<built, docs>> /\ evidence' = [evidence EXCEPT ![s] = [img |-> i, ctl |-> ectl, run |-> x]]
  BY DEF EvidenceManifest
<1>2. Complete(s, i, x, back)
  BY DEF EvidenceManifest
<1>3. Rests(s, i)
  BY <1>2 DEF Complete, Shown, Rests, EvidenceInv, ProvenanceIsOfBuild
<1>4. /\ evidence'[s].img = i
      /\ \A o \in Shas : o # s => evidence'[o] = evidence[o]
      /\ evidence' = [o \in Shas |-> evidence'[o]]
  BY <1>1 DEF EvidenceInv
<1>5. ManifestsRest'
  BY <1>1, <1>3, <1>4 DEF EvidenceInv, ManifestsRest, Rests, Shown
<1>6. ProvenanceIsOfBuild'
  BY <1>1 DEF EvidenceInv, ProvenanceIsOfBuild, Shown
<1> QED BY <1>1, <1>4, <1>5, <1>6 DEF EvidenceInv

\* EvidenceInv is inductive.
LEMMA EvidenceStep ==
    ASSUME EvidenceParameters, EvidenceInv, [ChainNext]_evars
    PROVE  EvidenceInv'
<1> DEFINE Quiet == /\ docs' = docs /\ UNCHANGED <<built, evidence>>
<1>0. built \in [Images -> Shas \cup {Nil}]
  BY DEF EvidenceInv
<1>1. CASE Quiet
  BY <1>0, <1>1, ArtifactKeeps
<1>2. ASSUME NEW s \in Shas, NEW i \in Images, RuntimeImage(s, i)
      PROVE  EvidenceInv'
  <2>1. /\ built' = [built EXCEPT ![i] = s] /\ built[i] = Nil /\ UNCHANGED evidence
        /\ docs' = docs \union {Doc(n, s, i, Nil) : n \in {"sbom", "scan"}}
    BY <1>2 DEF RuntimeImage
  <2>2. \A t \in Shas, j \in Images :
            Doc("ci_provenance", t, j, Nil) \in docs' => Doc("ci_provenance", t, j, Nil) \in docs
    BY <2>1 DEF Doc
  <2> QED BY <1>0, <2>1, <2>2, ArtifactKeeps
<1>3. ASSUME NEW s \in Shas, NEW i \in Images, NEW people, RuntimeAttest(s, i, people)
      PROVE  EvidenceInv'
  <2>1. /\ built[i] = s /\ UNCHANGED <<built, evidence>>
        /\ docs' = docs \union {Doc("ci_provenance", s, i, Nil)}
    BY <1>3 DEF RuntimeAttest
  <2>2. \A t \in Shas, j \in Images :
            Doc("ci_provenance", t, j, Nil) \in docs'
            => Doc("ci_provenance", t, j, Nil) \in docs \/ built[j] = t
    BY <2>1 DEF Doc
  <2> QED BY <1>0, <2>1, <2>2, ArtifactKeeps
<1>4. ASSUME NEW s \in Shas, NEW i \in Images, NEW x \in Runs,
             \/ RollbackObserve(s, i, x) \/ Execution(s, i, x) \/ Review(s, i, x)
      PROVE  EvidenceInv'
  <2>1. /\ UNCHANGED <<built, evidence>> /\ docs \subseteq docs'
        /\ \A d \in docs' : d \in docs \/ d.name # "ci_provenance"
    BY <1>4 DEF RollbackObserve, Execution, Review, Doc
  <2>2. \A t \in Shas, j \in Images :
            Doc("ci_provenance", t, j, Nil) \in docs' => Doc("ci_provenance", t, j, Nil) \in docs
    BY <2>1 DEF Doc
  <2> QED BY <1>0, <2>1, <2>2, ArtifactKeeps
<1>5. ASSUME NEW s \in Shas, NEW i \in Images, NEW people, StagingAttest(s, i, people)
      PROVE  Quiet
  BY <1>5 DEF StagingAttest
<1>6. ASSUME NEW i \in Images, Serves(i) \/ Finding(i)
      PROVE  Quiet
  BY <1>6 DEF Serves, Finding
<1>7. ASSUME NEW c \in Digests, NewController(c)
      PROVE  Quiet
  BY <1>7 DEF NewController
<1>8. CASE UNCHANGED evars
  BY <1>1, <1>8 DEF evars
<1>9. ASSUME NEW s \in Shas, NEW i \in Images, StagingObserve(s, i)
      PROVE  EvidenceInv'
  <2>1. /\ UNCHANGED <<built, evidence>>
        /\ docs' = docs \union {Doc("staging_revisions", s, i, Nil)}
    BY <1>9 DEF StagingObserve
  <2>2. \A t \in Shas, j \in Images :
            Doc("ci_provenance", t, j, Nil) \in docs' => Doc("ci_provenance", t, j, Nil) \in docs
    BY <2>1 DEF Doc
  <2> QED BY <1>0, <2>1, <2>2, ArtifactKeeps
<1> HIDE DEF Quiet
<1> QED BY <1>1, <1>2, <1>3, <1>4, <1>5, <1>6, <1>7, <1>8, <1>9, ManifestKeeps DEF ChainNext

\* A promotion that a production plan accepts rests on evidence of one commit, one
\* image and one execution, whatever was observed, reviewed or attested for others
\* in between (evidence-manifest, staging-attest, _validate_promotion_document).
THEOREM PromotionsRestOnEvidence == ChainSpec => []PromotionIsWhole
<1>1. ChainInit => EvidenceInv
  BY EvidenceInit
<1>2. EvidenceInv /\ [ChainNext]_evars => EvidenceInv'
  BY EvidenceStep, EvidenceConstants
<1>3. EvidenceInv => PromotionIsWhole
  BY DEF EvidenceInv, ManifestsRest, Rests, PromotionIsWhole, CertificateFits, EvidenceFits
<1> QED BY <1>1, <1>2, <1>3, PTL DEF ChainSpec

=============================================================================

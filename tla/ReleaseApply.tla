---------------------------- MODULE ReleaseApply ----------------------------
(***************************************************************************)
(* The plan and apply commands of the release controller                   *)
(* (scripts/release_controller.py) run as Cloud Build builds against three *)
(* Terraform roots.  A plan is a write-once document bound to the state it *)
(* was computed from; an apply checks everything again, pauses the queues  *)
(* of the environments the platform plan manages, runs Terraform, resumes  *)
(* or pauses the queues and publishes the platform outputs.  Two builds    *)
(* may run at once, a build may die between any two commands, and people   *)
(* (promotions, receipts, a new controller) move in between.               *)
(***************************************************************************)
EXTENDS Naturals, Sequences, FiniteSets

CONSTANTS
    Builds,       \* builds of the apply trigger that may run side by side
    Candidates,   \* pairs of a commit and the image built from it
    Controllers,  \* digests of the controller image
    PlanRequests,     \* bound: what the plan trigger is asked: root, managed,
                  \* active environments, whether the Firestore scope is enforced
    MaxPlans,     \* bound: plans ever computed
    MaxSerial,    \* bound: serial of a Terraform state
    NoPlan

ASSUME ApplyAssumption == NoPlan \notin 1..MaxPlans /\ MaxSerial \in Nat

VARIABLES
    ctl,       \* digest of the controller that the triggers run
    serial,    \* serial of each root's Terraform state
    applied,   \* the plan whose apply last ended well, per root
    queue,     \* "absent", "running" or "paused", per environment
    task,      \* whether a task waits in the environment's queue
    plans,     \* the plan manifests, in the order they were written
    promotions,\* promotion documents: candidate and controller
    outputs,   \* platform outputs already published: candidate and serial
    build      \* what each build is doing

rvars == <<ctl, serial, applied, queue, task, plans, promotions, outputs, build>>

Environments == {"staging", "production"}
Roots == Environments \union {"platform"}
InOrder == <<"staging", "production">>

\* What the plan trigger can be asked: a root, and phases of the environments.
ASSUME RequestsAssumption ==
    PlanRequests \subseteq [root : Roots, managed : SUBSET Environments,
                       active : SUBSET Environments, enforce : BOOLEAN]

\* The environments of a set, in the order the controller goes through them.
Turns(envs) == SelectSeq(InOrder, LAMBDA e : e \in envs)

Idle == [at |-> "idle", plan |-> NoPlan, todo |-> <<>>]

-----------------------------------------------------------------------------
(* Plan. *)

\* What a plan manifest records of the arguments and of the world.  managed
\* and active are empty outside the platform root, except that active names
\* the environment itself when its release phase runs ticket jobs.
PlanOf(ask, cand) ==
    [root |-> ask.root, base |-> serial[ask.root], cand |-> cand, ctl |-> ctl,
     managed |-> ask.managed, active |-> ask.active, enforce |-> ask.enforce]

\* Rules on phases that _plan and the two plan validators share: a platform
\* environment is active only inside managed containers; a root of an
\* environment manages no container.
PhasesFit(ask) ==
    IF ask.root = "platform" THEN ask.active \subseteq ask.managed
    ELSE ask.managed = {} /\ ask.active \subseteq {ask.root} /\ ~ask.enforce

\* An environment plan reads outputs that some platform apply published with
\* this environment's containers and with the Firestore scope enforced.
HandoffAllows(root) ==
    \/ root = "platform"
    \/ \E out \in outputs : root \in out.managed /\ out.enforce

\* Mutant of PromotionFits: any controller's promotion will do.
PromotionOfCandidate(cand, c) == \E d \in Controllers : [cand |-> cand, ctl |-> d] \in promotions

\* The promotion names the candidate and the controller that executes.
PromotionFits(cand, c) == [cand |-> cand, ctl |-> c] \in promotions

Plan(ask, cand) ==
    /\ Len(plans) < MaxPlans
    /\ PhasesFit(ask)
    /\ HandoffAllows(ask.root)
    /\ ask.root = "production" => PromotionFits(cand, ctl)
    /\ plans' = Append(plans, PlanOf(ask, cand))
    /\ UNCHANGED <<ctl, serial, applied, queue, task, promotions, outputs, build>>

-----------------------------------------------------------------------------
(* Receipts: one approved build of each role's gate, bound to the plan. *)

Owners(env) ==
    IF env = "staging" THEN {"g2-gcp-owner"}
    ELSE {"g6b-gcp-owner", "g6b-release-owner", "g6b-forusbots-owner"}

RequiredRoles(plan) ==
    UNION {Owners(e) : e \in IF plan.root = "platform" THEN plan.managed
                             ELSE {plan.root}}

\* Mutant of Blocked: the platform transition of the other environment.
BlockedOther(plan) ==
    \/ plan.root # "platform" /\ plan.active # {}
    \/ plan.root = "platform" /\ "production" \in plan.active
    \/ plan.enforce

\* Transitions that no receipt can approve yet.
Blocked(plan) ==
    \/ plan.root # "platform" /\ plan.active # {}
    \/ plan.root = "platform" /\ "staging" \in plan.active
    \/ plan.enforce

\* The receipts are builds of exactly the required roles' gates, approved for
\* the plan scope by so many different people: all of them must be for this
\* plan, and no two by the same person.
Quorum(p, scope, people) ==
    scope = p /\ people = Cardinality(RequiredRoles(plans[p]))

-----------------------------------------------------------------------------
(* Apply. *)

At(b, where) == build[b].at = where
PlanAt(b) == plans[build[b].plan]
Goes(b, where, todo) ==
    build' = [build EXCEPT ![b].at = where, ![b].todo = todo]
Ends(b) == build' = [build EXCEPT ![b] = Idle]

\* _apply up to the receipts: it reads the manifest, the inputs, the state
\* and the promotion again and changes nothing.
Check(b, p, scope, people) ==
    LET plan == plans[p] IN
    /\ At(b, "idle")
    /\ plan.ctl = ctl
    /\ plan.base = serial[plan.root]
    /\ plan.root = "production" => PromotionFits(plan.cand, plan.ctl)
    /\ ~Blocked(plan)
    /\ Quorum(p, scope, people)
    /\ build' = [build EXCEPT ![b] =
                    [at |-> IF plan.managed = {} THEN "terraform" ELSE "pausing",
                     plan |-> p, todo |-> Turns(plan.managed)]]
    /\ UNCHANGED <<ctl, serial, applied, queue, task, plans, promotions, outputs>>

\* PauseQueue, then the state and the list of tasks: a queue with a task is
\* refused, and stays paused.
PausedAndEmpty(b, e, next) ==
    /\ queue' = [queue EXCEPT ![e] = "paused"]
    /\ IF task[e] THEN Ends(b)
       ELSE LET rest == Tail(build[b].todo) IN
            IF rest = <<>> THEN next ELSE Goes(b, build[b].at, rest)

\* pause_existing_queue_and_verify_empty: a queue that does not exist yet is
\* left to Terraform.
Pause(b) ==
    LET e == Head(build[b].todo)
        rest == Tail(build[b].todo)
    IN /\ At(b, "pausing")
       /\ IF queue[e] = "absent"
          THEN /\ UNCHANGED queue
               /\ Goes(b, IF rest = <<>> THEN "terraform" ELSE "pausing", rest)
          ELSE PausedAndEmpty(b, e, Goes(b, "terraform", <<>>))
       /\ UNCHANGED <<ctl, serial, applied, task, plans, promotions, outputs>>

\* Terraform creates the queues that are missing, and a new queue runs.
Created(managed) ==
    queue' = [e \in Environments |->
                IF e \in managed /\ queue[e] = "absent" THEN "running" ELSE queue[e]]

\* terraform apply of the saved plan.  Terraform refuses a plan whose state
\* has moved; it may fail after some of the changes; a plan may hold none.
Terraform(b) ==
    LET plan == PlanAt(b)
        root == plan.root
    IN /\ At(b, "terraform")
       /\ \/ /\ plan.base # serial[root]
             /\ Ends(b)
             /\ UNCHANGED <<serial, applied, queue>>
          \/ /\ plan.base = serial[root]
             /\ \E moved \in {0, 1} :
                  /\ serial[root] + moved <= MaxSerial
                  /\ serial' = [serial EXCEPT ![root] = @ + moved]
             /\ Created(plan.managed)
             /\ \/ /\ applied' = [applied EXCEPT ![root] = build[b].plan]
                   /\ IF root = "platform"
                      THEN Goes(b, IF plan.managed = {} THEN "publishing"
                                                        ELSE "settling",
                                Turns(plan.managed))
                      ELSE Ends(b)
                \/ Ends(b) /\ UNCHANGED applied
       /\ UNCHANGED <<ctl, task, plans, promotions, outputs>>

\* resume_and_verify_queue: when the resumption can not be confirmed the
\* queue is paused again, and the command fails either way.
Resumed(b, e) ==
    \/ /\ queue' = [queue EXCEPT ![e] = "running"]
       /\ LET rest == Tail(build[b].todo) IN
          Goes(b, IF rest = <<>> THEN "publishing" ELSE "settling", rest)
    \/ /\ \E q \in {"running", "paused"} : queue' = [queue EXCEPT ![e] = q]
       /\ Ends(b)

\* After Terraform: resume the queue of an active environment, pause and
\* verify that of a dark one.
Settle(b) ==
    LET e == Head(build[b].todo) IN
    /\ At(b, "settling")
    /\ IF e \in PlanAt(b).active THEN Resumed(b, e)
       ELSE PausedAndEmpty(b, e, Goes(b, "publishing", <<>>))
    /\ UNCHANGED <<ctl, serial, applied, task, plans, promotions, outputs>>

\* _publish_platform_outputs: the outputs of the state as it is now, whoever
\* applied last, in a write-once object named by this build's commit and by
\* the serial; an object that exists is refused.
PublishOutputs(b) ==
    LET latest == plans[applied["platform"]]
        out == [cand |-> PlanAt(b).cand, serial |-> serial["platform"],
                managed |-> latest.managed, enforce |-> latest.enforce]
    IN /\ At(b, "publishing")
       /\ outputs' = IF \E o \in outputs : o.cand = out.cand /\ o.serial = out.serial
                     THEN outputs ELSE outputs \union {out}
       /\ Ends(b)
       /\ UNCHANGED <<ctl, serial, applied, queue, task, plans, promotions>>

\* The build is cancelled, times out, or a command of its fails.
Dies(b) ==
    /\ ~At(b, "idle")
    /\ Ends(b)
    /\ UNCHANGED <<ctl, serial, applied, queue, task, plans, promotions, outputs>>

-----------------------------------------------------------------------------
(* The world around the builds. *)

\* A new image of the controller is put in the triggers.
Upgrade(c) ==
    /\ ctl # c
    /\ ctl' = c
    /\ UNCHANGED <<serial, applied, queue, task, plans, promotions, outputs, build>>

\* staging-attest writes a promotion (module ReleaseEvidence).
Promote(cand) ==
    /\ promotions' = promotions \union {[cand |-> cand, ctl |-> ctl]}
    /\ promotions' # promotions
    /\ UNCHANGED <<ctl, serial, applied, queue, task, plans, outputs, build>>

\* The producer adds a task to its queue; Cloud Tasks delivers what a running
\* queue holds.
TaskMoves(e) ==
    /\ queue[e] # "absent"
    /\ task[e] => queue[e] = "running"
    /\ task' = [task EXCEPT ![e] = ~@]
    /\ UNCHANGED <<ctl, serial, applied, queue, plans, promotions, outputs, build>>

-----------------------------------------------------------------------------

ApplyInit ==
    /\ ctl \in Controllers
    /\ serial = [r \in Roots |-> 0]
    /\ applied = [r \in Roots |-> NoPlan]
    /\ queue \in [Environments -> {"absent", "running"}]
    /\ task = [e \in Environments |-> FALSE]
    /\ plans = <<>>
    /\ promotions = {}
    /\ outputs = {[cand |-> c, serial |-> 0, managed |-> Environments,
                   enforce |-> TRUE] : c \in {CHOOSE c \in Candidates : TRUE}}
    /\ build = [b \in Builds |-> Idle]

ApplyNext ==
    \/ \E ask \in PlanRequests, cand \in Candidates : Plan(ask, cand)
    \/ \E b \in Builds : \/ \E p, scope \in 1..Len(plans), people \in 0..4 :
                               Check(b, p, scope, people)
                         \/ Pause(b) \/ Terraform(b) \/ Settle(b)
                         \/ PublishOutputs(b) \/ Dies(b)
    \/ \E c \in Controllers : Upgrade(c)
    \/ \E cand \in Candidates : Promote(cand)
    \/ \E e \in Environments : TaskMoves(e)

ApplySpec == ApplyInit /\ [][ApplyNext]_rvars

-----------------------------------------------------------------------------
(* Properties. *)

\* What production runs was promoted by the same controller that planned it
\* and checked it again before Terraform, and it is dark: an image swapped,
\* or a controller replaced, between promotion, plan and apply never gets
\* there (_plan, _apply, _validate_promotion_document).
ProductionWasPromoted ==
    applied["production"] # NoPlan =>
        LET plan == plans[applied["production"]] IN
        [cand |-> plan.cand, ctl |-> plan.ctl] \in promotions /\ plan.active = {}

\* No build ever starts the staging queue again once it is paused: an active
\* staging phase is refused before any command runs, whatever the platform
\* plan holds (_validate_apply_gate_receipts and the end of _apply).
StagingStaysQuiet ==
    [][queue["staging"] = "paused" => queue'["staging"] = "paused"]_rvars

\* HANDLE_TICKET_RUNBOOK.md: "Scheduler y queue deben permanecer pausados
\* durante infra_only/dark_*".  Once no build is at work, the queue of an
\* environment that the applied platform plan manages and leaves dark is
\* paused.
DarkQueueIsPaused ==
    (applied["platform"] # NoPlan /\ \A b \in Builds : At(b, "idle")) =>
        LET plan == plans[applied["platform"]] IN
        \A e \in plan.managed \ plan.active : queue[e] = "paused"
=============================================================================

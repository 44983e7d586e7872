------------------------ MODULE MCAccountsAndRelease -------------------------
(***************************************************************************)
(* The accounts of the job store under the most general client: two jobs   *)
(* that compete for one slot of one principal.  And the release            *)
(* controller: the plan and apply builds around one candidate, and the     *)
(* evidence of two images of one commit, checked on promotion documents of *)
(* their own.  A behaviour is about one of the three.                      *)
(***************************************************************************)
EXTENDS TicketRepository, ReleaseApply, ReleaseEvidence, TLC

VARIABLE part

Ask(root, managed, active) ==
  [root |-> root, managed |-> managed, active |-> active, enforce |-> FALSE]

Asked == {Ask("platform", {"staging", "production"}, {"production"}),
          Ask("platform", {"staging"}, {"staging"}),
          Ask("production", {}, {})}

\* Jobs, builds, images and executions are alike.
Symmetry == Permutations(Jobs) \cup Permutations(Builds)
            \cup Permutations(Images) \cup Permutations(Runs)

AInit ==
  /\ part \in {"store", "apply", "evidence"}
  /\ Init /\ ApplyInit /\ ChainInit
  /\ part # "apply" =>
       /\ ctl = CHOOSE c \in Controllers : TRUE
       /\ queue = [e \in Environments |-> "absent"]

ANext ==
  \/ part = "store"    /\ Next      /\ UNCHANGED <<part, rvars, evars>>
  \/ part = "apply"    /\ ApplyNext /\ UNCHANGED <<part, vars, evars>>
  \/ part = "evidence" /\ ChainNext /\ UNCHANGED <<part, vars, rvars>>

ASpec == AInit /\ [][ANext]_<<part, vars, rvars, evars>>
=============================================================================

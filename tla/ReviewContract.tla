--------------------------- MODULE ReviewContract ---------------------------
(***************************************************************************)
(* The closed contract of the review console, api/ticket_review_models.py: *)
(* the state machines of reviews, remediation batches and imports, who may *)
(* take which edge, who may assign a reviewer, and the sealed cursors.     *)
(* Constant operators only: the stores that use them have the state.       *)
(***************************************************************************)
EXTENDS Naturals

CONSTANTS
  Absent,   \* no such document
  NoKey,    \* no idempotency key
  KeyTTL,   \* IDEMPOTENCY_TTL_S
  Delay     \* bound: age of the clock reading a transaction commits with

\* A patch that moves no status.
NoMove == "none"

Roles == {"viewer", "reviewer", "remediator", "admin", "agent"}

\* Roles that may change a review (_REVIEW_MUTATING_ROLES).
ReviewMutators == {"reviewer", "remediator", "admin"}

(***************************************************************************)
(* Reviews                                                                 *)
(***************************************************************************)
ReviewTransitions ==
  [unreviewed       |-> {"reviewed", "blocked"},
   reviewed         |-> {"triaged", "blocked", "wont_fix"},
   triaged          |-> {"planned", "blocked", "wont_fix"},
   planned          |-> {"in_progress", "blocked", "wont_fix"},
   in_progress      |-> {"changes_proposed", "blocked"},
   changes_proposed |-> {"verifying", "in_progress", "blocked"},
   verifying        |-> {"resolved", "in_progress", "blocked"},
   blocked          |-> {"triaged", "planned", "in_progress", "wont_fix"},
   resolved         |-> {},
   wont_fix         |-> {}]

ReviewStatuses == DOMAIN ReviewTransitions

TerminalReview == {"resolved", "wont_fix"}

\* What a resolution says: absent, present without evidence or reason, or
\* with verification evidence or a reason (has_defensible_verification).
Resolutions == {"none", "bare", "defensible"}

\* A status change the contract allows. reopen is the admin's flag, the only
\* way out of a terminal status.
ReviewMove(current, target, role, resolution, reopen) ==
  /\ role \in ReviewMutators
  /\ \/ /\ current \in TerminalReview
        /\ reopen
        /\ role = "admin"
        /\ target = "triaged"
     \/ /\ current \notin TerminalReview
        /\ ~reopen
        /\ target \in ReviewTransitions[current]
        /\ target \in TerminalReview => resolution = "defensible"

\* An admin may assign anyone; a reviewer only themselves, and only a review
\* that is free or already theirs.
CanAssign(role, actor, target, current, nobody) ==
  \/ role = "admin"
  \/ /\ role \in {"reviewer", "remediator"}
     /\ target = actor
     /\ current \in {nobody, actor}

(***************************************************************************)
(* Remediation batches                                                     *)
(***************************************************************************)
BatchTransitions ==
  [draft            |-> {"ready", "cancelled"},
   ready            |-> {"claimed", "cancelled"},
   claimed          |-> {"planning", "blocked", "expired"},
   planning         |-> {"in_progress", "blocked", "expired"},
   in_progress      |-> {"changes_proposed", "blocked", "expired"},
   changes_proposed |-> {"verifying", "in_progress", "blocked"},
   verifying        |-> {"completed", "in_progress", "blocked"},
   blocked          |-> {"ready", "claimed", "cancelled"},
   expired          |-> {"claimed", "cancelled"},
   completed        |-> {},
   cancelled        |-> {}]

BatchStatuses == DOMAIN BatchTransitions

AgentOnlyEdges ==
  {<<"claimed", "planning">>, <<"planning", "in_progress">>,
   <<"in_progress", "changes_proposed">>}

HumanOnlyEdges ==
  {<<"changes_proposed", "verifying">>, <<"verifying", "completed">>}

\* The edge alone: assert_batch_transition without a role.
BatchEdge(current, target) == target \in BatchTransitions[current]

\* The edge for a role: only a lease-holding agent authors, only a human
\* verifies.
BatchMove(current, target, role, hasLease) ==
  /\ BatchEdge(current, target)
  /\ <<current, target>> \in AgentOnlyEdges => role = "agent" /\ hasLease
  /\ <<current, target>> \in HumanOnlyEdges => role \in {"reviewer", "admin"}

(***************************************************************************)
(* Imports                                                                 *)
(***************************************************************************)
ImportTransitions ==
  [uploaded  |-> {"planned", "failed", "cancelled"},
   planned   |-> {"approved", "failed", "cancelled"},
   approved  |-> {"applying", "cancelled"},
   applying  |-> {"applied", "partial", "failed"},
   partial   |-> {"applying", "reversing", "cancelled"},
   applied   |-> {"reversing"},
   reversing |-> {"reversed", "partial", "failed"},
   failed    |-> {"planned", "applying", "reversing", "cancelled"},
   reversed  |-> {},
   cancelled |-> {}]

ImportStatuses == DOMAIN ImportTransitions

\* Recovery out of failed needs the admin's reason.
ImportMove(current, target, reasoned) ==
  /\ target \in ImportTransitions[current]
  /\ current = "failed" => reasoned

(***************************************************************************)
(* Cursors: an opaque token is what was sealed, the context it is bound to *)
(* and its expiry. Authenticated encryption leaves a caller no other way   *)
(* to make one that opens.                                                 *)
(***************************************************************************)
SealCursor(context, payload, now, ttl) ==
  [context |-> context, payload |-> payload, exp |-> now + ttl]

CursorOpens(token, context, now) ==
  /\ token.context = context
  /\ now < token.exp
=============================================================================

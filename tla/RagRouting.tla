----------------------------- MODULE RagRouting -----------------------------
(***************************************************************************)
(* The deterministic routing of an inquiry before any search (data_        *)
(* pipeline/rag_engine.py): the signals read from the inquiry's text and   *)
(* from the collected data, the advisory concepts, and the retrieval       *)
(* profile: mode, primary article, primary action, excluded articles.      *)
(*                                                                         *)
(* Text is the set of the phrase families it contains.  A family stands    *)
(* for phrases that are in the same lists of the code; what distinguishes  *)
(* two families is the lists they are in.                                  *)
(***************************************************************************)
EXTENDS Lists

\* The families that name a separation and the lists they are in: "resigned" is
\* an explicit claim; "left my job" is that and a sign of termination; "prior
\* employer" is a sign of termination and an external source of money.
Explicit   == {"resigned", "left"}
Terminated == {"left", "prior", "separation"}
External   == {"prior", "other_provider"}
Phrases ==
    Explicit \cup Terminated \cup External
    \cup {"rollover", "distribution", "loan", "split", "sixty_day", "force_out", "rmd",
          "into_this_plan", "payable_to", "from_to", "contact", "submit", "options",
          "hardship", "working"}

\* What is asked: the families in the text, the statuses and the data of the
\* participant, and where the plan is kept.
Situation(says, statuses, ended, balances, blackout, rehired, lt, topic) ==
    [says |-> says, statuses |-> statuses, ended |-> ended, balances |-> balances,
     blackout |-> blackout, rehired |-> rehired, lt |-> lt, topic |-> topic]

Says(s, families) == s.says \cap families # {}

-----------------------------------------------------------------------------
(* Signals.                                                                  *)

\* _resolve_employment_state over the fields and the text at hand: a status of
\* active wins over every other field, and a field over the text.
EmploymentState(s, families) ==
    CASE "active" \in s.statuses     -> "active"
      [] "active" \notin s.statuses /\ "terminated" \in s.statuses -> "terminated"
      [] s.statuses = {"inactive"}   -> "inactive"
      [] s.statuses = {} /\ (s.ended \/ Says(s, families)) -> "terminated"
      [] OTHER                       -> "unknown"

InquiryIntent(s) ==
    IF "submit" \notin s.says /\ "options" \in s.says
    THEN "informational_options" ELSE "transactional_submission"

\* An external source, this plan as the destination, and no outgoing payment.
Incoming(s) ==
    \/ s.topic = "incoming_rollover"
    \/ Says(s, External) /\ "into_this_plan" \in s.says /\ "payable_to" \notin s.says

Wants(s, what) == s.topic = what \/ what \in s.says

ForceOut(s) == "force_out" \in s.says \/ \E n \in DOMAIN s.balances : s.balances[n] <= 7000

\* namedEmployer is what required_data opts into.
Termination(s, namedEmployer) ==
    \/ EmploymentState(s, Terminated) = "terminated"
    \/ "terminated" \in s.statuses               \* the data are part of the text
    \/ Says(s, Terminated \cup Explicit)
    \/ namedEmployer /\ Wants(s, "rollover") /\ ~Incoming(s) /\ "from_to" \in s.says

SignalsOf(s, namedEmployer) ==
    [employment   |-> EmploymentState(s, Terminated),
     claimed      |-> Says(s, Explicit),
     rollover     |-> Wants(s, "rollover"),
     distribution |-> Wants(s, "distribution"),
     loan         |-> Wants(s, "loan"),
     split        |-> Wants(s, "rollover") /\ "split" \in s.says,
     sixtyDay     |-> Wants(s, "rollover") /\ "sixty_day" \in s.says,
     forceOut     |-> ForceOut(s),
     rmd          |-> "rmd" \in s.says,
     termination  |-> Termination(s, namedEmployer),
     incoming     |-> Incoming(s),
     contact      |-> "contact" \in s.says,
     intent       |-> InquiryIntent(s)]

-----------------------------------------------------------------------------
(* The profile.                                                            *)

\* The exact procedures that may be asked for.
ExactRollover(s, g) ==
    /\ s.lt /\ g.rollover /\ g.termination
    /\ ~(g.split \/ g.sixtyDay \/ g.forceOut \/ g.rmd)

ExactDistribution(s, g) ==
    s.lt /\ g.distribution /\ g.termination /\ ~(g.forceOut \/ g.rmd)

\* Mutant of ExactLoan: a loan is asked for whatever else is said.
ExactLoanAlways(s, g) == s.lt /\ g.loan

ExactLoan(s, g) ==
    /\ s.lt /\ g.loan
    /\ ~(g.split \/ g.termination \/ g.forceOut \/ g.rmd \/ g.sixtyDay)

ExactIncoming(s, g) ==
    /\ s.lt /\ g.rollover /\ g.incoming
    /\ ~(g.termination \/ g.split \/ g.sixtyDay \/ g.forceOut \/ g.rmd \/ g.loan)

Exact(s, g) ==
    g.sixtyDay \/ ExactRollover(s, g) \/ ExactDistribution(s, g)
    \/ ExactLoan(s, g) \/ ExactIncoming(s, g)

\* The articles that the routing names.
Named == {"split", "sixty_day", "loan", "post_termination", "termination", "force_out", "rmd",
          "in_service", "hardship"}

\* The narrowest procedure wins. Incoming rollovers have no article of their own.
PrimaryArticle(s, g, nobody) ==
    CASE g.sixtyDay -> "sixty_day"
      [] ~g.sixtyDay /\ (ExactRollover(s, g) \/ ExactDistribution(s, g) \/ ExactIncoming(s, g)) ->
           "termination"
      [] ExactLoan(s, g) /\ ~ExactIncoming(s, g) -> "loan"
      [] OTHER -> nobody

PrimaryAction(s, g) ==
    CASE g.sixtyDay -> "indirect_rollover_60_day"
      [] ~g.sixtyDay /\ ExactRollover(s, g) -> "termination_rollover"
      [] ~g.sixtyDay /\ ~ExactRollover(s, g) /\ ExactDistribution(s, g) -> "termination_distribution"
      [] ExactLoan(s, g) -> "loan_request"
      [] ExactIncoming(s, g) -> "incoming_rollover"
      [] OTHER -> "other"

\* The articles kept out, each by the signal that is missing or that is there.
Excluded(s, g) ==
    LET about(article, condition) == IF condition THEN {article} ELSE {}
    IN  UNION {about("split", (g.rollover \/ Exact(s, g)) /\ ~g.split),
               about("sixty_day", (g.rollover \/ Exact(s, g)) /\ ~g.sixtyDay),
               about("loan", (Exact(s, g) /\ ~g.loan) \/ g.claimed),
               about("post_termination", Exact(s, g)),
               about("termination", g.sixtyDay \/ ExactLoan(s, g)),
               about("force_out", ~g.forceOut \/ ExactIncoming(s, g)),
               about("rmd", ~g.rmd),
               about("in_service", g.employment = "terminated" \/ g.claimed),
               about("hardship", g.claimed)}

\* What the collected data say of a termination distribution: the text is that
\* of the data, the first balance known counts.
CoreEligibility(s) ==
    LET state   == EmploymentState(s, {})
        missing == \/ state = "unknown" \/ ~s.ended \/ s.balances = <<>>
                   \/ s.blackout = "unknown"
        blocked == \/ state \in {"active", "inactive"}
                   \/ s.balances # <<>> /\ s.balances[1] <= 75
                   \/ s.blackout = "yes" \/ s.rehired
    IN  ~missing /\ ~blocked

\* detect_advisory_concepts: the concepts that may claim a place in the context.
\* An active participant who wants funds is shown every way to them.
QuotaConcepts == {"termination_request", "in_service", "hardship", "loan"}

Active(s) ==
    "active" \in s.statuses \/ (s.statuses = {} /\ "working" \in s.says)
WantsFunds(s) == Wants(s, "distribution") \/ Wants(s, "rollover")

Listed(concept, condition) == IF condition THEN <<concept>> ELSE <<>>

Alternatives(s) ==
    LET shown == Active(s) /\ WantsFunds(s)
    IN  Listed("in_service", shown)
        \o Listed("hardship", shown \/ Wants(s, "hardship"))
        \o Listed("loan", shown \/ Wants(s, "loan"))
Detected(s) ==
    Listed(s.topic, s.topic \in QuotaConcepts)
    \o Listed("termination_request", Says(s, Terminated) /\ WantsFunds(s))
    \o Listed("hardship", Wants(s, "hardship"))
    \o Listed("loan", Wants(s, "loan"))
    \o Listed("in_service", Active(s) /\ WantsFunds(s))

\* get_required_data takes a named employer one rolls over from for the old one.
Profile(s, namedEmployer, nobody) ==
    LET g == SignalsOf(s, namedEmployer)
    IN  [mode     |-> IF Exact(s, g) THEN "exact_procedure" ELSE "broad_search",
         primary  |-> PrimaryArticle(s, g, nobody),
         action   |-> PrimaryAction(s, g),
         intent   |-> g.intent,
         excluded |-> Excluded(s, g),
         contact  |-> g.contact,
         core     |-> CoreEligibility(s),
         detected |-> Unique(Detected(s)),
         options  |-> Alternatives(s)]
=============================================================================

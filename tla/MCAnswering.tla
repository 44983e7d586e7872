----------------------------- MODULE MCAnswering -----------------------------
(***************************************************************************)
(* What happens inside one attempt, part by part: the inquiries of a       *)
(* ticket and their aggregation, the calls to DevRev, a search of the      *)
(* knowledge base shared by two requests, and an answer from routing to    *)
(* outcome.  The parts share no state here: a behaviour picks one and      *)
(* leaves the others idle.                                                 *)
(***************************************************************************)
EXTENDS TicketExecution, DevRevClient, RagRetrieval, RagAnswer, TLC

VARIABLE part

-----------------------------------------------------------------------------
\* Retrieval: an article of LT Trust, a global one and one of another record
\* keeper.
ArticleIds == <<"lt", "global", "other">>
Keepers    == <<"LT Trust", "global", "Other">>

Want(keeper, topic, mentions, primary, excluded) ==
  [keeper |-> keeper, topic |-> topic, mentions |-> mentions,
   primary |-> primary, excluded |-> excluded]

RetrievalProfiles ==
  {Want("LT Trust", "plain", {2}, NoOne, {}),
   Want("LT Trust", "optional", {}, NoOne, {"other"}),
   Want("Other", "plain", {}, NoOne, {}),
   Want("Other", "global_only", {}, NoOne, {}),
   Want(NoOne, "plain", {}, "lt", {"global"}),
   Want(NoOne, "none", {1}, NoOne, {})}

-----------------------------------------------------------------------------
\* Answers: the termination article, two of concepts, one that no routing
\* names; inquiries that combine a few phrase families over what is known of
\* the participant.
Chunk(index, article, type, tier, tokens, concepts, points) ==
  [article |-> article, type |-> type, category |-> 99, index |-> index, tier |-> tier,
   tokens |-> tokens, concepts |-> concepts, points |-> points]

Base ==
  <<Chunk(1, "termination", "decision_guide", "critical", 2, {"termination_request"}, <<>>),
    Chunk(2, "termination", "eligibility", "critical", 1, {"termination_request"}, <<>>),
    Chunk(3, "termination", "steps", "high", 1, {"termination_request"}, <<>>),
    [Chunk(4, "termination", "business_rules", "high", 2, {"termination_request"}, <<>>)
       EXCEPT !.category = 12],
    Chunk(1, "hardship", "eligibility", "critical", 3, {"hardship", "in_service"}, <<>>),
    Chunk(2, "hardship", "must_have", "high", 1, {"hardship"},
          <<<<"address", "execution_only">>, <<"balance", "always">>>>),
    Chunk(1, "loan", "must_have", "medium", 1, {"loan"},
          <<<<"balance", "execution_only">>, <<"address", "bogus_is_always">>>>),
    Chunk(1, "split", "references", "low", 2, {"loan"}, <<>>)>>

Scored == {[id \in DOMAIN Base |-> IF Base[id].article = "termination" THEN 60 ELSE 10 * id - 20],
           [id \in DOMAIN Base |-> 55 - 5 * id]}

\* What the model may call missing: by the name of a point, by a name that
\* holds two of them, and the engine's own word.
Called == {"the balance", "mailing address", "address and balance", "empty_response"}
Class == [l \in Called |-> CASE l = "the balance" -> "core"
                             [] l = "mailing address" -> "execution" [] OTHER -> "other"]
Known == {"balance", "address"}
Alike == [pair \in Called \X Known |->
            CASE pair[1] = "the balance" /\ pair[2] = "balance" -> 100
              [] pair[1] = "mailing address" /\ pair[2] = "address" -> 50
              [] pair[1] = "address and balance" -> 100
              [] OTHER -> 0]

Inquiries ==
  LET texts == {{"options"} \cup s :
                  s \in SUBSET {"rollover", "distribution", "loan", "sixty_day", "left"}}
               \cup {{"rollover", "prior", "into_this_plan"}, {"submit", "loan"},
                     {"hardship", "split", "rollover", "options"}}
      known == {[statuses |-> {}, ended |-> FALSE, balances |-> <<>>],
                [statuses |-> {"active"}, ended |-> FALSE, balances |-> <<5000>>],
                [statuses |-> {"terminated"}, ended |-> TRUE, balances |-> <<9000>>]}
  IN  {Situation(t, k.statuses, k.ended, k.balances, "no", FALSE, TRUE, "other") :
          t \in texts, k \in known}

Plain == Situation({"options"}, {}, FALSE, <<>>, "no", FALSE, FALSE, "other")

\* An employer named in a rollover to LT Trust, and what may be said besides.
ToLt == {Situation({"rollover", "from_to"} \cup t, {}, FALSE, <<>>, "no", FALSE, TRUE, "other") :
           t \in {{}, {"loan"}, {"split"}, {"sixty_day"}, {"distribution"}}}

Asks == {[kind |-> "response", situation |-> s, budget |-> 5] : s \in Inquiries}
        \cup {[kind |-> k, situation |-> Plain, budget |-> b] :
                k \in {"knowledge", "required"}, b \in {3, 5}}
        \cup {[kind |-> "required", situation |-> s, budget |-> 5] : s \in ToLt}

-----------------------------------------------------------------------------
\* Of a part that is not looked at only what tells that it has not begun is kept.
Away == "away"

AInit ==
  /\ part \in {"execution", "devrev", "retrieval", "answer"}
  /\ Init /\ (part # "execution" => job.mode = "full")
  /\ CallInit
  /\ IF part = "retrieval" THEN SearchInit
     ELSE /\ req = [r \in Requests |-> NoSearch]
          /\ wanted = Away /\ cosine = Away /\ cache = Away /\ score = Away /\ raw = Away
  /\ IF part = "answer" THEN AnswerInit
     ELSE /\ pc = "route" /\ result = None
          /\ asked = Away /\ profile = Away /\ scoring = Away /\ chunks = Away
          /\ relaxed = Away /\ context = Away

OtherVars(p) ==
  /\ part = p /\ UNCHANGED part
  /\ p # "execution" => UNCHANGED evars
  /\ p # "devrev"    => UNCHANGED cvars
  /\ p # "retrieval" => UNCHANGED qvars
  /\ p # "answer"    => UNCHANGED avars

ANext ==
  \/ OtherVars("execution") /\ Next
  \/ OtherVars("devrev")    /\ CallNext
  \/ OtherVars("retrieval") /\ SearchNext
  \/ OtherVars("answer")    /\ AnswerNext

ASpec == AInit /\ [][ANext]_<<part, evars, cvars, qvars, avars>>

\* Objects and cursors of DevRev are alike.
Symmetry == Permutations(Ids) \cup Permutations(Cursors)
=============================================================================

----------------------------- MODULE RagAnswer ------------------------------
(***************************************************************************)
(* One answer of the RAG engine (data_pipeline/rag_engine.py): the         *)
(* pipelines of generate_response and ask_knowledge_question, and the      *)
(* context of get_required_data (whose search is RagRetrieval).            *)
(*                                                                         *)
(* A search returns any chunks: one of its lanes has no filter.  A call of *)
(* a model returns anything, nothing, something else than JSON, JSON       *)
(* without the keys asked for, or runs out of time.  Scores and the        *)
(* confidence are hundredths.                                              *)
(***************************************************************************)
EXTENDS RagRouting, RagContext

CONSTANTS
    Asked,          \* set of [kind, situation, budget]
    Scorings,       \* what a search may score the chunks: set of [DOMAIN Kb -> 0..100]
    MaxFound,       \* most chunks a search returns
    Labels,         \* what a model may call a missing datum
    ClassOf,        \* [Labels -> "core", "identity", "execution" or "other"]
    Points,         \* the data points must_have chunks name
    Likeness,       \* [Labels \X Points -> 0..100]: 100 contained, 34.. alike, 1 a rare word
    Technical,      \* the label of the engine's own fallback
    Nobody

AnswerAssumption ==
    /\ Technical \in Labels /\ ClassOf[Technical] = "other"
    /\ Likeness \in [Labels \X Points -> 0 .. 100]
    /\ \A p \in Points : Likeness[<<Technical, p>>] = 0
    /\ \A id \in DOMAIN Kb : \A n \in DOMAIN Kb[id].points :
          Kb[id].type = "must_have" /\ Kb[id].points[n][1] \in Points
    /\ Scorings \subseteq [DOMAIN Kb -> 0 .. 100]
    /\ \A a \in Asked : /\ a.kind \in {"response", "knowledge", "required"} /\ a.budget \in Nat
                       /\ DOMAIN a = {"kind", "situation", "budget"}

ASSUME AnswerConstants == AnswerAssumption
ASSUME NobodyIsNoArticle == Nobody \notin Named

Rescuable == {"execution_only", "personalization_only"}
Intended  == Rescuable \cup {"always", "eligibility_confirmation"}
Verdicts  == {"can_proceed", "blocked_not_eligible", "blocked_missing_data",
              "ambiguous_plan_rules"}

VARIABLES
    pc,
    asked,          \* what is asked; its situation is forgotten once routed
    profile,        \* the retrieval profile, Nobody before
    scoring,
    chunks,         \* the chunks at hand
    relaxed,        \* the exclusions have been lifted
    context,        \* selected_chunks
    result

avars == <<pc, asked, profile, scoring, chunks, relaxed, context, result>>

None == [decision |-> "none", outcome |-> "none", error |-> "none", rescue |-> "none",
         failed |-> FALSE, missing |-> {}]

AnswerInit ==
    /\ pc = "route"
    /\ asked \in Asked
    /\ profile = Nobody
    /\ scoring \in Scorings
    /\ chunks = <<>> /\ relaxed = FALSE /\ context = <<>>
    /\ result = None

Conclude(fields) == pc' = "done" /\ result' = With(None, fields)

AtMost(n, cap) == IF n > cap THEN cap ELSE n

-----------------------------------------------------------------------------
(* Retrieval.                                                              *)

\* The chunks of the ids, with their scores.
AllOf(ids, scores) ==
    LET line == Picked([id \in DOMAIN Kb |-> id], ids)
    IN  [n \in DOMAIN line |-> Retrieved(line[n], scores[line[n]])]

\* The profile is built before any search; a knowledge question has none. The
\* required data are asked for with no collected data.
Route ==
    /\ pc = "route"
    /\ profile' = [Profile(asked.situation, asked.kind = "required", Nobody) EXCEPT
                     !.mode = IF asked.kind = "response" THEN @ ELSE "broad_search"]
    /\ asked' = [asked EXCEPT !.situation = Nobody]
    /\ pc' = IF profile'.mode = "exact_procedure" THEN "fetch" ELSE "search"
    /\ UNCHANGED <<scoring, chunks, relaxed, context, result>>

\* _exact_procedure_chunk_score.
ExactScore(id) ==
    LET rank == CHOOSE n \in DOMAIN ExactTypes : ExactTypes[n] = Kb[id].type
        tier == CASE Kb[id].tier = "critical" -> 2 [] Kb[id].tier = "high" -> 1 [] OTHER -> 0
    IN  Min({99, 98 - 2 * rank + tier})

Enough(list) ==
    LET types == {Type(list[i]) : i \in DOMAIN list}
    IN  /\ Len(list) >= ExactMinChunks
        /\ types \cap {"eligibility", "business_rules"} # {} /\ "steps" \in types

\* The chunks a search found go through the exclusions, which are lifted when
\* they would leave nothing.
Take(list) ==
    LET kept == NotExcludedOf(list, profile)
    IN  /\ chunks' = IF kept = <<>> THEN list ELSE kept
        /\ relaxed' = (kept = <<>>)
        /\ pc' = "bundle"
        /\ UNCHANGED result

\* The article the inquiry was routed to is fetched; without enough of it the
\* engine searches.
Fetch ==
    /\ pc = "fetch"
    /\ \E got \in SUBSET {id \in DOMAIN Kb : Kb[id].article = profile.primary} :
         LET usable == {id \in got : Kb[id].type \in ToSet(Allowed(profile))}
             list   == ByScore(AllOf(usable, [id \in usable |-> ExactScore(id)]))
         IN  IF Enough(list) THEN Take(list)
             ELSE pc' = "search" /\ UNCHANGED <<chunks, relaxed, result>>
    /\ UNCHANGED <<asked, profile, scoring, context>>

\* The lanes of the cascade and its fallback, merged and ranked.
Search ==
    /\ pc = "search"
    /\ \E found \in SUBSET DOMAIN Kb :
         LET list == ByScore(AllOf(found, scoring))
         IN  /\ Cardinality(found) <= MaxFound
             /\ CASE found = {} ->
                       /\ Conclude([decision |-> IF asked.kind = "response" THEN "out_of_scope"
                                            ELSE "limited_coverage",
                               outcome |-> "blocked_missing_data",
                               error |-> "no_relevant_articles"])
                       /\ UNCHANGED <<chunks, relaxed, context>>
                  [] found # {} /\ asked.kind = "response" ->
                       Take(list) /\ UNCHANGED context
                  [] found # {} /\ asked.kind = "knowledge" ->
                       /\ context' = DiverseContext(list, KnowledgeFirst, asked.budget)
                       /\ chunks' = list /\ pc' = "answer"
                       /\ UNCHANGED <<relaxed, result>>
                  [] found # {} /\ asked.kind = "required" ->
                       /\ context' = IF profile.primary = Nobody
                                     THEN DiverseContext(list, RequiredFirst, asked.budget)
                                     ELSE PrimaryFirstContext(list, profile.primary, asked.budget)
                       /\ chunks' = list /\ pc' = "done"
                       /\ UNCHANGED <<relaxed, result>>
    /\ UNCHANGED <<asked, profile, scoring>>

-----------------------------------------------------------------------------
(* Bundles and packing.                                                    *)

QuotaOf(list) ==
    Picked(Unique(list), {i \in DOMAIN Unique(list) : Unique(list)[i] \in QuotaConcepts})
Concepts == QuotaOf(profile.detected \o profile.options)

\* The articles a concept asks for that a chunk shows near enough: for each
\* concept the best, alternatives first, then the others.
Near ==
    Picked(chunks, {i \in DOMAIN chunks : /\ chunks[i].score >= 20
                                          /\ Serves(chunks[i], ToSet(Concepts))
                                          /\ Article(chunks[i]) \notin profile.excluded})
BestOf(article, list) == ByScore(OfArticle(list, article))[1].score
Without(articles, taken) ==
    Picked(articles, {i \in DOMAIN articles : articles[i] \notin ToSet(taken)})
AboutConcept(articles, concept, list) ==
    Picked(articles, {i \in DOMAIN articles : Serving(OfArticle(list, articles[i]), {concept}) # <<>>})

BundledArticles ==
    LET near     == Near
        seen     == Seen(near)
        ranked   == SortedBy(seen, [i \in DOMAIN seen |-> -BestOf(seen[i], near)])
        concepts == QuotaOf(profile.options \o profile.detected)
        more(taken, concept) ==
            LET serving == AboutConcept(Without(ranked, taken), concept, near)
            IN  IF serving = <<>> THEN taken ELSE Append(taken, serving[1])
        chosen[n \in 0 .. Len(concepts)] ==
            IF n = 0 THEN <<>> ELSE more(chosen[n - 1], concepts[n])
        all == chosen[Len(concepts)] \o Without(ranked, chosen[Len(concepts)])
    IN  SubSeq(all, 1, Min({6, Len(all)}))

\* The chunks a bundle adds: they are scored by the best chunk of their article.
Bundle(article) ==
    LET fresh == {id \in DOMAIN Kb : /\ Kb[id].article = article /\ Kb[id].type \in BundleTypes
                                     /\ id \notin IdsOf(chunks)}
    IN  AllOf(fresh, [id \in fresh |-> AtMost(BestOf(article, chunks) + 5, 95)])

\* The articles of the concepts are fetched whole, then everything is ranked and
\* packed. An exact procedure takes no bundles.
Pack ==
    LET exact  == profile.mode = "exact_procedure"
        added  == IF exact \/ Concepts = <<>> THEN <<>>
                  ELSE LET articles == BundledArticles
                       IN  Concatenated([n \in DOMAIN articles |-> Bundle(articles[n])])
        ranked == ByRank(chunks \o added, ToSet(profile.detected \o profile.options), {})
    IN  /\ pc = "bundle"
        /\ chunks' = ranked
        /\ context' = IF exact THEN ExactContext(ranked, profile, asked.budget)
                      ELSE TieredContext(ranked, Concepts, asked.budget)
        /\ pc' = "phase1"
        /\ UNCHANGED <<asked, profile, scoring, relaxed, result>>

-----------------------------------------------------------------------------
(* What the must_have chunks say of a missing datum.                       *)

\* Mutant of Record: the last chunk wins.
RecordLast(intents, entry) ==
    Append(Picked(intents, {n \in DOMAIN intents : intents[n][1] # entry[1]}), entry)

\* The intents recorded so far, with one more: the stricter stays.
Record(intents, entry) ==
    LET at == {n \in DOMAIN intents : intents[n][1] = entry[1]}
        n  == CHOOSE k \in at : TRUE
    IN  CASE at = {} -> Append(intents, entry)
          [] at # {} /\ (\/ intents[n][2] = "always"
                         \/ intents[n][2] \notin Rescuable /\ entry[2] \in Rescuable) -> intents
          [] OTHER -> [intents EXCEPT ![n] = entry]

Intents ==
    LET telling == OfTypes(context, {"must_have"})
        entries == Concatenated([i \in DOMAIN telling |-> Kb[telling[i].id].points])
        sure(e) == <<e[1], IF e[2] \in Intended THEN e[2] ELSE "always">>
        known[n \in 0 .. Len(entries)] ==
          IF n = 0 THEN <<>> ELSE Record(known[n - 1], sure(entries[n]))
    IN  known[Len(entries)]

\* _resolve_missing_intent: the first point whose name is contained, or the most
\* alike, or one that shares a rare word; what matches nothing blocks.
Resolve(label, intents) ==
    LET like(n)  == Likeness[<<label, intents[n][1]>>]
        within   == {n \in DOMAIN intents : like(n) = 100}
        alike    == {n \in DOMAIN intents : like(n) \in 34 .. 99}
        best     == {n \in alike : \A k \in alike : like(k) <= like(n)}
        rare     == {n \in DOMAIN intents : like(n) \in 1 .. 33}
    IN  CASE within # {} -> intents[Min(within)][2]
          [] within = {} /\ alike # {} -> intents[Min(best)][2]
          [] within = {} /\ alike = {} /\ rare # {} -> intents[Min(rare)][2]
          [] OTHER -> "always"

\* _apply_informational_outcome_policy: whether, and by which path, a blocked
\* answer becomes one that can proceed. Intents, when there are any, decide alone.
Rescue(outcome, missing) ==
    LET byIntent == Intents # <<>> /\ missing # {}
    IN  CASE outcome # "blocked_missing_data" -> "none"
          [] outcome = "blocked_missing_data" /\ profile.intent # "informational_options" -> "none"
          [] OTHER ->
               IF byIntent
               THEN IF \A label \in missing : Resolve(label, Intents) \in Rescuable
                    THEN "blocking_intent" ELSE "none"
               ELSE IF /\ profile.action \in {"termination_distribution", "termination_rollover"}
                       /\ profile.core
                       /\ \A label \in missing : ClassOf[label] # "core"
                    THEN "legacy_lt_termination" ELSE "none"

-----------------------------------------------------------------------------
(* The answer.                                                             *)

\* _calculate_confidence over the first three chunks, their tiers and types, and
\* the gaps the model reports, which cap it.
Confidence(gaps) ==
    LET top      == SubSeq(context, 1, AtMost(Len(context), 3))
        sum      == FoldLeft(LAMBDA s, c : s + c.score, 0, top)
        critical == Cardinality({i \in DOMAIN context : Kb[context[i].id].tier = "critical"})
        types    == {Type(context[i]) : i \in DOMAIN context} \cap HighValue
        quality  == (40 * sum) \div (100 * Len(top)) + (15 * AtMost(critical, 2)) \div 2
                    + 2 * Cardinality(types) + 2 * AtMost(Len(context), 5)
    IN  CASE context = <<>> -> 0
          [] context # <<>> /\ gaps = 0 -> AtMost(quality + 25, 100)
          [] context # <<>> /\ gaps = 1 -> AtMost(quality + 10, 100)
          [] context # <<>> /\ gaps = 2 -> AtMost(quality + 5, 45)
          [] OTHER -> AtMost(quality, 30)

Floor(outcome) ==
    CASE outcome \in {"can_proceed", "blocked_not_eligible"} -> 65
      [] outcome = "blocked_missing_data" -> 55
      [] outcome = "ambiguous_plan_rules" -> 50

Decision(outcome, gaps) ==
    LET confidence == Max({Floor(outcome), Confidence(gaps)})
    IN  CASE confidence >= 65 -> "can_proceed"
          [] confidence \in 45 .. 64 -> "uncertain"
          [] OTHER -> "out_of_scope"

\* The first call only looks for inquiries that are none of the plan's. Nothing
\* from it, or no JSON, is no reason to stop.
Phase1 ==
    /\ pc = "phase1"
    /\ \/ Conclude([decision |-> "out_of_scope", outcome |-> "out_of_scope_inquiry"])
       \/ pc' = "answer" /\ UNCHANGED result
    /\ UNCHANGED <<asked, profile, scoring, chunks, relaxed, context>>

\* What the second call leaves: an answer of the model, or the engine's own for
\* none, for one that is no JSON or lacks its keys, and for one out of time.
Heard ==
    {[outcome |-> o, missing |-> m, gaps |-> g, failed |-> FALSE] :
        o \in Verdicts, m \in {s \in SUBSET (Labels \ {Technical}) : Cardinality(s) <= 2},
        g \in {0, 2, 3}}
    \cup {[outcome |-> "blocked_missing_data", missing |-> {Technical}, gaps |-> 0, failed |-> TRUE],
          [outcome |-> "ambiguous_plan_rules", missing |-> {Technical}, gaps |-> 0, failed |-> TRUE]}

Answer ==
    /\ pc = "answer" /\ asked.kind = "response"
    /\ \E heard \in Heard :
         LET rescue  == Rescue(heard.outcome, heard.missing)
             outcome == IF rescue = "none" THEN heard.outcome ELSE "can_proceed"
         IN  Conclude([decision |-> Decision(outcome, heard.gaps), outcome |-> outcome,
                  rescue |-> rescue, failed |-> heard.failed, missing |-> heard.missing])
    /\ UNCHANGED <<asked, profile, scoring, chunks, relaxed, context>>

\* _calculate_knowledge_confidence: the gaps first, then the chunks.
KnowledgeTypes == {"business_rules", "eligibility", "steps"}
Coverage(gaps) ==
    LET top  == SubSeq(context, 1, AtMost(Len(context), 5))
        mean == FoldLeft(LAMBDA s, c : s + c.score, 0, top) \div Len(top)
        kinds == Cardinality({Type(context[i]) : i \in DOMAIN context} \cap KnowledgeTypes)
    IN  CASE context = <<>> \/ gaps >= 3 -> "limited_coverage"
          [] context # <<>> /\ gaps = 2 -> "partially_covered"
          [] context # <<>> /\ gaps = 1 ->
               IF mean >= 35 /\ kinds >= 3 THEN "partially_covered" ELSE "limited_coverage"
          [] OTHER -> CASE mean >= 35 /\ kinds >= 3 -> "well_covered"
                        [] ~(mean >= 35 /\ kinds >= 3) /\ mean >= 22 /\ kinds >= 2 ->
                             "partially_covered"
                        [] OTHER -> "limited_coverage"

\* An empty answer, or one that is no JSON, is answered with no gaps.
AnswerKnowledge ==
    /\ pc = "answer" /\ asked.kind = "knowledge"
    /\ \E gaps \in 0 .. 3, failed \in BOOLEAN :
         /\ failed => gaps = 0
         /\ Conclude([decision |-> Coverage(gaps), outcome |-> "answered", failed |-> failed])
    /\ UNCHANGED <<asked, profile, scoring, chunks, relaxed, context>>

\* An exception ends it: of the index, of a model where none is expected, or over
\* JSON that is no object.
Fail ==
    /\ pc \in {"fetch", "search", "bundle", "phase1", "answer"}
    /\ Conclude([decision |-> IF asked.kind = "knowledge" THEN "limited_coverage" ELSE "out_of_scope",
            outcome |-> "blocked_missing_data", error |-> "failed", failed |-> TRUE])
    /\ UNCHANGED <<asked, profile, scoring, chunks, relaxed, context>>

AnswerNext == Route \/ Fetch \/ Search \/ Pack \/ Phase1 \/ Answer \/ AnswerKnowledge \/ Fail

AnswerSpec == AnswerInit /\ [][AnswerNext]_avars

-----------------------------------------------------------------------------
(* Properties.                                                             *)

\* The article an inquiry is routed to is never among those its signals keep
\* out, whatever signals come together.
PrimaryIsNotExcluded == pc # "route" => profile.primary \notin profile.excluded

\* A context over many articles leaves out only what does not fit: every chunk
\* at hand that is not in it would break the budget or the cap of its article.
ContextIsFull ==
    /\ pc \in {"phase1", "answer"}
    /\ asked.kind = "knowledge" \/ (profile.mode = "broad_search" /\ ~Dominant(chunks))
    => \A i \in DOMAIN chunks :
         chunks[i].id \notin IdsOf(context) =>
             \/ CountOf(context, Article(chunks[i])) >= PerArticle
             \/ TokensOf(context) + Kb[chunks[i].id].tokens > asked.budget

\* Of what two articles say of one datum the stricter counts: an answer is not
\* rescued over a datum that some chunk of its context marks as blocking.
StrictestIntentBlocks ==
    result.rescue = "blocking_intent" =>
        \A label \in result.missing, i \in DOMAIN context :
            \A n \in DOMAIN Kb[context[i].id].points :
                LET entry == Kb[context[i].id].points[n]
                IN  {p \in Points : Likeness[<<label, p>>] > 0} = {entry[1]}
                    => entry[2] \in Rescuable

\* "Automated response generation failed. Please route to a human agent": an
\* answer the engine made up for a failed generation does not proceed.
FailureDoesNotProceed == result.failed => result.outcome # "can_proceed"

\* "relaxing exclusions to avoid false-negative response": what is left when the
\* exclusions are lifted reaches the context the answer is written from.
RelaxedReachesContext == pc = "answer" /\ relaxed => context # <<>>
=============================================================================

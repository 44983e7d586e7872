----------------------------- MODULE RagContext -----------------------------
(***************************************************************************)
(* The context of a prompt (data_pipeline/rag_engine.py): which of the     *)
(* retrieved chunks are packed into the token budget, and in which order,  *)
(* for the answer with a dominant article, the answer over many articles,  *)
(* the exact procedure, the required data and the knowledge question.      *)
(*                                                                         *)
(* A chunk is an entry of the knowledge base; a retrieved chunk is its id  *)
(* and its score in hundredths.                                            *)
(***************************************************************************)
EXTENDS Lists

CONSTANTS
    Kb,             \* sequence of [article, type, category, index, tier, tokens, concepts, points]
    PerArticle,     \* GR_MAX_CHUNKS_PER_ARTICLE
    DominantCap,    \* GR_DOMINANCE_MAX_CHUNKS_SINGLE
    DominantMin,    \* GR_DOMINANCE_MIN_CHUNKS
    DominantSignal, \* GR_DOMINANCE_MIN_TOP_SIGNAL
    OptionsCap      \* the cap of an informational exact procedure

\* The tiers that the chunker gives.
Tiers == {"critical", "high", "medium", "low"}

ContextAssumption ==
    /\ PerArticle \in Nat \ {0} /\ DominantCap \in Nat /\ DominantCap >= PerArticle
    /\ OptionsCap \in Nat /\ OptionsCap >= DominantCap /\ DominantMin \in Nat
    /\ Kb \in Seq([article : STRING, type : STRING, tier : Tiers, tokens : Nat,
                   category : Nat, index : Nat, concepts : SUBSET STRING, points : Seq(STRING \X STRING)])

ASSUME ContextConstants == ContextAssumption

ExactMinChunks == 4
HighValue == {"decision_guide", "business_rules", "eligibility", "must_have", "response_frames"}
BundleTypes == {"decision_guide", "response_frames", "eligibility", "business_rules", "steps"}
\* Neither exact context has a place for required_data_must_have.
OptionsTypes == <<"decision_guide", "eligibility", "business_rules", "steps">>
ExactTypes   == <<"decision_guide", "eligibility", "steps", "business_rules", "response_frames">>

Retrieved(id, score) == [id |-> id, score |-> score]
Article(c) == Kb[c.id].article
Type(c)    == Kb[c.id].type
Serves(c, concepts) == Kb[c.id].concepts \cap concepts # {}

ByScore(list) == SortedBy(list, [i \in DOMAIN list |-> -list[i].score])

-----------------------------------------------------------------------------
(* Packing.                                                                *)

IdsOf(list) == {list[i].id : i \in DOMAIN list}
CountOf(list, article) == Cardinality({id \in IdsOf(list) : Kb[id].article = article})
TokensOf(list) ==
    LET upTo[n \in 0 .. Len(Kb)] ==
          IF n = 0 THEN 0
          ELSE upTo[n - 1] + (IF n \in IdsOf(list) THEN Kb[n].tokens ELSE 0)
    IN  upTo[Len(Kb)]

\* Mutant of TryAdd: what would use the budget up is refused.
TryAddTight(packed, c, cap, budget) ==
    IF /\ c.id \notin IdsOf(packed)
       /\ CountOf(packed, Article(c)) < cap
       /\ TokensOf(packed) + Kb[c.id].tokens < budget
    THEN Append(packed, c) ELSE packed

\* A chunk that is in stays in; one over the cap of its article or the budget is
\* refused.
TryAdd(packed, c, cap, budget) ==
    IF /\ c.id \notin IdsOf(packed)
       /\ CountOf(packed, Article(c)) < cap
       /\ TokensOf(packed) + Kb[c.id].tokens <= budget
    THEN Append(packed, c) ELSE packed

\* A chunk that does not fit leaves room for a smaller one after it. caps[i] is
\* the cap for list[i].
FillEach(packed, list, caps, budget) ==
    LET upTo[n \in 0 .. Len(list)] ==
          IF n = 0 THEN packed ELSE TryAdd(upTo[n - 1], list[n], caps[n], budget)
    IN  upTo[Len(list)]
Fill(packed, list, cap, budget) == FillEach(packed, list, [n \in DOMAIN list |-> cap], budget)

\* The best chunk of each article, the first of equals, best article first.
BestOfEach(chunks) ==
    LET best(i) == \A j \in DOMAIN chunks :
                      Article(chunks[j]) = Article(chunks[i]) =>
                          \/ chunks[j].score < chunks[i].score
                          \/ chunks[j].score = chunks[i].score /\ j >= i
    IN  ByScore(Picked(chunks, {i \in DOMAIN chunks : best(i)}))

OfTypes(chunks, types) == Picked(chunks, {i \in DOMAIN chunks : Type(chunks[i]) \in types})
NotOfTypes(chunks, types) == Picked(chunks, {i \in DOMAIN chunks : Type(chunks[i]) \notin types})
OfArticles(chunks, articles) ==
    Picked(chunks, {i \in DOMAIN chunks : Article(chunks[i]) \in articles})
OfArticle(chunks, article) == OfArticles(chunks, {article})
OfTier(chunks, tier) == Picked(chunks, {i \in DOMAIN chunks : Kb[chunks[i].id].tier = tier})
Serving(chunks, concepts) ==
    Picked(chunks, {i \in DOMAIN chunks : Serves(chunks[i], concepts)})

-----------------------------------------------------------------------------
(* The rank of a chunk for the concepts of the inquiry.                    *)

TierBonus(c) ==
    CASE Kb[c.id].tier = "critical" -> 8 [] Kb[c.id].tier = "high" -> 5
      [] Kb[c.id].tier = "medium" -> 2   [] OTHER -> 0
TypeBonus(c) ==
    CASE Type(c) \in HighValue -> 6
      [] Type(c) \in BundleTypes \ HighValue -> 5
      [] Type(c) \notin BundleTypes \cup HighValue -> 0
RankScore(c, concepts, topics) ==
    c.score + TierBonus(c) + TypeBonus(c)
    + (IF Serves(c, concepts) THEN 8 ELSE 0)
    + (IF Serves(c, topics) THEN 4 ELSE 0)
    - (IF Type(c) = "references" THEN 12 ELSE 0)

ByRank(list, concepts, topics) ==
    SortedBy(list, [i \in DOMAIN list |-> -RankScore(list[i], concepts, topics)])

-----------------------------------------------------------------------------
(* The answer's context.                                                   *)

\* The sum of the best three scores of an article.
Signal(chunks, article) ==
    LET ranked == ByScore(OfArticle(chunks, article))
    IN  FoldLeft(LAMBDA sum, c : sum + c.score, 0,
                 SubSeq(ranked, 1, Min({3, Len(ranked)})))

\* The articles, strongest first, of equals the one seen first.
Seen(chunks) == Unique([i \in DOMAIN chunks |-> Article(chunks[i])])
Articles(chunks) ==
    LET seen == Seen(chunks)
    IN  SortedBy(seen, [i \in DOMAIN seen |-> -Signal(chunks, seen[i])])

\* An article that far outscores the next takes the context.
Dominant(chunks) ==
    LET articles == Articles(chunks)
        top    == Signal(chunks, articles[1])
        next   == IF Len(articles) > 1 THEN Signal(chunks, articles[2]) ELSE 0
    IN  /\ top >= DominantSignal /\ 100 * next <= 40 * top
        /\ CountOf(chunks, articles[1]) >= DominantMin

\* Every concept asked for gets one chunk more, if one fits.
OneFor(packed, ranked, budget) ==
    LET fits == {i \in DOMAIN ranked : TryAdd(packed, ranked[i], PerArticle, budget) # packed}
    IN  IF fits = {} THEN packed ELSE Append(packed, ranked[Min(fits)])
Quota(packed, chunks, concepts, budget) ==
    LET ranked(concept) == ByRank(Serving(chunks, {concept}), ToSet(concepts), {concept})
        upTo[n \in 0 .. Len(concepts)] ==
          IF n = 0 THEN packed ELSE OneFor(upTo[n - 1], ranked(concepts[n]), budget)
    IN  upTo[Len(concepts)]

ByTier(chunks) ==
    OfTier(chunks, "critical") \o OfTier(chunks, "high")
    \o OfTier(chunks, "medium") \o OfTier(chunks, "low")

TieredContext(chunks, concepts, budget) ==
    LET heard    == Quota(<<>>, chunks, concepts, budget)
        articles == Articles(chunks)
        ofTop    == ByScore(OfArticle(chunks, articles[1]))
        runnerUp == SubSeq(ByScore(OfArticle(chunks, articles[2])), 1, 1)
        dominant == Fill(heard, ofTop, DominantCap, budget)
        diverse  == Fill(heard, BestOfEach(chunks), PerArticle, budget)
    IN  ByScore(IF Dominant(chunks)
                THEN IF Len(articles) > 1 THEN Fill(dominant, runnerUp, PerArticle, budget)
                     ELSE dominant
                ELSE Fill(diverse, ByTier(chunks), PerArticle, budget))

\* _build_exact_procedure_context: the primary article's chunks, or those of any
\* article that is not excluded, in the order of their types.
Allowed(profile) ==
    IF profile.intent = "informational_options" THEN OptionsTypes ELSE ExactTypes
NotExcludedOf(chunks, profile) ==
    Picked(chunks, {i \in DOMAIN chunks : Article(chunks[i]) \notin profile.excluded})

\* _exact_context_sort_key, from the last key to the first. category is the
\* place of a chunk's category in the informational order, 99 without one; the
\* business rules past the tenth are put last.
ExactOrder(list, profile) ==
    LET order    == Allowed(profile)
        options  == profile.intent = "informational_options"
        late(c)  == options /\ Type(c) = "business_rules" /\ Kb[c.id].category > 9
        place(c) == IF late(c) THEN Len(order) + 1
                    ELSE CHOOSE n \in DOMAIN order : order[n] = Type(c)
        category(c) == IF options THEN Kb[c.id].category ELSE 99
        indexed  == SortedBy(list, [i \in DOMAIN list |-> Kb[list[i].id].index])
        scored   == ByScore(indexed)
        grouped  == SortedBy(scored, [i \in DOMAIN scored |-> category(scored[i])])
    IN  SortedBy(grouped, [i \in DOMAIN grouped |-> place(grouped[i])])

ExactContext(chunks, profile, budget) ==
    LET allowed  == OfTypes(NotExcludedOf(chunks, profile), ToSet(Allowed(profile)))
        primary  == OfArticle(allowed, profile.primary)
        own      == IF primary # <<>> THEN primary ELSE allowed
        listed   == ExactOrder(own, profile)
        cap(c)   == CASE Article(c) # profile.primary -> PerArticle
                      [] Article(c) = profile.primary /\ profile.intent = "informational_options" ->
                           OptionsCap
                      [] OTHER -> DominantCap
    IN  FillEach(<<>>, listed, [i \in DOMAIN listed |-> cap(listed[i])], budget)

\* _build_context_with_diversity: the best of each article, then the types a
\* knowledge question or the required data put first, then the others.
KnowledgeFirst == {"business_rules", "eligibility", "steps"}
RequiredFirst  == {"must_have", "eligibility", "business_rules"}
DiverseContext(chunks, types, budget) ==
    LET diverse == Fill(<<>>, BestOfEach(chunks), PerArticle, budget)
    IN  ByScore(Fill(diverse, OfTypes(chunks, types) \o NotOfTypes(chunks, types),
                     PerArticle, budget))

\* _build_required_data_context_primary_first: the primary article up to its cap,
\* whether or not they fit, then one chunk of each of the next two articles.
PrimaryFirstContext(chunks, primary, budget) ==
    LET typeRank(c) == CASE Type(c) = "must_have" -> 0 [] Type(c) = "eligibility" -> 1000
                         [] Type(c) = "business_rules" -> 2000 [] OTHER -> 99000
        own    == OfArticle(chunks, primary)
        first  == SortedBy(own, [i \in DOMAIN own |-> typeRank(own[i]) - own[i].score])
        packed == Fill(<<>>, SubSeq(first, 1, Min({PerArticle, Len(first)})), PerArticle, budget)
        rest   == Picked(chunks, {i \in DOMAIN chunks : Article(chunks[i]) # primary})
        next   == ToSet(SubSeq(Seen(rest), 1, Min({2, Len(Seen(rest))})))
    IN  ByScore(Fill(packed, OfArticles(rest, next), 1, budget))
=============================================================================

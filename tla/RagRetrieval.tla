---------------------------- MODULE RagRetrieval ----------------------------
(***************************************************************************)
(* get_required_data of the RAG engine (data_pipeline/rag_engine.py): the  *)
(* cascade of filtered searches, the boosts, the article the request was   *)
(* routed to, the quality gates and the extraction.                        *)
(*                                                                         *)
(* Requests run concurrently in one process and share the cache of search  *)
(* results.  What the cache keeps is the very chunks a request goes on to  *)
(* boost, so a chunk is an object here: the request that fetched it, the   *)
(* key it was fetched under and the chunk.  Scores are hundredths.         *)
(***************************************************************************)
EXTENDS Lists

CONSTANTS
    Chunks,         \* required_data_must_have chunks, a set of numbers
    ArticleId,      \* [Chunks -> article id]
    Keeper,         \* [Chunks -> record keeper or "global"]
    Topical,        \* chunks of the topic in question
    Cosines,        \* the scores the index may return
    Requests,       \* concurrent requests
    Profiles,       \* what may be asked, with the retrieval profile it gets
    NoOne           \* not in the cache; no primary article; no record keeper

Default == "LT Trust"     \* RK_FALLBACK_DEFAULT

RetrievalAssumption ==
    /\ Chunks \subseteq Nat /\ IsFiniteSet(Chunks) /\ Cosines \subseteq 0 .. 100
    /\ NoOne \notin Requests /\ NoOne # Default
    /\ \A p \in Profiles : p.keeper # "fetched"

ASSUME RetrievalConstants == RetrievalAssumption

MinChunks == 1            \* RK_CASCADE_MIN_*
MinScore == 15
StagedScore == 20         \* RK_PRIMARY_SUFFICIENT_SCORE
GateScore == 25           \* RD_RETRIEVAL_MIN_*
GateRaw == 18
TopicLaneMin == 2
MaxArticles == 3
BoostRk == 5
BoostTopic == 3
BoostSubtopic == 2
BoostCap == 10

VARIABLES
    wanted,     \* [Requests -> Profiles]
    cosine,     \* [Chunks -> the score of the index for the query]
    cache,      \* _search_cache: key -> the request whose objects it holds
    score,      \* of an object
    raw,        \* of an object, its raw_score or -1
    req         \* the requests' local state

qvars == <<wanted, cosine, cache, score, raw, req>>

Filters == {Keeper[c] : c \in Chunks} \cup {p.keeper : p \in Profiles}
           \cup {"global", Default, "any", "fetched"}
Keys    == Filters \X BOOLEAN         \* the filter, and whether the topic is in it
Objects == Requests \X Keys \X Chunks

-----------------------------------------------------------------------------
(* Lists of chunks.                                                        *)

ChunkOf(o) == o[3]
ArticleOf(o) == ArticleId[ChunkOf(o)]

\* The members of S in a strict order of them, a set of pairs.
Line(S, order) ==
    [n \in 1 .. Cardinality(S) |->
        CHOOSE x \in S : Cardinality({y \in S : <<y, x>> \in order}) = n - 1]

\* list.sort(key=score, reverse=True).
Ranked(list, points) == SortedBy(list, [i \in DOMAIN list |-> -points[list[i]]])

\* _merge_and_rank_chunks: of the objects of one chunk the first stays.
Merged(these, those, points) ==
    LET all   == these \o those
        first == {i \in DOMAIN all : \A j \in 1 .. i - 1 : ChunkOf(all[j]) # ChunkOf(all[i])}
    IN  Ranked(Picked(all, first), points)

\* _rk_results_sufficient.
Sufficient(list, least) == Len(list) >= MinChunks /\ score[list[1]] >= least

-----------------------------------------------------------------------------
(* _build_rk_cascade and the order _run_required_data_rk_cascade takes it. *)

Level(filters, rule) == [filters |-> filters, rule |-> rule]
Tail2(keeper) == (IF keeper = Default THEN <<>> ELSE <<Level({Default}, "iterate")>>)
                 \o <<Level({"any"}, "iterate")>>

\* staged: one filter whose chunks may be enough; join: what comes is kept;
\* iterate: a level counts only if it is enough. A topic with global articles
\* only takes no filter by keeper, and one without articles of some keepers
\* does not stop at the keeper's in its own lane, the scoped one.
Levels(p, scoped) ==
    CASE p.keeper = NoOne ->
           <<Level({"global"}, "iterate"), Level({Default}, "iterate"), Level({"any"}, "iterate")>>
      [] p.keeper # NoOne /\ p.topic = "global_only" ->
           <<Level({"global"}, "iterate"), Level({"any"}, "iterate")>>
      [] p.keeper = Default /\ p.topic # "global_only" /\ ~(scoped /\ p.topic = "optional") ->
           <<Level({Default}, "staged"), Level({"global"}, "join")>> \o Tail2(Default)
      [] OTHER ->
           <<Level({p.keeper, "global"}, "join")>> \o Tail2(p.keeper)

\* What the index has for a key, best first.
Matches(key) ==
    {c \in Chunks : (key[1] = "any" \/ Keeper[c] = key[1]) /\ (key[2] => c \in Topical)}

-----------------------------------------------------------------------------
NoSearch == [pc |-> "search", scoped |-> FALSE, level |-> 1, own |-> {}, hits |-> <<>>,
         acc |-> <<>>, saved |-> <<>>, verdict |-> "none"]

SearchInit ==
    /\ wanted \in [Requests -> Profiles]
    /\ cosine \in [Chunks -> Cosines]
    /\ cache = [k \in Keys |-> NoOne]
    /\ score = [o \in Objects |-> cosine[ChunkOf(o)]]
    /\ raw = [o \in Objects |-> -1]
    /\ req = [r \in Requests |-> [NoSearch EXCEPT !.scoped = wanted[r].topic # "none"]]

Here(r) == Levels(wanted[r], req[r].scoped)[req[r].level]
KeysOf(r) == {<<f, req[r].scoped>> : f \in Here(r).filters}

\* _cached_query: a hit is taken on the spot, a miss goes to the index.
Ask(r) ==
    /\ req[r].pc = "search"
    /\ req' = [req EXCEPT ![r].pc = "await",
                          ![r].own = {k \in KeysOf(r) : cache[k] = NoOne},
                          ![r].hits = [k \in KeysOf(r) |-> cache[k]]]
    /\ UNCHANGED <<wanted, cosine, cache, score, raw>>

\* The index answers best first; the objects are those of who asked it.
Found(r, key) ==
    LET by     == IF key \in req[r].own THEN r ELSE req[r].hits[key]
        before == {p \in Chunks \X Chunks :
                      \/ cosine[p[1]] > cosine[p[2]]
                      \/ cosine[p[1]] = cosine[p[2]] /\ p[1] < p[2]}
        line   == Line(Matches(key), before)
    IN  [n \in DOMAIN line |-> <<by, key, line[n]>>]

\* The keeper's results come before the global ones.
LevelFound(r) ==
    LET of(filters) == IF filters = {} THEN <<>>
                       ELSE Found(r, <<CHOOSE f \in filters : TRUE, req[r].scoped>>)
    IN  Merged(of(Here(r).filters \ {"global"}), of(Here(r).filters \cap {"global"}), score)

-----------------------------------------------------------------------------
(* Ranking, routing and pruning.                                           *)

\* The boost this request gives a chunk.
Boost(r, c) ==
    LET p == wanted[r]
        sum == (IF p.keeper # NoOne /\ Keeper[c] = p.keeper THEN BoostRk ELSE 0)
               + (IF p.topic # "none" /\ c \in Topical THEN BoostTopic ELSE 0)
               + (IF c \in p.mentions THEN BoostSubtopic ELSE 0)
    IN  IF sum > BoostCap THEN BoostCap ELSE sum

\* Mutant of RawOf: the score is taken for the cosine at every ranking.
RawOfScore(o) == score[o]

\* raw_score is set by the first ranking and kept.
RawOf(o) == IF raw[o] = -1 THEN score[o] ELSE raw[o]

NotExcluded(r, list) ==
    Picked(list, {i \in DOMAIN list : ArticleOf(list[i]) \notin wanted[r].excluded})

IsPrimary(r, o) == ArticleOf(o) = wanted[r].primary
Primaries(r, list) == {i \in DOMAIN list : IsPrimary(r, list[i])}

\* The first chunk of the primary article goes to the front.
ToFront(list, i) == <<list[i]>> \o Picked(list, DOMAIN list \ {i})

\* With a primary article only its own chunks stay, which leaves nothing to
\* _prune_below_score_gap.
OnlyPrimary(r, list) == Picked(list, Primaries(r, list))

\* _cap_rdmh_distinct_articles.
Capped(list) ==
    LET leading(i) == Min({j \in DOMAIN list : ArticleOf(list[j]) = ArticleOf(list[i])})
    IN  Picked(list, {i \in DOMAIN list :
            Cardinality({ArticleOf(list[j]) : j \in 1 .. leading(i)}) <= MaxArticles})

\* A chunk fetched for its article is given the scores that pass the gates.
FloorScore(list) == IF list = <<>> THEN GateScore ELSE Max({GateScore, score[list[1]]})
FloorRaw(list)   == IF list = <<>> THEN GateRaw ELSE Max({GateRaw, raw[list[1]]})
PromotedKey == <<"fetched", FALSE>>

-----------------------------------------------------------------------------
(* The steps. What is between two awaits is one step.                      *)

Set(r, fields) == req' = [req EXCEPT ![r] = With(req[r], fields)]

\* The end of the search: what the lanes found is filtered, boosted and ranked.
Rank(r, found) ==
    LET list   == NotExcluded(r, found)
        mine   == Range(list)
        raws   == [o \in Objects |-> IF o \in mine THEN RawOf(o) ELSE raw[o]]
        scores == [o \in Objects |-> IF o \in mine THEN raws[o] + Boost(r, ChunkOf(o))
                                     ELSE score[o]]
        ranked == Ranked(list, scores)
        routed == wanted[r].primary # NoOne
        at     == Primaries(r, ranked)
    IN  /\ raw' = raws /\ score' = scores
        /\ CASE routed /\ at = {} -> Set(r, [pc |-> "promote", acc |-> ranked])
             [] routed /\ at # {} ->
                  Set(r, [pc |-> "context", acc |-> OnlyPrimary(r, ToFront(ranked, Min(at)))])
             [] OTHER -> Set(r, [pc |-> IF ranked = <<>> THEN "done" ELSE "context",
                                 verdict |-> IF ranked = <<>> THEN "empty" ELSE "none",
                                 acc |-> Capped(ranked)])

\* A lane is over. The topic's own lane is followed by the broad one if it
\* found too little, but not for a topic with global articles only.
LaneEnds(r, found) ==
    IF req[r].scoped /\ wanted[r].topic # "global_only" /\ Len(found) < TopicLaneMin
    THEN /\ Set(r, [pc |-> "search", scoped |-> FALSE, level |-> 1, acc |-> <<>>, saved |-> found])
         /\ UNCHANGED <<score, raw>>
    ELSE Rank(r, IF req[r].saved = <<>> THEN found ELSE Merged(req[r].saved, found, score))

NextLevel(r, acc) ==
    IF req[r].level = Len(Levels(wanted[r], req[r].scoped)) THEN LaneEnds(r, acc)
    ELSE /\ Set(r, [pc |-> "search", level |-> req[r].level + 1, acc |-> acc])
         /\ UNCHANGED <<score, raw>>

\* The searches of a level are back: the cache takes them, last write wins, and
\* the level is judged.
Judge(r) ==
    LET found == LevelFound(r)
        acc   == req[r].acc
        more  == Merged(acc, found, score)
        rule  == Here(r).rule
    IN  /\ req[r].pc = "await"
        /\ cache' = [k \in Keys |-> IF k \in req[r].own THEN r ELSE cache[k]]
        /\ CASE rule = "staged" ->
                  IF Sufficient(found, StagedScore) THEN LaneEnds(r, found) ELSE NextLevel(r, found)
             [] rule = "join" ->
                  IF Sufficient(more, MinScore) THEN LaneEnds(r, more) ELSE NextLevel(r, more)
             [] rule = "iterate" ->
                  IF Sufficient(found, MinScore) THEN LaneEnds(r, more) ELSE NextLevel(r, acc)
        /\ UNCHANGED <<wanted, cosine>>

\* _promote_primary_rdmh_chunk fetches the article; a fetch that fails, or an
\* article without such a chunk, leaves the list, of which nothing is left.
Promote(r) ==
    LET list == req[r].acc
        ofPrimary == {c \in Chunks : ArticleId[c] = wanted[r].primary}
    IN  /\ req[r].pc = "promote"
        /\ \/ /\ Set(r, [pc |-> "done", verdict |-> "empty", acc |-> <<>>])
              /\ UNCHANGED <<score, raw>>
           \/ /\ ofPrimary # {}
              /\ LET o == <<r, PromotedKey, Min(ofPrimary)>>
                 IN  /\ score' = [score EXCEPT ![o] = FloorScore(list)]
                     /\ raw' = [raw EXCEPT ![o] = FloorRaw(list)]
                     /\ Set(r, [pc |-> "context", acc |-> <<o>>])
        /\ UNCHANGED <<wanted, cosine, cache>>

\* The quality gate over any scores. The best of each, which may be two chunks.
Passes(list, points, raws) ==
    /\ Max({points[o] : o \in Range(list)}) >= GateScore
    /\ Max({raws[o] : o \in Range(list)}) >= GateRaw

\* The context of the best article has been read meanwhile.
Gate(r) ==
    /\ req[r].pc = "context"
    /\ Set(r, [pc |-> IF Passes(req[r].acc, score, raw) THEN "extract" ELSE "done",
               verdict |-> IF Passes(req[r].acc, score, raw) THEN "none" ELSE "no_match"])
    /\ UNCHANGED <<wanted, cosine, cache, score, raw>>

\* What the model extracts: fields alone, gaps with or without fields, or
\* nothing; nothing, and what is no extraction, is asked for once more of the
\* other provider. Little confidence and gaps nulls the article, whatever fields
\* come with them; a failed call is a failure.
ExtractFields(r) ==
    LET retry(found) == found = "nothing" /\ Max({score[o] : o \in Range(req[r].acc)}) >= GateScore
    IN  /\ req[r].pc = "extract"
        /\ \E found, again \in {"fields", "gaps", "nothing"}, confident \in BOOLEAN :
             LET final == IF retry(found) THEN again ELSE found
             IN  Set(r, [pc |-> "done",
                         verdict |-> CASE retry(final) -> "failed"
                                       [] final = "gaps" /\ ~confident -> "no_match"
                                       [] OTHER -> "answered"])
        /\ UNCHANGED <<wanted, cosine, cache, score, raw>>

\* An exception of the index or of the model ends in required_data_failed.
Fails(r) ==
    /\ req[r].pc \in {"await", "context", "extract"}
    /\ Set(r, [pc |-> "done", verdict |-> "failed"])
    /\ UNCHANGED <<wanted, cosine, cache, score, raw>>

SearchNext == \E r \in Requests :
    Ask(r) \/ Judge(r) \/ Promote(r) \/ Gate(r) \/ ExtractFields(r) \/ Fails(r)

SearchSpec == SearchInit /\ [][SearchNext]_qvars

-----------------------------------------------------------------------------
(* Properties.                                                             *)

\* An answer past the gate rests on an article the request was routed to and
\* that was fetched for it, or on a chunk the index itself found close enough:
\* boosts, its own or of other requests on the same objects, never stand in for
\* the cosine (the raw score's floor).
BoostIsNoEvidence ==
    \A r \in Requests :
        req[r].pc = "extract" \/ req[r].verdict = "answered" =>
            \E o \in Range(req[r].acc) :
                \/ cosine[ChunkOf(o)] >= GateRaw
                \/ IsPrimary(r, o) /\ o[1] = r /\ o[2] = PromotedKey

\* "the last write wins (identical result)" (_cached_query): sharing a cached
\* result changes nothing, so a request is judged on the boosts that are its own.
JudgedOnOwnBoosts ==
    \A r \in Requests :
        req[r].pc = "extract" \/ req[r].verdict = "no_match" =>
            \A o \in Range(req[r].acc) :
                o[2] # PromotedKey => score[o] = cosine[ChunkOf(o)] + Boost(r, ChunkOf(o))

=============================================================================

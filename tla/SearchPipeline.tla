---------------------------- MODULE SearchPipeline ----------------------------
(***************************************************************************)
(* One search after the other through search/hybrid_searcher.py: retrieval *)
(* and fusion (search_executor.py, reranker.py), the second hop            *)
(* (multi_hop_searcher.py), reranking (reranking_engine.py), the expansion *)
(* by graph neighbours and enclosing classes, and the cap on the answer    *)
(* (graph_scoring_stage.py, search_orchestrator.py).                       *)
(*                                                                         *)
(* Scores other than those of the fusion come from models and mix three    *)
(* scales, so that a sort by score may give any order.  A step that fails  *)
(* is skipped, which each of them may be.  dedupe_split_blocks is on, and  *)
(* the reranker is one that returns all it was given, as the default does. *)
(***************************************************************************)
EXTENDS Naturals, Sequences, FiniteSets, FiniteSetsExt, SequencesExt

CONSTANTS
    Chunks,     \* the indexed chunks
    DedupKey,   \* what the pieces of a split function have in common
    Parent,     \* the enclosing class of a chunk, if any
    NoChunk,
    Near,       \* the neighbours of a chunk in the call graph
    Matching,   \* the chunks that a request's filters let through
    Requests,   \* the requests, each with the configuration it runs under:
                \* [k, mode, filtered, hops, ego, parents, singlePass]
    LegFactor, OverFetch,     \* 5, and 3 or 5: how much more a leg asks for
    RrfK, WeightOfBm25, WeightOfDense,
    Bm25Slots, Hop1Slots,     \* reserved places
    Candidates,               \* top_k_candidates of the reranker
    Widening, MaxEgo, Multiplier

VARIABLES
    pc,
    req,          \* the request
    bm25, dense,  \* the results of the two legs
    pool,         \* the results so far, in order
    hop1,         \* those of the first hop, by hop1_rank
    context,      \* those added as context: ego_graph and parent_expansion
    last          \* whether it is the last of the reranking passes

vars == <<pc, req, bm25, dense, pool, hop1, context, last>>

Orders == [S \in SUBSET Chunks |-> SetToSeqs(S)]
Keys(s) == {DedupKey[s[i]] : i \in DOMAIN s}
First(n, s) == SubSeq(s, 1, Min({n, Len(s)}))
Within(s, S) == SelectSeq(s, LAMBDA id : id \in S)
Without(s, S) == SelectSeq(s, LAMBDA id : id \notin S)
K1 == IF req.hops = "off" THEN req.k ELSE req.k * Widening

Init ==
    /\ pc = "done" /\ req \in Requests
    /\ bm25 = <<>> /\ dense = <<>> /\ pool = <<>> /\ hop1 = <<>>
    /\ context = {} /\ last = FALSE

Ask(r) ==
    /\ pc = "done"
    /\ pc' = "retrieve" /\ req' = r
    /\ pool' = <<>> /\ context' = {} /\ last' = FALSE
    /\ UNCHANGED <<bm25, dense, hop1>>

-----------------------------------------------------------------------------
(* Hop 1: two legs, fused. *)

SearchK == IF req.mode = "hybrid" THEN Max({Candidates, K1 * LegFactor}) ELSE K1

\* A leg looks at the best of its ranking and filters afterwards.
Leg(ranking) ==
    IF req.filtered
    THEN First(SearchK, Within(First(SearchK * OverFetch, ranking), Matching))
    ELSE First(SearchK, ranking)

Bm25Rankings  == UNION {Orders[S] : S \in SUBSET Chunks}
DenseRankings == Orders[Chunks] \cup {<<>>}

RetrieveBm25 ==
    /\ pc = "retrieve" /\ req.mode = "bm25"
    /\ \E r \in Bm25Rankings : pool' = Leg(r)
    /\ pc' = "hop" /\ UNCHANGED <<req, bm25, dense, hop1, context, last>>

RetrieveSemantic ==
    /\ pc = "retrieve" /\ req.mode = "semantic"
    /\ \E r \in DenseRankings : pool' = Leg(r)
    /\ pc' = "hop" /\ UNCHANGED <<req, bm25, dense, hop1, context, last>>

RetrieveHybrid ==
    /\ pc = "retrieve" /\ req.mode = "hybrid"
    /\ bm25' \in {Leg(r) : r \in Bm25Rankings}
    /\ dense' \in {Leg(r) : r \in DenseRankings}
    /\ pc' = "fuse" /\ UNCHANGED <<req, pool, hop1, context, last>>

\* weight / (k + rank), summed over the legs, as a fraction.
Share(leg, weight, id) ==
    IF Contains(leg, id)
    THEN [num |-> weight, den |-> RrfK + (CHOOSE i \in DOMAIN leg : leg[i] = id)]
    ELSE [num |-> 0, den |-> 1]
RrfScore(id) ==
    LET b == Share(bm25, WeightOfBm25, id)
        d == Share(dense, WeightOfDense, id)
    IN [num |-> b.num * d.den + d.num * b.den, den |-> b.den * d.den]
Exceeds(x, y) == x.num * y.den > y.num * x.den

\* Python's sort is stable: equal scores stay in the order they were met.
SortedDocs ==
    LET met   == bm25 \o Without(dense, ToSet(bm25))
        score == [id \in ToSet(met) |-> RrfScore(id)]
        place == [id \in ToSet(met) |-> CHOOSE i \in DOMAIN met : met[i] = id]
    IN SetToSortSeq(ToSet(met), LAMBDA a, b :
           \/ Exceeds(score[a], score[b])
           \/ (~ Exceeds(score[b], score[a]) /\ place[a] < place[b]))

\* Mutant: reserved places the leg cannot fill stay empty.
SelectWithReserve_NoFallback(sorted, n) ==
    LET reserve == Min({Bm25Slots, n})
        head == First(n - reserve, sorted)
    IN IF Bm25Slots = 0 \/ Len(sorted) <= n
       THEN First(n, sorted)
       ELSE head \o First(reserve, Without(bm25, ToSet(head)))

\* The best n, except that the last places are kept for hits of the BM25 leg
\* that are not among those before; places left over go by score again.
SelectWithReserve(sorted, n) ==
    LET reserve == Min({Bm25Slots, n})
        head == First(n - reserve, sorted)
        fill == First(reserve, Without(bm25, ToSet(head)))
        rest == Without(sorted, ToSet(head \o fill))
    IN IF Bm25Slots = 0 \/ Len(sorted) <= n
       THEN First(n, sorted)
       ELSE head \o fill \o First(n - Len(head \o fill), rest)

Fuse ==
    /\ pc = "fuse"
    /\ pool' = SelectWithReserve(SortedDocs, Max({K1, Candidates}))
    /\ pc' = "rerank" /\ UNCHANGED <<req, bm25, dense, hop1, context, last>>

\* Mutant: nothing is returned when the reranker fails.
NeuralPass_FailsEmpty(s) == {<<>>} \cup Orders[ToSet(First(Candidates, s))]

\* _run_rerank: the first Candidates in the reranker's order and no others; all
\* as they were if the reranker is off, cannot be loaded or fails.
NeuralPass(s) == {s} \cup Orders[ToSet(First(Candidates, s))]

RerankHits ==
    /\ pc = "rerank"
    /\ \E s \in (IF req.singlePass THEN {pool} ELSE NeuralPass(pool)) : pool' = First(K1, s)
    /\ bm25' = <<>> /\ dense' = <<>>
    /\ pc' = "hop" /\ UNCHANGED <<req, hop1, context, last>>

-----------------------------------------------------------------------------
(* Hop 2: what is near the first k hits. *)

SingleHop ==
    /\ pc = "hop" /\ (pool = <<>> \/ req.hops \in {"off", "one"})
    /\ pool' = First(req.k, pool)
    /\ pc' = "ego" /\ UNCHANGED <<req, bm25, dense, hop1, context, last>>

ExpansionK == Max({1, req.k \div 2})

\* Up to ExpansionK neighbours of each source in turn that no source before it
\* had: the sets of ids that may be known after that.
SeenByGraph(seen) ==
    LET Claim(known, id) ==
            UNION {{s \cup new : new \in kSubset(Min({ExpansionK, Cardinality(Near[id] \ s)}),
                                                 Near[id] \ s)} : s \in known}
    IN FoldLeft(Claim, {seen}, First(req.k, pool))

\* The chunks most similar to each source, known or not; none if that fails.
SeenBySimilarity(seen) ==
    LET Claim(known, id) ==
            {s \cup similar : s \in known,
                 similar \in kSubset(Min({ExpansionK, Cardinality(Chunks) - 1}), Chunks \ {id})}
    IN {seen} \cup FoldLeft(Claim, {seen}, First(req.k, pool))

Seen == LET hits == ToSet(pool)
        IN CASE req.hops = "graph"    -> SeenByGraph(hits)
             [] req.hops = "semantic" -> SeenBySimilarity(hits)
             [] req.hops = "hybrid"   -> UNION {SeenBySimilarity(s) : s \in SeenByGraph(hits)}

Expand ==
    /\ pc = "hop" /\ pool # <<>> /\ req.hops \in {"semantic", "graph", "hybrid"}
    /\ hop1' = pool
    /\ \E s \in Seen : pool' = pool \o SetToSeq(s \ ToSet(pool))
    /\ pc' = "filter" /\ UNCHANGED <<req, bm25, dense, context, last>>

\* Mutant: expansion is noticed by what hop 1 was asked for, not by what it found.
FilterExpanded_ByAsked ==
    /\ pc = "filter"
    /\ pool' = IF req.filtered /\ Len(pool) > K1 THEN Within(pool, Matching) ELSE pool
    /\ pc' = "sort" /\ UNCHANGED <<req, bm25, dense, hop1, context, last>>

FilterExpanded ==
    /\ pc = "filter"
    /\ pool' = IF req.filtered /\ Len(pool) > Len(hop1) THEN Within(pool, Matching) ELSE pool
    /\ pc' = "sort" /\ UNCHANGED <<req, bm25, dense, hop1, context, last>>

-----------------------------------------------------------------------------
(* rerank_by_query, after the second hop and again after the context is there. *)

SortOnly ==
    /\ pc = "sort" /\ req.singlePass /\ ~ last
    /\ \E s \in Orders[ToSet(pool)] : pool' = First(req.k, s)
    /\ hop1' = <<>>
    /\ pc' = "ego" /\ UNCHANGED <<req, bm25, dense, context, last>>

Sort ==
    /\ pc = "sort" /\ (last \/ ~ req.singlePass)
    /\ pool' \in Orders[ToSet(pool)]
    /\ pc' = "reserve" /\ UNCHANGED <<req, bm25, dense, hop1, context, last>>

\* Mutant: nobody makes room in the window.
WithHop1Reserve_NoEviction(s) ==
    LET tail    == SubSeq(s, Candidates + 1, Len(s))
        promote == First(Hop1Slots, Within(hop1, ToSet(tail)))
    IN First(Candidates, s) \o promote \o Without(tail, ToSet(promote))

\* _apply_hop1_reserve: the best hits of hop 1 behind the window take the places
\* at its end.
WithHop1Reserve(s) ==
    LET window  == First(Candidates, s)
        tail    == SubSeq(s, Candidates + 1, Len(s))
        promote == First(Hop1Slots, Within(hop1, ToSet(tail)))
    IN IF promote = <<>>
       THEN s
       ELSE First(Candidates - Min({Candidates, Len(promote)}), window)
            \o promote \o Without(tail, ToSet(promote))

Reserve ==
    /\ pc = "reserve"
    /\ pool' = WithHop1Reserve(pool)
    /\ hop1' = <<>>
    /\ pc' = "rank" /\ UNCHANGED <<req, bm25, dense, context, last>>

\* dedupe_results: the first of each key.
Deduped(s) ==
    FoldLeft(LAMBDA kept, id : IF DedupKey[id] \in Keys(kept) THEN kept ELSE Append(kept, id),
             <<>>, s)

PageSize == IF last /\ ~ req.singlePass THEN Len(pool) ELSE req.k

\* Mutant: the page is cut before its fragments are collapsed.
Page_CutFirst(s) == Deduped(First(PageSize, s))

Page(s) == First(PageSize, Deduped(s))

Rank ==
    /\ pc = "rank"
    /\ \E s \in NeuralPass(pool) : pool' = Page(s)
    /\ pc' = IF last THEN "dedupe" ELSE "ego"
    /\ UNCHANGED <<req, bm25, dense, hop1, context, last>>

-----------------------------------------------------------------------------
(* Context around the results: neither is filtered. *)

\* Two hops from the results, without them.
EgoNeighbors ==
    LET near == UNION {Near[id] : id \in ToSet(pool)}
    IN (near \cup UNION {Near[id] : id \in near}) \ ToSet(pool)

EgoExpansion ==
    /\ pc = "ego"
    /\ \E new \in SUBSET EgoNeighbors :
        /\ new # {} => req.ego
        /\ Cardinality(new) <= Min({MaxEgo, 3 * req.k})
        /\ pool' = pool \o SetToSeq(new)
        /\ context' = context \cup new
    /\ pc' = "parents" /\ UNCHANGED <<req, bm25, dense, hop1, last>>

\* Mutants: parents are looked for among the page only; of neighbours, too.
ParentIds_NotInPage ==
    {Parent[id] : id \in ToSet(First(req.k, pool))} \ ({NoChunk} \cup ToSet(First(req.k, pool)))
ParentIds_OfAll == {Parent[id] : id \in ToSet(pool)} \ ({NoChunk} \cup ToSet(pool))

ParentIds == {Parent[id] : id \in ToSet(First(req.k, pool))} \ ({NoChunk} \cup ToSet(pool))

ParentExpansion ==
    /\ pc = "parents"
    /\ \E new \in SUBSET ParentIds :
        /\ new # {} => req.parents
        /\ pool' = pool \o SetToSeq(new)
        /\ context' = context \cup new
    /\ pc' = "rescore" /\ UNCHANGED <<req, bm25, dense, hop1, last>>

Rescore ==
    /\ pc = "rescore"
    /\ last' = (pool # <<>> /\ (req.singlePass \/ (req.ego /\ Len(pool) > req.k)))
    /\ pc' = IF last' THEN "sort" ELSE "dedupe"
    /\ UNCHANGED <<req, bm25, dense, pool, hop1, context>>

\* Mutant: no safety net for the paths around rerank_by_query.
Dedupe_None ==
    /\ pc = "dedupe"
    /\ pc' = "assemble" /\ UNCHANGED <<req, bm25, dense, pool, hop1, context, last>>

Dedupe ==
    /\ pc = "dedupe"
    /\ pool' = Deduped(pool)
    /\ pc' = "assemble" /\ UNCHANGED <<req, bm25, dense, hop1, context, last>>

\* Centrality or the place in the source may give another order; the cap and the
\* budget of tokens cut it.
Assemble ==
    /\ pc = "assemble"
    /\ \E s \in Orders[ToSet(pool)], n \in 0 .. Len(pool) : pool' = First(n, First(req.k * Multiplier, s))
    /\ pc' = "done" /\ UNCHANGED <<req, bm25, dense, hop1, context, last>>

Next ==
    \/ \E r \in Requests : Ask(r)
    \/ RetrieveBm25 \/ RetrieveSemantic \/ RetrieveHybrid \/ Fuse \/ RerankHits
    \/ SingleHop \/ Expand \/ FilterExpanded
    \/ SortOnly \/ Sort \/ Reserve \/ Rank
    \/ EgoExpansion \/ ParentExpansion \/ Rescore \/ Dedupe \/ Assemble

Spec == Init /\ [][Next]_vars

-----------------------------------------------------------------------------
\* x is above y wherever y is.
Dominates(x, y) ==
    \A leg \in {bm25, dense} : Contains(leg, y) =>
        \E i, j \in DOMAIN leg : i < j /\ leg[i] = x /\ leg[j] = y

(* Fusion leaves nobody out for a chunk that is below it in both legs, gives the
   keyword leg the places it is promised, and leaves no place empty. *)
FusionIsFair ==
    pc = "rerank" =>
        LET ids  == ToSet(bm25) \cup ToSet(dense)
            size == Min({Max({K1, Candidates}), Cardinality(ids)})
        IN /\ Len(pool) = size
           /\ \A y \in ToSet(pool), x \in ids : Dominates(x, y) => x \in ToSet(pool)
           /\ Cardinality(ToSet(pool) \cap ToSet(bm25)) >= Min({Bm25Slots, Len(bm25), size})

Typed ==
    /\ pc \in {"done", "retrieve", "fuse", "rerank", "hop", "filter", "sort", "reserve", "rank",
               "ego", "parents", "rescore", "dedupe", "assemble"}
    /\ req \in Requests
    /\ \A s \in {bm25, dense, pool, hop1} : s \in Orders[ToSet(s)]
    /\ context \subseteq Chunks /\ last \in BOOLEAN

(* No chunk is twice among the results of any stage, though legs, hops, neighbours
   and parents overlap; an answer holds no function twice, whichever passes were
   skipped; whatever a filtered search found by itself passes the filter, what the
   second hop adds included; and context is bounded: k results, their neighbours
   and their classes. *)
AnswerIsSound ==
    /\ Typed
    /\ pc \in {"assemble", "done"} => Cardinality(Keys(pool)) = Len(pool)
    /\ pc \in {"dedupe", "assemble", "done"} /\ req.filtered => ToSet(pool) \subseteq Matching \cup context
    /\ pc = "dedupe" => Len(pool) <= 2 * req.k + Min({MaxEgo, 3 * req.k})

Hop1InWindow(s) == Cardinality(ToSet(First(Candidates, s)) \cap ToSet(hop1))

(* However the scales of the scores mix, the window that is reranked holds as many
   hits of hop 1 as it did, and as many as places are reserved for those behind it;
   pieces of one function in the window do not cost the page a place as long as there are
   other chunks to fill it; and no stage that fails, filters or finds nothing leaves
   a search that has found something without an answer. *)
StagesKeep ==
    /\ pc = "reserve" /\ hop1 # <<>> =>
        LET behind == Cardinality(ToSet(hop1) \cap ToSet(pool)) - Hop1InWindow(pool)
        IN Hop1InWindow(pool') >= Max({Hop1InWindow(pool), Min({Candidates, Hop1Slots, behind})})
    /\ pc = "rank" => Len(pool') >= Min({PageSize, Cardinality(Keys(First(Candidates, pool)))})
    /\ pool # <<>> /\ pc \notin {"assemble", "done"} => pool' # <<>>
=============================================================================

------------------------------ MODULE EgoGraph ------------------------------
(***************************************************************************)
(* The neighbours in the call graph that a search adds to its results      *)
(* (search/ego_graph_retriever.py, called by hybrid_searcher.py).          *)
(*                                                                         *)
(* A result of the search, an anchor, has a score in percent; so have the  *)
(* similarity of a chunk to the query, its centrality, which is <<>> until *)
(* a first search has computed it, and its rank by Personalized PageRank,  *)
(* which is <<>> if the iteration does not converge.  Scores are not       *)
(* negative.  Sets are iterated in any order, so that an operator below    *)
(* comes to the set of the values it may return.                           *)
(***************************************************************************)
EXTENDS GraphQueries, FiniteSetsExt, TLC

Ids(anchors) == {anchors[i].id : i \in DOMAIN anchors}
IsChunk(n) == n.file # ""
MaxTotal(in) == in.perHop * in.hops
Value(scores, n) == IF n \in DOMAIN scores THEN scores[n] ELSE 0

\* What is left of a set cut to the best so many; ties go any way.
Cuts(S, most, score) ==
  {T \in kSubset(Min({most, Cardinality(S)}), S) :
     \A x \in T, y \in S \ T : Value(score, x) >= Value(score, y)}

-----------------------------------------------------------------------------
(* Where edges have weights, as by default, the traversal goes along the    *)
(* heaviest first; a node keeps the depth at which it was first met, and    *)
(* from three hops on may so be met too deep for its own neighbours.        *)

\* The edges of a node that may be followed, as what they lead to: outgoing ones first.
Links(in, n) ==
  LET follow(e, to) == [node |-> to, weight |-> IF e.type \in DOMAIN in.weights THEN in.weights[e.type] ELSE 50]
      out  == SetToSeq({e \in in.edges \ in.imports : e.from = n /\ e.type \in in.forward})
      back == SetToSeq({e \in in.edges \ in.imports : e.to = n /\ e.type \in in.backward})
  IN [i \in DOMAIN out |-> follow(out[i], out[i].to)] \o [i \in DOMAIN back |-> follow(back[i], back[i].from)]

\* The first of the heaviest is taken from the queue and its new neighbours added.
Visit(in, walk) ==
  LET heaviest == {i \in DOMAIN walk.queue : \A j \in DOMAIN walk.queue :
                     walk.queue[j].weight <= walk.queue[i].weight}
      here == walk.queue[Min(heaviest)]
      Meet(w, link) == IF link.node \in w.met THEN w
                       ELSE [met |-> w.met \cup {link.node}, queue |-> Append(w.queue, link @@ [depth |-> here.depth + 1])]
      left == [walk EXCEPT !.queue = RemoveAt(walk.queue, Min(heaviest))]
  IN IF walk.queue = <<>> THEN walk
     ELSE IF here.depth >= in.hops THEN left
     ELSE FoldLeft(Meet, left, Links(in, here.node))

WeightedNeighbors(in, a) ==
  LET start == [met |-> {a}, queue |-> <<[node |-> a, weight |-> 0, depth |-> 0]>>]
  IN FoldLeft(LAMBDA walk, i : Visit(in, walk), start, [i \in 1 .. Cardinality(in.nodes) |-> i]).met \ {a}

\* The k-hop neighbours of an anchor that are chunks; the most central of too many.
Neighborhoods(in, a) ==
  LET near == IF in.weights # <<>> THEN WeightedNeighbors(in, a)
              ELSE GetNeighbors(in.edges, in.forward, in.backward, in.imports, a, in.hops)
  IN Cuts({n \in near : IsChunk(n)}, MaxTotal(in), in.central)

Adjacent(in, a, n) == a \in Pred(in.edges, n) \/ n \in Pred(in.edges, a)

AssignedTo_FirstAnchor(in, n) ==
  LET present == SelectSeq(in.anchors, LAMBDA a : a.id \in in.nodes)
  IN present[1].id

\* The first anchor in the graph that a neighbour has an edge with, else the first.
AssignedTo(in, n) ==
  LET present == SelectSeq(in.anchors, LAMBDA a : a.id \in in.nodes)
      next == {i \in DOMAIN present : Adjacent(in, present[i].id, n)}
  IN present[IF next = {} THEN 1 ELSE Min(next)].id

\* The best of all chunks by PageRank.  Where the iteration does not converge the method
\* calls its caller, which calls it again: there is no value, but an error.
ExpandViaPpr(in) ==
  LET present == Ids(in.anchors) \cap in.nodes
      Assign(top) == [a \in Ids(in.anchors) |-> {n \in top : AssignedTo(in, n) = a}]
  IN IF present = {} THEN {Assign({})}
     ELSE IF in.ppr = <<>> THEN {}
     ELSE {Assign(top) : top \in Cuts({n \in in.nodes \ present : IsChunk(n)}, MaxTotal(in), in.ppr)}

RetrieveEgoGraph(in) ==
  LET some == [a \in Ids(in.anchors) |-> Neighborhoods(in, a)]
  IN IF in.mode = "ppr" THEN ExpandViaPpr(in)
     ELSE {ego \in [Ids(in.anchors) -> UNION {some[a] : a \in DOMAIN some}] :
             \A a \in DOMAIN some : ego[a] \in some[a]}

-----------------------------------------------------------------------------
(* What a neighbour is worth.                                               *)

Expanded(in, ego) == Ids(in.anchors) \cup UNION {ego[a] : a \in DOMAIN ego}

\* The anchor whose score counts is the last one that has the neighbour.
AnchorOf(in, ego, n) ==
  in.anchors[Max({i \in DOMAIN in.anchors : n \in ego[in.anchors[i].id]})]

Scored(in, ego, new) ==
  LET measured(n) == in.embeds /\ in.readable /\ n \in DOMAIN in.similar
      score(n) == AnchorOf(in, ego, n).score * (IF measured(n) THEN in.similar[n] ELSE 50)
  IN [n \in {x \in new : measured(x) => in.similar[x] >= in.threshold} |-> score(n)]

ScoreNeighbors_AnchorsToo(in, ego) == Scored(in, ego, UNION {ego[a] : a \in DOMAIN ego})

\* The score of the anchor, less what the neighbour differs from the query, or half of
\* it if there is no embedding to compare; those below the threshold are left out.
ScoreNeighbors(in, ego) ==
  Scored(in, ego, {n \in Expanded(in, ego) \ Ids(in.anchors) : n \in in.metadata})

\* _apply_ego_graph_expansion: the best of them, up to three for each result asked for;
\* none if any of it fails.
Added(in) ==
  LET egos == IF in.anchors = <<>> THEN {} ELSE RetrieveEgoGraph(in)
      Cap(scores) == Cuts(DOMAIN scores, Min({MaxTotal(in), 3 * in.k}), scores)
  IN IF egos = {} THEN {<<>>}
     ELSE UNION {{[n \in T |-> ScoreNeighbors(in, ego)[n]] : T \in Cap(ScoreNeighbors(in, ego))} :
                   ego \in egos}

-----------------------------------------------------------------------------
\* The context added to an answer belongs to it.  No result is added again as the context
\* of another one, none is added that the index does not have, and none with a score above
\* that of every result it is in reach of; a neighbour found by PageRank counts for a result
\* it has an edge with, if there is one; and of the neighbours within two hops only those fall
\* away that are unlike the query, when there is room for all
\* (ego_graph_retriever.py:93-153, 213-231 and 345-476, hybrid_searcher.py:859-868).
ContextBelongs(in) ==
  \A context \in Added(in) :
    LET most == Min({MaxTotal(in), 3 * in.k})
        Reach(a) == {n \in GetNeighbors(in.edges, in.forward, in.backward, in.imports, a, in.hops) : IsChunk(n)}
        near == UNION {Reach(a) : a \in Ids(in.anchors)} \ Ids(in.anchors)
        room == Cardinality(near) <= most /\ \A a \in Ids(in.anchors) : Cardinality(Reach(a)) <= MaxTotal(in)
    IN /\ DOMAIN context \subseteq in.metadata \ Ids(in.anchors)
       /\ Cardinality(DOMAIN context) <= most
       /\ \A n \in DOMAIN context : \E i \in DOMAIN in.anchors :
            /\ context[n] <= 100 * in.anchors[i].score
            /\ in.mode = "bfs" => n \in Reach(in.anchors[i].id)
            /\ in.mode = "ppr" /\ (\E a \in Ids(in.anchors) \cap in.nodes : Adjacent(in, a, n)) =>
                 Adjacent(in, in.anchors[i].id, n)
       /\ in.mode = "bfs" /\ in.hops <= 2 /\ room =>
            \A n \in (near \cap in.metadata) \ DOMAIN context :
              in.embeds /\ in.readable /\ in.similar[n] < in.threshold
=============================================================================

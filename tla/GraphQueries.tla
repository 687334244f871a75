---------------------------- MODULE GraphQueries ----------------------------
(***************************************************************************)
(* What is asked of the stored graph: reachability and paths               *)
(* (graph/graph_queries.py), the neighbours of a chunk                     *)
(* (graph/graph_storage.py), the subgraph of an answer                     *)
(* (search/subgraph_extractor.py, search/graph_view.py) and the report on  *)
(* the impact of a change (search/relationship_analyzer.py).               *)
(*                                                                         *)
(* A node is a chunk (a file and a qualified name, the sequence of its     *)
(* parts) or a symbol, whose file is "".  Between two nodes there is at    *)
(* most one edge of a type.  The input says which chunks the searcher      *)
(* knows, which files are excluded, and what a search by name would find.  *)
(* Lines, kinds, scores and the similar code in a report are left out.     *)
(***************************************************************************)
EXTENDS Integers, Sequences, FiniteSets, SequencesExt

Symbol(n) == [file |-> "", name |-> n.name]
Bare(n)   == [file |-> "", name |-> <<Last(n.name)>>]
Variants(n) == IF n.file = "" THEN {n} ELSE {n, Symbol(n), Bare(n)}

Succ(edges, n) == {e.to : e \in {x \in edges : x.from = n}}
Pred(edges, n) == {e.from : e \in {x \in edges : x.to = n}}
Typed(edges, types) == {e \in edges : e.type \in types}
Between(edges, u, v) == {e \in edges : e.from = u /\ e.to = v}

\* get_edge_data: the edge that stands for a pair is the one with the highest
\* confidence, a call before another one; between other types, any.
Primary_AnyType(edges, u, v) ==
  {e.type : e \in {x \in Between(edges, u, v) :
                     \A y \in Between(edges, u, v) : y.confidence <= x.confidence}}

Primary(edges, u, v) ==
  LET best == {x \in Between(edges, u, v) :
                 \A y \in Between(edges, u, v) : y.confidence <= x.confidence}
      calls == {x \in best : x.type = "calls"}
  IN {e.type : e \in IF calls = {} THEN best ELSE calls}

-----------------------------------------------------------------------------
(* Reachability.                                                            *)

\* What is found at each depth when a node is expanded only once.
Layers(start, Step(_), depth) ==
  LET upTo[d \in 0 .. depth] ==
        IF d = 0 THEN <<start>>
        ELSE LET above == upTo[d - 1]
             IN Append(above, UNION {Step(n) : n \in Last(above)} \ UNION ToSet(above))
      layers == upTo[depth]
  IN [d \in 0 .. depth |-> layers[d + 1]]

FindAllCallers(edges, n, depth) == Layers({n}, LAMBDA x : Pred(edges, x), depth)
FindAllCallees(edges, n, depth) == Layers({n}, LAMBDA x : Succ(edges, x), depth)

\* _iter_matching_neighbors: an edge is followed forwards if its own type is asked for,
\* backwards if its reverse is; imports of excluded categories are not followed.
Matching(edges, forward, backward, skipped, n) ==
  {e.to : e \in {x \in edges : x.from = n /\ x.type \in forward /\ x \notin skipped}}
    \cup {e.from : e \in {x \in edges : x.to = n /\ x.type \in backward /\ x \notin skipped}}

GetNeighbors(edges, forward, backward, skipped, n, depth) ==
  LET layer == Layers({n}, LAMBDA x : Matching(edges, forward, backward, skipped, x), depth)
  IN UNION {layer[d] : d \in 1 .. depth}

\* A shortest path, as the nodes on it, or <<>>.
ShortestPath(nodes, edges, from, to) ==
  LET near == Layers({from}, LAMBDA x : Succ(edges, x), Cardinality(nodes))
      depth == {d \in 0 .. Cardinality(nodes) : to \in near[d]}
      back[d \in 0 .. Cardinality(nodes)] ==   \* the path to "to", from depth d on
        LET rest == IF d = Min(depth) THEN <<to>> ELSE back[d + 1]
        IN IF d = Min(depth) THEN rest
           ELSE <<CHOOSE u \in near[d] : Head(rest) \in Succ(edges, u)>> \o rest
  IN IF {from, to} \subseteq nodes /\ depth # {} THEN back[0] ELSE <<>>

\* find_call_chain follows every type of edge, and its bound counts nodes.
FindCallChain(nodes, edges, from, to, maxDepth) ==
  LET path == ShortestPath(nodes, edges, from, to)
  IN IF Len(path) > maxDepth THEN <<>> ELSE path

\* find_path: the target, else the symbol it has, else its bare name; the graph a filter
\* leaves has only the nodes of its edges.
Targets(to) == IF to.file = "" THEN <<to>> ELSE <<to, Symbol(to), Bare(to)>>

FindPath(nodes, edges, from, to, types, maxHops) ==
  LET left == IF types = {} THEN edges ELSE Typed(edges, types)
      seen == IF types = {} THEN nodes ELSE {e.from : e \in left} \cup {e.to : e \in left}
      Path(i) == ShortestPath(seen, left, from, Targets(to)[i])
      tries == {i \in DOMAIN Targets(to) : Targets(to)[i] \in nodes /\ Path(i) # <<>>}
      path == Path(Min(tries))
  IN IF from \notin nodes \/ tries = {} THEN <<>>
     ELSE IF Len(path) - 1 > maxHops THEN <<>> ELSE path

-----------------------------------------------------------------------------
(* get_relationships.  Inwards a node is looked for under its names too,    *)
(* outwards it is not.  An entry has every type it might be reported as.    *)

Entry(edges, n, u, v, types, depth) ==
  [node |-> n, depth |-> depth, types |-> IF types = {} THEN Primary(edges, u, v)
                                          ELSE types \cap {e.type : e \in Between(edges, u, v)}]

\* A node is reported at the first depth where an edge matches.
FirstReports(entries) ==
  {e \in entries : e.types # {} /\ \A f \in entries :
                                     f.node = e.node /\ f.types # {} => e.depth <= f.depth}

TraverseInbound(edges, n, types, depth) ==
  LET query == Layers(Variants(n), LAMBDA x : UNION {Variants(p) : p \in Pred(edges, x)}, depth)
  IN FirstReports(UNION {UNION {{Entry(edges, p, p, q, types, d) : p \in Pred(edges, q)} :
                                q \in query[d - 1]} : d \in 1 .. depth})

TraverseOutbound(edges, n, types, depth) ==
  LET query == FindAllCallees(edges, n, depth)
  IN FirstReports(UNION {UNION {{Entry(edges, s, q, s, types, d) : s \in Succ(edges, q)} :
                                q \in query[d - 1]} : d \in 1 .. depth})

-----------------------------------------------------------------------------
(* analyze_impact.                                                          *)

\* _resolve_by_symbol, strictly: a chunk of that name in the graph, else the best of
\* what a search for it returns.
ResolveBySymbol(in, n) ==
  LET Named(c) == c.file # "" /\ (c.name = n.name \/ IsSuffix(n.name, c.name))
      inGraph == SelectSeq(in.order, LAMBDA c : Named(c) /\ c \in in.chunks)
      found == SelectSeq(in.found, LAMBDA c : c.name = n.name \/ <<Last(c.name)>> = n.name)
  IN IF inGraph # <<>> THEN {Head(inGraph)}
     ELSE IF found # <<>> THEN {Head(found)} ELSE {}

\* _enrich_callers and _enrich_callees: a node the searcher knows, else one of its name
\* unless that is a builtin or a common one; in an excluded directory it is dropped.
Resolve(in, n) ==
  IF n \in in.chunks THEN {n}
  ELSE IF n.name \in in.common THEN {} ELSE ResolveBySymbol(in, n)

Enriched(in, ns) == {c \in UNION {Resolve(in, n) : n \in ns} : c.file \notin in.excluded}
Stale(in, ns) == {n \in ns \ in.chunks : \A c \in Resolve(in, n) : c.file \in in.excluded}

Report(in, target) ==
  LET inbound == TraverseInbound(in.edges, target, {}, in.depth)
      direct == {e.node : e \in {x \in inbound : x.depth = 1}}
      indirect == {e.node : e \in {x \in inbound : x.depth > 1}}
      called == {e.node : e \in {x \in TraverseOutbound(in.edges, target, {}, 1) : x.types = {"calls"}}}
      IsCallerOf(c, d) == Succ(in.edges, c) \cap {d, Symbol(d)} # {}
  IN [callers |-> Enriched(in, direct), indirect |-> Enriched(in, indirect),
      callees |-> Enriched(in, called),
      stale |-> Cardinality(Stale(in, direct)) + Cardinality(Stale(in, indirect)),
      graph |-> [d \in Enriched(in, direct) |-> {c \in Enriched(in, indirect) : IsCallerOf(c, d)}],
      \* _build_graph_relationships: every edge of a pair, under the field of its type
      outward |-> {<<e.type, e.to>> : e \in {x \in in.edges : x.from = target /\ x.type # "calls"}},
      inward |-> {<<e.type, e.from>> : e \in {x \in in.edges :
                                                x.to \in Variants(target) /\ x.type # "calls"}}]

-----------------------------------------------------------------------------
\* extract_subgraph: the edges between the results and their neighbours and, if asked
\* for, the ones that enter from elsewhere and at most three that leave each result.
Subgraph(in, results, neighbours, boundary) ==
  LET ids == results \cup neighbours
      Some(n) == LET leaving == {e \in in.edges : e.from = n /\ e.to \notin ids}
                 IN CHOOSE s \in SUBSET leaving : Cardinality(s) = Min({3, Cardinality(leaving)})
      entering == {e \in in.edges : e.to \in ids /\ e.from \notin ids}
  IN [nodes |-> ids \cap in.nodes,
      edges |-> {e \in in.edges : {e.from, e.to} \subseteq ids}
                \cup (IF boundary THEN entering \cup UNION {Some(n) : n \in results} ELSE {})]

-----------------------------------------------------------------------------
PathIsReal(in, u, v, left, path) ==
  path # <<>> =>
    /\ path[1] = u /\ Last(path) \in ToSet(Targets(v)) /\ Len(path) <= in.depth + 1
    /\ \A i \in 1 .. Len(path) - 1 : path[i + 1] \in Succ(left, path[i])

PathIsShort(in, u, v, types, path, reach) ==
  \A d \in 1 .. in.depth : v \in reach[d] =>
    /\ Len(path) = d + 1 /\ Last(path) = v
    /\ types = {} => FindCallChain(in.nodes, in.edges, u, v, d + 1) # <<>>

PathIsRealAndShort(in, u, v, types, left, path) ==
  /\ PathIsReal(in, u, v, left, path)
  /\ PathIsShort(in, u, v, types, path, FindAllCallees(left, u, in.depth))

\* The answers to one graph agree with one another.  A path goes along edges of the
\* types asked for, from the source to the target or a name of it, and there is one
\* whenever the target is within reach; a chunk that reaches another is reported among
\* its callers, no deeper than it is; a call between two indexed chunks is reported by
\* both, whatever else joins them, and no caller vanishes from a report but the excluded
\* and the ones counted as stale; nothing in a subgraph of a chunk and the chunks next
\* to it is loose (graph_queries.py:111-240 and 627-757, graph_storage.py:740-750,
\* relationship_analyzer.py:454-631, subgraph_extractor.py:206-252).
PathsAreReal(in) ==
  \A u, v \in in.nodes, types \in in.filters : u # v =>
    PathIsRealAndShort(in, u, v, types, IF types = {} THEN in.edges ELSE Typed(in.edges, types),
                       FindPath(in.nodes, in.edges, u, v, types, in.depth))

ReportsAgree(in) ==
  \A u, v \in in.chunks : u # v =>
    LET of == Report(in, v)
        callers == FindAllCallers(in.edges, v, in.depth)
    IN /\ \A d \in 1 .. in.depth : u \in callers[d] =>
            \E e \in TraverseInbound(in.edges, v, {}, in.depth) : e.node = u /\ e.depth <= d
       /\ \A n \in UNION {Pred(in.edges, x) : x \in Variants(v)} :
            \/ Enriched(in, {n}) # {} /\ Enriched(in, {n}) \subseteq of.callers
            \/ n \in in.chunks /\ n.file \in in.excluded
            \/ n \notin in.chunks /\ of.stale > 0
       /\ {u.file, v.file} \cap in.excluded = {} /\ u \in Pred(Typed(in.edges, {"calls"}), v) =>
            u \in of.callers /\ v \in Report(in, u).callees

NothingIsLoose(in) ==
  \A u \in in.chunks :
    LET next == GetNeighbors(in.edges, {"calls"}, {"calls"}, {}, u, 1)
        sub == Subgraph(in, {u}, next, FALSE)
    IN \A n \in next : \E e \in sub.edges : {e.from, e.to} = {u, n}

\* All of it: what one query of the graph says, no other one contradicts.
AnswersAgree(in) == PathsAreReal(in) /\ ReportsAgree(in) /\ NothingIsLoose(in)
=============================================================================

------------------------------ MODULE CallEdges ------------------------------
(***************************************************************************)
(* The resolvers that find the calls of a Python project, and what becomes *)
(* of what they find: PyanResolver, LibCSTResolver and LSPResolver         *)
(* (chunking/relationships/), the mapping of names and positions to chunks *)
(* (evaluation/chunk_mapping.py), run_resolvers and inject_call_edges.     *)
(*                                                                         *)
(* A chunk is its place (a file, from a line to a line), its type and its  *)
(* qualified name; file paths and names are sequences of their parts.      *)
(* What the analysers report is an input.  Confidences are in hundredths.  *)
(***************************************************************************)
EXTENDS Integers, Sequences, FiniteSets, SequencesExt

Semantic == {"function", "method", "class", "decorated_definition"}

\* build_line_to_chunk_map: a chunk without lines (a module's summary) has no place.
LineMap(chunks) == {c \in chunks : c.type \in Semantic /\ c.start > 0 /\ c.end > 0}

\* find_enclosing_chunk: the innermost, the first of two that are as small.
Enclosing(map, file, line) ==
  LET around == {c \in map : c.file = file /\ line \in c.start .. c.end}
  IN {c \in around : \A d \in around :
        \/ c.end - c.start < d.end - d.start
        \/ c.end - c.start = d.end - d.start /\ c.start <= d.start}

\* chunk_id_from_fqn: the longest module first, then the first chunk there whose name
\* ends in what is left of the fully-qualified one.
FromFqn(map, fqn) ==
  LET Named(i) == {c \in map : c.file = SubSeq(fqn, 1, i)
                             /\ IsSuffix(SubSeq(fqn, i + 1, Len(fqn)), c.name)}
      splits == {i \in 1 .. Len(fqn) - 1 : Named(i) # {}}
      named == Named(Max(splits))
  IN IF splits = {} THEN {}
     ELSE {c \in named : \A d \in named : c.start < d.start \/ (c.start = d.start /\ c.end <= d.end)}

\* prepare_scoped_files: files under excluded directories, outside the index or that do
\* not parse are left out; an empty map scopes nothing.
Scoped(files, map) ==
  {f \in files : ~f.excluded /\ f.parses /\ (map = {} \/ \E c \in map : c.file = f.path)}

-----------------------------------------------------------------------------
(* The resolvers.  Each gives a set of edges; a chunk that calls itself is  *)
(* no edge.                                                                 *)

Edge(from, to, line, confidence, source) ==
  [pair |-> <<from, to>>, line |-> line, confidence |-> confidence, source |-> source]

Edges(from, to, line, confidence, source) ==
  {Edge(c, d, line, confidence, source) : <<c, d>> \in {p \in from \X to : p[1] # p[2]}}

Callable == {"FUNCTION", "METHOD", "STATICMETHOD", "CLASSMETHOD"}

\* _node_to_raw_chunk_id: by position if there is one, else by name.
NodeChunk(map, node) ==
  LET here == IF node.line > 0 THEN Enclosing(map, node.file, node.line) ELSE {}
  IN IF here # {} THEN here ELSE FromFqn(map, node.fqn)

\* A pass that overruns its budget is abandoned as a whole.
PyanEdges(map, calls, overran) ==
  LET Real(node) == node.defined /\ ~node.wildcard
  IN IF overran THEN {} ELSE
     UNION {Edges(NodeChunk(map, c.from), NodeChunk(map, c.to), c.to.line,
                  IF c.expanded THEN 60 ELSE 75, "pyan") :
            c \in {d \in calls : /\ d.from.flavor \in Callable /\ Real(d.from)
                                 /\ d.to.flavor \in Callable \cup {"CLASS"} /\ Real(d.to)
                                 /\ d.to.inside}}

\* Positions are not asked for: the line is 0.
LibcstEdges(map, calls) ==
  UNION {Edges(FromFqn(map, c.from), FromFqn(map, c.to), 0, 90, "libcst") : c \in calls}

\* _session: only a chunk whose first lines show a def or a class is asked for; callees
\* outside the project are dropped.
LspEdges(map, calls) ==
  UNION {Edges({c.from}, Enclosing(map, c.file, c.line), c.line, 98, "lsp") :
         c \in {d \in calls : d.from \in map /\ d.from.def /\ d.inside}}

-----------------------------------------------------------------------------
\* run_resolvers: they run at the same time, one that is missing or fails adds nothing,
\* and what they found is merged in the order of their confidence.
Found(map, in) ==
  <<IF in.pyan.outcome = "answers" THEN PyanEdges(map, in.pyan.calls, FALSE)
    ELSE IF in.pyan.outcome = "overruns" THEN PyanEdges(map, in.pyan.calls, TRUE) ELSE {},
    IF in.libcst.outcome = "answers" THEN LibcstEdges(map, in.libcst.calls) ELSE {},
    IF in.lsp.outcome = "answers" THEN LspEdges(map, in.lsp.calls) ELSE {}>>

\* sorted(raw_edges): of one pair, by line.
InOrder(edges) == SetToSortSeq(edges, LAMBDA e, f : e.line < f.line)

MergeEdge(merged, e) ==
  IF e.pair \in DOMAIN merged /\ merged[e.pair].confidence >= e.confidence
  THEN merged ELSE (e.pair :> e) @@ merged

Merged(map, in) ==
  FoldLeft(LAMBDA merged, found : FoldLeft(MergeEdge, merged, InOrder(found)), <<>>, Found(map, in))

\* inject_call_edges over the edges that chunking has put into the graph.
InjectEdge_Overwrites(graph, e) ==
  (e.pair :> [confidence |-> e.confidence, line |-> e.line]) @@ graph

InjectEdge(graph, e) ==
  IF e.pair \notin DOMAIN graph
  THEN (e.pair :> [confidence |-> e.confidence, line |-> e.line]) @@ graph
  ELSE IF e.confidence <= graph[e.pair].confidence THEN graph
  ELSE [graph EXCEPT ![e.pair] = [confidence |-> e.confidence,
                                  line |-> IF e.line > 0 THEN e.line ELSE @.line]]

Injected(in) ==
  LET map == LineMap(in.chunks)
      merged == Merged(map, in)
      kept == {p \in DOMAIN merged : merged[p].confidence >= in.minConfidence
                                   /\ p[1] \in in.nodes /\ p[2] \in in.nodes}
  IN IF in.nodes = {} THEN in.graph
     ELSE FoldLeft(LAMBDA g, p : InjectEdge(g, merged[p]), in.graph, SetToSeq(kept))

-----------------------------------------------------------------------------
\* Whatever the resolvers find, in whichever order they end and whichever of them
\* fail: an edge is in the graph if it was there or one of them found it among the
\* indexed functions, it carries the highest confidence anybody gave it, a resolver
\* that knows no lines does not take away the one chunking found, and a call is never
\* attributed to a class when a method of it is around it
\* (call_edge_injection.py:187-226, call_edge_resolver.py:489-524).
EdgesAreTheBestFound(in) ==
  LET map == LineMap(in.chunks)
      found == {e \in UNION Range(Found(map, in)) :
                  e.confidence >= in.minConfidence /\ e.pair \in in.nodes \X in.nodes}
      graph == Injected(in)
  IN /\ DOMAIN graph = DOMAIN in.graph \cup {e.pair : e \in found}
     /\ \A p \in DOMAIN graph :
          /\ graph[p].confidence =
               Max({e.confidence : e \in {f \in found : f.pair = p}}
                   \cup (IF p \in DOMAIN in.graph THEN {in.graph[p].confidence} ELSE {}))
          /\ p \in DOMAIN in.graph /\ in.graph[p].line > 0 => graph[p].line > 0
     /\ \A e \in found : e.source = "lsp" =>
          ~ \E c \in map : /\ c.file = e.pair[2].file /\ e.line \in c.start .. c.end
                           /\ c.start >= e.pair[2].start /\ c.end <= e.pair[2].end
                           /\ c # e.pair[2]
=============================================================================

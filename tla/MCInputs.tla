------------------------------- MODULE MCInputs -------------------------------
(* Values of the constants of the components that MCServices explores, and the  *)
(* inputs of those that are algorithms: a first part (...First) and what        *)
(* completes it.                                                                *)
EXTENDS Integers, Sequences, FiniteSets, TLC, SequencesExt

CONSTANTS f1, f2, n1, n2, q1, q2, q3, g, F, G, m1, m2, p1, Free,
          t1, t2,  \* interchangeable wherever they are used
          r1, r2   \* and these

Twins == Permutations({t1, t2}) \cup Permutations({r1, r2})

UpTo(S, k) == UNION {[1 .. i -> S] : i \in 0 .. k}
Few(S, k) == {x \in SUBSET S : Cardinality(x) <= k}

------------------------------------------------------------------------------
(* SearchPipeline: a function in two pieces and its class, another method and   *)
(* its class, which a filter for methods leaves out.                            *)

Found == {f1, f2, g, F, G}
DedupKeys == [x \in Found |-> IF x = f2 THEN f1 ELSE x]
Parents == [x \in Found |-> CASE x \in {f1, f2} -> F [] x = g -> G [] OTHER -> Free]
Neighbors == [x \in Found |-> CASE x = f1 -> {g, F} [] x = g -> {f1, G} [] x = f2 -> {F}
                                [] x = F -> {f1, f2} [] x = G -> {g}]

Plain == [k |-> 1, mode |-> "hybrid", filtered |-> FALSE, hops |-> "hybrid",
          ego |-> TRUE, parents |-> TRUE, singlePass |-> FALSE]

Searches ==
  {Plain, [Plain EXCEPT !.k = 2],
   [Plain EXCEPT !.filtered = TRUE], [Plain EXCEPT !.singlePass = TRUE],
   [Plain EXCEPT !.k = 2, !.mode = "semantic", !.filtered = TRUE, !.hops = "semantic", !.ego = FALSE],
   [Plain EXCEPT !.k = 2, !.mode = "bm25", !.filtered = TRUE, !.hops = "graph", !.parents = FALSE],
   [Plain EXCEPT !.k = 2, !.mode = "semantic", !.hops = "off", !.ego = FALSE],
   [Plain EXCEPT !.k = 2, !.mode = "bm25", !.hops = "one", !.ego = FALSE, !.parents = FALSE]}

------------------------------------------------------------------------------
(* QueryEmbedding.                                                              *)

Batches == {<<q1>>, <<q2, q1>>, <<q1, q2, q3>>, <<q1, q1>>}

------------------------------------------------------------------------------
(* Configuration: two fields, one of them set by the environment.               *)

Asked == {("x" :> 1), ("x" :> 1) @@ ("y" :> 9), ("x" :> 0) @@ ("y" :> 1)}
Written == {<<>>, ("x" :> 1), ("x" :> 0) @@ ("y" :> 1)}
FieldOrder == <<"x", "y">>
FromEnvironment == "y" :> 1

------------------------------------------------------------------------------
(* Reranker: the candidates of a pass, two models.                              *)

ThreeHits == <<1, 2, 3>>
Kinds == (n1 :> "cross") @@ (n2 :> "generative")

------------------------------------------------------------------------------
(* CallEdges: a class with two methods, the piece of a method, two functions.   *)

Chunk(file, start, end, type, name, def) ==
  [file |-> file, start |-> start, end |-> end, type |-> type, name |-> name, def |-> def]
Cm == Chunk(<<"a">>, 2, 4, "method", <<"C", "m">>, TRUE)
Cn == Chunk(<<"a">>, 5, 9, "method", <<"C", "n">>, TRUE)
Bf == Chunk(<<"b">>, 1, 4, "function", <<"f">>, TRUE)
Placed == {Cm, Cn, Bf, Chunk(<<"a">>, 1, 10, "class", <<"C">>, TRUE),
           Chunk(<<"a">>, 2, 3, "split_block", <<"C", "m">>, TRUE),
           Chunk(<<"b">>, 5, 8, "function", <<"g">>, FALSE)}

Pyan(flavor, line, file, fqn) ==
  [flavor |-> flavor, defined |-> TRUE, wildcard |-> FALSE, line |-> line, file |-> file,
   fqn |-> fqn, inside |-> TRUE]
PyanF == Pyan("FUNCTION", 1, <<"b">>, <<"b", "f">>)
PyanM == Pyan("METHOD", 2, <<"a">>, <<"a", "C", "m">>)
PyanC == Pyan("CLASS", 0, <<"a">>, <<"a", "C">>)
PyanCalls == {[from |-> PyanF, to |-> PyanM, expanded |-> x] : x \in BOOLEAN}
             \cup {[from |-> PyanM, to |-> PyanC, expanded |-> FALSE]}
LibCSTCalls == {[from |-> <<"b", "f">>, to |-> <<"a", "C", "m">>], [from |-> <<"b", "f">>, to |-> <<"b", "g">>]}
LSPCalls == {[from |-> Bf, file |-> <<"a">>, line |-> 3, inside |-> TRUE],
             [from |-> Bf, file |-> <<"a">>, line |-> 1, inside |-> TRUE],
             [from |-> Cm, file |-> <<"b">>, line |-> 6, inside |-> TRUE]}

EdgesFirst ==
  [chunks : {Placed}, nodes : {Placed, Placed \ {Cn}, {}}, minConfidence : {0, 80},
   graph : {<<>>} \cup {[e \in {<<Bf, Cm>>} |-> [confidence |-> k, line |-> 3]] : k \in {60, 100}}]
EdgesRest ==
  [pyan : [outcome : {"answers", "overruns"}, calls : SUBSET PyanCalls],
   libcst : [outcome : {"answers", "fails"}, calls : SUBSET LibCSTCalls],
   lsp : [outcome : {"answers", "missing"}, calls : SUBSET LSPCalls]]

------------------------------------------------------------------------------
(* Chunking: files of four nodes, whose gaps of 0 lines put two on a line;      *)
(* functions too large for one piece; nested containers.                        *)

Glsl == [siblingDocs |-> TRUE, declarations |-> TRUE, small |-> 3, containers |-> {},
         boundaries |-> {"statement", "declaration"},
         adaptive |-> TRUE, maxSize |-> 3, maxLines |-> 3, cap |-> 4]
Python == [Glsl EXCEPT !.siblingDocs = FALSE, !.declarations = FALSE,
                       !.boundaries = {"branch"}, !.containers = {"class"}]
Cpp == [Glsl EXCEPT !.siblingDocs = FALSE, !.declarations = FALSE,
                    !.boundaries = {}, !.containers = {"class", "namespace"}]

SyntaxNode(id, kind, from, to, name, kids) ==
  [id |-> id, kind |-> kind, from |-> from, to |-> to, size |-> 1, name |-> name,
   calls |-> {}, complexity |-> 2, kids |-> kids]
Layout(kinds, gaps) ==
  LET Add(acc, i) == LET line == acc.line + gaps[i]
                     IN [line |-> line,
                         nodes |-> Append(acc.nodes, SyntaxNode(i, kinds[i], line, line, "n", <<>>))]
  IN FoldLeft(Add, [line |-> 1, nodes |-> <<>>], [i \in DOMAIN kinds |-> i]).nodes
Large(kinds) ==
  LET body == [i \in DOMAIN kinds |-> [SyntaxNode(10 + i, kinds[i], i + 1, i + 1, "", <<>>)
                                         EXCEPT !.size = IF kinds[i] = "branch" THEN 2 ELSE 1]]
  IN <<[SyntaxNode(1, "function", 1, 5, "f", body)
          EXCEPT !.calls = {[name |-> "g", line |-> l] : l \in 2 .. 5}]>>
Nested ==
  <<SyntaxNode(1, "namespace", 1, 9, "A",
      <<SyntaxNode(2, "function", 2, 2, "e", <<>>),
        SyntaxNode(3, "namespace", 3, 5, "A", <<SyntaxNode(4, "function", 4, 4, "f", <<>>)>>),
        SyntaxNode(5, "wrapper", 6, 8, "", <<SyntaxNode(6, "function", 7, 7, "g", <<>>)>>)>>)>>
Source(lang, nodes, functions, errors) ==
  [lang |-> lang, file |-> [supported |-> TRUE, read |-> "text", parses |-> TRUE, nodes |-> nodes],
   functions |-> functions, enough |-> 3, errors |-> errors]

NodeKinds == {"statement", "comment", "declaration", "function", "import"}
Profiles == {<<>>, <<[size |-> 2, complexity |-> 1], [size |-> 4, complexity |-> 3],
                     [size |-> 3, complexity |-> 1]>>}
ChunkingFirst ==
  [kind : {"flat"}, lang : {Glsl, Python}, kinds : [1 .. 4 -> NodeKinds]]
  \cup [kind : {"large"}, lang : {Glsl, Python}, kinds : [1 .. 4 -> {"statement", "branch", "comment"}]]
  \cup [kind : {"nested"}, lang : {Cpp}, kinds : {<<>>}]
ChunkingRest(in) ==
  CASE in.kind = "flat" -> {Source(in.lang, Layout(in.kinds, gaps), <<>>, {<<2, 4>>}) : gaps \in {0} \X (0 .. 2) \X (0 .. 2) \X (0 .. 2)}
    [] in.kind = "large" -> {Source(in.lang, Large(in.kinds), fs, {<<1, 1>>, <<2, 3>>, <<5, 6>>}) : fs \in Profiles}
    [] in.kind = "nested" -> {Source(in.lang, Nested, <<>>, {<<9, 10>>})}

------------------------------------------------------------------------------
(* GraphQueries: four chunks, one of them an old one, two symbols.  Paths do    *)
(* not depend on what is excluded or found.                                     *)

CmNode == [file |-> "f", name |-> <<"C", "m">>]
GNode == [file |-> "f", name |-> <<"g">>]
KNode == [file |-> "h", name |-> <<"k">>]
OldNode == [file |-> "h", name |-> <<"old", "g">>]
KSymbol == [file |-> "", name |-> <<"k">>]
MSymbol == [file |-> "", name |-> <<"m">>]
Edge(u, v, type, confidence) == [from |-> u, to |-> v, type |-> type, confidence |-> confidence]
GraphFirst == SUBSET
  {Edge(CmNode, GNode, "calls", 0), Edge(CmNode, GNode, "uses_type", 0), Edge(GNode, KNode, "calls", 90),
   Edge(GNode, KSymbol, "calls", 0), Edge(KNode, MSymbol, "calls", 0), Edge(KNode, CmNode, "uses_type", 0),
   Edge(OldNode, KNode, "calls", 0), Edge(KNode, GNode, "calls", 75)}
GraphRest(edges) ==
  {[nodes |-> {CmNode, GNode, KNode, OldNode, KSymbol, MSymbol},
    order |-> <<CmNode, GNode, KNode, OldNode, KSymbol, MSymbol>>,
    edges |-> edges \cup {Edge(CmNode, KSymbol, "imports", 0)},
    chunks |-> chunks, excluded |-> excluded, found |-> found, common |-> {<<"m">>},
    depth |-> depth, filters |-> IF excluded = {} /\ found = <<>> THEN {{}, {"calls"}} ELSE {}] :
     depth \in {1, 3}, chunks \in {{CmNode, GNode, KNode}, {CmNode, GNode, KNode, OldNode}},
     excluded \in {{}, {"h"}}, found \in {<<>>, <<KNode, GNode>>}}

------------------------------------------------------------------------------
(* Metrics: up to three results of a small index, up to two ranges of lines.    *)

Result(file, name, lines, community, synthetic) ==
  [file |-> file, name |-> name, merged |-> {}, lines |-> lines, community |-> community,
   synthetic |-> synthetic]
Index == <<Result("A", "n", <<1, 2>>, 1, FALSE), Result("A", "n", <<3, 4>>, 1, FALSE),
           Result("A", "m", <<5, 6>>, Free, FALSE), Result("B", "n", <<1, 3>>, 1, FALSE),
           Result("B", Free, <<1, 1>>, Free, FALSE)>>
Results == ToSet(Index) \cup {Result("S", "s", <<1, 1>>, 1, TRUE)}
Module == [file |-> "B", name |-> Free]
Answers == {[file |-> "A", name |-> "n"], [file |-> "A", name |-> "m"], [file |-> "B", name |-> "n"], Module}
LineRanges == {r \in (1 .. 3) \X (1 .. 3) : r[1] <= r[2]}
MetricsFirst == [kind : {"ranks"}, results : UpTo(Results, 3)]
                \cup [kind : {"lines"}, retrieved : {("A" :> r) : r \in UpTo(LineRanges, 2)}]
MetricsRest(in) ==
  IF in.kind = "ranks"
  THEN {in @@ [expected |-> e \ w, worse |-> w, index |-> Index] : e \in Few(Answers, 2) \cup {Answers}, w \in {{}, {Module}}}
  ELSE {in @@ [golden |-> ("A" :> r) @@ ("B" :> s)] :
          r \in UpTo(LineRanges, 2), s \in {<<>>, <<<<1, 2>>, <<2, 3>>>>}}

------------------------------------------------------------------------------
(* SourceTree: a small disk with ignored and dependency directories; patterns;  *)
(* and a second look at it after up to two changes.                             *)

Tree == INSTANCE SourceTree WITH
  AlwaysIgnored <- {".git"}, DefaultIgnored <- {"venv", "build"}, DependencyDirs <- {"venv"},
  IgnoredNames <- {"x.pyc"}, Star <- "*", Deep <- "**"

Pattern(names) == [names |-> names, absolute |-> FALSE, under |-> TRUE]
Patterns ==
  {Pattern(<<"a">>), [Pattern(<<"a">>) EXCEPT !.absolute = TRUE],
   [names |-> <<"a">>, absolute |-> TRUE, under |-> FALSE], Pattern(<<"a", "b">>),
   Pattern(<<"**", "b">>), Pattern(<<"a", "**", "c">>), Pattern(<<"venv">>),
   Pattern(<<"venv", "a">>), Pattern(<<"*", "c">>), Pattern(<<"build">>)}

Stored(content) == [content |-> content, mtime |-> 0, readable |-> TRUE, supported |-> TRUE]
Paths == {<<"c">>, <<"a", "c">>, <<"a", "b", "c">>, <<"b", "a", "c">>, <<"venv", "a", "c">>,
          <<"venv", "b">>, <<"build", "c">>, <<".git", "a">>, <<"a", "x.pyc">>}
Disk == [p \in Paths |-> [Stored(0) EXCEPT !.supported = p # <<"b", "a", "c">>]]
Befores == {Disk, [Disk EXCEPT ![<<"c">>].readable = FALSE]}

Watched == {<<"c">>, <<"a", "b", "c">>, <<"a", "d">>, <<"venv", "b">>}
Rewritten == {Stored(1), [Stored(1) EXCEPT !.readable = FALSE],
              [Stored(1) EXCEPT !.readable = FALSE, !.mtime = 1],
              [Stored(0) EXCEPT !.supported = FALSE, !.mtime = 1]}
\* After: one file anew, and another one anew or gone.
Afters ==
  LET Anew(p, x) == [q \in Paths \cup Watched |->
                       IF q = p THEN x ELSE IF q \in Paths THEN Disk[q] ELSE Stored(2)]
  IN UNION {{[Anew(p, x) EXCEPT ![q] = y], [r \in (Paths \cup Watched) \ {q} |-> Anew(p, x)[r]]} :
              p \in Watched, q \in Watched, x \in Rewritten, y \in {Stored(1)}}

Unfiltered == [include |-> {}, exclude |-> {}, exclusive |-> FALSE]
IndexFilters ==
  {Unfiltered,
   [include |-> Tree!Parse({Pattern(<<"a">>)}), exclude |-> {}, exclusive |-> TRUE],
   [include |-> Tree!Parse({Pattern(<<"venv">>)}), exclude |-> Tree!Parse({Pattern(<<"a", "b">>)}),
    exclusive |-> FALSE]}
TreeFirst == [kind : {"filter"}, include : {Tree!Parse(ps) : ps \in Few(Patterns, 2)}]
             \cup [kind : {"change"}, filter : IndexFilters, before : Befores]
TreeRest(in) ==
  IF in.kind = "filter"
  THEN {[kind |-> "filter", disk |-> Disk,
         filter |-> [include |-> in.include, exclude |-> Tree!Parse(ps), exclusive |-> x]] :
          ps \in Few(Patterns, 1), x \in BOOLEAN}
  ELSE {in @@ [request |-> r, after |-> after, unlistable |-> u] :
          r \in {[Unfiltered EXCEPT !.include = Tree!NotGiven, !.exclude = Tree!NotGiven], Unfiltered},
          after \in Afters, u \in {{}, {<<"a">>}}}
------------------------------------------------------------------------------
(* LexicalIndex: a file with two chunks that changes, and one that does not.    *)

FileChunks == (F :> <<f1, f2>>) @@ (G :> <<g>>)
ChunkNames == (f1 :> {<<"user", "store">>, <<"get">>}) @@ (f2 :> {<<"store">>}) @@ (g :> {<<"the">>, <<"run">>})
Texts == (F :> {{<<"get", "users">>, <<"the">>}, {<<"run">>}}) @@ (G :> {{<<"the">>, <<"get">>}})
Stems == [w \in {"user", "users", "store", "get", "the", "run"} |-> IF w = "users" THEN "user" ELSE w]

\* BM25Okapi of up to three documents, in hundredths: a token is worth the less, the more of
\* them have it, and one that most have a quarter of the average.  What the length of a
\* document adds is left out.
Idf(total, having) == <<<<-110>>, <<0, -161>>, <<51, -51, -195>>>>[total][having]
Bm25(corpus, i, tokens) ==
  LET all == UNION ToSet(corpus)
      idf == [t \in all |-> Idf(Len(corpus), Cardinality({d \in DOMAIN corpus : t \in corpus[d]}))]
      average == MapThenSumSet(LAMBDA t : idf[t], all) \div Cardinality(all)
  IN MapThenSumSet(LAMBDA t : IF idf[t] >= 0 THEN idf[t] ELSE average \div 4, corpus[i] \cap tokens)

LexicalQueries == {{<<"users">>}, {<<"get", "users">>}, {<<"the">>}, {<<"user", "store">>}, {<<"run">>, <<"the">>}}

------------------------------------------------------------------------------
(* IntentRouting: queries with signs of up to four intents, where it is tight.  *)

Token(style, common) == [style |-> style, common |-> common]
Anchor(like, fails) == [like |-> like, fails |-> fails]
Asking == {"similarity", "contextual", "local", "global"}
Precedences == <<"similarity", "navigational", "contextual", "local", "global">>
Weights == [i \in ToSet(Precedences) |-> IF i \in {"similarity", "navigational"} THEN 120 ELSE 100]
Anchors ==
  [i \in ToSet(Precedences) |->
     CASE i = "global" -> {Anchor(80, FALSE), Anchor(20, FALSE)}
       [] i = "local" -> {Anchor(80, TRUE), Anchor(-10, FALSE)}
       [] i = "similarity" -> {Anchor(90, TRUE)}
       [] OTHER -> {}]
AnchorCaches ==
  {<<>>, <<[model |-> m2, anchors |-> ("global" :> {Anchor(10, FALSE)})], [model |-> g, anchors |-> <<>>]>>,
   <<[model |-> m1, anchors |-> ("similarity" :> {Anchor(90, FALSE)})]>>}
Asks == {[share |-> 30, default |-> "hybrid", maxK |-> 20, mode |-> "auto", ego |-> TRUE, lookup |-> "finds"],
         [share |-> 100, default |-> "global", maxK |-> 3, mode |-> "bm25", ego |-> FALSE, lookup |-> "fails"]}
IntentFirst ==
  [signs : [Asking -> {<<0, 0>>, <<3, 0>>, <<1, 130>>}], words : {5, 9},
   tokens : {<<>>, <<Token("camel", FALSE), Token("snake", FALSE)>>, <<Token("upper", TRUE)>>}]
IntentRest(in) ==
  {[keywords |-> [i \in ToSet(Precedences) |-> IF i \in Asking THEN in.signs[i][1] ELSE 0],
    patterns |-> [i \in ToSet(Precedences) |-> IF i \in Asking THEN in.signs[i][2] ELSE 0],
    tokens |-> in.tokens, named |-> named, words |-> in.words, semantic |-> how[1] # "off",
    embeds |-> how[1] = "works", model |-> m1, cache |-> how[2], anchors |-> Anchors,
    threshold |-> 40, k |-> 4, hops |-> 3] @@ asked :
     named \in {Free, Token("word", TRUE)}, asked \in Asks,
     how \in ({"off"} \X {<<>>}) \cup ({"works", "fails"} \X AnchorCaches)}
QueriesToRoute == [in \in IntentFirst |-> IntentRest(in)]

------------------------------------------------------------------------------
(* BatchSizing: GPUs of 4 to 24 GiB, as free as they may be; models of 40 MiB   *)
(* to 2 GiB for a chunk.                                                        *)

Gpus == {[total |-> t * 1024, us |-> u * 512, free |-> f * 512] : t \in {4, 8, 12, 24}, u \in {0, 3, 9}, f \in {0, 1, 7, 8, 14, 23, 40}}
Archs == {[hidden |-> 0, heads |-> 0, kv |-> 0, head |-> 0, inner |-> 0, type |-> "bert", wide |-> FALSE],
          [hidden |-> 1024, heads |-> 16, kv |-> 8, head |-> 128, inner |-> 3072, type |-> "qwen3", wide |-> FALSE],
          [hidden |-> 4096, heads |-> 32, kv |-> 8, head |-> 0, inner |-> 0, type |-> "bert", wide |-> TRUE]}
BatchFirst == [gpu : {x \in Gpus : x.us + x.free <= x.total}]
BatchRest(in) ==
  {in @@ [cuda |-> cuda, fraction |-> fraction, fallback |-> FALSE, override |-> override, measured |-> measured,
          arch |-> arch, min |-> 4, max |-> max, dynamic |-> TRUE, fixed |-> 64] :
     cuda \in {TRUE}, fraction \in {50, 75, 80, 95}, override \in {"none", "on"}, measured \in {0, 300000},
     arch \in Archs, max \in {2, 64, 256}}
BatchesToSize == [in \in BatchFirst |-> BatchRest(in)]

------------------------------------------------------------------------------
(* EgoGraph: the results are one chunk or two of four, with a symbol between.   *)

XNode == [file |-> "f", name |-> <<"x">>]
YNode == [file |-> "f", name |-> <<"y">>]
ANode == [file |-> "f", name |-> <<"a">>]
ZNode == [file |-> "g", name |-> <<"z">>]
SSymbol == [file |-> "", name |-> <<"s">>]
EgoFirst == SUBSET
  {Edge(ANode, XNode, "calls", 0), Edge(ANode, YNode, "imports", 0), Edge(XNode, ZNode, "calls", 0),
   Edge(YNode, ZNode, "uses", 0), Edge(YNode, XNode, "calls", 0), Edge(ANode, SSymbol, "calls", 0),
   Edge(SSymbol, ZNode, "calls", 0)}
EgoRest(edges) ==
  {[edges |-> edges, nodes |-> {ANode, XNode, YNode, ZNode, SSymbol}, anchors |-> anchors,
    forward |-> {"calls", "imports", "uses"}, backward |-> {"calls"}, imports |-> {}, hops |-> hops,
    perHop |-> 1, k |-> 1, weights |-> weights, central |-> (XNode :> 3) @@ (YNode :> 1), mode |-> mode,
    ppr |-> ppr, similar |-> (XNode :> 90) @@ (YNode :> 10) @@ (ZNode :> 30), threshold |-> 15,
    embeds |-> TRUE, readable |-> TRUE, metadata |-> {XNode, YNode, ZNode}] :
     anchors \in {<<[id |-> ANode, score |-> 5], [id |-> YNode, score |-> 3]>>, <<[id |-> ANode, score |-> 5]>>},
     hops \in 1 .. 3, weights \in {<<>>, ("calls" :> 100) @@ ("imports" :> 30)},
     mode \in {"bfs", "ppr"}, ppr \in {(XNode :> 1) @@ (YNode :> 2) @@ (ZNode :> 3)}}
=============================================================================

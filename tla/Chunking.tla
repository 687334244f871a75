------------------------------- MODULE Chunking -------------------------------
(***************************************************************************)
(* From a file's syntax tree to its chunks: parse_file and chunk_parsed     *)
(* (chunking/tree_sitter.py, chunking/languages/base.py with the choices of *)
(* python.py and glsl.py), the conversion of MultiLanguageChunker, the      *)
(* profile that sizes the pieces of large functions and the file summaries. *)
(*                                                                         *)
(* A node of the tree is a record: an id, a kind, the lines it spans, its   *)
(* size, a name, the calls in it (name and line) and its children.  A       *)
(* function's children are the statements of its body.  A language says     *)
(* which kinds contain others, where a body can be cut, and whether the     *)
(* comments around a node are its documentation (glsl) or not (python).     *)
(***************************************************************************)
EXTENDS Integers, Sequences, FiniteSets, SequencesExt

Comment(node) == node.kind = "comment"

\* _leading_comment_sibling_run: the comments right above a node, up to a blank line or
\* a comment that ends the line of an earlier node.
LeadingRun(nodes, i) ==
  {j \in 1 .. i - 1 : \A k \in j .. i - 1 :
     /\ Comment(nodes[k])
     /\ nodes[k].to >= nodes[k + 1].from - 1
     /\ ~(k > 1 /\ nodes[k - 1].to = nodes[k].from)}

\* _trailing_comment_sibling
Trailing(nodes, i) ==
  {j \in {i + 1} \cap DOMAIN nodes : Comment(nodes[j]) /\ nodes[j].from = nodes[i].to}

Documentation(lang, nodes, i) ==
  IF lang.siblingDocs THEN LeadingRun(nodes, i) \cup Trailing(nodes, i) ELSE {}

\* should_chunk_node: GLSL leaves small declarations nobody documented to the preamble.
Chunkable(lang, nodes, i) ==
  \/ nodes[i].kind \in {"function", "decorated"} \cup lang.containers
  \/ /\ nodes[i].kind = "declaration" /\ lang.declarations
     /\ LeadingRun(nodes, i) \cup Trailing(nodes, i) # {} \/ nodes[i].size >= lang.small

RECURSIVE HoldsChunk(_, _, _)
\* _child_is_chunked
HoldsChunk(lang, nodes, i) ==
  \/ Chunkable(lang, nodes, i)
  \/ \E k \in DOMAIN nodes[i].kids : HoldsChunk(lang, nodes[i].kids, k)

-----------------------------------------------------------------------------
(* How large a piece may be.                                                *)

\* profile_repository: the third quartile (statistics.quantiles, exclusive) of the sizes
\* of the functions, and the highest complexity above 1.
Quartile(sizes) ==
  LET s == SortSeq(sizes, <)
      n == Len(s)
      j == Max({1, Min({n - 1, (3 * (n + 1)) \div 4})})
      d == 3 * (n + 1) - 4 * j
  IN (s[j] * (4 - d) + s[j + 1] * d) \div 4

Profile(functions, enough) ==
  IF Len(functions) < enough THEN [p75 |-> 0, complexity |-> 1]
  ELSE [p75 |-> Quartile([i \in DOMAIN functions |-> functions[i].size]),
        complexity |-> Max({1} \cup {functions[i].complexity : i \in DOMAIN functions})]

\* compute_adaptive_threshold with the default multipliers 1.3 and 0.5.
Threshold(lang, profile, node) ==
  IF ~lang.adaptive \/ profile.p75 = 0 THEN lang.maxSize
  ELSE Min({lang.cap, (profile.p75 * (13 * profile.complexity
                       - 8 * Min({node.complexity, profile.complexity})))
                      \div (10 * profile.complexity)})

SizeOf(nodes) == FoldLeft(LAMBDA s, n : s + n.size, 0, nodes)

Closed(acc) == IF acc.now = <<>> THEN acc.done ELSE Append(acc.done, acc.now)
Several(pieces) == IF Len(pieces) < 2 THEN <<>> ELSE pieces

\* _split_large_node: statements pile up until one that may start a piece would make
\* this one too large.
Split_FromAnywhere(lang, node, max) ==
  LET Add(acc, kid) ==
        IF acc.now # <<>> /\ SizeOf(Append(acc.now, kid)) >= max
        THEN [done |-> Append(acc.done, acc.now), now |-> <<>>]
        ELSE [acc EXCEPT !.now = Append(@, kid)]
  IN IF lang.boundaries = {} THEN <<>>
     ELSE Several(Closed(FoldLeft(Add, [done |-> <<>>, now |-> <<>>], node.kids)))

Split(lang, node, max) ==
  LET Add(acc, kid) ==
        IF acc.now # <<>> /\ kid.kind \in lang.boundaries /\ SizeOf(Append(acc.now, kid)) >= max
        THEN [done |-> Append(acc.done, acc.now), now |-> <<kid>>]
        ELSE [acc EXCEPT !.now = Append(@, kid)]
  IN IF lang.boundaries = {} THEN <<>>
     ELSE Several(Closed(FoldLeft(Add, [done |-> <<>>, now |-> <<>>], node.kids)))

Pieces(lang, profile, node) ==
  IF /\ node.kind \in {"function", "decorated"}
     /\ node.to - node.from + 1 > lang.maxLines
  THEN Split(lang, node, Threshold(lang, profile, node)) ELSE <<>>

-----------------------------------------------------------------------------
(* The chunks.  "holds" are the nodes whose text is in the chunk, "doc" the *)
(* comments folded into its documentation.                                  *)

Ids(nodes) == {nodes[i].id : i \in DOMAIN nodes}

NoParent == [name |-> "", kind |-> "none"]

Chunk(kind, node, holds, doc, from, to, parent) ==
  [kind |-> kind, name |-> node.name, id |-> node.id, holds |-> holds, doc |-> doc,
   from |-> from, to |-> to, parent |-> parent, calls |-> node.calls]

OwnChunks(node, pieces, doc, parent) ==
  IF pieces = <<>> THEN <<Chunk(node.kind, node, {node.id}, doc, node.from, node.to, parent)>>
  ELSE [k \in DOMAIN pieces |->
          Chunk("split_block", node, Ids(pieces[k]), doc, Head(pieces[k]).from, Last(pieces[k]).to, parent)]

RECURSIVE Traverse(_, _, _, _, _)
\* traverse: only a container is also looked into.
Traverse(lang, profile, nodes, i, parent) ==
  LET node == nodes[i]
      Inside(up) == FlattenSeq([k \in DOMAIN node.kids |-> Traverse(lang, profile, node.kids, k, up)])
      doc == Ids([j \in Documentation(lang, nodes, i) |-> nodes[j]])
  IN IF ~Chunkable(lang, nodes, i) THEN Inside(parent)
     ELSE OwnChunks(node, Pieces(lang, profile, node), doc, parent)
          \o (IF node.kind \in lang.containers
              THEN Inside([name |-> node.name, kind |-> node.kind]) ELSE <<>>)

\* _trim_claimed_trailing_comments: the comments right above the next chunk are its own.
Trim(nodes, run, next) ==
  IF next > Len(nodes) THEN run
  ELSE run \ {j \in run : \A k \in {l \in run : l >= j} :
                Comment(nodes[k]) /\ nodes[k].to >= nodes[k + 1].from - 1}

\* _collect_module_preamble_chunks: a run of statements between two chunks is a chunk
\* unless it is all boilerplate; comments that open the file are kept.
Preamble(nodes, kept) ==
  Chunk("module_preamble", [name |-> "", id |-> 0, calls |-> {}], Ids([i \in kept |-> nodes[i]]), {},
        nodes[Min(kept)].from, nodes[Max(kept)].to, NoParent)
Wanted(nodes, chunked, next, kept) ==
  /\ \E i \in kept : nodes[i].kind # "punctuation"
  /\ \/ \E i \in kept : nodes[i].kind \notin {"comment", "import", "docstring"}
     \/ chunked \cap (1 .. next - 1) = {} /\ \A i \in kept : Comment(nodes[i])

Preambles_KeepTrailing(nodes, chunked) ==
  LET Kept(next) == Trim(nodes, {i \in 1 .. next - 1 : (i .. next - 1) \cap chunked = {}}, next)
      ends == {next \in chunked \cup {Len(nodes) + 1} : Wanted(nodes, chunked, next, Kept(next))}
      Before(next) == Preamble(nodes, Kept(next))
  IN FoldLeft(LAMBDA s, next : Append(s, Before(next)), <<>>, SetToSortSeq(ends, <))

Preambles(nodes, chunked) ==
  LET taken == {i \in 2 .. Len(nodes) : /\ Comment(nodes[i]) /\ i - 1 \in chunked
                                        /\ nodes[i].from = nodes[i - 1].to}
      Run(next) == {i \in 1 .. next - 1 : (i .. next - 1) \cap chunked = {}} \ taken
      Kept(next) == Trim(nodes, Run(next), next)
      ends == {next \in chunked \cup {Len(nodes) + 1} : Wanted(nodes, chunked, next, Kept(next))}
      Before(next) == Preamble(nodes, Kept(next))
  IN FoldLeft(LAMBDA s, next : Append(s, Before(next)), <<>>, SetToSortSeq(ends, <))

\* chunk_parsed: a file without any chunk is one.
OrWhole(chunks, nodes) ==
  IF chunks = <<>> /\ nodes # <<>>
  THEN <<Chunk("module", [name |-> "", id |-> 0, calls |-> {}], Ids(nodes), {},
               1, Last(nodes).to, NoParent)>>
  ELSE chunks
TreeChunks(lang, profile, nodes) ==
  OrWhole(FlattenSeq([i \in DOMAIN nodes |-> Traverse(lang, profile, nodes, i, NoParent)])
            \o Preambles(nodes, {i \in DOMAIN nodes : HoldsChunk(lang, nodes, i)}), nodes)

\* _map_node_type: a function of a class is a method, one of a namespace is not.
TypeOf(c) ==
  IF c.kind = "function" /\ c.parent.name # "" /\ c.parent.kind = "class" THEN "method" ELSE c.kind

\* _resolve_parent_chunk_id: among the containers of that name seen so far, the
\* innermost one around the first line, or else the last.
ParentOf(chunks, i) ==
  LET c == chunks[i]
      named == {j \in 1 .. i - 1 : /\ chunks[j].kind \in {"class", "namespace"}
                                   /\ chunks[j].name = c.parent.name}
      around == {j \in named : c.from \in chunks[j].from .. chunks[j].to}
  IN IF c.parent.name = "" \/ TypeOf(c) \notin {"method", "function"} \/ named = {} THEN 0
     ELSE IF around = {} THEN chunks[Max(named)].id
     ELSE chunks[CHOOSE j \in around : \A k \in around :
            chunks[k].from < chunks[j].from \/ (chunks[k].from = chunks[j].from /\ j <= k)].id

\* _extract_glsl_call_relationships: of the calls of the whole function, those on the
\* lines of the piece.
CallsOf(c) == {call \in c.calls : call.line \in c.from .. c.to}

\* chunk_file of a file that can be read in time, is no markup and parses.
Converted(chunks) ==
  [i \in DOMAIN chunks |->
     [type |-> TypeOf(chunks[i]), above |-> ParentOf(chunks, i), found |-> CallsOf(chunks[i])]
       @@ chunks[i]]
FileChunks(file, lang, profile) ==
  IF ~file.supported \/ file.read # "text" \/ ~file.parses THEN <<>>
  ELSE Converted(TreeChunks(lang, profile, file.nodes))

\* generate_file_summaries: a file of one chunk needs none.
Summarised(files, lang, profile) ==
  {f \in DOMAIN files : Len(FileChunks(files[f], lang, profile)) >= 2}

-----------------------------------------------------------------------------
(* What the parser gave up on: _uncovered_line_ranges.                       *)

\* Sorted ranges; the ones that touch become one.
MergeRanges(ranges) ==
  LET Add(merged, r) ==
        IF merged # <<>> /\ r[1] <= Last(merged)[2] + 1
        THEN Append(Front(merged), <<Last(merged)[1], Max({Last(merged)[2], r[2]})>>)
        ELSE Append(merged, r)
  IN FoldLeft(Add, <<>>, SetToSortSeq(ranges, LAMBDA r, s : r[1] < s[1] \/ (r[1] = s[1] /\ r[2] < s[2])))

\* One range, with the covered ones taken from it from left to right.
Subtract(r, covered) ==
  LET Step(acc, c) ==
        IF acc.cursor > r[2] \/ c[2] < acc.cursor \/ c[1] > r[2] THEN acc
        ELSE [cursor |-> c[2] + 1,
              left |-> IF c[1] > acc.cursor THEN Append(acc.left, <<acc.cursor, c[1] - 1>>) ELSE acc.left]
      all == FoldLeft(Step, [cursor |-> r[1], left |-> <<>>], covered)
  IN IF all.cursor <= r[2] THEN Append(all.left, <<all.cursor, r[2]>>) ELSE all.left

Uncovered(errors, chunks) ==
  LET covered == MergeRanges({<<chunks[i].from, chunks[i].to>> : i \in DOMAIN chunks})
      merged == MergeRanges(errors)
  IN FlattenSeq([i \in DOMAIN merged |-> Subtract(merged[i], covered)])

-----------------------------------------------------------------------------
RECURSIVE Members(_, _, _)
\* The functions of a container, however deep, with the container right around each.
Members(lang, node, around) ==
  UNION {LET kid == node.kids[k]
         IN CASE kid.kind = "function" -> {<<kid, around>>}
              [] kid.kind \in lang.containers -> Members(lang, kid, kid.id)
              [] kid.kind = "decorated" -> {}
              [] OTHER -> Members(lang, kid, around) : k \in DOMAIN node.kids}

PiecesAreTheBody(lang, node, pieces, threshold) ==
  LET Of(p) == SelectSeq(node.kids, LAMBDA kid : kid.id \in pieces[p].holds)
  IN /\ FlattenSeq([p \in DOMAIN pieces |-> Of(p)]) = node.kids
     /\ \A p \in DOMAIN pieces : \A k \in 2 .. Len(Of(p)) :
          Of(p)[k].kind \in lang.boundaries => SizeOf(SubSeq(Of(p), 1, k)) < threshold
     /\ \A call \in node.calls :
          (\E k \in DOMAIN node.kids : call.line \in node.kids[k].from .. node.kids[k].to) =>
            \E p \in DOMAIN pieces : call \in pieces[p].found

NodeIsIndexed(lang, node, profile, chunks) ==
  LET having == {i \in DOMAIN chunks : node.id \in chunks[i].holds}
      documenting == {chunks[i].id : i \in {j \in DOMAIN chunks : node.id \in chunks[j].doc}}
      pieces == SelectSeq(chunks, LAMBDA c : c.kind = "split_block" /\ c.id = node.id)
  IN /\ node.kind \in {"statement", "declaration"} => Cardinality(having) = 1
     /\ Comment(node) => Cardinality(documenting) + Cardinality(having) <= 1
     /\ node.kind = "function" =>
          pieces = <<>> \/ PiecesAreTheBody(lang, node, pieces, Threshold(lang, profile, node))
     /\ node.kind \in lang.containers =>
          \A m \in Members(lang, node, node.id) :
            \E j \in DOMAIN chunks : /\ chunks[j].id = m[1].id
                                     /\ chunks[j].kind = "split_block" \/ chunks[j].above = m[2]

LossIsTold(errors, chunks, lost) ==
  UNION {lost[i][1] .. lost[i][2] : i \in DOMAIN lost}
    = UNION {r[1] .. r[2] : r \in errors}
      \ UNION {chunks[i].from .. chunks[i].to : i \in DOMAIN chunks}

Indexed(in, profile, chunks) ==
  /\ \A i \in DOMAIN in.file.nodes : NodeIsIndexed(in.lang, in.file.nodes[i], profile, chunks)
  /\ LossIsTold(in.errors, chunks, Uncovered(in.errors, chunks))
Chunked(in, profile) == Indexed(in, profile, FileChunks(in.file, in.lang, profile))

\* What is written in a file is found in its chunks, once.  A statement at the top of
\* the file is in exactly one chunk.  A comment never documents one chunk and is part of
\* another, nor documents two functions.  The pieces of a large function are its whole
\* body in order, each as large as the places to cut allow, and every call of the body is
\* reported, by pieces whose lines it is on.  A member of a container is a chunk of its
\* own (or pieces), and its parent is the container right around it even when containers
\* of one name are nested.  The lines reported as lost are the error lines no chunk has
\* (languages/base.py:1030-1103, multi_language_chunker.py:891-906, tree_sitter.py:198-247).
SourceIsIndexed(in) ==
  in.file.supported /\ in.file.read = "text" /\ in.file.parses =>
    Chunked(in, Profile(in.functions, in.enough))
=============================================================================

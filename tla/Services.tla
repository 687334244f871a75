------------------------------- MODULE Services -------------------------------
(* Components that need no other one, side by side.  The parameters are those of *)
(* the components: MCServices gives them values and adds the components that are *)
(* explored only, Services_proofs leaves them open.                             *)
EXTENDS Parts

CONSTANTS
  SourceFiles, Numerics, BatchSizes, MaxEntries, MinEntries, ByteLimit, LiveReconfig,  \* ChunkEmbedding
  MaxEdits, MaxFaults,
  QueryThreads, QueryTexts, QueryBatches, QueryCacheSize,                        \* QueryEmbedding
  SessionChunks, InCap, OutCap, MaxAsked,                                      \* LspSession
  Projects, Models, Filters, NoProject, NoFilters, NoDir,                         \* ProjectStore
  IndexCallers, MaxLocks, MaxSwitches, MaxQueue, MaxTurns,
  ChunkLists, NamesOf, FileTexts, StopWords, Stem, Tokenizers, LexicalAsked,     \* LexicalIndex
  LexicalSizes, LeastScore, LexicalScore(_, _, _), LexicalFaults

\* A batch has a chunk, and no configuration asks for what stands for no model.
ASSUME ChunksAssumption ==
  /\ IsFiniteSet(SourceFiles) /\ BatchSizes \subseteq Nat \ {0}
  /\ {MaxEntries, MinEntries, ByteLimit} \subseteq Nat
  /\ {"none", "gone", "unavailable"} \cap Numerics = {}

\* What is no directory is no filter either.
ASSUME ProjectsAssumption ==
  IsFiniteSet(Models) /\ IndexCallers \subseteq Nat /\ NoDir \notin Filters \cup {NoFilters}

\* A call without queries returns at once.
ASSUME QueriesAssumption == QueryBatches \subseteq Seq(QueryTexts) \ {<<>>} /\ QueryCacheSize \in Nat

\* An identifier has a word, and a document without one of the query scores too little.
ASSUME LexicalAssumption ==
  /\ LeastScore \in Nat \ {0}
  /\ \A f \in DOMAIN ChunkLists : ChunkLists[f] \in Seq({ChunkLists[f][i] : i \in DOMAIN ChunkLists[f]})
  /\ \A query \in LexicalAsked : \A identifier \in query : DOMAIN identifier # {}

Embedding == INSTANCE ChunkEmbedding WITH
  Files <- SourceFiles,
  file <- v1, wanted <- v2, model <- v3, sources <- v4, imports <- v5, disk <- v6,
  run <- v7, edits <- v8, faults <- v9

Querying == INSTANCE QueryEmbedding WITH
  Threads <- QueryThreads, Queries <- QueryTexts, Requests <- QueryBatches,
  MaxSize <- QueryCacheSize,
  cache <- v1, model <- v2, call <- v3

Loading == INSTANCE ModelLoad WITH
  custom <- v1, default <- v2, trust <- v3, online <- v4, deletable <- v5,
  atFirst <- v6, pc <- v7, valid <- v8, source <- v9

Session == INSTANCE LspSession WITH
  Chunks <- SessionChunks,
  main <- v1, reader <- v2, lock <- v3, stdin <- v4, stdout <- v5, server <- v6,
  responses <- v7, eof <- v8, watchdog <- v9

Store == INSTANCE ProjectStore WITH
  NotGiven <- NoFilters, Callers <- IndexCallers,
  model <- v1, info <- v2, built <- v3, snapshots <- v4, selection <- v5, queue <- v6,
  locked <- v7, mem <- v8, past <- v9

Lexical == INSTANCE LexicalIndex WITH
  ChunksOf <- ChunkLists, Contents <- FileTexts, Variants <- Tokenizers,
  Queries <- LexicalAsked, Sizes <- LexicalSizes, MinScore <- LeastScore, Score <- LexicalScore,
  MaxFaults <- LexicalFaults,
  tokenizer <- v1, mem <- v2, disk <- v3, at <- v4, torn <- v5, mixed <- v6, faults <- v7

------------------------------------------------------------------------------
Init ==
  \/ part = "chunks" /\ Embedding!Init
  \/ part = "load" /\ Loading!Init
  \/ part = "lsp" /\ Session!Init
  \/ part = "projects" /\ Store!Init
  \/ part = "queries" /\ Querying!Init /\ Unused3
  \/ part = "lexical" /\ Lexical!Init /\ Unused7

Next ==
  \/ part = "chunks" /\ Embedding!Next /\ UNCHANGED part
  \/ part = "load" /\ Loading!Next /\ UNCHANGED part
  \/ part = "lsp" /\ Session!Next /\ UNCHANGED part
  \/ part = "projects" /\ Store!Next /\ UNCHANGED part
  \/ part = "queries" /\ Querying!Next /\ UNCHANGED <<part, After3>>
  \/ part = "lexical" /\ Lexical!Next /\ UNCHANGED <<part, After7>>

Spec == Init /\ [][Next]_vars

------------------------------------------------------------------------------
(* The properties of each, which its module explains.                           *)

\* ChunkEmbedding: vectors and cache are those of the chunks.
VectorsAreTheChunks == part = "chunks" => Embedding!VectorsAreTheChunks
\* ChunkEmbedding: saving the cache drops nothing the run has used.
SaveKeeps == [][part = "chunks" => Embedding!SaveKeeps]_vars
\* ChunkEmbedding: the batches end, however often memory runs out.
BatchesProgress == [][part = "chunks" => Embedding!BatchesProgress]_vars
\* QueryEmbedding: each query gets its own vector, and the cache is bounded.
QueriesAnswered == part = "queries" => Querying!QueriesAnswered
\* ModelLoad: a load fails only if it must.
LoadsIfItCan == part = "load" => Loading!LoadsIfItCan
\* LspSession: an edge is of the chunk that calls, and no question waits for ever.
SessionIsSound == part = "lsp" => Session!SessionIsSound
\* ProjectStore: a user's filters outlive every call that does not give any.
FiltersAreKept == part = "projects" => Store!FiltersAreKept
\* ProjectStore: ... and a switch of the model.
FiltersOutliveTheModel == part = "projects" => Store!FiltersOutliveTheModel
\* LexicalIndex: a search finds the best of the documents with the words, wherever they were kept.
HitsAreTheDocuments == part = "lexical" => Lexical!HitsAreTheDocuments
=============================================================================

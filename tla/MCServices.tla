------------------------------ MODULE MCServices ------------------------------
(* Services and FurtherServices on small instances, and with them every other    *)
(* component that needs no other one.  Again a behaviour is one of the component *)
(* that "part" names.  Those here are algorithms but one, and have an input, v2.  *)
EXTENDS MCInputs, Services, FurtherServices

------------------------------------------------------------------------------
(* The components.                                                              *)

Searching == INSTANCE SearchPipeline WITH
  Chunks <- Found, DedupKey <- DedupKeys, Parent <- Parents, NoChunk <- Free,
  Near <- Neighbors, Matching <- {f1, f2, g}, Requests <- Searches,
  LegFactor <- 1, OverFetch <- 1, RrfK <- 100, WeightOfBm25 <- 7, WeightOfDense <- 13,
  Bm25Slots <- 2, Hop1Slots <- 2, Candidates <- 3, Widening <- 2, MaxEgo <- 1, Multiplier <- 8,
  pc <- v1, req <- v2, bm25 <- v3, dense <- v4, pool <- v5, hop1 <- v6, context <- v7, last <- v8

Ego == INSTANCE EgoGraph
Edges == INSTANCE CallEdges
Parsing == INSTANCE Chunking
Graph == INSTANCE GraphQueries
Scores == INSTANCE Metrics WITH Discount <- <<100, 63, 50, 43>>, NoName <- Free, NoCommunity <- Free

------------------------------------------------------------------------------
AllInit ==
  \/ Init /\ Unused9
  \/ FurtherInit
  \/ part = "search" /\ Searching!Init /\ v9 = Unused /\ Unused9
  \/ part = "ego" /\ v1 \in EgoFirst /\ Chosen /\ Unused9
  \/ part = "edges" /\ v1 \in EdgesFirst /\ Chosen /\ Unused9
  \/ part = "parsing" /\ v1 \in ChunkingFirst /\ Chosen /\ Unused9
  \/ part = "graph" /\ v1 \in GraphFirst /\ Chosen /\ Unused9
  \/ part = "scores" /\ v1 \in MetricsFirst /\ Chosen /\ Unused9
  \/ part = "tree" /\ v1 \in TreeFirst /\ Chosen /\ Unused9

AllNext ==
  \/ Next /\ UNCHANGED After9
  \/ FurtherNext
  \/ part = "search" /\ Searching!Next /\ UNCHANGED <<part, v9, After9>>
  \/ part = "ego" /\ Complete(EgoRest(v1)) /\ UNCHANGED After9
  \/ part = "edges" /\ Complete({v1 @@ rest : rest \in EdgesRest}) /\ UNCHANGED After9
  \/ part = "parsing" /\ Complete(ChunkingRest(v1)) /\ UNCHANGED After9
  \/ part = "graph" /\ Complete(GraphRest(v1)) /\ UNCHANGED After9
  \/ part = "scores" /\ Complete(MetricsRest(v1)) /\ UNCHANGED After9
  \/ part = "tree" /\ Complete(TreeRest(v1)) /\ UNCHANGED After9

AllSpec == AllInit /\ [][AllNext]_FurtherVars
\* The projects alone.
ProjectsSpec == part = "projects" /\ AllSpec

------------------------------------------------------------------------------
(* The properties of each, which its module explains.                           *)

\* SearchPipeline: fusion leaves nobody out for a chunk below it in both legs, and an
\* answer has no duplicates, passes the filter and is bounded.
AnswerIsSound == part = "search" => Searching!FusionIsFair /\ Searching!AnswerIsSound
\* SearchPipeline: each stage keeps the places it promises and loses no search.
StagesKeep == [][part = "search" => Searching!StagesKeep]_FurtherVars
\* EgoGraph: what is added to an answer belongs to it.
ContextBelongs == part = "ego" /\ v2 # Free => Ego!ContextBelongs(v2)
\* CallEdges: the graph has the best edge that anybody found.
EdgesAreTheBestFound == part = "edges" /\ v2 # Free => Edges!EdgesAreTheBestFound(v2)
\* Chunking: no statement of a file is lost on the way to its chunks.
SourceIsIndexed == part = "parsing" /\ v2 # Free => Parsing!SourceIsIndexed(v2)
\* GraphQueries: the answers to one graph agree.
AnswersAgree == part = "graph" /\ v2 # Free => Graph!AnswersAgree(v2)
\* Metrics: scores mean what their names say.
ScoresAgree == part = "scores" /\ v2 # Free => Scores!ScoresAgree(v2)
\* SourceTree: files that may be indexed are reached, and changes of them noticed.
TreeIsTold == part = "tree" /\ v2 # Free => Tree!TreeIsTold(v2)
=============================================================================

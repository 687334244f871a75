---------------------------- MODULE FurtherServices ----------------------------
(* More components side by side: three with state that the threads of a server   *)
(* share, and two algorithms.  MCServices gives the parameters values,            *)
(* FurtherServices_proofs leaves them open.                                      *)
EXTENDS Parts, MemoParameters, RerankerParameters

CONSTANTS
  SearchThreads, RerankerNames, RerankerKinds, MaxPasses, MaxMade, MaxChanges,   \* Reranker
  ConfigReaders, ConfigFields, FieldValues, FieldDefault, EnvironmentSets,       \* Configuration
  ConfigAsked, ConfigContents, MaxConfigWrites,
  GpuInputs, LeastCost, GatedTypes,                                              \* BatchSizing
  QueryInputs, IntentOrder, IntentWeights, AnchorCacheSize, NoSymbol             \* IntentRouting

VARIABLES v10, v11, v12, v13, v14

After9 == <<v10, v11, v12, v13, v14>>
Unused9 == v10 = Unused /\ v11 = Unused /\ v12 = Unused /\ v13 = Unused /\ v14 = Unused
FurtherVars == <<vars, After9>>

Reranking == INSTANCE Reranker WITH
  Threads <- SearchThreads, Names <- RerankerNames, KindOf <- RerankerKinds,
  current <- v1, made <- v2, wanted <- v3, able <- v4, oom <- v5, call <- v6, changes <- v7

Settings == INSTANCE Configuration WITH
  Readers <- ConfigReaders, Fields <- ConfigFields, Values <- FieldValues,
  Default <- FieldDefault, Environment <- EnvironmentSets,
  Requests <- ConfigAsked, Contents <- ConfigContents, MaxWrites <- MaxConfigWrites,
  global <- v1, overrides <- v2, writes <- v3, cache <- v4, at <- v5, task <- v6,
  touched <- v7, missed <- v8, overridden <- v9

Memo == INSTANCE CentralityMemo WITH
  made <- v1, graph <- v2, completed <- v3, count <- v4, version <- v5, cache <- v6,
  mpc <- v7, mutation <- v8, drawn <- v9, rpc <- v10, method <- v11, entry <- v12,
  captured <- v13, scores <- v14

Sizing == INSTANCE BatchSizing WITH Floor <- LeastCost, Gated <- GatedTypes

ASSUME SizingAssumption ==
  /\ LeastCost \in Nat \ {0}
  /\ \A first \in DOMAIN GpuInputs : GpuInputs[first] \subseteq Sizing!Inputs

Routing == INSTANCE IntentRouting WITH
  Precedence <- IntentOrder, Weight <- IntentWeights, CacheSize <- AnchorCacheSize, Nothing <- NoSymbol

ASSUME RoutingAssumption ==
  /\ IntentOrder \in Seq(Routing!Intents) \ {<<>>} /\ IntentWeights \in [Routing!Intents -> Nat]
  /\ \A m, n \in DOMAIN IntentOrder : IntentOrder[m] = IntentOrder[n] => m = n
  /\ AnchorCacheSize \in Nat \ {0}
  /\ \A first \in DOMAIN QueryInputs : \A in \in QueryInputs[first] : Routing!IsQuery(in)

------------------------------------------------------------------------------
FurtherInit ==
  \/ part = "reranking" /\ Reranking!Init /\ Unused7 /\ Unused9
  \/ part = "settings" /\ Settings!Init /\ Unused9
  \/ part = "memo" /\ Memo!Init
  \/ part = "sizing" /\ v1 \in DOMAIN GpuInputs /\ Chosen /\ Unused9
  \/ part = "routing" /\ v1 \in DOMAIN QueryInputs /\ Chosen /\ Unused9

FurtherNext ==
  \/ part = "reranking" /\ Reranking!Next /\ UNCHANGED <<part, After7, After9>>
  \/ part = "settings" /\ Settings!Next /\ UNCHANGED <<part, After9>>
  \/ part = "memo" /\ Memo!Next /\ UNCHANGED part
  \/ part = "sizing" /\ Complete(GpuInputs[v1]) /\ UNCHANGED After9
  \/ part = "routing" /\ Complete(QueryInputs[v1]) /\ UNCHANGED After9

FurtherSpec == FurtherInit /\ [][FurtherNext]_FurtherVars

------------------------------------------------------------------------------
(* The properties of each, which its module explains.                           *)

\* Reranker: reranking never costs an undisturbed search its results.
RerankingIsOptional == part = "reranking" => Reranking!RerankingIsOptional
\* Configuration: the cached configuration is what the files say.
CacheIsTrue == part = "settings" => Settings!CacheIsTrue
\* Configuration: project overrides get into the global file only during a reload.
GlobalStaysGlobal == [][part = "settings" => Settings!GlobalStaysGlobal]_FurtherVars
\* CentralityMemo: the scores that a search is served miss no completed mutation.
NeverAStaleRead == [][part = "memo" => Memo!ReadsAreFresh]_FurtherVars
\* BatchSizing: a batch fits into the memory that is free and allowed.
BatchesFit == part = "sizing" /\ v2 # NoInput => Sizing!BatchesFit(v2)
\* IntentRouting: no intent is preferred to a better one, and the plan takes nothing away.
RoutingIsReasoned == part = "routing" /\ v2 # NoInput => Routing!RoutingIsReasoned(v2)
=============================================================================

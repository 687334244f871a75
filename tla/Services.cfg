CONSTANTS
  f1 = f1 f2 = f2 n1 = n1 n2 = n2 t1 = t1 t2 = t2 r1 = r1 r2 = r2 q1 = q1 q2 = q2 q3 = q3
  g = g F = F G = G m1 = m1 m2 = m2 p1 = p1 Free = Free
  SourceFiles = {f1, f2}
  Numerics = {r1, r2}
  BatchSizes = {2}
  MaxEntries = 0
  MinEntries = 2
  ByteLimit = 3
  LiveReconfig = FALSE
  MaxEdits = 2
  MaxFaults = 1
  QueryThreads = {t1, t2}
  QueryTexts = {q1, q2, q3}
  QueryBatches <- Batches
  QueryCacheSize = 2
  SessionChunks = 2
  InCap = 1
  OutCap = 1
  MaxAsked = 1
  Projects = {p1}
  Models = {r1, r2}
  Filters = {t1, t2}
  NoProject = NoProject
  NoFilters = NoFilters
  NoDir = NoDir
  IndexCallers = {1, 2}
  MaxLocks = 1
  MaxSwitches = 1
  MaxQueue = 1
  MaxTurns = 4
  ChunkLists <- FileChunks
  NamesOf <- ChunkNames
  FileTexts <- Texts
  StopWords = {"the"}
  Stem <- Stems
  Tokenizers = {"legacy", "additive"}
  LexicalAsked <- LexicalQueries
  LexicalSizes = {1, 2}
  LeastScore = 10
  LexicalScore <- Bm25
  LexicalFaults = 1
  SearchThreads = {t1, t2}
  RerankerNames = {n1, n2}
  RerankerKinds <- Kinds
  MaxPasses = 2
  MaxMade = 2
  MaxChanges = 1
  ConfigReaders = {"reader"}
  ConfigFields <- FieldOrder
  FieldValues = {0, 1}
  FieldDefault = 0
  EnvironmentSets <- FromEnvironment
  ConfigAsked <- Asked
  ConfigContents <- Written
  MaxConfigWrites = 2
  GpuInputs <- BatchesToSize
  LeastCost = 41944
  GatedTypes = {"qwen3"}
  QueryInputs <- QueriesToRoute
  IntentOrder <- Precedences
  IntentWeights <- Weights
  AnchorCacheSize = 2
  NoSymbol = Free
  NoInput = Free
  Mutators = {t1, t2}
  Rankers = {r1, r2}
  Methods = {"pagerank"}
  NoEntry = NoEntry
  MaxMutations = 3
  K = 1
  Window = 2
  Pool <- ThreeHits
SPECIFICATION AllSpec
SYMMETRY Twins
INVARIANTS
  VectorsAreTheChunks QueriesAnswered LoadsIfItCan RerankingIsOptional SessionIsSound
  CacheIsTrue FiltersAreKept AnswerIsSound
  HitsAreTheDocuments RoutingIsReasoned BatchesFit ContextBelongs
  EdgesAreTheBestFound SourceIsIndexed AnswersAgree ScoresAgree TreeIsTold
PROPERTIES SaveKeeps BatchesProgress GlobalStaysGlobal NeverAStaleRead StagesKeep
CHECK_DEADLOCK FALSE

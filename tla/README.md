# Verification of the code-search server

TLA+ models of the local semantic code-search server in this repository: an MCP
server that chunks a project's files, embeds the chunks, keeps them in a FAISS
index, a BM25 index, a SQLite metadata store and a call graph, and answers
searches over them while it reindexes.  The models are checked by TLC on small
instances and, where a theorem is stated, proved by TLAPS for all of them.

Every definition is translated from the Python source; `PROJECT.json` says which
lines each one stands for.  Paths below are relative to the repository's root.

## Contents

| module | what it is | source |
|---|---|---|
| `ReaderWriter` | abstract: what the reindex lock promises | docstring of `_AsyncRWLock`, ADR-0008 |
| `AsyncRWLock` | the lock, at the grain of the event loop | `mcp_server/state.py` |
| `AsyncRWLock_proofs` | types, counters, exclusion, refinement, no lost wake-up | |
| `IndexPipeline` | incremental, full and recovery runs over one index | `search/incremental_indexer.py`, `index_write_stage.py`, `index_sync.py`, `batch_operations.py`, `indexer.py`, `faiss_index.py`, `bm25_index.py`, `merkle/` |
| `IndexPipeline_proofs` | types, success, nothing lost, no silent snapshot, bounded recovery | |
| `ServerWorkflow` | request handlers over the shared application state | `mcp_server/state.py`, `search_factory.py`, `resource_manager.py`, `tools/*_handlers.py`, `search_orchestrator.py` |
| `ServerWorkflow_proofs` | searches read what is on disk; the waits close no circle | |
| `CallGraph` | the call graph through runs, failures and restarts | `graph/graph_storage.py`, `search/graph_integration.py`, `call_edge_injection.py` |
| `CallGraph_proofs` | the graph is that of the files, restarts are harmless, full runs complete | |
| `CentralityMemo` | centrality scores cached beside a graph that changes | `graph/graph_storage.py`, `search/centrality_ranker.py` |
| `SearchPipeline` | a search, from the two legs to the answer | `search/hybrid_searcher.py`, `search_executor.py`, `reranker.py`, `multi_hop_searcher.py`, `reranking_engine.py`, `ego_graph_retriever.py`, `graph_scoring_stage.py` |
| `ChunkEmbedding` | indexing runs through the cache of chunk embeddings | `embeddings/embedder.py`, `chunk_cache.py` |
| `QueryEmbedding` | concurrent searches through the cache of query embeddings | `embeddings/embedder.py`, `query_cache.py` |
| `ModelLoad` | loading a model from damaged caches and from the hub | `embeddings/model_loader.py`, `model_cache.py` |
| `Reranker`, `RerankerParameters` | the neural reranker that concurrent searches share; its sizes and the assumption on them | `search/reranking_engine.py`, `neural_reranker.py` |
| `LspSession` | three threads and a language server, with deadline and death | `chunking/relationships/lsp_call_graph.py` |
| `Configuration` | layers, shared cache, handlers and files of the configuration | `search/config.py`, `mcp_server/tools/config_handlers.py` |
| `Configuration_proofs` | the invariant of the configuration, step by step | |
| `ProjectStore` | filters, directories, selection, cleanup queue, overlapping calls, restarts | `mcp_server/storage_manager.py`, `project_persistence.py`, `cleanup_queue.py`, `tools/index_handlers.py` |
| `LexicalIndex` | the BM25 index and its three files | `search/bm25_index.py`, `search/tokenization.py` |
| `CallEdges` | call edges of three resolvers, mapped, merged, injected | `chunking/relationships/*`, `search/call_edge_injection.py`, `evaluation/chunk_mapping.py` |
| `Chunking` | from a syntax tree to chunks | `chunking/tree_sitter.py`, `languages/base.py`, `python.py`, `glsl.py`, `multi_language_chunker.py` |
| `GraphQueries` | paths, neighbours, subgraphs, impact reports | `graph/graph_queries.py`, `graph_storage.py`, `search/subgraph_extractor.py`, `relationship_analyzer.py` |
| `EgoGraph` | the graph neighbours an answer is extended by | `search/ego_graph_retriever.py` |
| `IntentRouting` | what a query asks for and how it is searched | `search/intent_classifier.py`, `mcp_server/tools/search_orchestrator.py` |
| `BatchSizing` | GPU memory and the size of a batch | `embeddings/embedder.py` |
| `SourceTree` | filters, the Merkle walk, changes between snapshots | `search/filters.py`, `merkle/` |
| `Metrics` | scores of a list of results | `evaluation/metrics.py` |
| `SequencePlaces` | what a sequence has at some places, in their order | comprehensions with a condition |
| `Parts` | how a module that is the sum of components tells them apart | |
| `SequencePlaces_proofs` | lemmas on selections | |
| `Services` | the sum of six components that need no other one, with open parameters | |
| `Services_proofs` | the properties of these six | |
| `FurtherServices` | the sum of five more: `Reranker`, `Configuration`, `CentralityMemo`, `BatchSizing`, `IntentRouting` | |
| `FurtherServices_proofs` | the properties of these five | |
| `MCServices`, `MCInputs` | small instances of both sums, `SearchPipeline` and the other components, explored together | |
| `MemoParameters` | the parameters of `CentralityMemo` and the assumption on them | |
| other `MC*`, `*.cfg` | small instances for TLC | |

Model-check a run with `tlc -config <run>.cfg MC<module>.tla` (`Services.cfg` and
`ServicesFilters.cfg` with `MCServices`) and a proof with `tlapm <module>_proofs.tla`.

## Inventory of the system

State is written *S*, operations *O*, what is hard *H*, what makes it correct *C*.

**Server** (`mcp_server/`).
- *Application state* (`state.py`, `services.py`). S: active project, cached
  searcher, embedder pool, reader-writer lock per project, mutation lock, thread
  lock. O: `get_searcher`, `reset_searcher`, `set_current_project`,
  `discard_reindex_rwlock`. H: coroutines on one event loop and worker threads
  share it under three kinds of lock. C: a search reads one finished edition of
  the project it was asked for; nobody waits for ever. Modelled in
  `ServerWorkflow`, the lock itself in `AsyncRWLock`.
- *Handlers* (`tools/*_handlers.py`, `search_orchestrator.py`, `decorators.py`).
  O: search with inline reindex, index, switch, clear, delete, clean up. H: each
  awaits several times between reading shared state and using it. Modelled in
  `ServerWorkflow`, except the tools that only read and those that configure.
- *Background jobs* (`tools/job_registry.py`, `index_handlers.py`). S: job
  records, never removed. O: start, end, fail. H: a cancelled task leaves its job
  "running"; a restart forgets all of them. A job runs the same task as a call that
  waits for it, which `ProjectStore` has; the registry is not modelled.
- *Cleanup queue, persistence, storage paths* (`cleanup_queue.py`,
  `project_persistence.py`, `storage_manager.py`). S: JSON files, one directory per
  project and model. H: filters given once must reach every later run, also after a
  restart, a failed run and a change of the model; a directory queued for deletion
  may be in use again when the queue is processed. C: an index is built with the
  filters that were asked for. Modelled in `ProjectStore`.
- *Model pool* (`model_pool_manager.py`, `resource_manager.py`). H: looked up
  under a lock and read again outside it. Only its identity matters in
  `ServerWorkflow`.
- *Configuration* (`search/config.py`, `tools/config_handlers.py`). S: global file,
  project overrides, environment, one cached object. O: load, patch, save,
  invalidate. H: the object is shared and changed in place, its versions are looked
  at before and after the files are read. C: what is served is what the files say;
  a project's overrides stay the project's. Modelled in `Configuration`.
- *Transport, tool registry, output formatting, guidance, metrics*. Schemas,
  wording and I/O. Not modelled.

**Indexing** (`search/`, `merkle/`).
- *Incremental indexer and write stage*. S: Merkle snapshot, recovery marker,
  where a run is. O: detect changes, remove, chunk, embed, add, validate,
  snapshot, save, resync, recover. H: eight stores written one after the other,
  each of which may fail; crashes in between; files that change under a run. C:
  what the snapshot lists is in the index; a run that fails is caught up with.
  Modelled in `IndexPipeline`.
- *BM25*. S: four parallel lists, three files, a tokenizer. H: files written one
  after the other, tokenizers that differ between documents and queries. C: a search
  finds the documents that have its words. Modelled in `LexicalIndex`.
- *FAISS, metadata, symbol cache, memory-mapped vectors*. Present in `IndexPipeline`
  as the sets of chunks they hold; their encodings are not.
- *Filters, Merkle DAG and change detector*. Pure functions of patterns and trees.
  H: precedence of patterns of four origins; the walk prunes directories before it
  sees their files; changes are told by modification time first. C: every allowed
  file is reached; a change of it is noticed. Modelled in `SourceTree`; what a run
  makes of the changes is in `IndexPipeline`.
- *Parallel chunker*. Files are chunked in threads, one by one, each of which may
  fail or exceed its time. `IndexPipeline` has what it makes of the files.
- *Index probe, VRAM manager*. Throughput heuristics around the run. Not modelled.

**Call graph** (`graph/`, `search/graph_integration.py`,
`search/call_edge_injection.py`). S: nodes, edges, name index, version, centrality
cache, JSON file. O: two-pass build, injection of resolved calls, pruning, load,
save, clear, traversals. H: it is kept beside the metadata store, not in it; ids
hold line numbers; it is mutated while it is ranked. C: it has the nodes of the
indexed functions and no others; direct callers are found; scores are not stale.
Modelled in `CallGraph` and `CentralityMemo`; the resolvers, whose edges disagree in
place and confidence, in `CallEdges` and `LspSession`; what is asked of the graph,
where five traversals each have rules of their own, in `GraphQueries` and `EgoGraph`.

**Search** (`search/`). Executor, multi-hop search, RRF reranker, neural reranker,
ego graph, centrality reranking, filters, intent classifier, query expansion,
relationship analyzer. S: the results so far, what they were found by, and one
reranker shared by all searches. O: two legs, fusion, expansion by a second hop,
reranking, context from the graph, deduplication. H: any stage may fail and is
skipped; scores of three scales are sorted together; every cut comes before some
other stage's filter. C: results are distinct, match the filter, fill the page if
they can; places that are reserved are kept; what a stage found is not lost to a
later one. Modelled in `SearchPipeline`, with the ego graph in `EgoGraph`, the
classifier and the search plan in `IntentRouting` and the reranker's life cycle in
`Reranker`; query expansion and the ranking policy are not modelled.

**Embedding** (`embeddings/`). Embedder, chunk cache, query cache, model loader and
cache. S: LRU caches in memory and on disk. H: eviction against live keys, expiry,
batches that shrink when memory runs out; a model whose files are half there. C: a
cache hit is what would be computed; a load fails only if it must; a batch fits.
Modelled in `ChunkEmbedding`, `QueryEmbedding`, `ModelLoad`, `BatchSizing`; the
models themselves are external.

**Chunking** (`chunking/`). Tree-sitter chunkers for a dozen languages, splitting
and merging of chunks, relationship extractors, call-edge resolvers. Pure
functions of source text. H: comments that belong to the node after or before them,
pieces of functions too large for a chunk, nested containers. C: no statement is
lost or indexed twice. Modelled in `Chunking` and `CallEdges`; grammars are external.

**Evaluation** (`evaluation/metrics.py`). Pure functions of lists of results. C: a
perfect list has a perfect score and no list a better one. Modelled in `Metrics`.

**Around it** (`utils/`, the rest of `evaluation/`, `scripts/`, `tools/`,
`code-search-extension/`, `docs/`, `tests/`). Helpers, measurements, maintenance
scripts, an installer. Not modelled; docs and tests were read for what they claim.

How they interact: a handler takes the mutation lock or a project's reader-writer
lock, gets the project's searcher (building it if another project's is cached),
and hands blocking work to a worker thread; the searcher owns FAISS, BM25, the
metadata store and the call graph; an indexing run drives all four and the
snapshot; the graph's version tells the ranker when its cached scores are old.

## The models

### `AsyncRWLock`: the reindex lock

A coroutine runs undisturbed from one `await` to the next, so each
`async with self._cond` section of `read()` and `write()` is one action; what is
left to interleave is the order in which the event loop runs its tasks. `ready`
is the loop's queue, `waiters` the futures inside `Condition.wait()`. Searches
call `CallRead`, are parked by `ReadParks`, admitted by `ReadStarts` and leave by
`ReadEnds`; reindexes likewise. `CancelPending` and `CancelNotified` cancel a
waiter before and after it was notified; `WaitCancelled` delivers the exception.

*Runs.* `RWLock.cfg` (two searches, which may be cancelled, three reindexes):
mutual exclusion, agreement of the counters with the tasks they count, no lost
wake-up, refinement of `ReaderWriter`, and liveness for both sides. Two readers
and three writers let a reader wait behind a writer behind a reader, two writers
be notified at once, and a fresh writer pass both. `RWLockCancelledWriter.cfg` lets a reindex be cancelled too:
`NoLostWakeup` fails, because the cancelled writer takes its count back and wakes
nobody (`mcp_server/state.py:76`).

*Fairness.* The loop keeps running what is ready (weak fairness of `Run`), and
every body under the lock ends, since it awaits a thread doing finite work. Nobody
has to call. A search is promised to run only once reindexes stop arriving
(`ReaderEventuallyRuns`): the lock prefers writers. What a reindex is promised
(`SearchesStarveNoReindex`) is that searches never starve it: while one is queued some
reindex gets the lock, and once reindexes stop arriving each queued one does. That every
queued reindex runs, whatever other reindexes do, is *false* from three on: a fresh one
tests the state and not the queue (`state.py:71`), so that two which keep coming back can
pass the third for ever. Two writers do not show it, which is why there are three here.

*Proved* (`AsyncRWLock_proofs`) for any finite set of tasks, any of them
cancellable: `TypeCorrect`, `CountersCorrect`, `Exclusive`, `Refinement`.
`MutualExclusion` is not inductive: it needs to know that `readers` and `writer`
count the tasks that are in. The strengthening is `CountersAgree`, which adds that
`writersWaiting` counts the queued writers (the refinement maps these to
`wanting`) and that only waiting tasks are cancelled (so that a cancellation does
not change the other counts). Its steps change one task's place and one counter,
and rest on lemmas on how the cardinality of "the tasks at a place" changes when
one task moves. The only assumption is that the set of tasks is finite.
`NoWakeupLost` proves `NoLostWakeup` for tasks of which no queued writer is cancelled;
`RWLockCancelledWriter.cfg` shows that the hypothesis cannot be dropped.

### `IndexPipeline`: one project's index

A file is its version; an edit makes a version never seen before. A chunk is a
file in a version, so that stale chunks and current ones differ. `meta`, `denseDisk`,
`bm25Disk`, `snap`, `marker` and `stranded` survive a crash, `dense` and `bm25` are
what is served. `pc` names the step of a run (`incremental_index`, `_full_index`,
`_attempt_recovery`), `mode` which of them it is. One action is one write to one
store, since each of them may fail or be the last before a crash: removal rebuilds
FAISS (`RemoveDense`, which unlinks the saved file), then deletes metadata rows,
then BM25 rows; adding goes the other way round. A `metadata.db` that is locked
refuses to be cleared (`PreflightLocked`, `WipeLocked`). A clear that has passed this may
still raise at the files of either index (`ClearHalts`): it is not undone, so the metadata
is gone and of that index the file may be left. A recovery whose own clear raises leaves
the marker; the full run behind it catches its exceptions, returns a result that failed,
and leaves none (`ClearRaises`; `incremental_indexer.py:516-541`, `:916-932`), but has
deleted the snapshot by then.

*Runs.* Two files and three versions: one file may be unchanged, modified or
deleted while the other is in the batch, and a run may be overtaken by an edit.
- `PipelineDying.cfg`: steps fail, clears are refused or stop half-way and the process
  dies, twice in all. `NothingLost` (a project with no changes since the snapshot is fully
  indexed, unless the marker of a failed recovery stands), `NoSilentAdvance` (the snapshot
  never moves past chunks that are not there), `RecoveryIsBounded` (a recovery begins only
  if something has failed since the last one ended, successfully or not: `settled`
  remembers how often anything had) and `CatchesUp`.
- `PipelineAnyFault.cfg`: three faults of any kind but half-finished clears.
  `SuccessIsConsistent`.
- `PipelineSavingInterrupted.cfg`: the snapshot is written before the indices it
  describes, so one failed write or crash in between loses every file
  (`NothingLost` fails, `search/index_write_stage.py:170`).

*Fairness.* A started run goes on, and the project is indexed again and again,
since every search does so when the index is stale; a forced run is never assumed.

*Proved* (`IndexPipeline_proofs`) for any set of files, any versions and number of
faults. Whatever the faults: `TypeCorrect`. Without half-finished clears:
`SuccessConsistent` (`SuccessIsConsistent`; the strengthening says that nothing is on disk
that is not served, and which stores agree from the validation on). If faults are among
`Tolerated`, those of `PipelineDying`: `NothingIsLost`, `NoSilentSnapshot` and
`RecoveryBounded`. The last rests on what a full run builds (`Rebuilt`), on what a clear
set aside being empty (`SetAside`), and on FAISS and metadata agreeing from one recovery
until something fails (`Unhurt`): then no run finds a reason to recover. `NothingLost` speaks
of the moments between runs, and its strengthening `IInv` of every step: which chunks
of the snapshot, or of the tree that will be the next snapshot, are in `metadata.db`
(`MetaHolds`), in the saved and the served vectors (`DiskHolds`, `ServedHolds`), in the
batch (`BatchHolds`, `TreeHolds`). The vectors may be gone altogether after a crash,
but only if the snapshot is `Outdated`: the run had found a removed or modified file,
and as edits make new versions (`VersionsMade`), the next run finds it as well. Then
the rows in `metadata.db` that no vector answers make `Validate` fail, and the index
is built again. This is where an exact undo of an edit would break the argument.

*What the passing runs leave out, because the property fails with it.*
- A FAISS removal that fails half-way (fault `removeDense`): the handler clears
  FAISS and the metadata, `index_sync.py:381` swallows the failure, and the
  snapshot then lists files that were wiped. `NoSilentAdvance` fails.
- A crash while a recovery clears the index with the old snapshot in place
  (`crashClearing`), followed by an undo of the edits: `NothingLost` fails.
- A clear that stops half-way, in `SuccessIsConsistent`: a later run over a project that
  has become empty saves nothing over the FAISS file that was left, and reports success.
- Failed writes (fault `save`), in `RecoveryIsBounded`: the run still reports success, and
  a restart finds two files that disagree, which is the reason for one more recovery.
- The clear inside a removal that failed (`WipeAfterFailure`) stopping half-way itself: it
  takes two faults of kinds that the other properties already exclude.
- An edit that is taken back exactly after a crash in the middle of a run is
  missed; edits are assumed to make new versions.
- BM25 may stay behind after a crash between the save and the resync; a run without
  changes does not look. `CatchesUp` speaks of the vectors only.
- A full run that matches no file aborts, but the searcher without BM25 that it
  built is the one that goes on serving (`incremental_indexer.py:773`); and a
  recovery has cleared the index by then.
- A file that fails to be chunked, or for which the time runs out (fault `chunk`),
  is logged and left out of the batch (`parallel_chunker.py:230`), while the
  snapshot goes on to list it: it is not indexed until it changes again.
  `NoSilentAdvance` and `NothingLost` fail, although the guard at
  `incremental_indexer.py:1116-1118` is there for "preventing a silent snapshot
  advance over chunks that were removed but never re-embedded". That guard sees
  only a batch that could not be embedded. `PipelineAnyFault` includes this fault.
- The recovery marker is deleted only where it cannot exist
  (`incremental_indexer.py:506` and `:543`): the model clears it on a recovery that
  returns, which its guard makes unreachable with the marker set. Once a recovery has
  failed every later one is refused, and only a forced full run, which deletes the
  snapshot, indexes again. `CatchesUp` and `NothingLost` except a standing marker.

### `ServerWorkflow`: handlers and shared state

One task is one tool call; its `pc` advances where the handler awaits or runs in a
thread. `current` and `searcher` are the active project and the cached searcher,
`objects` the searchers somebody still holds (with the edition of the index they
loaded), `disk` and `files` the editions on disk and in the project. The lock
registry is `lockGen`: deleting a project drops its lock, so that a later caller
gets another lock than one who waited. `mutex` is `state._lock` while it is held
across the building of a searcher (double-checked locking in `get_searcher`). The
reader-writer locks behave as `ReaderWriter` says. A run that rewrites may fail at any
point: an incremental one clears the index and goes on as a full one (`RecoverRewrite`,
`_attempt_recovery`), or gives up and leaves the index cleared or changed (`FailRewrite`).
A failed run returns zero counts, `reindexed` is then false (`search_handlers.py:207`), and
nobody resets the cached searcher, which goes on serving what is gone. This is what the
code does; the history variable `lapsed` has the searchers that were there when a run of
their project failed, and `ConsistentReads` excuses these and no searcher made since.

*Runs.* Three calls over two projects: the shortest circle of the three locks needs
two calls and the staleness windows need three (one that reads, one that reindexes, one
that switches). In `Workflow.cfg` they may be any mix in which at most two searches are
under way at a time and two overlapping `index_directory` calls have no third call beside
them (`MixedCalls`); three searches share a read lock and change nothing, and more calls
are what the proofs are for. The run tells apart only what can still matter (`View`): of
`objects` and `lapsed` the searchers that somebody refers to, whose record is written
before it is read; once a call has strayed, of a searcher only whether it has an index and
was shut down, for then nothing is claimed of the edition; and of a lock how often it
was dropped since it was made.
- `Workflow.cfg`: `ConsistentReads` (with it, that a searcher which was shut down is
  not the cached one) and `NobodyStuck`. `ConsistentReads` holds until a call takes up
  a project without that project's own lock, or the cached searcher is of another
  project than the active one; the history variable `strayed` notes either.
- `WorkflowLockKey.cfg`: a search fixes the project of its lock before awaiting and
  takes the active project afterwards, so it may read another project's index
  (`search_orchestrator.py:333`). `WorkflowDiscard.cfg`: two calls rewrite one
  project under the old and the new lock after a deletion (`index_handlers.py:611`).

*Proved* (`ServerWorkflow_proofs`) for any number of calls, projects and edits:
`ReadsConsistent` (`ConsistentReads`) and `WaitsEnd` (`NoCircle`: while a call is
unanswered, some call waits for none of the locks). The invariant `IndInv` has what
every handler holds at each of its points (`Shape`), that a writer is its lock's only
holder, that a searcher a call built for itself is nobody else's and not shut down
(`Owned`), that a cached searcher that was shut down is about to be dropped, and how
often a lock was dropped; then, until somebody strays (`Guarded`), that a held lock is
the project's present one, that a searcher is fetched for the locked project, that one
in use is of that project in the edition on disk, that `index_directory` writes through
the cached searcher or none is cached, that nothing is cached for what is being
removed, and that what is cached is the edition on disk unless the run that made it
stale has still to reset it, or has failed (`lapsed`, from which no searcher in use
returns: `LapsedKept`). `ConsistentReads` alone is not inductive: it says nothing
of a searcher between its fetch and the search, nor of one that is only cached.

*What the proof attempt showed.* Three calls do not suffice. In an earlier form only
the wrong lock counted as straying, which TLC confirmed for three calls, and the step
that would have kept the cache fresh could not be proved: with a fourth call the property
fails. `_check_auto_reindex` makes the project it searches the active one
(`search_handlers.py:179-180`) and leaves another project's searcher in the cache.
A deletion or clear of that other project then does not find it active, and leaves the
searcher as well (`resource_manager.py:124-131`). When another
search of it then makes it the active project again and its run changes nothing, say
because it gave up early, `get_searcher` takes the old searcher for the project's own and the
search is served from what is no longer on disk. The comment at the commit,
"Commit both together only on success — no partial state visible"
(`search_factory.py:209`), holds of that commit, not of the pair. `strayed` therefore
notes a torn pair where it arises (`NoteTorn`); the theorem says that it is, with
the wrong lock, the only way to a stale search.

*Liveness.* Calls have no loops, so that `NobodyStuck` (an invariant: while a call
is unanswered some call waits for nothing, and who waits for nothing has a step)
gives termination; no fairness is needed. That the step is enabled is left to TLC.

*Left out:* that a full run's searcher is made without loading what is on disk
(`load_existing=False`, `index_handlers.py:958`): it rewrites all of it, and is dropped if
it fails; cancelled requests, whose worker threads run on after the lock is
released (`server.py:470`); handlers that read a searcher without a lock (status,
lookup by chunk id, path finding); a change of the embedding model. Also, by
`decorators.py:106-110` a handler that tears a searcher down must hold the write
lock; `switch_project`, `cleanup_resources` and the start of `index_directory` do
not, and shut down searchers that are in use. The model has these steps; no
property forbids them. An auto-reindex that only removes files reports
`reindexed=False` (`search_handlers.py:207`), so that the cached searcher keeps the
removed chunks; edits in the model add or modify.

### `CallGraph`: nodes, edges, name index, graph file

A file holds one chunk; the chunk's id is its file, lines and name, so that an edit
may or may not change it. A node is the id of a function or the bare name of a call
nobody in the batch defines. A run removes the nodes of changed files, adds nodes
for its batch, then edges (`CallTargets`: the candidate in the imported file, the
one in the caller's own file, else all of them, else the bare name), and, in full
runs, whatever part of the calls the external resolvers found. `Load` rebuilds the
name index; `ClearGraph` unlinks the graph file; `SaveGraph` skips an empty graph.
`meta` and `dense` are here as far as they decide which way a run goes.

*Runs.* Three files, so that a call can have two candidates and a third caller; two
names, one of them recursive; one edit besides deletions; one failure or restart.
- `CallGraph.cfg`: with nothing left to index, the graph has exactly the indexed
  functions (`InSync`), no edge outlives its call and every function is found by name
  (`GraphIsSound`), a restart changes nothing (`RestartIsHarmless`); and a full run
  makes every direct caller findable whatever the resolvers missed
  (`FullRunFindsCallers`). An empty graph is not saved and a failed save is only logged
  (`graph_integration.py:973-996`): the file is then the one of an earlier run, or none.
  The history variable `outdated` notes that, and `stale` that such a file was read
  back; the first three properties are about runs and restarts without.
- `CallGraphCallers.cfg`: an incremental run does not. Pruning a modified file takes
  the edges of its unchanged callers along, and only the run's own files are linked
  again (`incremental_indexer.py:1047`): `NoCallerMissed` fails.

*Proved* (`CallGraph_proofs`, from `CallGraphAssumption`, for any files, texts, edits
and faults): `GraphInSync`, `GraphSound`, `RestartHarmless`, `FullRunComplete`. The
properties speak of the end of a run; the invariant `IndInv` of its phases. Between
two of them, a graph *agrees* with a tree if each file's nodes are the function of its
text and each edge from it a call of the text. `GraphInMemory` and `GraphOnDisk` say
with which tree: the snapshot where a file is unchanged since, the run's tree without
the files still to be added, then all of it. This needs that a text that was changed
does not come back (`Stable`), that FAISS on disk is the snapshot's or empty, and that
metadata and vectors are filled as the phase says (`MetaKept`, `FaissOnDisk`,
`FaissInMemory`, `Filled`): they decide whether the next run is incremental. `Found`
carries the callers of a full run to its end. The attempt showed that texts without
functions and failed writes had to be in the model: with the first the graph can become
empty, which the file then does not show.

*Left out:* relationship edges and edge attributes; split functions; the window
between snapshot and saved files (`IndexPipeline`). A restart also puts bare names
into the name index, so that `get_nodes_by_name` returns nodes that are no chunks and
the suffix scan of `relationship_analyzer.py:671-678` is skipped.

### `CentralityMemo`: cached centrality

No lock orders threads that mutate the graph and threads that rank by it. A mutation
is three steps others can see: the change, drawing a number from
`itertools.count()`, assigning it to `_version`. A ranker reads the cache entry,
compares versions, takes the version, computes, stores; each is a step. The graph is
the set of mutations that reached it, scores are the graph they were computed from.

*Run.* `Services.cfg` (`NeverAStaleRead`): two mutators, two rankers, three mutations: enough for
two numbers drawn in one order and assigned in the other while a third mutation and
an older computation are under way. The theorems hold for any number.

*Proved* (`FurtherServices_proofs`) for any threads and methods: `MemoTypesCorrect`,
`EntriesFresh` (`NoStaleEntry`), `ReadsFresh` (`NeverAStaleRead`). `NoStaleEntry` is not inductive: an assignment may set
the version *back*, to the tag of an older entry for all the invariant says. The
strengthening `MemoInv` adds that a drawn number is used by nobody else, neither as the
version nor as a tag in the cache or in a ranker's hands, until it is assigned; that
numbers still to come are above all in use; and that freshness holds along the way
of scores from a computation into the cache and out of it. `MaxMutations` is a bound
of the model, and arbitrary in the proof.

### `SearchPipeline`: one search, stage by stage

`req` is the request with the configuration in force, `pc` the stage. `pool` is the
list of results as the stages hand it on, `hop1` the hits that carry a `hop1_rank`,
`context` those whose source is the ego graph or a parent, and `last` tells the two
uses of `rerank_by_query` apart: after the hops it reranks a window, after the
expansion it also decides what is shown. Two chunks with the same `DedupKey` are
pieces of one function, of which an answer shows one.

Scores come from models, and BM25's, cosine's and the reranker's scales are compared
with each other, so a sort by score yields any order (`Orders`), and every property
holds whatever the models say. The fusion is the exception: its scores are weights
over ranks and are computed exactly, as fractions. A leg ranks whatever it likes,
cuts, then filters (`Leg`). Reranking and centrality permute, or are skipped when
they fail; the ego graph and the parents are optional for the same reason.

*Run.* `Services.cfg`: five chunks (a function in two pieces and its class,
another method and its class), a filter that drops the classes, and eight requests
that between them take every branch: three modes, with and without filter, no hop,
one hop, and two by similarity, by graph and by both, `k` of one and two, one or two
passes. The factors (`LegFactor`, `OverFetch`) and windows (`Candidates`, the
reserved slots) are scaled down to the size of the corpus, so that each of the cuts
drops something and each reserve is needed.
- `FusionIsFair`, checked within `AnswerIsSound`: the cut after the fusion never leaves a chunk out for one that is
  below it in both legs, keeps the places promised to BM25 and leaves none empty.
- `AnswerIsSound`: no function is shown twice, in whatever pieces it came; only
  context may fall outside the filter; what the context may add is bounded.
- `StagesKeep`: sorting three scales together cannot push the hits of the query out of
  the window that is reranked: it keeps as many as it had, and gets as many of those behind
  it as places are reserved (two here, six by default); a page has `k` results if there are as many functions
  to show, although pieces are dropped on the way; no stage that fails or filters
  leaves a search that has found something without an answer.

No fairness: a search is a sequence of calls, each of which ends.

*Left out, because a property fails with it or it needs a model of its own.*
- Searches in parallel share one reranker; see `Reranker`.
- The last pass asks to keep all results (`hybrid_searcher.py:771`), but reranking
  returns its window only, so that more than 30 results (from `k` = 7 on) lose their
  tail. The model has this; no property says that all of them are shown.
- A reranker that generates its ranking cuts to `k` before pieces of one function are
  merged (`neural_reranker.py:674`): a page is full for the default one only.
- The filters of a request do not reach graph neighbours and parents, whatever the
  tool's description of a filter says: `AnswerIsSound` excepts `context`.
- Three and more hops repeat the second; `bfs` neighbours; deduplication switched
  off; query expansion.

### `Services`, `FurtherServices`, `MCServices`: the components that stand alone

Eighteen components need no other one. `Services` is the sum of six of them
(`ChunkEmbedding`, `QueryEmbedding`, `ModelLoad`, `LspSession`, `ProjectStore`,
`LexicalIndex`), `FurtherServices` that of five (`Reranker`, `Configuration`,
`CentralityMemo`, `BatchSizing`, `IntentRouting`), and `MCServices` extends both by the
others: `part` names the component whose behaviour this is, `v1` to `v9` are its
variables, and every property is an implication from its part, so that each is explored
as if alone and none can disturb another. The two sums leave their parameters open and
are what `Services_proofs` and `FurtherServices_proofs` reason about; `MCServices` has the
small instances. A component with state is an `INSTANCE` of its module. An algorithm is a
set of operators over one input, a record; its input is chosen in two steps (`v1` a first
part, `v2` the whole: `Chosen`, `Complete`), and its
property speaks of the whole. `Services.cfg` takes about 1.4 million states. It allows
deadlock because finished programs, complete inputs and exhausted bounds have nothing
left to do; where being stuck would be an error, the property says so
(`RerankingIsOptional`, `LoadsIfItCan` speak of the outcome, `BatchesProgress` of
every step).

What `Services` assumes of its parameters: files and models are finitely many, sizes
and bounds natural numbers, a batch is not empty, and the values that stand for
nothing ("none", "gone", `NoDir`) are none of those configured (`ChunksAssumption`,
`ProjectsAssumption`); nobody asks for the embeddings of no queries, for which
`embed_queries_batch` returns at once (`QueriesAssumption`); an identifier has a word
and the least score is above 0
(`LexicalAssumption`); the GPUs, models and queries that are given to the two algorithms
are such as there can be (`SizingAssumption`, `RoutingAssumption`: of a GPU no more is used
and free than it has, a limit is from 5 to 100 %, scores and sizes are natural numbers, a
cache is within its size, and a decision needs some confidence).

Threads that are interchangeable, and the two filters of `ProjectStore`, are the values `t1`
and `t2`, the rankers of `CentralityMemo` are `r1` and `r2`: the symmetry of the run (`Twins`). There is no liveness:
these components are sequences of calls, or end by a bound, and what could fail to end
(batches that run out of memory again and again) is stated as progress of each step.

### `ChunkEmbedding`: chunks and their cache

A run partitions its chunks into hits and misses (`Partition`), prepares the text of
the misses with the imports of their file (`Prepare`), embeds batch after batch
(`EncodeBatch`), which it halves when memory runs out (`OutOfMemory`) down to one,
puts hits and new vectors to their places (`Finish`) and saves the cache (`Save`). In
between files are edited, the model is cleaned up, the process dies, saving or
reading fails. A vector is what was embedded and by which numerics. Every returned
vector is what its own chunk would be given now (`VectorsAreTheChunks`); saving keeps
what the run used and, in runs over a part of the project, everything that fits
(`SaveKeeps`); batches end (`BatchesProgress`).

*Bounds.* Two files, two numerics, batches of two, room for three entries, two edits,
one fault: enough for a hit and a miss in one run, for a cache of the other numerics, and
for four keys under a cap of three, so that a save evicts. *Left out because the property fails:* the provenance of the cache is
taken from the configuration in force, while a loaded model keeps the precision it
was loaded with (`model_loader.py:219-240`); with `LiveReconfig` the cache would hold
vectors under a wrong provenance. Measuring the loaded model, ONNX, prompts.

*Proved* (`Services_proofs`) for any finite set of files, any numerics, batch sizes,
limits, edits and faults: `VectorsSound`, `SavedIsKept`, `BatchesEnd`. The first has the
hypothesis `~LiveReconfig`, for the reason just given. Its strengthening: the cache and
its file hold, under each key, the vector of what the key says; the imports that are
remembered of a file as it is are its own (`Remembered`); a run's chunks are distinct, and
its misses are places of them, each once, in an order of their own (`RunShape`); a loaded
model is the one that is wanted (`ModelAsWanted`); the results so far are the vectors of
that order (`VectorsSoFar`). For what a save keeps: no entry that was loaded or used goes
before the last cut (`EntriesStay`). That what `Finish` puts back covers every place once is an argument about
sequences of places: a selected sequence lists its places by rank, and ranks are a
bijection (`Ranks`, `SelectedIs`).

### `QueryEmbedding`: queries and their cache

A call looks its queries up one lock at a time (`LookUp`), embeds what it lacks
(`Encode`, which loads the model on first use), stores one by one (`Store`). Entries
age, the model is cleaned up, the pool makes another embedder. `QueriesAnswered`:
each query gets its own vector at its own place, and the cache is bounded and has one
entry per query. *Bounds.* Two threads, three queries, a cache of two, lists with a
duplicate and lists longer than the cache. *Note:* cleaning up an embedder that never
loaded its model leaves the loader alive.

*Proved* (`Services_proofs`) for any threads, any lists of queries and any size of the
cache: `OwnVectors`. The strengthening says of a call that what it has so far is unknown
or its own vector, and that the vectors it still has to store are those of the places
that are still open, from the end (`CallSound`): storing one closes the first open place
and drops the first vector (`SelectedRest`). No other thread is mentioned, which is why
any number of them may come between.

### `ModelLoad`: a model from what there is

The state is what two places hold: configuration, weights in one file, in shards
(all, some, one in part), tokenizer; and whether the hub answers, files can be removed
and the model may use both places. Every combination is an initial state.
`LoadsIfItCan`: a load fails only if it must. *Notes:* `load()` deletes a damaged
cache before it knows whether the hub has the model (`model_loader.py:408`), so that
offline there is nothing afterwards; `cleanup_incomplete` can never turn an invalid
cache into a valid one; only `model.safetensors` is linked from the default place.

*Proved* for every content of the two places: `LoadsIfPossible`. What has to be added:
until a place is chosen none that is any good was found, one that was complete still is,
and the other place is chosen only if it is complete (`NothingValid`, `ChosenIsGood`).

### `Reranker`: one engine for all searches

The attributes of `RerankingEngine` are read and written without a lock by every
search's thread; each access is a step. A pass asks whether to rerank (`ShouldEnable`),
makes, swaps or drops the reranker (`Ensure`, `Create`, `CleanUp`, `Clear`), and uses
it (`Gate`, `Use`, `Fetch`, `LoadModel`, `Score`). Settings and memory change, the
searcher is shut down.

`RerankingIsOptional`: a search that nobody disturbs does not fail, and one that does
not fail has at least the results asked for, each once, as far as a pass may look at so
many. It is claimed for a search that has had the engine to itself
(`alone`). Two that share it can take the reranker away from each other: one that runs
out of memory, or finds another name configured, sets `neural_reranker` to `None`
between `_ensure_reranker` and its use by another, whose assertion then fails outside
the `try` (`reranking_engine.py:217`; the attribute is read again at `:182`), so that
the stage raises instead of going on unranked. The memory of an exhausted GPU is per
engine too, and any search's start resets it for the others. The generative reranker
cuts to `k`, swallows its own exhaustion of memory, and loads without a lock.

*Bounds.* Two threads, two models (a cross-encoder and a generative one), `k` of one,
a window of two in a pool of three, two passes, one change of the settings.

*Proved* (`FurtherServices_proofs`) for any number of searches, models, passes and changes, any
`k`, window and pool of distinct candidates (`RerankerAssumption`): `RerankingOptional`. The
property speaks of searches that are done; the strengthening says that a search carries
enough distinct results at every step (`Carried`, with lemmas on what a cut and a
reordering keep), that one which nobody disturbs is the only one (`AloneIsAlone`), and
that the reranker it has seen is there when it looks again (`StillThere`).
*What the proof attempt showed.* "At least `k` results" is false when `top_k_candidates`
(5 to 100, `config.py:660`) is below `k` (1 to 100, `tool_registry.py:89`): a pass that
succeeds hands back its window only (`reranking_engine.py:227`), so that a page may be
shorter with the reranker than without, or than with one that failed. The instance had
no such sizes; the property now says what the window lets through.

### `LspSession`: a session with the language server

Main thread, reader thread, watchdog and server, with two pipes that can fill up and
the lock on writing. The main thread asks for each chunk's item and then for what that
item calls; a request carries an id, and what it is about. The server answers late, in any
order, not at all, asks requests of its own, sends what cannot be parsed, or dies; the
deadline may pass at any time. `SessionIsSound`: an edge is of the chunk whose item's calls
it is, so that no answer to a request that was given up reaches another question, of the
same chunk or the next; and no question waits for ever: while one is asked the watchdog has
still to fire, or the server is dead and the stream marked as ended, so that whoever is
blocked on a pipe wakes. It breaks when ids are reused, when whatever comes first is taken,
and when the watchdog wakes the waiters but leaves the server (mutants).
*Bounds.* Two chunks with one item each, pipes of one message, one request of the server's.
*Note:* `close()` cancels the watchdog before it writes the shutdown
(`lsp_call_graph.py:386`): with both pipes full nobody would end that write. The model has
the state; that a session ends is not claimed. *Proved* for any number of chunks and any
capacities of the pipes: `SessionSound`. The strengthening says of everything that is in
either pipe, read and unanswered, or kept as an answer, that its id is in use by now, and
that the one with the id main waits for is about what main asks (`Sent`).

### `Configuration`: layers, cache, handlers

A reload is five steps (look at the versions, hit, read the global file, merge the
overrides, publish) that handler and reader threads interleave, saving is two (write, look
at the time). `CacheIsTrue`: what is served from the cache is what the files say.
`GlobalStaysGlobal`: when saving puts into the global file what only the active project's
overrides set. *Bounds.* One reader, two fields (one set by the environment), two writes of
the files. *What the properties except:*
- which fields are overridden (`_active_overrides_meta`, here `overridden`) is forgotten
  when a reload starts (`config.py:1899`) and known again when the overrides are read
  (`:1910`); `_prune_active_overrides` reads it without the lock (`:2035-2037`). A save that
  another thread's reload overtakes there does write the overrides into the global file.
  `GlobalStaysGlobal` excuses exactly that window, and overrides that changed since the
  handler looked at their file;
- a request that is refused half-way leaves its earlier fields set in the shared,
  cached configuration (`config_handlers.py:101-109`, `:181`): `touched`;
- `save_config` takes no lock, and a load between its write and its look at the file's
  time pins the old content under the new version (`config.py:2065-2071`): `missed`;
- overrides are pruned as of the last load; values from the environment are written
  into the file.

*Proved* (`FurtherServices_proofs`, from lemmas in `Configuration_proofs`) for any number
of reading threads, any fields, values, layers and requests, and any number of writes:
`ConfigurationIsTrue` (`CacheIsTrue`) and `OverridesStayLocal` (`GlobalStaysGlobal`).
`CacheIsTrue` is silent while a handler is between its write and its look at the file's
time, and about what a thread has read and not yet published. The strengthening: what is
held under a version that is still current was read from that version (`ReadIsCurrent`;
versions only grow, so an old key never becomes current again); what is known of the
overrides is true but while one thread, which has the lock, reads them again
(`ReloadsInTurn`, `OverridesAreKnown`); a field that a higher layer sets has that layer's
value unless a request set it (`LayersHold`: this is why pruning the overridden fields from
the file loses nothing); and what was just written is what is cached (`WrittenIsCached`).

### `ProjectStore`: what outlives a call

Per project and model a directory: its filters, the filter its index was built with,
whether there is a snapshot; the selection, the cleanup queue, the calls of
`index_directory` under way. That handler does not take the mutation lock
(`index_handlers.py:655-668`), so a call is three actions: it reads the stored filters
(`IndexDirectory`), saves those in force and selects the project (`SaveFilters`), and runs
under the project's write lock (`RunIndex`); a run may fail. A job runs the same task. The
other calls are one action each: switch of project or model, clear, delete, restart.
`FiltersAreKept`: the filters a user gave last reach every later run. Of two calls that
overlap one may read filters before the other saves its own, and run last, so that an index
is built with other filters than those stored; the history variable `raced` notes a project
whose calls overlapped, and the property excepts it until filters are given again in a call
that is alone. *Bounds.* One project, two models, two filters, two calls at a time, one
locked directory, one switch of the model, one queued directory, and `MaxTurns`, together,
for locks, switches and calls under way (two calls, or one with a lock and a switch); none
of these interact across projects.

*Proved* for any projects, any finite set of models and any filters and calls:
`FiltersKept`. The property also excepts projects with directories of several models, for
the reason below. The strengthening: an index is in a directory, a project without one has
forgotten its filters; a call that is alone is the only one of its project, and what it has
read is still what is stored (`AloneIsAlone`, `ReadIsStored`); and the only directory of a
project has the filters that were given last, as has the call that has saved them
(`OnlyDirectoryKeeps`), whatever was queued, deleted, selected or restarted and whichever
model is configured. What is configured at the start may be any model.

`ServicesFilters.cfg` explores it alone and shows that the claim does not survive a
change of the model (`FiltersOutliveTheModel`): the filters are stored per model, the
new directory has none, and `get_canonical_project_info` is asked for a directory of
this model first. *Notes:* the queue deletes a directory that came into use again; at
the start the selection is bound before the queue may delete its directory;
`delete_project` leaves the selection; JSON files are written in place, and a torn
`project_info.json` makes `list_projects` fail; a cancelled task leaves its job
"running" (`index_handlers.py:689`).

### `LexicalIndex`: BM25

Documents are sets of identifiers, identifiers sequences of words; the tokenizer joins,
splits, stems and drops stop words. Adding, removing files, clearing, saving file by
file (a crash or a disk error may come between), loading under another tokenizer.
A search returns the best `k` places whose score is at least a least one; the score of a
document for a query is a parameter (`Score`), since it is the library's, depends on all
documents and may be negative: a token in half or more of them is worth nothing.
`HitsAreTheDocuments`: hits are at documents of the index, with their own metadata, and have
a word of the query; a document with the least score is a hit, or `k` others score no less;
and what is scored are the tokens of the documents, of which one made with today's tokenizer
shares one with each query for an identifier of it. Whether that is enough for the least
score is the library's affair, and is not claimed.
*Bounds.* Three chunks in two files, two tokenizers, one fault, `k` of one and two, and the
library's scores of up to three documents in hundredths (`Bm25`, `Idf` in `MCInputs`; least
0.1, the default), by which a token that most documents have is worth less than a hit needs, or little
more. *What it excepts:* an interrupted save mixes two corpora, and `load` checks nothing
(`bm25_index.py:706-811`): `mixed`; a truncated `bm25.index` raises out of `load` and
with it out of the searcher's constructor (`hybrid_searcher.py:305`) until somebody
deletes the files: `torn`. Saving an emptied index leaves the old file. Identifiers that
the tokenizer drops: stop words, and for the legacy one those made of stop words only
(`Stopped`). How often an identifier occurs in a text is left out.

*Proved* (`Services_proofs`) for any chunks, texts, names, stop words, stems, tokenizers,
queries and sizes, any integer scores and any number of faults: `HitsFound`. The
strengthening: identifiers, documents and tokens are in parallel, in memory and in any file that is whole
(`Parallel`); how far the index and the metadata agree with them is what `mixed` says of
the memory and `torn` of the files (`Agreed`); and what a save has written so far is what
there is in memory (`Saving`), so that its last file puts the three in agreement. The
rest is about tokens: two texts with a token in common have a word in common, whichever
tokenizers made them (`CommonWord`), and an identifier that is not dropped is a token of
both (`CommonToken`).

### `CallEdges`: edges by three resolvers

What the analysers report is input; mapping to chunks (by line, by qualified name, by
node), merging by confidence and injection are translated. `EdgesAreTheBestFound`: an
edge is there iff chunking or a resolver found it among the indexed functions, with the
best confidence, keeping a known line; no call goes to a class with the method around
it. *Bounds.* Six chunks, each resolver with or without a result, failing or not.

### `Chunking`: from a tree to chunks

A file is a tree of nodes with lines and sizes; a language says what contains what,
where bodies may be cut and whom comments belong to. `SourceIsIndexed`: every statement
is in one chunk, a comment documents at most one, the pieces of a large function
partition its body in order and find its calls, every member of a container is a chunk
under the right parent, and what is reported as lost is what no chunk has. *Bounds.*
Files of up to four nodes, large functions, nested containers, as GLSL, Python and C++.
*Notes:* the comment behind a node is trimmed from a preamble without being claimed;
decorated methods have no parent id; a quartile profile of functions of complexity one
never splits; split GLSL functions with the brace on the next line lose the types of
their parameters.

### `GraphQueries` and `EgoGraph`: reading the graph

Five traversals answer about one graph, each with its own idea of a node's names, of
direction and of depth. `AnswersAgree`: a path that is found is one, within the depth
and of the types asked for, and as short as reachability says; the impact report names
every caller that the traversal finds, or counts it as stale or excluded; no neighbour
hangs loose in the subgraph of an answer. *Bounds.* Subsets of eight edges over four
chunks and two symbols. *Notes:* a path filtered by type is reported with the primary
type of its edges; there may be no path where the direct one is too long though one
through a symbol is not; `find_call_chain` counts nodes, its siblings edges; indirect
callers are not deduplicated.

`ContextBelongs`: what an ego graph adds is in the index, no result itself, no better
than the result it belongs to, within reach of it, and nothing alike is dropped while
there is room. *Bounds.* Four chunks and a symbol, subsets of seven edges, one to three
hops. *Notes:* weighted `get_neighbors` misses nodes from three hops on
(`graph_storage.py:449-526`), so completeness is claimed up to two; a PageRank that does
not converge calls itself again until the recursion limit, which the searcher catches
(`ego_graph_retriever.py:192-196`), where the docstring says it falls back to
breadth-first search; a neighbour shared by two results is credited to the last.

### `IntentRouting`, `BatchSizing`, `SourceTree`, `Metrics`: algorithms

`RoutingIsReasoned`: no intent is preferred to one with better words and better
likeness; an intent that is decided has signs; a model that cannot embed changes nothing
of what the words say; the plan takes nothing away from what was asked for. *Bounds.*
Five intents, up to four signs. *Notes:* the anchors of a model that failed for a moment
are cached, partial or empty, for good (`intent_classifier.py:364-407`); likeness can
pull a match by words below the threshold; `GLOBAL` raises `k` to 10 above the maximum;
`CONTEXTUAL` overrides the user's hops by 2; a similarity query searches twice, once
outside the read lock (`search_orchestrator.py:652-677`); with a confidence threshold of 0,
which nothing forbids (`config.py:602`), an intent without any sign would be decided.

*Proved* (`FurtherServices_proofs`) for any order of precedence, weights, caches and queries whose
threshold is not 0: `QueriesAreRouted` (`RoutingIsReasoned`). The least and the greatest of
finitely many scores, and of the places of intents that are close to the best, are found by
their ranks (`Ranks`); blending keeps the order of two intents of which one has the better
words and the better likeness (`QuotientsKeepOrder`), so that a tie is not broken for the
other one; and a cache in which another model's entry is evicted or missing has the same
entry for this one.

`BatchesFit`: a sized batch fits in what is free and, on a GPU half of which is free,
under the ceiling; more free memory never makes it smaller; the ceiling leaves others
theirs. *Bounds.* GPUs of 4 to 24 GiB. *Note:* the configured minimum (16) defeats the
caps of 8 for low memory (`embedder.py:400-415`): sizes are claimed above the minimum.
*Proved* (`FurtherServices_proofs`) for any GPU, model and configuration: `SizedBatchesFit`
(`BatchesFit`). Target, cost and ceiling are quotients of each other's roundings; the proof
bounds each by what it is a share of, shows that the target of a GPU half of which is free
stays below the ceiling on top of what is held when the share is three quarters or more,
and that every quotient and limit grows with the free memory.

`TreeIsTold`: the walk enters every directory above an allowed file; a file taken for
unchanged has the content that is indexed; a single change is seen by comparing roots.
*Bounds.* Ten patterns (two to include, one to exclude), nine paths, up to two changes.
*Notes:* two files of a directory that trade names are invisible to `quick_check`
(`merkle_dag.py:212`): the claim is for single changes; a directory that cannot be
listed counts as removed; a bare additive include admits every directory that is ignored
by default (`filters.py:385`); `delete_all_snapshots` passes over ids of the old form.

`ScoresAgree`: scores are at most one, a list with all the expected ones first has
NDCG one, and no other has; containment, file level and aggregation never contradict
the plain ones. *Bounds.* Up to three results, two ranges of lines. *Note:* precision and
NDCG are documented in `[0.0, 1.0]` (`metrics.py:149`, `:190`); entries that are credited
with several names exceed it, so the claim is for entries with one.

## What is proved and what is only checked

Proved: the lock's types, counters, exclusion, refinement, and that no wake-up is lost
without a cancelled writer; the pipeline's safety properties under the faults
named; that the handlers' searches read what is on disk and that their waits close no
circle; the four properties of the call graph; the memo's types and freshness; that the
cached configuration is that of the files and when overrides stay out of the global file;
that reranking is optional; the size of batches and the routing of queries; and the
properties of the six components of `Services`: chunk and query embeddings, loading of
models, the language server's session, filters and the BM25 index. Everything else is model-checked on
the instances above.

Liveness (`SearchesStarveNoReindex`, `ReaderEventuallyRuns`, `CatchesUp`) and the half of
`NobodyStuck` that says `ENABLED` are beyond the prover and stay with TLC, and so does
`SearchPipeline`, whose stages are folds and sorts (`AnswerIsSound`, `StagesKeep`). What folds over sequences or recursive
traversals compute (`GraphQueries`, `EgoGraph`, `Chunking`, `SourceTree`, `Metrics`,
`CallEdges`) for every input is an induction over data, which the prover has no rule for:
these are compared with reference definitions over bounded inputs (`AnswersAgree`,
`ContextBelongs`, `SourceIsIndexed`, `TreeIsTold`, `ScoresAgree`, `EdgesAreTheBestFound`). Where a fold was only a
selection or a count (`QueryEmbedding`, `LexicalIndex`, `ChunkEmbedding`, `IntentRouting`), it is defined
by the rank of a place (`SequencePlaces`) or a cardinality instead, and the least element of a set of numbers does what
induction would.

Bounds are constants: `MaxVersion`, `MaxFaults`, `MaxEdits`, `MaxMutations`, `MaxWrites`,
`MaxEdited`, `MaxMade`, `MaxChanges`, `MaxAsked`, `MaxTurns`,
`MaxLocks`, `MaxSwitches`, `MaxQueue`. They
limit the environment (edits, faults, requests); where one limits what the program makes
(`MaxMade`, `MaxTurns`, `MaxQueue`), a behaviour that would go beyond is not followed.
Symmetry is used over files, tasks and threads where no temporal property is
checked that it would affect.

## Plan

Done, in this order: `AsyncRWLock`, `IndexPipeline`, `ServerWorkflow`, `CallGraph`,
`CentralityMemo`, `SearchPipeline` with the proofs of the lock, the pipeline and the
memo; then the components of `MCServices`; then the proofs of the handlers, of the call
graph, of the lock's wake-ups, of the configuration and of the reranker; then `Services`,
`FurtherServices` and the proofs of their components. Next:

1. The part of `AnswerIsSound` that bounds what an answer may contain, as a theorem.
2. In `ServerWorkflow`: cancelled requests whose worker threads run on, the tools that
   read without a lock, the search of a similarity query outside the read lock; the search
   that a failed run leaves with an old searcher, as a claim of its own.
3. Metadata store and symbol cache with their own crashes; module summaries.

## Not modelled

- Transport, tool registry, layout of answers, server metrics, utilities, scripts,
  installers: no state that a property is about, or I/O only.
- Ranking policy: its scores only order results, and `SearchPipeline` takes any order.
- Query expansion (off by default), and the searcher without BM25 (a subset of the
  hybrid one).
- Metadata store, symbol cache, memory-mapped vectors: `IndexPipeline` has the sets they
  hold; their own files are left out.
- Grammars, analysers, embedding and reranking models, FAISS and SQLite: external.
- The extractors of relationships other than calls: pure traversals of one file.

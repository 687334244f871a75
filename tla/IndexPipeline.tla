---------------------------- MODULE IndexPipeline ----------------------------
(***************************************************************************)
(* One project's index as search/incremental_indexer.py builds it, one run *)
(* after the other, through index_write_stage.py, index_sync.py,           *)
(* batch_operations.py, bm25_index.py and faiss_index.py, while its files  *)
(* change underneath, steps fail and the process dies.                     *)
(*                                                                         *)
(* A file is its version, 0 when it is absent; every edit makes a version  *)
(* the project has not seen.  A chunk is a file in a version.  What is     *)
(* durable is the Merkle snapshot, the recovery marker, metadata.db, and   *)
(* the saved FAISS and BM25 files; what is served is the pair in memory.   *)
(* Call graph, statistics and caches are left out.                         *)
(***************************************************************************)
EXTENDS Naturals, FiniteSets

CONSTANTS File,        \* files of the project
          NoSnapshot,  \* no Merkle snapshot on disk
          HasIncludes, \* the project was indexed with include_dirs
          Faults,      \* kinds of fault that may happen
          MaxVersion,  \* bound: versions ever written
          MaxFaults    \* bound: faults ever suffered

FaultKinds == {"chunk", "embed", "add", "removeDense", "wipe", "removeBm25",
               "locked", "clear", "save", "crash", "crashClearing", "crashSaving"}

ASSUME PipelineAssumption ==
    /\ IsFiniteSet(File)
    /\ HasIncludes \in BOOLEAN
    /\ Faults \subseteq FaultKinds
    /\ MaxVersion \in Nat \ {0} /\ MaxFaults \in Nat

Version == 0..MaxVersion
Files == [File -> Version]
ASSUME NoSnapshotAssumption == NoSnapshot \notin Files

VARIABLES world, clock,          \* the files now; the newest version
          snap,                  \* the Merkle snapshot
          marker,                \* index_recovery_failed.marker exists
          meta, stranded,        \* metadata.db; a metadata.db.deleting left over
          denseDisk, bm25Disk,   \* the saved indices
          dense, bm25,           \* the served indices
          pc, mode,              \* where the run is; incremental, full, recovery
          dag, batch,            \* the tree it walked; the chunks in its hands
          outcome,               \* what the last run reported
          faults,                \* faults so far
          settled                \* history: faults when the last recovery ended

project == <<world, clock>>
durable == <<meta, stranded, denseDisk, bm25Disk>>
served  == <<dense, bm25>>
run     == <<pc, mode, dag, batch, outcome>>
vars    == <<project, snap, marker, durable, served, run, faults, settled>>

Nothing == [f \in File |-> 0]
ChunksOf(files, fs) == {<<f, files[f]>> : f \in {g \in fs : files[g] # 0}}
Of(chunks, fs) == {c \in chunks : c[1] \in fs}

\* MerkleDAG diff against the snapshot (detect_changes_from_snapshot).
Known == IF snap = NoSnapshot THEN Nothing ELSE snap
Changed == {f \in File : dag[f] # Known[f]}
ToRemove == {f \in Changed : Known[f] # 0}
ToAdd == {f \in Changed : dag[f] # 0}

Fault(kind) ==
    /\ kind \in Faults /\ faults < MaxFaults
    /\ faults' = faults + 1

Init ==
    /\ clock = 1 /\ world = [f \in File |-> 1]
    /\ snap = NoSnapshot /\ marker = FALSE /\ stranded = FALSE
    /\ meta = {} /\ denseDisk = {} /\ bm25Disk = {} /\ dense = {} /\ bm25 = {}
    /\ pc = "idle" /\ mode = "none" /\ dag = Nothing /\ batch = {}
    /\ outcome = "none" /\ faults = 0 /\ settled = 0

Goto(where) == pc' = where /\ UNCHANGED <<mode, dag, batch, outcome>>

\* The run returns its result.  A recovery that returns takes the marker away.
Finish(result) ==
    /\ pc' = "idle" /\ mode' = "none" /\ dag' = Nothing /\ batch' = {}
    /\ outcome' = result
    /\ marker' = (marker /\ mode # "recovery")

\* An exception: incremental_index recovers; _full_index drops the searcher,
\* so that the next caller loads the indices from disk.
Raise ==
    IF mode = "incremental"
    THEN Goto("recover") /\ UNCHANGED <<served, marker>>
    ELSE /\ Finish("failed")
         /\ dense' = denseDisk /\ bm25' = bm25Disk

-----------------------------------------------------------------------------
\* The environment: the project's files change, at any moment of a run too,
\* and the server process dies and is restarted.

Edit(f) ==
    /\ \/ clock < MaxVersion /\ clock' = clock + 1
          /\ world' = [world EXCEPT ![f] = clock + 1]
       \/ world[f] # 0 /\ world' = [world EXCEPT ![f] = 0]
          /\ UNCHANGED clock
    /\ UNCHANGED <<snap, marker, durable, served, run, faults>>

Saving == pc \in {"saveBm25", "saveDense"}

\* Two windows are told apart: between the snapshot and the saved indices, and
\* while a recovery clears the index with the old snapshot still in place.
CrashKind ==
    CASE Saving -> "crashSaving"
      [] mode \in {"recovering", "recovery"} /\ snap # NoSnapshot -> "crashClearing"
      [] OTHER -> "crash"

Crash ==
    /\ Fault(CrashKind)
    /\ dense' = denseDisk /\ bm25' = bm25Disk
    /\ pc' = "idle" /\ mode' = "none" /\ dag' = Nothing /\ batch' = {}
    /\ outcome' = IF pc = "idle" THEN outcome ELSE "crashed"
    /\ UNCHANGED <<project, snap, marker, durable>>

-----------------------------------------------------------------------------
\* incremental_index

Start(force) ==
    /\ pc = "idle"
    /\ pc' = IF force \/ snap = NoSnapshot THEN "release" ELSE "detect"
    /\ mode' = IF force \/ snap = NoSnapshot THEN "full" ELSE "incremental"
    /\ UNCHANGED <<project, snap, marker, durable, served, dag, batch, outcome, faults>>

DetectChanges ==
    /\ pc = "detect" /\ world # snap
    /\ dag' = world
    /\ pc' = "removeDense"
    /\ UNCHANGED <<project, snap, marker, durable, served, mode, batch, outcome, faults>>

NoChanges ==
    /\ pc = "detect" /\ world = snap
    /\ Finish("unchanged")
    /\ UNCHANGED <<project, snap, durable, served, faults>>

\* BatchOperations.remove_files rebuilds FAISS without the chunks of the
\* removed files: chunks without metadata are not found, and clear() takes
\* the saved files with it.  `batch` keeps what is still to go from metadata.
Gone == Of(dense \cap meta, ToRemove)

RemoveDense ==
    /\ pc = "removeDense"
    /\ Gone # {} => dense # Gone
    /\ batch' = Gone
    /\ dense' = dense \ Gone
    /\ denseDisk' = IF Gone = {} THEN denseDisk ELSE {}
    /\ pc' = IF Gone = {} THEN "removeBm25" ELSE "removeMetadata"
    /\ UNCHANGED <<project, snap, marker, meta, stranded, bm25Disk, bm25, mode, dag, outcome, faults>>

RemoveMetadata ==
    /\ pc = "removeMetadata"
    /\ meta' = meta \ batch
    /\ batch' = {}
    /\ pc' = "removeBm25"
    /\ UNCHANGED <<project, snap, marker, stranded, denseDisk, bm25Disk, served, mode, dag, outcome, faults>>

\* CodeIndexManager.clear_index as the callback of a removal that leaves
\* nothing, or that failed half-way.
WipeDense ==
    /\ dense' = {} /\ denseDisk' = {}
    /\ meta' = IF stranded THEN meta ELSE {}
    /\ stranded' = FALSE

RemoveAllDense ==
    /\ pc = "removeDense" /\ Gone # {} /\ dense = Gone
    /\ WipeDense
    /\ Goto("removeBm25")
    /\ UNCHANGED <<project, snap, marker, bm25Disk, bm25, faults>>

\* The rebuild fails after FAISS was cleared, or a metadata row cannot be
\* deleted; the handler then clears what is left, and may not be able to.
RebuildFails ==
    /\ pc = "removeDense" /\ Gone # {}
    /\ Fault("removeDense")
    /\ dense' = {} /\ denseDisk' = {}
    /\ Goto("removeDenseFailed")
    /\ UNCHANGED <<project, snap, marker, meta, stranded, bm25Disk, bm25>>

RemoveMetadataFails ==
    /\ pc = "removeMetadata"
    /\ Fault("removeDense")
    /\ Goto("removeDenseFailed")
    /\ UNCHANGED <<project, snap, marker, durable, served>>

WipeAfterFailure ==
    /\ pc = "removeDenseFailed"
    /\ WipeDense
    /\ Goto("removeBm25AfterFailure")
    /\ UNCHANGED <<project, snap, marker, bm25Disk, bm25, faults>>

\* With metadata.db locked, clear_index changes nothing.
WipeLocked ==
    /\ \/ pc = "removeDense" /\ Gone # {} /\ dense = Gone
       \/ pc = "removeDenseFailed"
    /\ Fault("wipe")
    /\ Goto("removeBm25AfterFailure")
    /\ UNCHANGED <<project, snap, marker, durable, served>>

AfterRemoval == pc \in {"removeBm25", "removeBm25AfterFailure"}

RemoveBm25 ==
    /\ AfterRemoval
    /\ bm25' = bm25 \ Of(bm25, ToRemove)
    /\ Goto("chunk")
    /\ UNCHANGED <<project, snap, marker, durable, dense, faults>>

\* IndexSynchronizer.remove_files gives up only when both removals failed.
RemoveBm25Fails ==
    /\ AfterRemoval /\ Of(bm25, ToRemove) # {}
    /\ Fault("removeBm25")
    /\ bm25' = {}
    /\ Goto(IF pc = "removeBm25" THEN "chunk" ELSE "recover")
    /\ UNCHANGED <<project, snap, marker, durable, dense>>

-----------------------------------------------------------------------------
\* Chunking reads the files as they are now, not as the tree saw them.

Target == IF mode = "incremental" THEN ToAdd ELSE {f \in File : dag[f] # 0}

Chunk ==
    /\ pc = "chunk"
    /\ batch' = ChunksOf(world, Target)
    /\ pc' = "embed"
    /\ UNCHANGED <<project, snap, marker, durable, served, mode, dag, outcome, faults>>

\* A file that cannot be chunked, or that the time was too short for, is logged
\* and left out of the batch.
ChunkFails ==
    /\ pc = "chunk"
    /\ Fault("chunk")
    /\ \E f \in Target : batch' = ChunksOf(world, Target \ {f})
    /\ pc' = "embed"
    /\ UNCHANGED <<project, snap, marker, durable, served, mode, dag, outcome>>

\* A failure to embed is an exception of an incremental run; a full run turns
\* it into a failed result, its index cleared and its snapshot gone.
EmbedFails_Swallowed ==
    /\ pc = "embed" /\ batch # {}
    /\ Fault("embed")
    /\ IF mode = "incremental"
       THEN Goto("validate") /\ UNCHANGED <<served, marker>>
       ELSE Finish("failed") /\ UNCHANGED served
    /\ UNCHANGED <<project, snap, durable>>
EmbedFails ==
    /\ pc = "embed" /\ batch # {}
    /\ Fault("embed")
    /\ IF mode = "incremental"
       THEN Raise
       ELSE Finish("failed") /\ UNCHANGED served
    /\ UNCHANGED <<project, snap, durable>>

Embed ==
    /\ pc = "embed"
    /\ Goto("addBm25")
    /\ UNCHANGED <<project, snap, marker, durable, served, faults>>

\* HybridSearcher.index_documents: BM25 first, then FAISS and metadata.db.
AddBm25 ==
    /\ pc = "addBm25"
    /\ bm25' = bm25 \cup batch
    /\ Goto("addDense")
    /\ UNCHANGED <<project, snap, marker, durable, dense, faults>>

AddDense ==
    /\ pc = "addDense"
    /\ dense' = dense \cup batch
    /\ meta' = meta \cup batch
    /\ Goto(IF mode = "incremental" THEN "validate" ELSE "snapshot")
    /\ UNCHANGED <<project, snap, marker, stranded, denseDisk, bm25Disk, bm25, faults>>

AddDenseFails ==
    /\ pc = "addDense" /\ batch # {}
    /\ Fault("add")
    /\ Raise
    /\ UNCHANGED <<project, snap, durable>>

\* validate_index_consistency: before the snapshot of an incremental run,
\* after everything in a full one, where it only changes the result.
Consistent == dense = meta

Validate_Skipped ==
    /\ pc = "validate"
    /\ Goto("snapshot")
    /\ UNCHANGED <<project, snap, marker, durable, served, faults>>
Validate ==
    /\ pc = "validate"
    /\ Goto(IF Consistent THEN "snapshot" ELSE "recover")
    /\ UNCHANGED <<project, snap, marker, durable, served, faults>>

SaveSnapshot_OfNow ==
    /\ pc = "snapshot"
    /\ snap' = world
    /\ Goto("saveBm25")
    /\ UNCHANGED <<project, marker, durable, served, faults>>
SaveSnapshot ==
    /\ pc = "snapshot"
    /\ snap' = dag
    /\ Goto("saveBm25")
    /\ UNCHANGED <<project, marker, durable, served, faults>>

SaveBm25 ==
    /\ pc = "saveBm25"
    /\ bm25Disk' = bm25
    /\ Goto("saveDense")
    /\ UNCHANGED <<project, snap, marker, meta, stranded, denseDisk, served, faults>>

\* With no FAISS index in memory there is nothing to save.
SaveDense ==
    /\ pc = "saveDense"
    /\ denseDisk' = IF dense = {} THEN denseDisk ELSE dense
    /\ Goto("resync")
    /\ UNCHANGED <<project, snap, marker, meta, stranded, bm25Disk, served, faults>>

SaveFails ==
    /\ Saving
    /\ Fault("save")
    /\ Raise
    /\ UNCHANGED <<project, snap, durable>>

\* resync_if_desynced compares counts, and tolerates a tenth.
Count(chunks) == Cardinality(chunks)
Apart(b, d) == IF b < d THEN d - b ELSE b - d
Desynced_Never == FALSE
Desynced == dense # {} /\ 10 * Apart(Count(bm25), Count(dense)) > Count(dense)

Resync ==
    /\ pc = "resync"
    /\ bm25' = IF Desynced THEN dense \cap meta ELSE bm25
    /\ bm25Disk' = IF Desynced THEN dense \cap meta ELSE bm25Disk
    /\ IF mode # "incremental" /\ ~Consistent
       THEN Finish("inconsistent") ELSE Finish("indexed")
    /\ UNCHANGED <<project, snap, meta, stranded, denseDisk, dense, faults>>

-----------------------------------------------------------------------------
\* _attempt_recovery: refuse when a recovery failed before, else clear the
\* index and run a full one.

Refuse ==
    /\ pc = "recover" /\ marker
    /\ Finish("failed")
    /\ UNCHANGED <<project, snap, durable, served, faults>>

\* IndexSynchronizer.clear_index: rename metadata.db away, clear BM25, clear
\* FAISS, unlink the renamed file.  A metadata.db.deleting left by an earlier
\* clear passes for the renamed file.  A recovery clears once before its full
\* run (mode "recovering"), which then clears again.
Recover_Forever ==
    /\ pc = "recover"
    /\ mode' = "recovering" /\ pc' = "preflight"
    /\ UNCHANGED <<project, snap, marker, durable, served, dag, batch, outcome, faults>>
Recover ==
    /\ pc = "recover" /\ ~marker
    /\ mode' = "recovering" /\ pc' = "preflight"
    /\ UNCHANGED <<project, snap, marker, durable, served, dag, batch, outcome, faults>>

Preflight ==
    /\ pc = "preflight"
    /\ meta' = IF stranded THEN meta ELSE {}
    /\ stranded' = TRUE
    /\ Goto("clearBm25")
    /\ UNCHANGED <<project, snap, marker, denseDisk, bm25Disk, served, faults>>

\* A clear that raises.  Before its full run a recovery leaves the marker, which
\* refuses later ones; a full run has deleted the snapshot already.
ClearRaises_Unmarked ==
    IF mode = "recovering"
    THEN /\ pc' = "idle" /\ mode' = "none" /\ dag' = Nothing /\ batch' = {}
         /\ outcome' = "failed" /\ UNCHANGED marker
    ELSE Finish("failed")
ClearRaises ==
    IF mode = "recovering"
    THEN /\ pc' = "idle" /\ mode' = "none" /\ dag' = Nothing /\ batch' = {}
         /\ outcome' = "failed" /\ marker' = TRUE
    ELSE Finish("failed")

\* What is served then: what is left in memory, or, after a full run, on disk.
ServedThen(d, b) ==
    /\ dense' = IF mode = "recovering" THEN d ELSE denseDisk'
    /\ bm25' = IF mode = "recovering" THEN b ELSE bm25Disk'

PreflightLocked ==
    /\ pc = "preflight"
    /\ Fault("locked")
    /\ ClearRaises
    /\ UNCHANGED <<project, snap, durable>>
    /\ ServedThen(dense, bm25)

\* Nothing undoes a clear that stops after its preflight: metadata.db is gone,
\* of the index at which it stopped the files may be left.
ClearHalts ==
    /\ pc \in {"clearBm25", "clearDense"}
    /\ Fault("clear")
    /\ IF pc = "clearBm25"
       THEN bm25Disk' \in {bm25Disk, {}} /\ UNCHANGED denseDisk /\ ServedThen(dense, {})
       ELSE denseDisk' \in {denseDisk, {}} /\ UNCHANGED bm25Disk /\ ServedThen({}, bm25)
    /\ ClearRaises
    /\ UNCHANGED <<project, snap, meta, stranded>>

ClearBm25 ==
    /\ pc = "clearBm25"
    /\ bm25' = {} /\ bm25Disk' = {}
    /\ Goto("clearDense")
    /\ UNCHANGED <<project, snap, marker, meta, stranded, denseDisk, dense, faults>>

ClearDense ==
    /\ pc = "clearDense"
    /\ dense' = {} /\ denseDisk' = {} /\ stranded' = FALSE
    /\ pc' = IF mode = "recovering" THEN "release" ELSE "chunk"
    /\ mode' = IF mode = "recovering" THEN "recovery" ELSE mode
    /\ UNCHANGED <<project, snap, marker, meta, bm25Disk, bm25, dag, batch, outcome, faults>>

-----------------------------------------------------------------------------
\* _full_index, up to the shared steps above.

\* _release_and_verify_resources replaces the server's own searcher by one
\* that has not loaded BM25 (load_existing=False); a searcher built for one
\* automatic reindex is not the server's, and is kept.
Release ==
    /\ pc = "release"
    /\ \/ dense' = denseDisk /\ bm25' = {}
       \/ UNCHANGED served
    /\ Goto("walk")
    /\ UNCHANGED <<project, snap, marker, durable, faults>>

NothingMatched == HasIncludes /\ world = Nothing

Walk ==
    /\ pc = "walk" /\ ~NothingMatched
    /\ dag' = world /\ batch' = {}
    /\ pc' = "deleteSnapshot"
    /\ UNCHANGED <<project, snap, marker, durable, served, mode, outcome, faults>>

Abort ==
    /\ pc = "walk" /\ NothingMatched
    /\ Finish("aborted")
    /\ UNCHANGED <<project, snap, durable, served, faults>>

DeleteSnapshot ==
    /\ pc = "deleteSnapshot"
    /\ snap' = NoSnapshot
    /\ Goto("preflight")
    /\ UNCHANGED <<project, marker, durable, served, faults>>

Incremental ==
    \/ DetectChanges \/ NoChanges
    \/ RemoveDense \/ RemoveMetadata \/ RemoveAllDense
    \/ RebuildFails \/ RemoveMetadataFails \/ WipeAfterFailure \/ WipeLocked
    \/ RemoveBm25 \/ RemoveBm25Fails
    \/ Validate
Shared ==
    \/ Chunk \/ ChunkFails \/ Embed \/ EmbedFails \/ AddBm25 \/ AddDense \/ AddDenseFails
    \/ SaveSnapshot \/ SaveBm25 \/ SaveDense \/ SaveFails \/ Resync
Recovery ==
    \/ Refuse \/ Recover \/ Preflight \/ PreflightLocked \/ ClearBm25 \/ ClearDense \/ ClearHalts
Full == Release \/ Walk \/ Abort \/ DeleteSnapshot

Step == Incremental \/ Shared \/ Recovery \/ Full

\* The history variable.
Remember ==
    settled' = IF mode \in {"recovering", "recovery"} /\ pc' = "idle" THEN faults' ELSE settled

Next ==
    /\ \/ \E f \in File : Edit(f)
       \/ Crash
       \/ \E force \in BOOLEAN : Start(force)
       \/ Step
    /\ Remember

Spec == Init /\ [][Next]_vars

\* A started run goes on, and the project is indexed again and again (every
\* search triggers it when the index is stale).  Nobody has to force a run.
FairSpec == Spec /\ WF_vars(Step /\ Remember) /\ WF_vars(Start(FALSE) /\ Remember)

-----------------------------------------------------------------------------
PC == {"idle", "detect", "removeDense", "removeMetadata", "removeDenseFailed",
       "removeBm25", "removeBm25AfterFailure", "chunk", "embed", "addBm25",
       "addDense", "validate", "snapshot", "saveBm25", "saveDense", "resync",
       "recover", "preflight", "clearBm25", "clearDense", "release", "walk",
       "deleteSnapshot"}
Mode == {"none", "incremental", "full", "recovering", "recovery"}
Outcome == {"none", "unchanged", "indexed", "inconsistent", "failed", "aborted",
            "crashed"}
Chunks == File \X (Version \ {0})

\* TypeOK: every variable stays in its range, and a run has a mode.
TypeOK ==
    /\ world \in Files /\ clock \in Version
    /\ snap \in Files \cup {NoSnapshot} /\ marker \in BOOLEAN
    /\ meta \subseteq Chunks /\ stranded \in BOOLEAN
    /\ denseDisk \subseteq Chunks /\ bm25Disk \subseteq Chunks
    /\ dense \subseteq Chunks /\ bm25 \subseteq Chunks
    /\ pc \in PC /\ mode \in Mode /\ (pc = "idle" <=> mode = "none")
    /\ dag \in Files /\ batch \subseteq Chunks
    /\ outcome \in Outcome /\ faults \in 0..MaxFaults /\ settled \in 0..MaxFaults

Present == ChunksOf(world, File)

\* When the next run would find nothing to do, everything is indexed: no
\* failure, half-finished clear, crash or edit in the middle of a run leaves a
\* file that is in the snapshot and not in the served index, unless the marker
\* of a failed recovery says so.
NothingLost ==
    pc = "idle" /\ snap = world /\ ~marker => Present \subseteq dense \cap meta

\* A run that reports success leaves FAISS and metadata.db in agreement, BM25
\* within the tolerated tenth of them, and saved what it serves: a restart
\* finds the same index.
SuccessIsConsistent ==
    pc = "idle" /\ outcome = "indexed" =>
        /\ dense = meta /\ dense = denseDisk /\ bm25 = bm25Disk
        /\ dense # {} => 10 * Apart(Count(bm25), Count(dense)) <= Count(dense)

\* The snapshot never advances over chunks that were removed but not embedded
\* again: what it adds or keeps, and the project still has, is in memory.
NoSilentAdvance ==
    [][snap' # snap /\ snap' # NoSnapshot /\ ~marker =>
          ChunksOf(snap', {f \in File : snap'[f] = world[f]}) \subseteq dense']_vars

\* No recovery begins unless something has failed since the last one ended: an
\* index that was recovered, or that could not be, does not by itself make the
\* next request clear it again ("62 consecutive recovery attempts").
RecoveryIsBounded ==
    [][mode = "incremental" /\ mode' = "recovering" => faults > settled]_vars

\* Once edits and faults stop, the served vectors catch up with the project,
\* unless a recovery failed, which nothing but its marker remembers.
\* (Not so BM25: a crash between the save and the resync leaves it behind, and
\* a run without changes does not look.)
CatchesUp == <>[]marker \/ []<>(pc = "idle" /\ snap = world /\ dense = Present)
=============================================================================

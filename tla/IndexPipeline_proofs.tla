------------------------- MODULE IndexPipeline_proofs -------------------------
(***************************************************************************)
(* For any files, versions and number of faults: types, and what a run     *)
(* owes to the next one as long as the only faults are those that a        *)
(* pipeline can survive, or that leave the marker of a failed recovery.    *)
(*                                                                         *)
(* NothingLost speaks of the moments between runs, so that its             *)
(* strengthening has to say for every step which chunks are where.  What   *)
(* makes it inductive is that edits make new versions: a file that was     *)
(* seen to differ from the snapshot will never agree with it again, so     *)
(* that the next run must look at the project.                             *)
(***************************************************************************)
EXTENDS IndexPipeline, FiniteSetTheorems, TLAPS

Tolerated == {"embed", "add", "removeBm25", "locked", "clear", "crash"}

\* `chunks` has what the tree lists and the project still has.
Have(chunks, tree) ==
    \A f \in File : tree[f] = world[f] /\ tree[f] # 0 => <<f, tree[f]>> \in chunks

\* The next run will find the snapshot outdated, whatever is edited until then.
Outdated == \E f \in File : snap[f] \notin {0, world[f]}

HasSnapshot == snap # NoSnapshot

\* A recovery clears the index with the old snapshot in place.
Clearing == mode = "recovering" \/ (mode = "recovery" /\ pc \in {"release", "walk", "deleteSnapshot"})

\* Nobody has seen a version that is yet to be made.
VersionsMade ==
    \A f \in File :
        /\ world[f] <= clock /\ dag[f] <= clock
        /\ HasSnapshot => snap[f] <= clock

\* No removal from FAISS fails.
NoFailedRemoval == pc \notin {"removeDenseFailed", "removeBm25AfterFailure"}

\* Which steps a run of each mode takes, and which of them have no snapshot; no
\* recovery goes on where one has failed.
Phases ==
    /\ mode = "incremental" => HasSnapshot /\
         pc \in {"detect", "removeDense", "removeMetadata", "removeBm25", "chunk", "embed", "addBm25",
                 "addDense", "validate", "snapshot", "saveBm25", "saveDense", "resync", "recover"}
    /\ mode = "recovering" => pc \in {"preflight", "clearBm25", "clearDense"}
    /\ mode \in {"full", "recovery"} =>
         \/ pc \in {"release", "walk", "deleteSnapshot", "saveBm25", "saveDense", "resync"}
         \/ /\ pc \in {"preflight", "clearBm25", "clearDense", "chunk", "embed", "addBm25",
                       "addDense", "snapshot"}
            /\ ~HasSnapshot
    /\ pc \in {"saveBm25", "saveDense", "resync"} => HasSnapshot
    /\ mode \in {"recovering", "recovery"} => ~marker

\* What the snapshot lists is in metadata.db, on disk and in memory; the
\* vectors may be missing altogether if the snapshot is outdated.
Held(vectors) == Have(vectors, snap) \/ (vectors = {} /\ Outdated)

MetaHolds == HasSnapshot /\ ~Clearing => Have(meta, snap)
DiskHolds == HasSnapshot /\ ~Clearing /\ ~Saving => Held(denseDisk)
ServedHolds ==
    HasSnapshot /\ ~Clearing =>
        /\ pc \in {"idle", "detect", "removeDense", "release", "walk", "deleteSnapshot"} => Held(dense)
        /\ pc \in {"saveBm25", "saveDense", "resync"} => Have(dense, snap)

\* What an incremental run takes for changed has changed for good.
WalkedHolds ==
    mode = "incremental" /\ pc # "detect" =>
        \A f \in File : snap[f] \notin {0, dag[f]} => world[f] # snap[f]

\* It only removes chunks of files that changed.
RemovedHolds == pc = "removeMetadata" => \A c \in batch : c[1] \in ToRemove

\* The files of a batch that have not changed since are in the batch as the
\* tree has them; what the snapshot is about to list is there.
BatchHolds ==
    pc \in {"embed", "addBm25", "addDense"} =>
        \A f \in Target : dag[f] = world[f] /\ dag[f] # 0 => <<f, dag[f]>> \in batch
TreeHolds ==
    /\ pc = "validate" => Have(meta, dag)
    /\ pc = "snapshot" => Have(meta, dag) /\ Have(dense, dag)

Holdings ==
    /\ MetaHolds /\ DiskHolds /\ ServedHolds
    /\ WalkedHolds /\ RemovedHolds /\ BatchHolds /\ TreeHolds

\* A recovery that fails half-way leaves holes, and its marker.
Basis == TypeOK /\ VersionsMade /\ NoFailedRemoval /\ Phases
Intact == Basis /\ ~marker /\ Holdings
IInv == Basis /\ (~marker => Holdings)

-----------------------------------------------------------------------------
(* Types. *)

\* Chunks of a tree are chunks.
LEMMA ChunksOfType ==
    ASSUME NEW files \in Files, NEW fs, fs \subseteq File
    PROVE  ChunksOf(files, fs) \subseteq Chunks
  BY DEF ChunksOf, Chunks, Files, Version

\* The initial state is in range.
LEMMA InitTyped == Init => TypeOK
<1> SUFFICES ASSUME Init PROVE TypeOK
  OBVIOUS
<1>1. 0 \in Version /\ 1 \in Version /\ 0 \in 0..MaxFaults
  BY PipelineAssumption DEF Version
<1>2. world \in Files /\ dag \in Files
  BY <1>1 DEF Init, Files, Nothing
<1> QED
  BY <1>1, <1>2 DEF Init, TypeOK, PC, Mode, Outcome

\* So is what a run leaves that returns,
LEMMA FinishTyped ==
    ASSUME NEW result \in Outcome, Finish(result)
    PROVE  /\ pc' = "idle" /\ mode' = "none" /\ dag' \in Files /\ batch' = {}
           /\ outcome' \in Outcome /\ marker' \in BOOLEAN
<1>1. marker' = (marker /\ mode # "recovery")
  BY DEF Finish
<1>2. marker' \in BOOLEAN
  BY <1>1, Zenon
<1> QED
  BY <1>2, PipelineAssumption DEF Finish, Nothing, Files, Version

\* or that raises.
LEMMA RaiseTyped ==
    ASSUME TypeOK, pc # "idle", Raise
    PROVE  /\ pc' \in PC /\ mode' \in Mode /\ (pc' = "idle" <=> mode' = "none")
           /\ dag' \in Files /\ batch' \subseteq Chunks
           /\ outcome' \in Outcome /\ marker' \in BOOLEAN
           /\ dense' \subseteq Chunks /\ bm25' \subseteq Chunks
<1>1. CASE mode = "incremental"
  BY <1>1 DEF Raise, Goto, TypeOK, served, PC, Mode
<1>2. CASE mode # "incremental"
  <2>1. Finish("failed") /\ dense' = denseDisk /\ bm25' = bm25Disk
    BY <1>2 DEF Raise
  <2> QED
    BY <2>1, FinishTyped DEF TypeOK, PC, Mode, Outcome
<1> QED
  BY <1>1, <1>2

\* Whatever a step writes is in range.
LEMMA TypeInductive == TypeOK /\ [Next]_vars => TypeOK'
<1> SUFFICES ASSUME TypeOK, [Next]_vars PROVE TypeOK'
  OBVIOUS
<1>s. faults' \in 0..MaxFaults => settled' \in 0..MaxFaults
  BY DEF TypeOK, Next, Remember, vars
<1> USE <1>s, PipelineAssumption DEF TypeOK, Chunks, Fault, Goto, Nothing, Files, Version, PC,
Mode, Outcome,
        project, durable, served, run, Gone, Of, WipeDense
<1>1. CASE UNCHANGED vars
  BY <1>1 DEF vars
<1>2. ASSUME NEW f \in File, Edit(f) PROVE TypeOK'
  BY <1>2 DEF Edit
<1>3. CASE Crash
  BY <1>3 DEF Crash
<1>4. ASSUME NEW force \in BOOLEAN, Start(force) PROVE TypeOK'
  BY <1>4 DEF Start
<1>5. CASE DetectChanges
  BY <1>5 DEF DetectChanges
<1>6. CASE NoChanges
  BY <1>6, FinishTyped DEF NoChanges
<1>7. CASE RemoveDense
  BY <1>7 DEF RemoveDense
<1>8. CASE RemoveMetadata
  BY <1>8 DEF RemoveMetadata
<1>9. CASE RemoveAllDense
  BY <1>9 DEF RemoveAllDense
<1>10. CASE RebuildFails
  BY <1>10 DEF RebuildFails
<1>11. CASE RemoveMetadataFails
  BY <1>11 DEF RemoveMetadataFails
<1>12. CASE WipeAfterFailure
  BY <1>12 DEF WipeAfterFailure
<1>13. CASE WipeLocked
  BY <1>13 DEF WipeLocked
<1>14. CASE RemoveBm25
  BY <1>14 DEF RemoveBm25, AfterRemoval
<1>15. CASE RemoveBm25Fails
  BY <1>15 DEF RemoveBm25Fails, AfterRemoval
<1>16. CASE Validate
  BY <1>16 DEF Validate
<1>17. CASE Chunk
  <2>1. Target \subseteq File
    BY DEF Target, ToAdd, Changed
  <2>2. \A fs : fs \subseteq File => ChunksOf(world, fs) \subseteq Chunks
    BY ChunksOfType
  <2> QED
    BY <1>17, <2>1, <2>2 DEF Chunk
<1>18. CASE ChunkFails
  <2>1. Target \subseteq File
    BY DEF Target, ToAdd, Changed
  <2>2. \A fs : fs \subseteq File => ChunksOf(world, fs) \subseteq Chunks
    BY ChunksOfType
  <2> QED
    BY <1>18, <2>1, <2>2 DEF ChunkFails
<1>19. CASE Embed
  BY <1>19 DEF Embed
<1>20. CASE EmbedFails
  <2>1. CASE mode = "incremental"
    BY <1>20, <2>1, RaiseTyped DEF EmbedFails
  <2>2. CASE mode # "incremental"
    BY <1>20, <2>2, FinishTyped DEF EmbedFails
  <2> QED
    BY <2>1, <2>2
<1>21. CASE AddBm25
  BY <1>21 DEF AddBm25
<1>22. CASE AddDense
  BY <1>22 DEF AddDense
<1>23. CASE AddDenseFails
  BY <1>23, RaiseTyped DEF AddDenseFails
<1>24. CASE SaveSnapshot
  BY <1>24 DEF SaveSnapshot
<1>25. CASE SaveBm25
  BY <1>25 DEF SaveBm25
<1>26. CASE SaveDense
  BY <1>26 DEF SaveDense
<1>27. CASE SaveFails
  BY <1>27, RaiseTyped DEF SaveFails, Saving
<1>28. CASE Resync
  <2>1. Finish("inconsistent") \/ Finish("indexed")
    BY <1>28 DEF Resync
  <2>2. marker' \in BOOLEAN /\ pc' = "idle" /\ mode' = "none" /\ dag' \in Files /\ batch' = {} /\
  outcome' \in Outcome
    BY <2>1, FinishTyped
  <2> QED
    BY <1>28, <2>2 DEF Resync
<1>29. CASE Refuse
  BY <1>29, FinishTyped DEF Refuse
<1>30. CASE Recover
  BY <1>30 DEF Recover
<1>31. CASE Preflight
  BY <1>31 DEF Preflight
<1>32. CASE PreflightLocked
  <2>1. CASE mode = "recovering"
    BY <1>32, <2>1 DEF PreflightLocked, ClearRaises, ServedThen
  <2>2. CASE mode # "recovering"
    BY <1>32, <2>2, FinishTyped DEF PreflightLocked, ClearRaises, ServedThen
  <2> QED
    BY <2>1, <2>2
<1>39. CASE ClearHalts
  <2>1. denseDisk' \subseteq Chunks /\ bm25Disk' \subseteq Chunks
    BY <1>39 DEF ClearHalts
  <2>2. dense' \subseteq Chunks /\ bm25' \subseteq Chunks
    BY <1>39, <2>1 DEF ClearHalts, ServedThen
  <2>3. CASE mode = "recovering"
    BY <1>39, <2>1, <2>2, <2>3 DEF ClearHalts, ClearRaises
  <2>4. CASE mode # "recovering"
    BY <1>39, <2>1, <2>2, <2>4, FinishTyped DEF ClearHalts, ClearRaises
  <2> QED
    BY <2>3, <2>4
<1>33. CASE ClearBm25
  BY <1>33 DEF ClearBm25
<1>34. CASE ClearDense
  BY <1>34 DEF ClearDense
<1>35. CASE Release
  BY <1>35 DEF Release
<1>36. CASE Walk
  BY <1>36 DEF Walk
<1>37. CASE Abort
  BY <1>37, FinishTyped DEF Abort
<1>38. CASE DeleteSnapshot
  BY <1>38 DEF DeleteSnapshot
<1> QED
  BY <1>1, <1>2, <1>3, <1>4, <1>5, <1>6, <1>7, <1>8, <1>9, <1>10, <1>11, <1>12, <1>13, <1>14, <1>15,
     <1>16, <1>17, <1>18, <1>19, <1>20, <1>21, <1>22, <1>23, <1>24, <1>25, <1>26, <1>27, <1>28,
     <1>29, <1>30, <1>31, <1>32, <1>33, <1>34, <1>35, <1>36, <1>37, <1>38, <1>39 DEF Next, Step,
     Incremental, Shared, Recovery, Full

-----------------------------------------------------------------------------
(* Versions and phases. *)

\* A version that was made and is not a file's now will never be.
LEMMA EditIsFresh ==
    ASSUME TypeOK, NEW f \in File, Edit(f),
           NEW g \in File, NEW v \in Version, v # 0, v <= clock
    PROVE  world'[g] = v => world[g] = v
  BY DEF TypeOK, Files, Version, Edit

\* There is no snapshot yet.
LEMMA InitInductive == Init => IInv
<1> SUFFICES ASSUME Init PROVE IInv
  OBVIOUS
<1>1. TypeOK
  BY InitTyped
<1>2. ~HasSnapshot
  BY DEF Init, HasSnapshot
<1>3. VersionsMade
  BY <1>2 DEF Init, VersionsMade, Nothing
<1>4. NoFailedRemoval /\ Phases
  BY DEF Init, NoFailedRemoval, Phases
<1>5. Holdings
  BY <1>2 DEF Init, Holdings, MetaHolds, DiskHolds, ServedHolds, WalkedHolds, RemovedHolds,
     BatchHolds, TreeHolds
<1> QED
  BY <1>1, <1>3, <1>4, <1>5 DEF IInv, Basis

\* Only edits make versions.
LEMMA VersionsInductive == Basis /\ [Next]_vars => VersionsMade'
<1> SUFFICES ASSUME Basis, [Next]_vars PROVE VersionsMade'
  OBVIOUS
<1> USE DEF Basis, TypeOK, VersionsMade, HasSnapshot, Files, Version, project, durable, served, run,
   Goto, Fault
<1>1. CASE UNCHANGED vars
  BY <1>1 DEF vars
<1>2. ASSUME NEW f \in File, Edit(f) PROVE VersionsMade'
  BY <1>2 DEF Edit
<1>3. CASE Crash
  BY <1>3 DEF Crash, Nothing
<1>4. ASSUME NEW force \in BOOLEAN, Start(force) PROVE VersionsMade'
  BY <1>4 DEF Start
<1>5. CASE Incremental
  BY <1>5 DEF Incremental, DetectChanges, NoChanges, RemoveDense, RemoveMetadata, RemoveAllDense,
     RebuildFails, RemoveMetadataFails, WipeAfterFailure, WipeLocked, RemoveBm25, RemoveBm25Fails,
        Validate, Finish, Nothing
<1>6. CASE Shared
  BY <1>6 DEF Shared, Chunk, ChunkFails, Embed, EmbedFails, AddBm25, AddDense, AddDenseFails,
     SaveSnapshot, SaveBm25,
     SaveDense, SaveFails, Resync, Finish, Raise, Nothing
<1>7. CASE Recovery
  BY <1>7 DEF Recovery, Refuse, Recover, Preflight, PreflightLocked, ClearBm25, ClearDense,
     ClearHalts, ClearRaises, ServedThen, Finish,
     Raise, Nothing
<1>8. CASE Full
  BY <1>8 DEF Full, Release, Walk, Abort, DeleteSnapshot, Finish, Nothing
<1> QED
  BY <1>1, <1>2, <1>3, <1>4, <1>5, <1>6, <1>7, <1>8 DEF Next, Step

\* Runs take the steps of their mode.
LEMMA PhasesInductive == Faults \subseteq Tolerated /\ Basis /\ [Next]_vars => NoFailedRemoval' /\
Phases'
<1> SUFFICES ASSUME Faults \subseteq Tolerated, Basis, [Next]_vars PROVE NoFailedRemoval' /\ Phases'
  OBVIOUS
<1> USE NoSnapshotAssumption DEF Basis, TypeOK, NoFailedRemoval, Phases, HasSnapshot, project, durable,
    served, run, Goto, Fault, Tolerated
<1>1. CASE UNCHANGED vars
  BY <1>1 DEF vars
<1>2. ASSUME NEW f \in File, Edit(f) PROVE NoFailedRemoval' /\ Phases'
  BY <1>2 DEF Edit
<1>3. CASE Crash
  BY <1>3 DEF Crash
<1>4. ASSUME NEW force \in BOOLEAN, Start(force) PROVE NoFailedRemoval' /\ Phases'
  BY <1>4 DEF Start
<1>5. CASE Incremental
  BY <1>5 DEF Incremental, DetectChanges, NoChanges, RemoveDense, RemoveMetadata, RemoveAllDense,
     AfterRemoval,
     RebuildFails, RemoveMetadataFails, WipeAfterFailure, WipeLocked, RemoveBm25, RemoveBm25Fails,
        Validate, Finish
<1>6. CASE Shared
  BY <1>6 DEF Shared, Chunk, ChunkFails, Embed, EmbedFails, AddBm25, AddDense, AddDenseFails,
     SaveSnapshot, SaveBm25,
     SaveDense, SaveFails, Resync, Finish, Raise, Saving
<1>7. CASE Recovery
  BY <1>7 DEF Recovery, Refuse, Recover, Preflight, PreflightLocked, ClearBm25, ClearDense,
     ClearHalts, ClearRaises, ServedThen, Finish,
     Raise
<1>8. CASE Full
  BY <1>8 DEF Full, Release, Walk, Abort, DeleteSnapshot, Finish
<1> QED
  BY <1>1, <1>2, <1>3, <1>4, <1>5, <1>6, <1>7, <1>8 DEF Next, Step

-----------------------------------------------------------------------------
(* What is held where. *)

\* A marker stays.
LEMMA MarkerStays == Phases /\ marker /\ [Next]_vars => marker'
<1> SUFFICES ASSUME Phases, marker, [Next]_vars PROVE marker'
  OBVIOUS
<1> USE DEF Phases, Goto, Finish, Raise, run
<1>1. CASE UNCHANGED vars
  BY <1>1 DEF vars
<1>2. ASSUME NEW f \in File, Edit(f) PROVE marker'
  BY <1>2 DEF Edit
<1>3. CASE Crash
  BY <1>3 DEF Crash
<1>4. ASSUME NEW force \in BOOLEAN, Start(force) PROVE marker'
  BY <1>4 DEF Start
<1>5. CASE Incremental
  BY <1>5 DEF Incremental, DetectChanges, NoChanges, RemoveDense, RemoveMetadata, RemoveAllDense,
     RebuildFails, RemoveMetadataFails, WipeAfterFailure, WipeLocked, RemoveBm25, RemoveBm25Fails,
     Validate
<1>6. CASE Shared
  BY <1>6 DEF Shared, Chunk, ChunkFails, Embed, EmbedFails, AddBm25, AddDense, AddDenseFails,
     SaveSnapshot, SaveBm25, SaveDense, SaveFails, Resync
<1>7. CASE Recovery
  BY <1>7 DEF Recovery, Refuse, Recover, Preflight, PreflightLocked, ClearBm25, ClearDense,
     ClearHalts, ClearRaises
<1>8. CASE Full
  BY <1>8 DEF Full, Release, Walk, Abort, DeleteSnapshot
<1> QED
  BY <1>1, <1>2, <1>3, <1>4, <1>5, <1>6, <1>7, <1>8 DEF Next, Step

\* A file whose chunks a run removes will not be again what the snapshot says.
LEMMA RemovalIsForGood ==
    ASSUME Intact, mode = "incremental", pc # "detect", NEW f \in ToRemove
    PROVE  f \in File /\ snap[f] # 0 /\ world[f] # snap[f]
  BY DEF Intact, Basis, Phases, Holdings, WalkedHolds, HasSnapshot, ToRemove, Changed, Known

\* What metadata.db holds.
LEMMA MetaInductive == Faults \subseteq Tolerated /\ Intact /\ ~marker' /\ [Next]_vars => MetaHolds'
<1> SUFFICES ASSUME Faults \subseteq Tolerated, Intact, ~marker', [Next]_vars PROVE MetaHolds'
  OBVIOUS
<1>a. TypeOK /\ Phases /\ ~marker /\ NoFailedRemoval /\ MetaHolds
  BY DEF Intact, Basis, Holdings
<1> USE <1>a, NoSnapshotAssumption DEF TypeOK, Phases, NoFailedRemoval, HasSnapshot, Clearing,
   MetaHolds, Have
<1>1. ASSUME NEW f \in File, Edit(f) PROVE MetaHolds'
  <2>1. snap' = snap /\ meta' = meta /\ denseDisk' = denseDisk /\ dense' = dense /\ batch' = batch
        /\ dag' = dag /\ pc' = pc /\ mode' = mode
    BY <1>1 DEF Edit, durable, served, run
  <2>2. \A g \in File : HasSnapshot /\ snap[g] # 0 /\ world'[g] = snap[g] => world[g] = snap[g]
    BY <1>1, EditIsFresh DEF Intact, Basis, TypeOK, VersionsMade, Files, HasSnapshot
  <2> QED
    BY <2>1, <2>2
<1>2. CASE UNCHANGED vars
  BY <1>2 DEF vars, project, durable, served, run
<1>3. CASE Crash
  BY <1>3 DEF Crash, CrashKind, Saving, Fault, Tolerated, project, durable
<1>4. ASSUME NEW force \in BOOLEAN, Start(force) PROVE MetaHolds'
  BY <1>4 DEF Start, project, durable, served
<1>5. CASE Incremental
  <2>1. CASE RemoveMetadata
    <3>1. mode = "incremental"
      BY <2>1 DEF RemoveMetadata, Mode
    <3>2. \A g \in File : snap[g] = world[g] /\ snap[g] # 0 => <<g, snap[g]>> \notin batch
      BY <2>1, <3>1, RemovalIsForGood DEF RemoveMetadata, Intact, Basis, Holdings, RemovedHolds
    <3> QED
      BY <2>1, <3>1, <3>2 DEF RemoveMetadata, project, run
  <2>2. CASE RemoveAllDense
    <3>1. mode = "incremental"
      BY <2>2 DEF RemoveAllDense, Mode
    <3>2. Have(dense, snap)
      BY <2>2, <3>1 DEF RemoveAllDense, Intact, Basis, Holdings, ServedHolds, Held
    <3>3. \A g \in File : snap[g] = world[g] => snap[g] = 0
      BY <2>2, <3>1, <3>2, RemovalIsForGood DEF RemoveAllDense, Gone, Of
    <3> QED
      BY <2>2, <3>3 DEF RemoveAllDense, project
  <2>3. CASE DetectChanges \/ NoChanges \/ RemoveDense \/ RebuildFails \/ RemoveMetadataFails \/
     WipeAfterFailure \/ WipeLocked \/ RemoveBm25 \/ RemoveBm25Fails \/ Validate
    BY <2>3 DEF DetectChanges, NoChanges, RemoveDense, RebuildFails, RemoveMetadataFails,
       WipeAfterFailure, WipeLocked, RemoveBm25, RemoveBm25Fails, Validate, Goto, Finish, Raise,
       Fault, Tolerated, project, durable, served, run, AfterRemoval
  <2> QED
    BY <1>5, <2>1, <2>2, <2>3 DEF Incremental
<1>6. CASE Shared
  <2>1. CASE SaveSnapshot
    BY <2>1 DEF SaveSnapshot, Goto, Intact, Basis, Holdings, TreeHolds, project, durable
  <2>2. CASE Chunk \/ ChunkFails \/ Embed \/ EmbedFails \/ AddBm25 \/ AddDense \/ AddDenseFails \/
     SaveBm25 \/ SaveDense \/ SaveFails \/ Resync
    BY <2>2 DEF Chunk, ChunkFails, Embed, EmbedFails, AddBm25, AddDense, AddDenseFails, SaveBm25,
       SaveDense, SaveFails, Resync, Goto, Finish, Raise, Fault, Tolerated, project, durable,
       served, run, Saving
  <2> QED
    BY <1>6, <2>1, <2>2 DEF Shared
<1>7. CASE Recovery
  <2>1. CASE Preflight
    <3>1. Clearing' \/ ~HasSnapshot'
      BY <2>1 DEF Preflight, Goto, Mode
    <3> QED
      BY <3>1
  <2>2. CASE Refuse \/ Recover \/ PreflightLocked \/ ClearHalts \/ ClearBm25 \/ ClearDense
    BY <2>2 DEF Refuse, Recover, PreflightLocked, ClearBm25, ClearDense, ClearHalts, ClearRaises,
       ServedThen, Goto, Finish, Raise, Fault,
       Tolerated, project, durable, served, run
  <2> QED
    BY <1>7, <2>1, <2>2 DEF Recovery
<1>8. CASE Full
  <2>1. CASE Abort
    <3>1. \A g \in File : world[g] = 0 /\ world' = world
      BY <2>1 DEF Abort, NothingMatched, Nothing, project
    <3> QED
      BY <2>1, <3>1 DEF Abort
  <2>2. CASE Release \/ Walk \/ DeleteSnapshot
    BY <2>2 DEF Release, Walk, DeleteSnapshot, Goto, Finish, Raise, Fault, Tolerated, project,
       durable, served, run
  <2> QED
    BY <1>8, <2>1, <2>2 DEF Full
<1> QED
  BY <1>1, <1>2, <1>3, <1>4, <1>5, <1>6, <1>7, <1>8 DEF Next, Step

\* What the saved vectors hold.
LEMMA DiskInductive == Faults \subseteq Tolerated /\ Intact /\ ~marker' /\ [Next]_vars => DiskHolds'
<1> SUFFICES ASSUME Faults \subseteq Tolerated, Intact, ~marker', [Next]_vars PROVE DiskHolds'
  OBVIOUS
<1>a. TypeOK /\ Phases /\ ~marker /\ NoFailedRemoval /\ DiskHolds
  BY DEF Intact, Basis, Holdings
<1> USE <1>a, NoSnapshotAssumption DEF TypeOK, Phases, NoFailedRemoval, HasSnapshot, Clearing,
   DiskHolds, Held, Have, Outdated, Saving
<1>1. ASSUME NEW f \in File, Edit(f) PROVE DiskHolds'
  <2>1. snap' = snap /\ meta' = meta /\ denseDisk' = denseDisk /\ dense' = dense /\ batch' = batch
        /\ dag' = dag /\ pc' = pc /\ mode' = mode
    BY <1>1 DEF Edit, durable, served, run
  <2>2. \A g \in File : HasSnapshot /\ snap[g] # 0 /\ world'[g] = snap[g] => world[g] = snap[g]
    BY <1>1, EditIsFresh DEF Intact, Basis, TypeOK, VersionsMade, Files, HasSnapshot
  <2> QED
    BY <2>1, <2>2
<1>2. CASE UNCHANGED vars
  BY <1>2 DEF vars, project, durable, served, run
<1>3. CASE Crash
  BY <1>3 DEF Crash, CrashKind, Saving, Fault, Tolerated, project, durable
<1>4. ASSUME NEW force \in BOOLEAN, Start(force) PROVE DiskHolds'
  BY <1>4 DEF Start, project, durable, served
<1>5. CASE Incremental
  <2>1. CASE RemoveDense
    <3>1. mode = "incremental"
      BY <2>1 DEF RemoveDense, Mode
    <3>2. CASE Gone = {}
      BY <2>1, <3>1, <3>2 DEF RemoveDense, project
    <3>3. CASE Gone # {}
      <4>1. \E f \in File : snap[f] # 0 /\ world[f] # snap[f]
        BY <2>1, <3>1, <3>3, RemovalIsForGood DEF RemoveDense, Gone, Of, ToRemove, Changed
      <4> QED
        BY <2>1, <3>3, <4>1 DEF RemoveDense, project
    <3> QED
      BY <3>2, <3>3
  <2>2. CASE RemoveAllDense
    <3>1. mode = "incremental"
      BY <2>2 DEF RemoveAllDense, Mode
    <3>2. \E f \in File : snap[f] # 0 /\ world[f] # snap[f]
      BY <2>2, <3>1, RemovalIsForGood DEF RemoveAllDense, Gone, Of, ToRemove, Changed
    <3> QED
      BY <2>2, <3>2 DEF RemoveAllDense, WipeDense, project
  <2>3. CASE DetectChanges \/ NoChanges \/ RemoveMetadata \/ RebuildFails \/ RemoveMetadataFails \/
     WipeAfterFailure \/ WipeLocked \/ RemoveBm25 \/ RemoveBm25Fails \/ Validate
    BY <2>3 DEF DetectChanges, NoChanges, RemoveMetadata, RebuildFails, RemoveMetadataFails,
       WipeAfterFailure, WipeLocked, RemoveBm25, RemoveBm25Fails, Validate, Goto, Finish, Raise,
       Fault, Tolerated, project, durable, served, run, AfterRemoval
  <2> QED
    BY <1>5, <2>1, <2>2, <2>3 DEF Incremental
<1>6. CASE Shared
  <2>1. CASE SaveDense
    <3>1. Have(dense, snap)
      BY <2>1 DEF SaveDense, Intact, Basis, Holdings, ServedHolds
    <3> QED
      BY <2>1, <3>1 DEF SaveDense, project
  <2>2. CASE Chunk \/ ChunkFails \/ Embed \/ EmbedFails \/ AddBm25 \/ AddDense \/ AddDenseFails \/
     SaveSnapshot \/ SaveBm25 \/ SaveFails \/ Resync
    BY <2>2 DEF Chunk, ChunkFails, Embed, EmbedFails, AddBm25, AddDense, AddDenseFails,
       SaveSnapshot, SaveBm25, SaveFails, Resync, Goto, Finish, Raise, Fault, Tolerated, project,
       durable, served, run, Saving
  <2> QED
    BY <1>6, <2>1, <2>2 DEF Shared
<1>7. CASE Recovery
  <2>1. CASE ClearDense
    <3>1. Clearing' \/ ~HasSnapshot'
      BY <2>1 DEF ClearDense, Mode
    <3> QED
      BY <3>1
  <2>3. CASE ClearHalts
    <3>1. mode # "recovering"
      BY <2>3 DEF ClearHalts, ClearRaises
    <3>2. ~HasSnapshot'
      BY <2>3, <3>1 DEF ClearHalts, Mode
    <3> QED
      BY <3>2
  <2>2. CASE Refuse \/ Recover \/ Preflight \/ PreflightLocked \/ ClearBm25
    BY <2>2 DEF Refuse, Recover, Preflight, PreflightLocked, ClearBm25, ClearRaises, ServedThen, Goto,
       Finish, Raise, Fault, Tolerated, project, durable, served, run
  <2> QED
    BY <1>7, <2>1, <2>2, <2>3 DEF Recovery
<1>8. CASE Full
  <2>1. CASE Abort
    <3>1. \A g \in File : world[g] = 0 /\ world' = world
      BY <2>1 DEF Abort, NothingMatched, Nothing, project
    <3> QED
      BY <2>1, <3>1 DEF Abort
  <2>2. CASE Release \/ Walk \/ DeleteSnapshot
    BY <2>2 DEF Release, Walk, DeleteSnapshot, Goto, Finish, Raise, Fault, Tolerated, project,
       durable, served, run
  <2> QED
    BY <1>8, <2>1, <2>2 DEF Full
<1> QED
  BY <1>1, <1>2, <1>3, <1>4, <1>5, <1>6, <1>7, <1>8 DEF Next, Step

\* What the served vectors hold.
LEMMA ServedInductive == Faults \subseteq Tolerated /\ Intact /\ ~marker' /\ [Next]_vars => ServedHolds'
<1> SUFFICES ASSUME Faults \subseteq Tolerated, Intact, ~marker', [Next]_vars PROVE ServedHolds'
  OBVIOUS
<1>a. TypeOK /\ Phases /\ ~marker /\ NoFailedRemoval /\ ServedHolds /\ DiskHolds /\ TreeHolds
  BY DEF Intact, Basis, Holdings
<1> USE <1>a, NoSnapshotAssumption DEF TypeOK, Phases, NoFailedRemoval, HasSnapshot, Clearing,
   ServedHolds, DiskHolds, TreeHolds, Held, Have, Outdated, Saving
<1>1. ASSUME NEW f \in File, Edit(f) PROVE ServedHolds'
  <2>1. snap' = snap /\ meta' = meta /\ denseDisk' = denseDisk /\ dense' = dense /\ batch' = batch
        /\ dag' = dag /\ pc' = pc /\ mode' = mode
    BY <1>1 DEF Edit, durable, served, run
  <2>2. \A g \in File : HasSnapshot /\ snap[g] # 0 /\ world'[g] = snap[g] => world[g] = snap[g]
    BY <1>1, EditIsFresh DEF Intact, Basis, TypeOK, VersionsMade, Files, HasSnapshot
  <2> QED
    BY <2>1, <2>2
<1>2. CASE UNCHANGED vars
  BY <1>2 DEF vars, project, durable, served, run
<1>3. CASE Crash
  BY <1>3 DEF Crash, CrashKind, Saving, Fault, Tolerated, project, durable
<1>4. ASSUME NEW force \in BOOLEAN, Start(force) PROVE ServedHolds'
  BY <1>4 DEF Start, project, durable, served
<1>5. CASE Incremental
  BY <1>5 DEF Incremental, DetectChanges, NoChanges, RemoveDense, RemoveMetadata, RemoveAllDense,
     RebuildFails, RemoveMetadataFails, WipeAfterFailure, WipeLocked, RemoveBm25, RemoveBm25Fails,
     Validate, Goto, Finish, Raise, Fault, Tolerated, project, durable, served, run, AfterRemoval
<1>6. CASE Shared
  <2>1. CASE EmbedFails
    <3>1. CASE mode = "incremental"
      BY <2>1, <3>1 DEF EmbedFails, Raise, Goto
    <3>2. CASE mode # "incremental"
      BY <2>1, <3>2 DEF EmbedFails, Finish, Mode, project, durable
    <3> QED
      BY <3>1, <3>2
  <2>2. CASE Chunk \/ ChunkFails \/ Embed \/ AddBm25 \/ AddDense \/ AddDenseFails \/ SaveSnapshot \/
     SaveBm25 \/ SaveDense \/ SaveFails \/ Resync
    BY <2>2 DEF Chunk, ChunkFails, Embed, AddBm25, AddDense, AddDenseFails, SaveSnapshot, SaveBm25,
       SaveDense, SaveFails, Resync, Goto, Finish, Raise, Fault, Tolerated, project, durable,
       served, run, Saving
  <2> QED
    BY <1>6, <2>1, <2>2 DEF Shared
<1>7. CASE Recovery
  <2>1. CASE ClearHalts
    <3>1. mode # "recovering"
      BY <2>1 DEF ClearHalts, ClearRaises
    <3>2. ~HasSnapshot'
      BY <2>1, <3>1 DEF ClearHalts, Mode
    <3> QED
      BY <3>2
  <2>2. CASE Refuse \/ Recover \/ Preflight \/ PreflightLocked \/ ClearBm25 \/ ClearDense
    BY <2>2 DEF Refuse, Recover, Preflight, PreflightLocked, ClearBm25, ClearDense, ClearRaises,
       ServedThen, Goto, Finish, Raise, Fault, Tolerated, project, durable, served, run
  <2> QED
    BY <1>7, <2>1, <2>2 DEF Recovery
<1>8. CASE Full
  <2>1. CASE Abort
    <3>1. \A g \in File : world[g] = 0 /\ world' = world
      BY <2>1 DEF Abort, NothingMatched, Nothing, project
    <3> QED
      BY <2>1, <3>1 DEF Abort
  <2>2. CASE Release \/ Walk \/ DeleteSnapshot
    BY <2>2 DEF Release, Walk, DeleteSnapshot, Goto, Finish, Raise, Fault, Tolerated, project,
       durable, served, run
  <2> QED
    BY <1>8, <2>1, <2>2 DEF Full
<1> QED
  BY <1>1, <1>2, <1>3, <1>4, <1>5, <1>6, <1>7, <1>8 DEF Next, Step

\* What a run took for changed stays so.
LEMMA WalkedInductive == Faults \subseteq Tolerated /\ Intact /\ ~marker' /\ [Next]_vars => WalkedHolds'
<1> SUFFICES ASSUME Faults \subseteq Tolerated, Intact, ~marker', [Next]_vars PROVE WalkedHolds'
  OBVIOUS
<1>a. TypeOK /\ Phases /\ ~marker /\ NoFailedRemoval /\ WalkedHolds
  BY DEF Intact, Basis, Holdings
<1> USE <1>a, NoSnapshotAssumption DEF TypeOK, Phases, NoFailedRemoval, HasSnapshot, Clearing,
   WalkedHolds
<1>1. ASSUME NEW f \in File, Edit(f) PROVE WalkedHolds'
  <2>1. snap' = snap /\ meta' = meta /\ denseDisk' = denseDisk /\ dense' = dense /\ batch' = batch
        /\ dag' = dag /\ pc' = pc /\ mode' = mode
    BY <1>1 DEF Edit, durable, served, run
  <2>2. \A g \in File : HasSnapshot /\ snap[g] # 0 /\ world'[g] = snap[g] => world[g] = snap[g]
    BY <1>1, EditIsFresh DEF Intact, Basis, TypeOK, VersionsMade, Files, HasSnapshot
  <2> QED
    BY <2>1, <2>2
<1>2. CASE UNCHANGED vars
  BY <1>2 DEF vars, project, durable, served, run
<1>3. CASE Crash
  BY <1>3 DEF Crash, CrashKind, Saving, Fault, Tolerated, project, durable
<1>4. ASSUME NEW force \in BOOLEAN, Start(force) PROVE WalkedHolds'
  BY <1>4 DEF Start, project, durable, served
<1>5. CASE Incremental
  BY <1>5 DEF Incremental, DetectChanges, NoChanges, RemoveDense, RemoveMetadata, RemoveAllDense,
     RebuildFails, RemoveMetadataFails, WipeAfterFailure, WipeLocked, RemoveBm25, RemoveBm25Fails,
     Validate, Goto, Finish, Raise, Fault, Tolerated, project, durable, served, run, AfterRemoval
<1>6. CASE Shared
  BY <1>6 DEF Shared, Chunk, ChunkFails, Embed, EmbedFails, AddBm25, AddDense, AddDenseFails,
     SaveSnapshot, SaveBm25, SaveDense, SaveFails, Resync, Goto, Finish, Raise, Fault, Tolerated,
     project, durable, served, run, Saving
<1>7. CASE Recovery
  BY <1>7 DEF Recovery, Refuse, Recover, Preflight, PreflightLocked, ClearBm25, ClearDense,
     ClearHalts, ClearRaises, ServedThen, Goto,
     Finish, Raise, Fault, Tolerated, project, durable, served, run
<1>8. CASE Full
  BY <1>8 DEF Full, Release, Walk, Abort, DeleteSnapshot, Goto, Finish, Raise, Fault, Tolerated,
     project, durable, served, run
<1> QED
  BY <1>1, <1>2, <1>3, <1>4, <1>5, <1>6, <1>7, <1>8 DEF Next, Step

\* What a run removes is of changed files.
LEMMA RemovedInductive == Faults \subseteq Tolerated /\ Intact /\ ~marker' /\ [Next]_vars =>
RemovedHolds'
<1> SUFFICES ASSUME Faults \subseteq Tolerated, Intact, ~marker', [Next]_vars PROVE RemovedHolds'
  OBVIOUS
<1>a. TypeOK /\ Phases /\ ~marker /\ NoFailedRemoval /\ RemovedHolds
  BY DEF Intact, Basis, Holdings
<1> USE <1>a, NoSnapshotAssumption DEF TypeOK, Phases, NoFailedRemoval, HasSnapshot, Clearing,
   RemovedHolds, ToRemove, Changed, Known
<1>1. ASSUME NEW f \in File, Edit(f) PROVE RemovedHolds'
  <2>1. snap' = snap /\ meta' = meta /\ denseDisk' = denseDisk /\ dense' = dense /\ batch' = batch
        /\ dag' = dag /\ pc' = pc /\ mode' = mode
    BY <1>1 DEF Edit, durable, served, run
  <2> QED
    BY <2>1
<1>2. CASE UNCHANGED vars
  BY <1>2 DEF vars, project, durable, served, run
<1>3. CASE Crash
  BY <1>3 DEF Crash, CrashKind, Saving, Fault, Tolerated, project, durable
<1>4. ASSUME NEW force \in BOOLEAN, Start(force) PROVE RemovedHolds'
  BY <1>4 DEF Start, project, durable, served
<1>5. CASE Incremental
  <2>1. CASE RemoveDense
    <3>1. ToRemove' = ToRemove
      BY <2>1 DEF RemoveDense
    <3> QED
      BY <2>1, <3>1 DEF RemoveDense, Gone, Of
  <2>2. CASE DetectChanges \/ NoChanges \/ RemoveMetadata \/ RemoveAllDense \/ RebuildFails \/
     RemoveMetadataFails \/ WipeAfterFailure \/ WipeLocked \/ RemoveBm25 \/ RemoveBm25Fails \/
     Validate
    BY <2>2 DEF DetectChanges, NoChanges, RemoveMetadata, RemoveAllDense, RebuildFails,
       RemoveMetadataFails, WipeAfterFailure, WipeLocked, RemoveBm25, RemoveBm25Fails, Validate,
       Goto, Finish, Raise, Fault, Tolerated, project, durable, served, run, AfterRemoval
  <2> QED
    BY <1>5, <2>1, <2>2 DEF Incremental
<1>6. CASE Shared
  BY <1>6 DEF Shared, Chunk, ChunkFails, Embed, EmbedFails, AddBm25, AddDense, AddDenseFails,
     SaveSnapshot, SaveBm25, SaveDense, SaveFails, Resync, Goto, Finish, Raise, Fault, Tolerated,
     project, durable, served, run, Saving
<1>7. CASE Recovery
  BY <1>7 DEF Recovery, Refuse, Recover, Preflight, PreflightLocked, ClearBm25, ClearDense,
     ClearHalts, ClearRaises, ServedThen, Goto,
     Finish, Raise, Fault, Tolerated, project, durable, served, run
<1>8. CASE Full
  BY <1>8 DEF Full, Release, Walk, Abort, DeleteSnapshot, Goto, Finish, Raise, Fault, Tolerated,
     project, durable, served, run
<1> QED
  BY <1>1, <1>2, <1>3, <1>4, <1>5, <1>6, <1>7, <1>8 DEF Next, Step

\* What a run adds is up to date, or changed again.
LEMMA BatchInductive == Faults \subseteq Tolerated /\ Intact /\ ~marker' /\ [Next]_vars => BatchHolds'
<1> SUFFICES ASSUME Faults \subseteq Tolerated, Intact, ~marker', [Next]_vars PROVE BatchHolds'
  OBVIOUS
<1>a. TypeOK /\ Phases /\ ~marker /\ NoFailedRemoval /\ BatchHolds
  BY DEF Intact, Basis, Holdings
<1> USE <1>a, NoSnapshotAssumption DEF TypeOK, Phases, NoFailedRemoval, HasSnapshot, Clearing,
   BatchHolds, Target, ToAdd, Changed, Known
<1>1. ASSUME NEW f \in File, Edit(f) PROVE BatchHolds'
  <2>1. snap' = snap /\ meta' = meta /\ denseDisk' = denseDisk /\ dense' = dense /\ batch' = batch
        /\ dag' = dag /\ pc' = pc /\ mode' = mode
    BY <1>1 DEF Edit, durable, served, run
  <2>2. \A g \in File : dag[g] # 0 /\ world'[g] = dag[g] => world[g] = dag[g]
    BY <1>1, EditIsFresh DEF Intact, Basis, TypeOK, VersionsMade, Files
  <2> QED
    BY <2>1, <2>2
<1>2. CASE UNCHANGED vars
  BY <1>2 DEF vars, project, durable, served, run
<1>3. CASE Crash
  BY <1>3 DEF Crash, CrashKind, Saving, Fault, Tolerated, project, durable
<1>4. ASSUME NEW force \in BOOLEAN, Start(force) PROVE BatchHolds'
  BY <1>4 DEF Start, project, durable, served
<1>5. CASE Incremental
  BY <1>5 DEF Incremental, DetectChanges, NoChanges, RemoveDense, RemoveMetadata, RemoveAllDense,
     RebuildFails, RemoveMetadataFails, WipeAfterFailure, WipeLocked, RemoveBm25, RemoveBm25Fails,
     Validate, Goto, Finish, Raise, Fault, Tolerated, project, durable, served, run, AfterRemoval
<1>6. CASE Shared
  <2>1. CASE Chunk
    <3>1. Target' = Target /\ world' = world /\ dag' = dag
      BY <2>1 DEF Chunk, project
    <3>2. \A g \in Target : world[g] # 0 => <<g, world[g]>> \in batch'
      BY <2>1 DEF Chunk, ChunksOf
    <3> QED
      BY <3>1, <3>2
  <2>2. CASE ChunkFails \/ Embed \/ EmbedFails \/ AddBm25 \/ AddDense \/ AddDenseFails \/
     SaveSnapshot \/ SaveBm25 \/ SaveDense \/ SaveFails \/ Resync
    BY <2>2 DEF ChunkFails, Embed, EmbedFails, AddBm25, AddDense, AddDenseFails, SaveSnapshot,
       SaveBm25, SaveDense, SaveFails, Resync, Goto, Finish, Raise, Fault, Tolerated, project,
       durable, served, run, Saving
  <2> QED
    BY <1>6, <2>1, <2>2 DEF Shared
<1>7. CASE Recovery
  BY <1>7 DEF Recovery, Refuse, Recover, Preflight, PreflightLocked, ClearBm25, ClearDense,
     ClearHalts, ClearRaises, ServedThen, Goto,
     Finish, Raise, Fault, Tolerated, project, durable, served, run
<1>8. CASE Full
  BY <1>8 DEF Full, Release, Walk, Abort, DeleteSnapshot, Goto, Finish, Raise, Fault, Tolerated,
     project, durable, served, run
<1> QED
  BY <1>1, <1>2, <1>3, <1>4, <1>5, <1>6, <1>7, <1>8 DEF Next, Step

\* What the next snapshot will list is there.
LEMMA TreeInductive == Faults \subseteq Tolerated /\ Intact /\ ~marker' /\ [Next]_vars => TreeHolds'
<1> SUFFICES ASSUME Faults \subseteq Tolerated, Intact, ~marker', [Next]_vars PROVE TreeHolds'
  OBVIOUS
<1>a. TypeOK /\ Phases /\ ~marker /\ NoFailedRemoval /\ TreeHolds
  BY DEF Intact, Basis, Holdings
<1> USE <1>a, NoSnapshotAssumption DEF TypeOK, Phases, NoFailedRemoval, HasSnapshot, Clearing,
   TreeHolds, Have
<1>1. ASSUME NEW f \in File, Edit(f) PROVE TreeHolds'
  <2>1. snap' = snap /\ meta' = meta /\ denseDisk' = denseDisk /\ dense' = dense /\ batch' = batch
        /\ dag' = dag /\ pc' = pc /\ mode' = mode
    BY <1>1 DEF Edit, durable, served, run
  <2>2. \A g \in File : dag[g] # 0 /\ world'[g] = dag[g] => world[g] = dag[g]
    BY <1>1, EditIsFresh DEF Intact, Basis, TypeOK, VersionsMade, Files
  <2> QED
    BY <2>1, <2>2
<1>2. CASE UNCHANGED vars
  BY <1>2 DEF vars, project, durable, served, run
<1>3. CASE Crash
  BY <1>3 DEF Crash, CrashKind, Saving, Fault, Tolerated, project, durable
<1>4. ASSUME NEW force \in BOOLEAN, Start(force) PROVE TreeHolds'
  BY <1>4 DEF Start, project, durable, served
<1>5. CASE Incremental
  <2>1. CASE Validate
    BY <2>1 DEF Validate, Goto, Consistent, project, durable, served
  <2>2. CASE DetectChanges \/ NoChanges \/ RemoveDense \/ RemoveMetadata \/ RemoveAllDense \/
     RebuildFails \/ RemoveMetadataFails \/ WipeAfterFailure \/ WipeLocked \/ RemoveBm25 \/
     RemoveBm25Fails
    BY <2>2 DEF DetectChanges, NoChanges, RemoveDense, RemoveMetadata, RemoveAllDense, RebuildFails,
       RemoveMetadataFails, WipeAfterFailure, WipeLocked, RemoveBm25, RemoveBm25Fails, Goto, Finish,
       Raise, Fault, Tolerated, project, durable, served, run, AfterRemoval
  <2> QED
    BY <1>5, <2>1, <2>2 DEF Incremental
<1>6. CASE Shared
  <2>1. CASE AddDense
    <3>1. \A g \in Target : dag[g] = world[g] /\ dag[g] # 0 => <<g, dag[g]>> \in batch
      BY <2>1 DEF AddDense, Intact, Basis, Holdings, BatchHolds
    <3>2. CASE mode = "incremental"
      <4>1. \A g \in File \ Target : dag[g] # 0 => snap[g] = dag[g]
        BY <3>2 DEF Target, ToAdd, Changed, Known
      <4> QED
        BY <2>1, <3>1, <3>2, <4>1 DEF AddDense, Goto, Intact, Basis, Holdings, MetaHolds, project
    <3>3. CASE mode # "incremental"
      BY <2>1, <3>1, <3>3 DEF AddDense, Goto, Target, project
    <3> QED
      BY <3>2, <3>3
  <2>2. CASE Chunk \/ ChunkFails \/ Embed \/ EmbedFails \/ AddBm25 \/ AddDenseFails \/ SaveSnapshot
     \/ SaveBm25 \/ SaveDense \/ SaveFails \/ Resync
    BY <2>2 DEF Chunk, ChunkFails, Embed, EmbedFails, AddBm25, AddDenseFails, SaveSnapshot,
       SaveBm25, SaveDense, SaveFails, Resync, Goto, Finish, Raise, Fault, Tolerated, project,
       durable, served, run, Saving
  <2> QED
    BY <1>6, <2>1, <2>2 DEF Shared
<1>7. CASE Recovery
  BY <1>7 DEF Recovery, Refuse, Recover, Preflight, PreflightLocked, ClearBm25, ClearDense,
     ClearHalts, ClearRaises, ServedThen, Goto,
     Finish, Raise, Fault, Tolerated, project, durable, served, run
<1>8. CASE Full
  BY <1>8 DEF Full, Release, Walk, Abort, DeleteSnapshot, Goto, Finish, Raise, Fault, Tolerated,
     project, durable, served, run
<1> QED
  BY <1>1, <1>2, <1>3, <1>4, <1>5, <1>6, <1>7, <1>8 DEF Next, Step

-----------------------------------------------------------------------------
(* What a successful run leaves behind, whatever the faults. *)

\* Nothing is on disk that is not served, unless all of it is yet to be read.
\* From its validation on, an incremental run serves what metadata.db lists;
\* what was saved is what is served.
SavedIsServed ==
    /\ dense = {} => denseDisk = {}
    /\ mode = "incremental" /\ pc \in {"snapshot", "saveBm25", "saveDense", "resync"} => dense = meta
    /\ pc \in {"saveDense", "resync"} => bm25 = bm25Disk
    /\ pc = "resync" => dense = denseDisk

SInv == TypeOK /\ SavedIsServed /\ SuccessIsConsistent

\* There are finitely many chunks.
LEMMA CountIsNat ==
    ASSUME NEW chunks, chunks \subseteq Chunks
    PROVE  Count(chunks) \in Nat
<1>1. IsFiniteSet(Version)
  BY PipelineAssumption, FS_Interval DEF Version
<1>2. IsFiniteSet(Chunks)
  BY <1>1, PipelineAssumption, FS_Product, FS_Subset DEF Chunks
<1> QED
  BY <1>2, FS_Subset, FS_CardinalityType DEF Count

\* Every step belongs to a run.
LEMMA IdleTakesNoStep == Step => pc # "idle"
  BY DEF Step, Incremental, Shared, Recovery, Full, DetectChanges, NoChanges, RemoveDense,
     RemoveMetadata,
     RemoveAllDense, RebuildFails, RemoveMetadataFails, WipeAfterFailure, WipeLocked, RemoveBm25,
     RemoveBm25Fails, AfterRemoval, Validate, Chunk, ChunkFails, Embed, EmbedFails, AddBm25, AddDense,
     AddDenseFails, SaveSnapshot, SaveBm25, SaveDense, SaveFails, Saving, Resync, Refuse, Recover,
        Preflight,
     PreflightLocked, ClearBm25, ClearDense, ClearHalts, ClearRaises, ServedThen, Release, Walk,
     Abort, DeleteSnapshot

\* No step saves what is not served, or serves what it has not validated.
LEMMA SavedInductive == "clear" \notin Faults /\ SInv /\ [Next]_vars => SavedIsServed'
<1> SUFFICES ASSUME "clear" \notin Faults, SInv, [Next]_vars PROVE SavedIsServed'
  OBVIOUS
<1> USE DEF SInv, TypeOK, SavedIsServed, Mode, Goto, Finish, Raise, Fault, project, durable, served, run
<1>1. ASSUME NEW f \in File, Edit(f) PROVE SavedIsServed'
  BY <1>1 DEF Edit
<1>2. CASE UNCHANGED vars
  BY <1>2 DEF vars
<1>3. CASE Crash
  BY <1>3 DEF Crash
<1>4. ASSUME NEW force \in BOOLEAN, Start(force) PROVE SavedIsServed'
  BY <1>4 DEF Start
<1>5. CASE Incremental
  BY <1>5 DEF Incremental, DetectChanges, NoChanges, RemoveDense, RemoveMetadata, RemoveAllDense,
     WipeDense,
     RebuildFails, RemoveMetadataFails, WipeAfterFailure, WipeLocked, RemoveBm25, RemoveBm25Fails,
     AfterRemoval, Validate, Consistent
<1>6. CASE Shared
  BY <1>6 DEF Shared, Chunk, ChunkFails, Embed, EmbedFails, AddBm25, AddDense, AddDenseFails,
     SaveSnapshot,
     SaveBm25, SaveDense, SaveFails, Saving, Resync
<1>7. CASE Recovery
  BY <1>7 DEF Recovery, Refuse, Recover, Preflight, PreflightLocked, ClearBm25, ClearDense,
     ClearHalts, ClearRaises, ServedThen
<1>8. CASE Full
  BY <1>8 DEF Full, Release, Walk, Abort, DeleteSnapshot
<1> QED
  BY <1>1, <1>2, <1>3, <1>4, <1>5, <1>6, <1>7, <1>8 DEF Next, Step

\* Only Resync reports success.
LEMMA SuccessInductive == SInv /\ [Next]_vars => SuccessIsConsistent'
<1> SUFFICES ASSUME SInv, [Next]_vars, pc' = "idle", outcome' = "indexed"
             PROVE  /\ dense' = meta' /\ dense' = denseDisk' /\ bm25' = bm25Disk'
                    /\ dense' # {} => 10 * Apart(Count(bm25'), Count(dense')) <= Count(dense')
  BY DEF SuccessIsConsistent, Apart, Count
<1>1. CASE Resync
  <2>1. dense' = dense /\ meta' = meta /\ denseDisk' = denseDisk
    BY <1>1 DEF Resync
  <2>2. dense = meta /\ dense = denseDisk
    BY <1>1 DEF Resync, Finish, Consistent, SInv, SavedIsServed
  <2>3. Count(dense) \in Nat /\ Count(bm25) \in Nat
    BY CountIsNat DEF SInv, TypeOK
  <2>4. CASE Desynced
    <3>1. bm25' = dense /\ bm25Disk' = dense
      BY <1>1, <2>2, <2>4 DEF Resync
    <3> QED
      BY <2>1, <2>2, <2>3, <3>1 DEF Apart
  <2>5. CASE ~Desynced
    <3>1. bm25' = bm25 /\ bm25Disk' = bm25
      BY <1>1, <2>5 DEF Resync, SInv, SavedIsServed
    <3>2. dense # {} => 10 * Apart(Count(bm25), Count(dense)) <= Count(dense)
      BY <2>3, <2>5 DEF Desynced, Apart
    <3> QED
      BY <2>1, <2>2, <3>1, <3>2
  <2> QED
    BY <2>4, <2>5
<1>2. CASE ~Resync
  <2> USE DEF SInv, TypeOK, Goto, Finish, Raise, Fault, project, durable, served, run
  <2>1. pc = "idle" /\ outcome = "indexed"
    <3>1. ASSUME NEW f \in File, Edit(f) PROVE pc = "idle" /\ outcome = "indexed"
      BY <3>1 DEF Edit
    <3>2. CASE UNCHANGED vars
      BY <3>2 DEF vars
    <3>3. CASE Crash
      BY <3>3 DEF Crash
    <3>4. ASSUME NEW force \in BOOLEAN, Start(force) PROVE FALSE
      BY <3>4 DEF Start
    <3>5. ~Incremental
      BY DEF Incremental, DetectChanges, NoChanges, RemoveDense, RemoveMetadata, RemoveAllDense,
         RebuildFails,
         RemoveMetadataFails, WipeAfterFailure, WipeLocked, RemoveBm25, RemoveBm25Fails,
            AfterRemoval, Validate
    <3>6. ~Shared
      BY <1>2 DEF Shared, Chunk, ChunkFails, Embed, EmbedFails, AddBm25, AddDense, AddDenseFails,
         SaveSnapshot,
         SaveBm25, SaveDense, SaveFails, Saving
    <3>7. ~Recovery
      BY DEF Recovery, Refuse, Recover, Preflight, PreflightLocked, ClearBm25, ClearDense,
         ClearHalts, ClearRaises, ServedThen
    <3>8. ~Full
      BY DEF Full, Release, Walk, Abort, DeleteSnapshot
    <3> QED
      BY <3>1, <3>2, <3>3, <3>4, <3>5, <3>6, <3>7, <3>8 DEF Next, Step
  <2>2. /\ dense' = denseDisk /\ denseDisk' = denseDisk /\ meta' = meta
        /\ bm25' = bm25Disk /\ bm25Disk' = bm25Disk
    <3>1. dense = denseDisk /\ bm25 = bm25Disk
      BY <2>1 DEF SuccessIsConsistent
    <3>2. \/ \E f \in File : Edit(f)
          \/ Crash
          \/ UNCHANGED vars
      BY <2>1, IdleTakesNoStep DEF Next, Start
    <3> QED
      BY <3>1, <3>2 DEF Edit, Crash, vars
  <2> QED
    BY <2>1, <2>2 DEF SuccessIsConsistent
<1> QED
  BY <1>1, <1>2

-----------------------------------------------------------------------------
(* Theorems. *)

\* Types, whatever the faults.
THEOREM TypeCorrect == Spec => []TypeOK
<1>1. TypeOK /\ [Next]_vars => TypeOK'
  BY TypeInductive
<1> QED
  BY InitTyped, <1>1, PTL DEF Spec

\* A run that reports success has left the stores in agreement and saved what
\* it serves, whatever failed before or died: SuccessIsConsistent holds for any
\* faults but a clear that stops half-way.
THEOREM SuccessConsistent == ASSUME "clear" \notin Faults PROVE Spec => []SuccessIsConsistent
<1>1. Init => SInv
  BY InitTyped DEF Init, SInv, SavedIsServed, SuccessIsConsistent
<1>2. SInv /\ [Next]_vars => SInv'
  BY TypeInductive, SavedInductive, SuccessInductive DEF SInv
<1>3. SInv => SuccessIsConsistent
  BY DEF SInv
<1> QED
  BY <1>1, <1>2, <1>3, PTL DEF Spec

\* All of it together.
LEMMA InvariantInductive == Faults \subseteq Tolerated /\ IInv /\ [Next]_vars => IInv'
<1> SUFFICES ASSUME Faults \subseteq Tolerated, IInv, [Next]_vars PROVE IInv'
  OBVIOUS
<1>1. Basis'
  BY TypeInductive, VersionsInductive, PhasesInductive DEF IInv, Basis
<1>2. ASSUME ~marker' PROVE Holdings'
  <2>1. Intact
    BY <1>2, MarkerStays DEF IInv, Intact, Basis
  <2> QED
    BY <1>2, <2>1, MetaInductive, DiskInductive, ServedInductive, WalkedInductive, RemovedInductive,
       BatchInductive, TreeInductive DEF Holdings
<1> QED
  BY <1>1, <1>2 DEF IInv

\* The invariant, under the faults it tolerates.
LEMMA InvariantHolds == ASSUME Faults \subseteq Tolerated PROVE Spec => []IInv
<1>1. IInv /\ [Next]_vars => IInv'
  BY InvariantInductive
<1> QED
  BY InitInductive, <1>1, PTL DEF Spec

\* Steps that fail and a process that dies lose nothing: when the project is as
\* the snapshot lists it, so that the next run will do nothing, every file is in
\* metadata.db and in the vectors that are served.
THEOREM NothingIsLost == ASSUME Faults \subseteq Tolerated PROVE Spec => []NothingLost
<1>1. IInv => NothingLost
  <2> SUFFICES ASSUME Intact, pc = "idle", snap = world
               PROVE  Present \subseteq dense \cap meta
    BY DEF NothingLost, IInv, Intact
  <2>1. HasSnapshot /\ ~Clearing
    BY NoSnapshotAssumption DEF Intact, Basis, TypeOK, HasSnapshot, Clearing
  <2>2. Have(meta, snap)
    BY <2>1 DEF Intact, Basis, Holdings, MetaHolds
  <2>3. Have(dense, snap)
    BY <2>1 DEF Intact, Basis, Holdings, ServedHolds, Held, Outdated
  <2> QED
    BY <2>2, <2>3 DEF Have, Present, ChunksOf
<1> QED
  BY <1>1, InvariantHolds, PTL

\* Under the same faults no snapshot advances over chunks that were removed and
\* not embedded again.
THEOREM NoSilentSnapshot == ASSUME Faults \subseteq Tolerated PROVE Spec => NoSilentAdvance
<1> DEFINE Kept == ChunksOf(snap', {f \in File : snap'[f] = world[f]})
           NoAdvance == snap' # snap /\ snap' # NoSnapshot /\ ~marker => Kept \subseteq dense'
<1>1. IInv /\ [Next]_vars => [NoAdvance]_vars
  <2> SUFFICES ASSUME Intact, [Next]_vars, snap' # snap, snap' # NoSnapshot
               PROVE  Kept \subseteq dense'
    BY DEF IInv, Intact
  <2>1. SaveSnapshot
    <3> USE DEF project, durable, served, run, Goto
    <3>1. ~(\E f \in File : Edit(f)) /\ ~Crash /\ ~(\E force \in BOOLEAN : Start(force)) /\
    ~UNCHANGED vars
      BY DEF Edit, Crash, Start, vars
    <3>2. Step => SaveSnapshot
      BY DEF Step, Incremental, Shared, Recovery, Full, DetectChanges, NoChanges, RemoveDense,
         RemoveMetadata,
         RemoveAllDense, RebuildFails, RemoveMetadataFails, WipeAfterFailure, WipeLocked, RemoveBm25,
         RemoveBm25Fails, AfterRemoval, Validate, Chunk, ChunkFails, Embed, EmbedFails, AddBm25,
            AddDense,
         AddDenseFails, SaveSnapshot, SaveBm25, SaveDense, SaveFails, Saving, Resync, Refuse,
            Recover, Preflight,
         PreflightLocked, ClearBm25, ClearDense, ClearHalts, ClearRaises, ServedThen, Release,
         Walk, Abort, DeleteSnapshot
    <3> QED
      BY <3>1, <3>2 DEF Next
  <2>2. Have(dense, dag) /\ snap' = dag /\ dense' = dense
    BY <2>1 DEF SaveSnapshot, Intact, Holdings, TreeHolds, served
  <2> QED
    BY <2>2 DEF Have, ChunksOf
<1> QED
  BY <1>1, InvariantHolds, PTL DEF Spec, NoSilentAdvance

-----------------------------------------------------------------------------
(* How often an index is cleared. *)

\* What a clear set aside is empty, and of an index that has no snapshot or is
\* being recovered.
SetAside ==
    /\ stranded => /\ meta = {}
                   /\ \/ mode = "recovering"
                      \/ ~HasSnapshot /\ pc \in {"idle", "release", "walk", "deleteSnapshot",
                                                 "preflight", "clearBm25", "clearDense"}
    /\ pc \in {"clearBm25", "clearDense"} => stranded

\* What a full run builds agrees, from the clear to the save.
AllEmpty == dense = {} /\ meta = {} /\ denseDisk = {}
AllAgree == dense = meta /\ denseDisk = meta
Rebuilt ==
    /\ mode = "recovery" /\ pc \in {"release", "walk", "deleteSnapshot"} => AllEmpty
    /\ mode \in {"full", "recovery"} =>
         /\ pc \in {"chunk", "embed", "addBm25", "addDense"} => AllEmpty
         /\ pc \in {"snapshot", "saveBm25", "saveDense"} => dense = meta /\ denseDisk = {}
         /\ pc = "resync" => AllAgree

\* As long as nothing fails after it, so does what later runs make of it, and
\* no run gives up.
Unhurt ==
    faults = settled /\ HasSnapshot =>
        /\ pc \in {"idle", "detect", "removeDense"} => AllAgree
        /\ mode = "full" /\ pc \in {"release", "walk", "deleteSnapshot"} => AllAgree
        /\ pc = "removeMetadata" => dense = meta \ batch /\ batch \subseteq meta /\ denseDisk = {}
        /\ mode = "incremental" =>
             /\ pc \in {"removeBm25", "chunk", "embed", "addBm25", "addDense", "validate", "snapshot",
                        "saveBm25", "saveDense"} => dense = meta /\ denseDisk \subseteq dense
             /\ pc = "resync" => AllAgree
             /\ pc # "recover"

Agrees == SetAside /\ Rebuilt /\ Unhurt
RInv == Basis /\ settled <= faults /\ (~marker => Agrees)

\* A clear that does not end leaves the marker, or no snapshot.
LEMMA SetAsideInductive ==
    ASSUME Faults \subseteq Tolerated, Basis, ~marker, ~marker', SetAside, [Next]_vars
    PROVE  SetAside'
<1> USE NoSnapshotAssumption DEF TypeOK, Basis, Phases, NoFailedRemoval, HasSnapshot, Mode,
        project, durable, served, run, Goto, Finish, Raise, Fault, Tolerated, SetAside
<1>1. CASE UNCHANGED vars
  BY <1>1 DEF vars
<1>2. ASSUME NEW f \in File, Edit(f) PROVE SetAside'
  BY <1>2 DEF Edit
<1>3. CASE Crash
  BY <1>3 DEF Crash, CrashKind, Saving
<1>4. ASSUME NEW force \in BOOLEAN, Start(force) PROVE SetAside'
  BY <1>4 DEF Start
<1>5. CASE Incremental
  BY <1>5 DEF Incremental, DetectChanges, NoChanges, RemoveDense, RemoveMetadata, RemoveAllDense,
     WipeDense,
     RebuildFails, RemoveMetadataFails, WipeAfterFailure, WipeLocked, RemoveBm25, RemoveBm25Fails,
     AfterRemoval, Validate, Consistent
<1>6. CASE Shared
  BY <1>6 DEF Shared, Chunk, ChunkFails, Embed, EmbedFails, AddBm25, AddDense, AddDenseFails,
     SaveSnapshot, SaveBm25, SaveDense, SaveFails, Saving, Resync, Consistent
<1>7. CASE Recovery
  BY <1>7 DEF Recovery, Refuse, Recover, Preflight, PreflightLocked, ClearBm25, ClearDense,
     ClearHalts, ClearRaises, ServedThen
<1>8. CASE Full
  BY <1>8 DEF Full, Release, Walk, Abort, DeleteSnapshot
<1> QED
  BY <1>1, <1>2, <1>3, <1>4, <1>5, <1>6, <1>7, <1>8 DEF Next, Step

\* A full run starts from nothing.
LEMMA RebuiltInductive ==
    ASSUME Faults \subseteq Tolerated, Basis, ~marker, ~marker', SetAside, Rebuilt, 
           [Next]_vars
    PROVE  Rebuilt'
<1> USE NoSnapshotAssumption DEF TypeOK, Basis, Phases, NoFailedRemoval, HasSnapshot, Mode,
        project, durable, served, run, Goto, Finish, Raise, Fault, Tolerated, SetAside,
        Rebuilt, AllEmpty, AllAgree
<1>1. CASE UNCHANGED vars
  BY <1>1 DEF vars
<1>2. ASSUME NEW f \in File, Edit(f) PROVE Rebuilt'
  BY <1>2 DEF Edit
<1>3. CASE Crash
  BY <1>3 DEF Crash, CrashKind, Saving
<1>4. ASSUME NEW force \in BOOLEAN, Start(force) PROVE Rebuilt'
  BY <1>4 DEF Start
<1>5. CASE Incremental
  BY <1>5 DEF Incremental, DetectChanges, NoChanges, RemoveDense, RemoveMetadata, RemoveAllDense,
     WipeDense,
     RebuildFails, RemoveMetadataFails, WipeAfterFailure, WipeLocked, RemoveBm25, RemoveBm25Fails,
     AfterRemoval, Validate, Consistent
<1>6. CASE Shared
  BY <1>6 DEF Shared, Chunk, ChunkFails, Embed, EmbedFails, AddBm25, AddDense, AddDenseFails,
     SaveSnapshot, SaveBm25, SaveDense, SaveFails, Saving, Resync, Consistent
<1>7. CASE Recovery
  BY <1>7 DEF Recovery, Refuse, Recover, Preflight, PreflightLocked, ClearBm25, ClearDense,
     ClearHalts, ClearRaises, ServedThen
<1>8. CASE Full
  BY <1>8 DEF Full, Release, Walk, Abort, DeleteSnapshot
<1> QED
  BY <1>1, <1>2, <1>3, <1>4, <1>5, <1>6, <1>7, <1>8 DEF Next, Step

\* What was built is not torn apart without a fault.
LEMMA UnhurtInductive ==
    ASSUME Faults \subseteq Tolerated, Basis, ~marker, ~marker', settled <= faults, Agrees, [Next]_vars
    PROVE  Unhurt'
<1> SUFFICES ASSUME faults' = settled', HasSnapshot' PROVE Unhurt'
  BY DEF Unhurt
<1> USE NoSnapshotAssumption, PipelineAssumption DEF TypeOK, Basis, Phases, NoFailedRemoval,
HasSnapshot, Mode,
        project, durable, served, run, Goto, Finish, Raise, Fault, Tolerated, Agrees, SetAside,
        Rebuilt, AllEmpty, AllAgree, Unhurt
<1>1. CASE settled' = settled
  <2>1. ~Crash
    BY <1>1 DEF Crash
  <2>2. CASE UNCHANGED vars
    BY <2>2 DEF vars
  <2>3. ASSUME NEW f \in File, Edit(f) PROVE Unhurt'
    BY <1>1, <2>3 DEF Edit
  <2>4. ASSUME NEW force \in BOOLEAN, Start(force) PROVE Unhurt'
    BY <1>1, <2>4 DEF Start
  <2>5. CASE Incremental
    <3>1. CASE RemoveDense
      <4>1. mode = "incremental" /\ AllAgree
        BY <1>1, <3>1 DEF RemoveDense
      <4>2. Gone \subseteq meta /\ (Gone = {} => dense' = dense)
        BY <3>1, <4>1 DEF RemoveDense, Gone, Of
      <4> HIDE DEF Gone
      <4> QED
        BY <1>1, <3>1, <4>1, <4>2 DEF RemoveDense
    <3>2. CASE RemoveMetadata
      BY <1>1, <3>2 DEF RemoveMetadata
    <3>3. CASE RemoveAllDense
      BY <1>1, <3>3 DEF RemoveAllDense, WipeDense
    <3>4. CASE DetectChanges \/ NoChanges \/ RebuildFails \/ RemoveMetadataFails \/ WipeAfterFailure
       \/ WipeLocked \/ RemoveBm25 \/ RemoveBm25Fails \/ Validate
      BY <1>1, <3>4 DEF DetectChanges, NoChanges, RebuildFails, RemoveMetadataFails,
         WipeAfterFailure, WipeLocked, RemoveBm25, RemoveBm25Fails, AfterRemoval, Validate, Consistent
    <3> QED
      BY <2>5, <3>1, <3>2, <3>3, <3>4 DEF Incremental
  <2>6. CASE Shared
    BY <1>1, <2>6 DEF Shared, Chunk, ChunkFails, Embed, EmbedFails, AddBm25, AddDense, AddDenseFails,
     SaveSnapshot, SaveBm25, SaveDense, SaveFails, Saving, Resync, Consistent
  <2>7. CASE Recovery
    BY <1>1, <2>7 DEF Recovery, Refuse, Recover, Preflight, PreflightLocked, ClearBm25, ClearDense,
     ClearHalts, ClearRaises, ServedThen
  <2>8. CASE Full
    BY <1>1, <2>8 DEF Full, Release, Walk, Abort, DeleteSnapshot
  <2> QED
    BY <2>1, <2>2, <2>3, <2>4, <2>5, <2>6, <2>7, <2>8 DEF Next, Step
<1>2. CASE mode \in {"recovering", "recovery"} /\ pc' = "idle"
  <2>1. CASE UNCHANGED vars
    BY <1>2, <2>1 DEF vars
  <2>2. ~(\E f \in File : Edit(f)) /\ ~(\E force \in BOOLEAN : Start(force))
    BY <1>2 DEF Edit, Start
  <2>3. ~Crash
    BY <1>2 DEF Crash, CrashKind, Saving
  <2>5. ~Incremental
    BY <1>2 DEF Incremental, DetectChanges, NoChanges, RemoveDense, RemoveMetadata, RemoveAllDense,
       WipeDense,
     RebuildFails, RemoveMetadataFails, WipeAfterFailure, WipeLocked, RemoveBm25, RemoveBm25Fails,
     AfterRemoval, Validate, Consistent
  <2>6. CASE Shared
    BY <1>2, <2>6 DEF Shared, Chunk, ChunkFails, Embed, EmbedFails, AddBm25, AddDense, AddDenseFails,
     SaveSnapshot, SaveBm25, SaveDense, SaveFails, Saving, Resync, Consistent
  <2>7. CASE Recovery
    BY <1>2, <2>7 DEF Recovery, Refuse, Recover, Preflight, PreflightLocked, ClearBm25, ClearDense,
     ClearHalts, ClearRaises, ServedThen
  <2>8. CASE Full
    BY <1>2, <2>8 DEF Full, Release, Walk, Abort, DeleteSnapshot
  <2> QED
    BY <2>1, <2>2, <2>3, <2>5, <2>6, <2>7, <2>8 DEF Next, Step
<1> QED
  BY <1>1, <1>2 DEF Next, Remember, vars

\* At first nothing is built.
LEMMA RecoveryInductive ==
    /\ Init => RInv
    /\ Faults \subseteq Tolerated /\ RInv /\ [Next]_vars => RInv'
<1>1. Init => RInv
  <2> SUFFICES ASSUME Init PROVE RInv
    OBVIOUS
  <2>1. Basis /\ ~HasSnapshot
    BY InitInductive DEF IInv, Init, HasSnapshot
  <2> QED
    BY <2>1 DEF Init, RInv, Agrees, SetAside, Rebuilt, Unhurt
<1>2. ASSUME Faults \subseteq Tolerated, RInv, [Next]_vars PROVE RInv'
  <2>1. Basis'
    BY <1>2, TypeInductive, VersionsInductive, PhasesInductive DEF RInv, Basis
  <2>2. faults \in Nat /\ settled \in Nat
    BY <1>2, PipelineAssumption DEF RInv, Basis, TypeOK
  <2>3. faults' \in {faults, faults + 1}
    <3> USE <1>2 DEF Fault, vars
    <3>1. ASSUME NEW f \in File, Edit(f) PROVE faults' = faults
      BY <3>1 DEF Edit
    <3>2. ASSUME NEW force \in BOOLEAN, Start(force) PROVE faults' = faults
      BY <3>2 DEF Start
    <3>3. Crash => faults' = faults + 1
      BY DEF Crash
    <3>4. Step => faults' \in {faults, faults + 1}
      BY DEF Step, Incremental, Shared, Recovery, Full, DetectChanges, NoChanges, RemoveDense,
         RemoveMetadata, RemoveAllDense,
     RebuildFails, RemoveMetadataFails, WipeAfterFailure, WipeLocked, RemoveBm25, RemoveBm25Fails,
     AfterRemoval, Validate, Chunk, ChunkFails, Embed, EmbedFails, AddBm25, AddDense, AddDenseFails,
     SaveSnapshot, SaveBm25, SaveDense, SaveFails, Resync,
         Refuse, Recover, Preflight, PreflightLocked, ClearBm25, ClearDense,
     ClearHalts, Release, Walk, Abort, DeleteSnapshot
    <3> QED
      BY <3>1, <3>2, <3>3, <3>4 DEF Next
  <2>4. settled' <= faults'
    BY <1>2, <2>2, <2>3 DEF RInv, Next, Remember, vars
  <2>5. ASSUME ~marker' PROVE Agrees'
    <3>1. ~marker
      BY <1>2, <2>5, MarkerStays DEF RInv, Basis
    <3> QED
      BY <1>2, <2>5, <3>1, SetAsideInductive, RebuiltInductive, UnhurtInductive DEF RInv, Agrees
  <2> QED
    BY <2>1, <2>4, <2>5 DEF RInv
<1> QED
  BY <1>1, <1>2

\* Under the same faults no recovery begins unless something has failed since the
\* last one ended: an index that was built, or rebuilt, passes every validation
\* until a fault, and a recovery that fails marks the index or leaves no snapshot.
THEOREM RecoveryBounded == ASSUME Faults \subseteq Tolerated PROVE Spec => RecoveryIsBounded
<1> DEFINE Begins == mode = "incremental" /\ mode' = "recovering"
<1>1. RInv /\ [Next]_vars => [Begins => faults > settled]_vars
  <2> SUFFICES ASSUME RInv, [Next]_vars, Begins PROVE faults > settled
    OBVIOUS
  <2>1. Recover
    <3> USE DEF project, durable, served, run, Goto, Finish, Raise, Fault
    <3>1. ~Crash /\ ~UNCHANGED vars
      BY DEF Crash, vars
    <3>2. ~(\E f \in File : Edit(f)) /\ ~(\E force \in BOOLEAN : Start(force))
      BY DEF Edit, Start, RInv, Basis, TypeOK
    <3>3. ~Incremental
      BY DEF Incremental, DetectChanges, NoChanges, RemoveDense, RemoveMetadata, RemoveAllDense,
     RebuildFails, RemoveMetadataFails, WipeAfterFailure, WipeLocked, RemoveBm25, RemoveBm25Fails,
     AfterRemoval, Validate
    <3>4. ~Shared
      BY DEF Shared, Chunk, ChunkFails, Embed, EmbedFails, AddBm25, AddDense, AddDenseFails,
     SaveSnapshot, SaveBm25, SaveDense, SaveFails, Saving, Resync
    <3>5. ~Full
      BY DEF Full, Release, Walk, Abort, DeleteSnapshot
    <3>6. Recovery => Recover
      BY DEF Recovery, Refuse, Recover, Preflight, PreflightLocked, ClearBm25, ClearDense,
     ClearHalts, ClearRaises, ServedThen
    <3> QED
      BY <3>1, <3>2, <3>3, <3>4, <3>5, <3>6 DEF Next, Step
  <2>2. pc = "recover" /\ ~marker /\ HasSnapshot
    BY <2>1 DEF Recover, RInv, Basis, Phases
  <2>3. faults # settled
    BY <2>2 DEF RInv, Agrees, Unhurt
  <2> QED
    BY <2>3, PipelineAssumption DEF RInv, Basis, TypeOK
<1>2. Init => RInv
  BY RecoveryInductive
<1>3. RInv /\ [Next]_vars => RInv'
  BY RecoveryInductive
<1> QED
  BY <1>1, <1>2, <1>3, PTL DEF Spec, RecoveryIsBounded
=============================================================================

------------------------------- MODULE CallGraph -------------------------------
(***************************************************************************)
(* The call graph that is kept beside the index: graph/graph_storage.py,   *)
(* filled by search/graph_integration.py and search/call_edge_injection.py *)
(* and pruned by search/incremental_indexer.py, while files change, runs   *)
(* fail and the process is restarted.                                      *)
(*                                                                         *)
(* A file holds one chunk, which may define a function.  The chunk's id is *)
(* its file, its lines and its name, so that an edit may leave the id as   *)
(* it is.  A node of the graph is the id of a function, or a bare name     *)
(* that stands for a call nobody in the same batch defines.  The rest of   *)
(* the index is here as far as it decides what a run does: metadata.db and *)
(* FAISS (IndexPipeline has it all).  Other kinds of edges, split          *)
(* functions and edge attributes are left out.                             *)
(***************************************************************************)
EXTENDS Naturals, FiniteSets

CONSTANTS File,       \* files of the project
          Names,      \* names of functions
          Lines,      \* places in a file
          Bodies,     \* what a file may hold
          NoName,     \* the name of a chunk that is no function
          NoFile,     \* an absent file; the import of a name not imported
          NoGraph,    \* no graph file on disk, no snapshot
          MaxEdits,   \* bound: edits ever made
          MaxFaults   \* bound: failures and crashes ever suffered

\* A call is a name, and the file an import says it comes from.
Call == [name : Names, from : File \cup {NoFile}]

Text == [edition : 0 .. MaxEdits, body : Bodies]
Tree == [File -> Text \cup {NoFile}]
Id   == [file : File, at : Lines, name : Names]
Node == Id \cup Names

\* The markers are told from what they stand for, and an id from a name.
ASSUME CallGraphAssumption ==
    /\ IsFiniteSet(File) /\ IsFiniteSet(Names)
    /\ NoName \notin Names /\ NoFile \notin File /\ NoFile \notin Text
    /\ NoGraph \notin Tree /\ NoGraph \notin [nodes : SUBSET Node, edges : SUBSET (Node \X Node)]
    /\ \A n \in Names : n \notin Id
    /\ Bodies \subseteq [at : Lines, name : Names \cup {NoName}, calls : SUBSET Call]
    /\ MaxEdits \in Nat /\ MaxFaults \in Nat

VARIABLES
    src, edits,          \* the files; the editions written so far
    snap,                \* the Merkle snapshot
    meta,                \* metadata.db: the text each file's chunk was made from
    dense, denseFile,    \* the same for FAISS, in memory and on disk
    nodes, edges, index, \* the graph, and its _name_index of <<name, node>>
    saved,               \* the graph file
    stale, outdated,     \* history: the graph, its file are not the last run's
    pc, full, dag,       \* where a run is; whether it is a full one; its tree
    faults

world == <<src, edits>>
faiss == <<dense, denseFile>>
graph == <<nodes, edges, index, stale>>
file  == <<saved, outdated>>
vars  == <<world, snap, meta, faiss, graph, file, pc, full, dag, faults>>

Empty == [f \in File |-> NoFile]
IdOf(f, x) == [file |-> f, at |-> x.body.at, name |-> x.body.name]
Defines(x) == x # NoFile /\ x.body.name # NoName

\* The functions among the chunks of some files.
IdsOf(tree, files) == {IdOf(f, tree[f]) : f \in {g \in files : Defines(tree[g])}}

Init ==
    /\ src \in [File -> [edition : {0}, body : Bodies]]
    /\ edits = 0 /\ snap = NoGraph
    /\ meta = Empty /\ dense = Empty /\ denseFile = Empty
    /\ nodes = {} /\ edges = {} /\ index = {} /\ saved = NoGraph
    /\ stale = FALSE /\ outdated = FALSE
    /\ pc = "idle" /\ full = FALSE /\ dag = Empty /\ faults = 0

-----------------------------------------------------------------------------
\* The environment.

Edit(f) ==
    /\ \/ /\ edits < MaxEdits
          /\ edits' = edits + 1
          /\ \E b \in Bodies : src' = [src EXCEPT ![f] = [edition |-> edits + 1, body |-> b]]
       \/ /\ src[f] # NoFile
          /\ src' = [src EXCEPT ![f] = NoFile]
          /\ UNCHANGED edits
    /\ UNCHANGED <<snap, meta, faiss, graph, file, pc, full, dag, faults>>

NameOf(n) == IF n \in Id THEN n.name ELSE n

\* Mutant: the name index is not rebuilt.
Load_NoIndex ==
    /\ stale' = outdated
    /\ IF saved = NoGraph
       THEN nodes' = {} /\ edges' = {} /\ index' = {}
       ELSE nodes' = saved.nodes /\ edges' = saved.edges /\ index' = {}

\* CodeGraphStorage.load, in a new process: the name index is rebuilt from
\* every node, the bare names too.
Load ==
    /\ stale' = outdated
    /\ IF saved = NoGraph
       THEN nodes' = {} /\ edges' = {} /\ index' = {}
       ELSE /\ nodes' = saved.nodes /\ edges' = saved.edges
            /\ index' = {<<NameOf(n), n>> : n \in saved.nodes}

\* A crash loses the graph and the vectors in memory.  The window between the snapshot and
\* the saved files is IndexPipeline's subject, and left out here.
Restart ==
    /\ pc # "save"
    /\ faults < MaxFaults /\ faults' = faults + 1
    /\ Load
    /\ dense' = denseFile
    /\ pc' = "idle" /\ full' = FALSE /\ dag' = Empty
    /\ UNCHANGED <<world, snap, meta, denseFile, file>>

-----------------------------------------------------------------------------
\* A run.

Start(force) ==
    /\ pc = "idle"
    /\ full' = (force \/ snap = NoGraph)
    /\ full' \/ src # snap
    /\ dag' = src
    /\ pc' = IF full' THEN "clear" ELSE "remove"
    /\ UNCHANGED <<world, snap, meta, faiss, graph, file, faults>>

Changed == {f \in File : dag[f] # snap[f]}
ToRemove == {f \in Changed : snap[f] # NoFile}
Target == IF full THEN File ELSE Changed

\* networkx removes a node's edges in both directions with it.
RemoveNodes(gone) ==
    /\ nodes' = nodes \ gone
    /\ edges' = {e \in edges : e[1] \notin gone /\ e[2] \notin gone}
    /\ index' = {p \in index : p[2] \notin gone}
    /\ UNCHANGED stale

\* Mutants: modified files keep their nodes; nodes whose id comes back are
\* kept; the nodes go and their names stay in the index.
RemoveFileNodes_OnlyDeleted(files) ==
    RemoveNodes({n \in nodes \cap Id : n.file \in files /\ dag[n.file] = NoFile})
RemoveFileNodes_KeepsReused(files) ==
    RemoveNodes({n \in nodes \cap Id : n.file \in files} \ IdsOf(dag, File))
RemoveFileNodes_KeepsNames(files) ==
    LET gone == {n \in nodes \cap Id : n.file \in files}
    IN  /\ nodes' = nodes \ gone
        /\ edges' = {e \in edges : e[1] \notin gone /\ e[2] \notin gone}
        /\ UNCHANGED <<index, stale>>

\* remove_file_nodes.
RemoveFileNodes(files) == RemoveNodes({n \in nodes \cap Id : n.file \in files})

ClearGraph ==
    /\ nodes' = {} /\ edges' = {} /\ index' = {} /\ stale' = FALSE
    /\ saved' = NoGraph /\ outdated' = FALSE

Without(tree, files) == [f \in File |-> IF f \in files THEN NoFile ELSE tree[f]]

\* _remove_old_chunks: chunks without metadata are not found; rebuilding FAISS
\* unlinks its file; a removal that leaves no vector clears the whole index,
\* its graph included.
RemoveOldChunks ==
    /\ pc = "remove"
    /\ LET gone == {f \in ToRemove : dense[f] # NoFile /\ meta[f] = dense[f]}
       IN  /\ dense' = Without(dense, gone)
           /\ denseFile' = IF gone = {} THEN denseFile ELSE Empty
           /\ IF gone # {} /\ dense' = Empty
              THEN meta' = Empty /\ ClearGraph
              ELSE meta' = Without(meta, gone) /\ RemoveFileNodes(ToRemove) /\ UNCHANGED file
    /\ pc' = "add"
    /\ UNCHANGED <<world, snap, full, dag, faults>>

\* A full run deletes the snapshot and clears the index.
Clear ==
    /\ pc = "clear"
    /\ snap' = NoGraph
    /\ meta' = Empty /\ dense' = Empty /\ denseFile' = Empty
    /\ ClearGraph
    /\ pc' = "add"
    /\ UNCHANGED <<world, full, dag, faults>>

\* Embedding fails: an incremental run recovers with a full one (a recovery
\* that is refused is IndexPipeline's subject); a full run is over.
Fail ==
    /\ pc = "add"
    /\ faults < MaxFaults /\ faults' = faults + 1
    /\ \/ full  /\ pc' = "idle"  /\ full' = FALSE
       \/ ~full /\ pc' = "clear" /\ full' = TRUE
    /\ UNCHANGED <<world, snap, meta, faiss, graph, file, dag>>

-----------------------------------------------------------------------------
\* GraphIntegration._two_pass_build over the chunks of the run, clear=False.

Batch == {f \in Target : dag[f] # NoFile}

\* add_node, after the rows of metadata.db.  A chunk whose id is in the graph
\* already replaces it.
AddNodes ==
    /\ pc = "add"
    /\ meta'  = [f \in File |-> IF f \in Batch THEN dag[f] ELSE meta[f]]
    /\ dense' = [f \in File |-> IF f \in Batch THEN dag[f] ELSE dense[f]]
    /\ nodes' = nodes \cup IdsOf(dag, Batch)
    /\ index' = index \cup {<<n.name, n>> : n \in IdsOf(dag, Batch)}
    /\ pc' = "edges"
    /\ UNCHANGED <<world, snap, denseFile, edges, stale, file, full, dag, faults>>

\* The map of the batch from names to chunk ids.
Candidates(name) == {n \in IdsOf(dag, Batch) : n.name = name}
In(ids, f) == {n \in ids : n.file = f}
Only(ids) == Cardinality(ids) = 1

\* Mutant: an ambiguous call makes no edge.
CallTargets_NoAmbiguous(f, call) ==
    LET all == Candidates(call.name)
        imported == In(all, call.from)
    IN  IF all = {} THEN {call.name}
        ELSE IF Only(imported) THEN imported
        ELSE IF Only(all) THEN all
        ELSE {}

\* _resolve_call_target and _get_ambiguous_candidates: one candidate, the one
\* in the file the import names, the one in the caller's own file; else every
\* candidate; else the bare name.
CallTargets(f, call) ==
    LET all == Candidates(call.name)
        own == In(all, f)
        imported == In(all, call.from)
    IN  IF all = {} THEN {call.name}
        ELSE IF Only(imported) THEN imported
        ELSE IF Only(own) THEN own
        ELSE all

\* add_call_edge for every call of every chunk, with a node for a bare name.
NewEdges ==
    UNION {UNION {{<<IdOf(f, dag[f]), t>> : t \in CallTargets(f, c)} : c \in dag[f].body.calls} :
              f \in {g \in Batch : Defines(dag[g])}}

AddEdges ==
    /\ pc = "edges"
    /\ edges' = edges \cup NewEdges
    /\ nodes' = nodes \cup {e[2] : e \in NewEdges}
    /\ pc' = IF full THEN "inject" ELSE "validate"
    /\ UNCHANGED <<world, snap, meta, faiss, index, stale, file, full, dag, faults>>

\* What the resolvers (pyan, libcst, a language server) can find: calls
\* between chunks of metadata.db, as the files have them.
Resolvable ==
    {e \in IdsOf(meta, File) \X IdsOf(meta, File) :
        \E c \in meta[e[1].file].body.calls : c.name = e[2].name}

\* inject_call_edges: full runs only.  A resolver may time out or be absent,
\* so any part of the calls is found; ends that are no nodes are skipped.
InjectCallEdges ==
    /\ pc = "inject"
    /\ \E found \in SUBSET Resolvable :
          edges' = edges \cup {e \in found : e[1] \in nodes /\ e[2] \in nodes}
    /\ pc' = "snapshot"
    /\ UNCHANGED <<world, snap, meta, faiss, nodes, index, stale, file, full, dag, faults>>

\* validate_index_consistency, of an incremental run, which else recovers.
Validate ==
    /\ pc = "validate"
    /\ \/ dense = meta /\ pc' = "snapshot" /\ UNCHANGED full
       \/ dense # meta /\ pc' = "clear" /\ full' = TRUE
    /\ UNCHANGED <<world, snap, meta, faiss, graph, file, dag, faults>>

SaveSnapshot ==
    /\ pc = "snapshot"
    /\ snap' = dag
    /\ pc' = "save"
    /\ UNCHANGED <<world, meta, faiss, graph, file, full, dag, faults>>

\* Mutant: the bare names that calls lead to are not written.
WriteGraph_OnlyFunctions ==
    /\ saved' = [nodes |-> nodes \cap Id, edges |-> edges \cap (Id \X Id)]
    /\ outdated' = stale /\ UNCHANGED faults

\* CodeGraphStorage.save.
WriteGraph ==
    /\ saved' = [nodes |-> nodes, edges |-> edges]
    /\ outdated' = stale /\ UNCHANGED faults

\* A graph that cannot be written is only logged, and an empty one is not written.
KeepGraph ==
    /\ outdated' = (stale \/ nodes # {} \/ saved # NoGraph)
    /\ faults' = IF nodes = {} THEN faults ELSE faults + 1
    /\ faults' <= MaxFaults
    /\ UNCHANGED saved

\* save_index: FAISS, which is not written when it is empty, then the graph.
SaveGraph ==
    /\ pc = "save"
    /\ denseFile' = IF dense = Empty THEN denseFile ELSE dense
    /\ (nodes # {} /\ WriteGraph) \/ KeepGraph
    /\ pc' = "idle" /\ full' = FALSE /\ dag' = Empty
    /\ UNCHANGED <<world, snap, meta, dense, graph>>

Next ==
    \/ \E f \in File : Edit(f)
    \/ Restart
    \/ \E force \in BOOLEAN : Start(force)
    \/ RemoveOldChunks \/ Clear \/ Fail
    \/ AddNodes \/ AddEdges \/ InjectCallEdges
    \/ Validate \/ SaveSnapshot \/ SaveGraph

Spec == Init /\ [][Next]_vars

-----------------------------------------------------------------------------
UpToDate == pc = "idle" /\ snap = src
CallsOf(x) == IF x = NoFile THEN {} ELSE x.body.calls

\* The call graph and the metadata store stay in sync: with nothing left to
\* index, the functions in the graph are those of the indexed chunks, whatever
\* runs failed and whatever was loaded from disk on the way, unless that was a
\* file that the last run could not, or being empty did not, write.
InSync ==
    UpToDate /\ ~stale => nodes \cap Id = IdsOf(src, File)

IsGraph(ns, es) == ns \subseteq Node /\ es \subseteq (ns \cap Id) \X ns

Typed ==
    /\ src \in Tree /\ edits \in 0 .. MaxEdits
    /\ snap \in Tree \cup {NoGraph} /\ dag \in Tree
    /\ meta \in Tree /\ dense \in Tree /\ denseFile \in Tree
    /\ IsGraph(nodes, edges)
    /\ index \subseteq Names \X nodes
    /\ saved # NoGraph =>
          /\ saved \in [nodes : SUBSET Node, edges : SUBSET (Node \X Node)]
          /\ IsGraph(saved.nodes, saved.edges)
    /\ stale \in BOOLEAN /\ outdated \in BOOLEAN
    /\ pc \in {"idle", "remove", "clear", "add", "edges", "inject", "validate",
              "snapshot", "save"}
    /\ full \in BOOLEAN /\ faults \in 0 .. MaxFaults

\* An edge has its ends and outlives no call: its caller's text calls a function
\* of that name.  A lookup by name finds every function of that name.
GraphIsSound ==
    /\ Typed
    /\ UpToDate /\ ~stale => \A e \in edges :
          \E c \in CallsOf(src[e[1].file]) : c.name = NameOf(e[2])
    /\ \A n \in nodes \cap Id : <<n.name, n>> \in index

\* A restart changes nothing: the graph on disk, or that there is none, is what is
\* served, unless the last run left the file as it was.
RestartIsHarmless ==
    UpToDate /\ ~outdated =>
        IF saved = NoGraph THEN nodes = {} ELSE saved = [nodes |-> nodes, edges |-> edges]

\* find_connections follows edges into the function and into its bare name.
Callers(id) == {e[1] : e \in {x \in edges : x[2] \in {id, id.name}}}

\* A call names one function of several when an import, or the caller's own
\* file, says which.
Chosen(f, c, g) ==
    \A h \in File \ {g} :
        Defines(meta[h]) /\ meta[h].body.name = c.name => h \notin {f, c.from}

\* Every call of one indexed chunk to another makes the one a direct caller of
\* the other, unless the call was for a third.
CallersFound ==
    \A f, g \in {h \in File : Defines(meta[h])} :
        \A c \in meta[f].body.calls :
            c.name = meta[g].body.name /\ Chosen(f, c, g) =>
                IdOf(f, meta[f]) \in Callers(IdOf(g, meta[g]))

\* After a full run, whatever was in the graph before and whatever part of the
\* calls the resolvers found, every direct caller is found.
FullRunFindsCallers ==
    [][pc = "save" /\ full /\ pc' = "idle" => CallersFound']_vars

\* find_connections misses no direct caller after an incremental reindex.
NoCallerMissed == UpToDate => CallersFound
=============================================================================

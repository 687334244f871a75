---------------------------- MODULE CallGraph_proofs ----------------------------
(***************************************************************************)
(* The call graph is that of the indexed files: the invariant of CallGraph *)
(* over the phases of a run, and what follows from it for any files,       *)
(* bodies, edits and faults.                                               *)
(***************************************************************************)
EXTENDS CallGraph, FiniteSetTheorems, TLAPS

-----------------------------------------------------------------------------
\* The invariant.

\* The files a run goes by, and the graph a new process would load.
Now == IF pc = "idle" THEN src ELSE dag
OnDisk == IF saved = NoGraph THEN [nodes |-> {}, edges |-> {}] ELSE saved
InMemory == [nodes |-> nodes, edges |-> edges]

\* Graph g has of file f what its text x makes, its function and its calls.
NodesOf(g, f) == {n \in g.nodes \cap Id : n.file = f}
Own(f, x) == IF Defines(x) THEN {IdOf(f, x)} ELSE {}
Agrees(g, f, x) ==
    /\ NodesOf(g, f) = Own(f, x)
    /\ \A e \in g.edges : e[1].file = f => \E c \in CallsOf(x) : c.name = NameOf(e[2])
AgreesWith(g, tree) == \A f \in File : Agrees(g, f, tree[f])

\* Unchanged files of the snapshot, and what is true of a graph of the
\* snapshot: it is right about those and about files that were not there.
Unchanged(f) == snap[f] # NoFile /\ Now[f] = snap[f]
OfSnapshot(g) == \A f \in File : snap[f] = NoFile \/ Unchanged(f) => Agrees(g, f, snap[f])

Running == {"add", "edges", "inject", "validate", "snapshot", "save"}
Added == Running \ {"add"}

Control ==
    /\ pc \in {"remove", "validate"} => ~full
    /\ pc \in {"clear", "inject"} => full
    /\ ~full /\ pc # "idle" => snap # NoGraph
    /\ full /\ pc \in {"add", "edges", "inject", "snapshot"} => snap = NoGraph
    /\ pc = "save" => snap = dag

\* No text comes back: what a run saw changed stays changed.
Editions(tree) == \A f \in File : tree[f] # NoFile => tree[f].edition <= edits
Stable ==
    /\ Editions(src) /\ Editions(dag) /\ (snap # NoGraph => Editions(snap))
    /\ pc # "idle" /\ snap # NoGraph =>
         \A f \in File : snap[f] # NoFile /\ src[f] = snap[f] => dag[f] = snap[f]

\* metadata.db and FAISS.  FAISS on disk is the snapshot's or empty; when a run
\* that had something to remove has begun, it is empty.
MetaKept == pc # "save" /\ snap # NoGraph => \A f \in File : Unchanged(f) => meta[f] = snap[f]
FaissOnDisk ==
    pc # "save" /\ snap # NoGraph =>
        \/ denseFile = Empty
        \/ /\ denseFile = snap
           /\ \A f \in File : snap[f] # NoFile => meta[f] = snap[f]
           /\ pc \in Running => ToRemove = {}
FaissInMemory ==
    /\ pc \in {"idle", "remove"} /\ snap # NoGraph => dense = denseFile
    /\ pc \in Running => \A f \in File :
         /\ denseFile[f] # NoFile => dense[f] = denseFile[f]
         /\ dag[f] = NoFile => dense[f] = NoFile
Filled ==
    /\ pc = "add" /\ full => meta = Empty /\ dense = Empty
    /\ pc \in Added => \A f \in File : dag[f] # NoFile => meta[f] = dag[f]
    /\ pc = "edges" /\ full => meta = dag /\ dense = dag
    /\ pc \in {"inject", "snapshot", "save"} => meta = dag /\ dense = dag

\* The graph, phase by phase.
GraphOnDisk ==
    /\ pc # "save" /\ snap # NoGraph /\ ~outdated => OfSnapshot(OnDisk)
    /\ pc = "idle" /\ snap # NoGraph /\ ~outdated => OnDisk = InMemory
GraphInMemory ==
    /\ pc \in {"idle", "remove"} /\ snap # NoGraph /\ ~stale => OfSnapshot(InMemory)
    /\ pc = "add" /\ ~stale => AgreesWith(InMemory, Without(dag, Target))
    /\ pc \in Added /\ ~stale => AgreesWith(InMemory, dag)
    /\ pc = "edges" => IdsOf(dag, Batch) \subseteq nodes

Indexed == \A n \in nodes \cap Id : <<n.name, n>> \in index
Found == pc \in {"inject", "snapshot", "save"} /\ full => CallersFound

IndInv ==
    /\ Typed /\ Control /\ Stable
    /\ MetaKept /\ FaissOnDisk /\ FaissInMemory /\ Filled
    /\ GraphOnDisk /\ GraphInMemory
    /\ Indexed /\ Found

-----------------------------------------------------------------------------
\* About the constants and the operators.

LEMMA Bounds == MaxEdits \in Nat /\ MaxFaults \in Nat
BY CallGraphAssumption

LEMMA Markers == NoGraph \notin Tree /\ Empty \in Tree
BY CallGraphAssumption DEF Tree, Empty

\* The text of a file that defines a function makes an id of that file and name.
LEMMA IdFacts ==
    ASSUME NEW f \in File, NEW x \in Text \cup {NoFile}, Defines(x)
    PROVE  /\ x \in Text /\ x.body \in Bodies /\ x.body.name \in Names
           /\ IdOf(f, x) \in Id /\ IdOf(f, x).file = f /\ IdOf(f, x).name = x.body.name
BY CallGraphAssumption DEF Defines, IdOf, Id, Text

LEMMA IdsFacts ==
    ASSUME NEW tree \in Tree, NEW files \in SUBSET File
    PROVE  /\ IdsOf(tree, files) \subseteq Id
           /\ \A n \in IdsOf(tree, files) :
                n.file \in files /\ Defines(tree[n.file]) /\ n = IdOf(n.file, tree[n.file])
           /\ \A f \in files : Defines(tree[f]) => IdOf(f, tree[f]) \in IdsOf(tree, files)
<1>1. \A f \in files : tree[f] \in Text \cup {NoFile}
  BY DEF Tree
<1> QED
  BY <1>1, IdFacts DEF IdsOf

\* An id is no name, so that NameOf is the name of either.
LEMMA NameFacts ==
    /\ \A n \in Id : NameOf(n) = n.name /\ n.name \in Names /\ n.file \in File
    /\ \A n \in Names : NameOf(n) = n /\ n \notin Id
    /\ \A n \in Node : NameOf(n) \in Names
BY CallGraphAssumption DEF NameOf, Id, Node

\* The batch of a run, and the edges its calls make: from its functions to functions of
\* the batch, or to bare names, of the name that is called.
LEMMA BatchFacts ==
    ASSUME Typed
    PROVE  Batch \subseteq File /\ IdsOf(dag, Batch) \subseteq Id
<1>1. Batch \subseteq File
  BY DEF Batch, Target, Changed
<1> QED
  BY <1>1, IdsFacts DEF Typed

LEMMA NewEdgeFacts ==
    ASSUME Typed
    PROVE  \A e \in NewEdges :
             /\ e \in IdsOf(dag, Batch) \X (IdsOf(dag, Batch) \cup Names)
             /\ \E c \in CallsOf(dag[e[1].file]) : NameOf(e[2]) = c.name
<1> SUFFICES ASSUME NEW e \in NewEdges
             PROVE  /\ e \in IdsOf(dag, Batch) \X (IdsOf(dag, Batch) \cup Names)
                    /\ \E c \in CallsOf(dag[e[1].file]) : NameOf(e[2]) = c.name
  OBVIOUS
<1>1. PICK f \in Batch : Defines(dag[f]) /\ \E c \in dag[f].body.calls :
                                             \E t \in CallTargets(f, c) : e = <<IdOf(f, dag[f]), t>>
  BY DEF NewEdges
<1>2. PICK c \in dag[f].body.calls : \E t \in CallTargets(f, c) : e = <<IdOf(f, dag[f]), t>>
  BY <1>1
<1>8. PICK t \in CallTargets(f, c) : e = <<IdOf(f, dag[f]), t>>
  BY <1>2
<1>3. f \in File /\ dag \in Tree /\ dag[f] \in Text \cup {NoFile}
  BY BatchFacts DEF Typed, Tree
<1>4. IdOf(f, dag[f]) \in IdsOf(dag, Batch) /\ IdOf(f, dag[f]).file = f
  BY <1>1, <1>3, BatchFacts, IdFacts, IdsFacts
<1>5. dag[f] # NoFile /\ c \in Call /\ c.name \in Names
  BY <1>1, <1>3, IdFacts, CallGraphAssumption DEF Defines, Call
<1>6. t \in Candidates(c.name) \/ t = c.name
  BY DEF CallTargets, In
<1>7. t \in IdsOf(dag, Batch) \cup Names /\ NameOf(t) = c.name
  BY <1>5, <1>6, BatchFacts, NameFacts DEF Candidates
<1> QED
  BY <1>8, <1>4, <1>5, <1>7 DEF CallsOf

\* Every action that writes files does so outside a crash, and every phase keeps
\* the types; an edge of AddEdges has its ends, for the caller was added before.
LEMMA TypedInit == Init => Typed
<1> SUFFICES ASSUME Init PROVE Typed
  OBVIOUS
<1>1. src \in Tree
  BY Bounds DEF Init, Tree, Text
<1>2. IsGraph({}, {}) /\ 0 \in 0 .. MaxEdits /\ 0 \in 0 .. MaxFaults
  BY Bounds DEF IsGraph
<1> QED
  BY <1>1, <1>2, Markers DEF Init, Typed

LEMMA TypedStep ==
    ASSUME Typed, GraphInMemory, [Next]_vars
    PROVE  Typed'
<1> USE DEF Typed
<1>1. ASSUME NEW f \in File, Edit(f) PROVE Typed'
  <2>1. src' \in Tree /\ edits' \in 0 .. MaxEdits
    <3>1. CASE edits < MaxEdits /\ edits' = edits + 1
               /\ \E b \in Bodies : src' = [src EXCEPT ![f] = [edition |-> edits + 1, body |-> b]]
      <4>1. \A b \in Bodies : [edition |-> edits + 1, body |-> b] \in Text
        BY <3>1, CallGraphAssumption DEF Text
      <4> QED
        BY <3>1, <4>1, CallGraphAssumption DEF Tree
    <3>2. CASE src' = [src EXCEPT ![f] = NoFile] /\ UNCHANGED edits
      BY <3>2 DEF Tree
    <3> QED
      BY <1>1, <3>1, <3>2 DEF Edit
  <2> QED
    BY <1>1, <2>1 DEF Edit, graph, faiss, file, IsGraph
<1>2. CASE Restart
  <2>1. dag' \in Tree
    BY <1>2 DEF Restart, Tree, Empty
  <2>2. IsGraph(nodes', edges') /\ index' \subseteq Names \X nodes'
    BY <1>2, NameFacts DEF Restart, Load, IsGraph
  <2>3. faults' \in 0 .. MaxFaults
    BY <1>2, Bounds DEF Restart
  <2> QED
    BY <1>2, <2>1, <2>2, <2>3 DEF Restart, Load, world, file
<1>3. ASSUME NEW force \in BOOLEAN, Start(force) PROVE Typed'
  BY <1>3 DEF Start, world, graph, faiss, file, IsGraph
<1>4. CASE RemoveOldChunks
  <2>1. meta' \in Tree /\ dense' \in Tree /\ denseFile' \in Tree
    <3>1. \A tree \in Tree : \A files : Without(tree, files) \in Tree
      BY DEF Without, Tree
    <3> QED
      BY <1>4, <3>1, Markers DEF RemoveOldChunks
  <2>2. CASE ClearGraph
    BY <1>4, <2>1, <2>2 DEF RemoveOldChunks, ClearGraph, world, IsGraph
  <2>3. CASE RemoveFileNodes(ToRemove) /\ UNCHANGED file
    <3>1. IsGraph(nodes', edges') /\ index' \subseteq Names \X nodes'
      BY <2>3 DEF RemoveFileNodes, RemoveNodes, IsGraph
    <3> QED
      BY <1>4, <2>1, <2>3, <3>1 DEF RemoveOldChunks, RemoveFileNodes, RemoveNodes, world, file
  <2> QED
    BY <1>4, <2>2, <2>3 DEF RemoveOldChunks
<1>5. CASE Clear
  BY <1>5, Markers DEF Clear, ClearGraph, world, IsGraph
<1>6. CASE Fail
  <2>1. faults' \in 0 .. MaxFaults
    BY <1>6, Bounds DEF Fail
  <2> QED
    BY <1>6, <2>1 DEF Fail, world, graph, faiss, file
<1>7. CASE AddNodes
  <2>1. meta' \in Tree /\ dense' \in Tree
    BY <1>7 DEF AddNodes, Tree
  <2>2. IdsOf(dag, Batch) \subseteq Id
    BY BatchFacts
  <2>3. IsGraph(nodes', edges')
    BY <1>7, <2>2 DEF AddNodes, IsGraph, Node
  <2>4. index' \subseteq Names \X nodes'
    BY <1>7, <2>2, NameFacts DEF AddNodes
  <2> QED
    BY <1>7, <2>1, <2>3, <2>4 DEF AddNodes, world, file
<1>8. CASE AddEdges
  <2>1. NewEdges \subseteq IdsOf(dag, Batch) \X (IdsOf(dag, Batch) \cup Names)
    BY NewEdgeFacts
  <2>2. IdsOf(dag, Batch) \subseteq nodes \cap Id
    BY <1>8, BatchFacts DEF AddEdges, GraphInMemory
  <2>3. IsGraph(nodes', edges') /\ nodes \subseteq nodes'
    BY <1>8, <2>1, <2>2 DEF AddEdges, IsGraph, Node
  <2> QED
    BY <1>8, <2>3 DEF AddEdges, world, faiss, file
<1>9. CASE InjectCallEdges
  <2>1. Resolvable \subseteq Id \X Id
    BY IdsFacts DEF Resolvable
  <2>2. edges' \subseteq (nodes \cap Id) \X nodes
    BY <1>9, <2>1 DEF InjectCallEdges, IsGraph
  <2> QED
    BY <1>9, <2>2 DEF InjectCallEdges, world, faiss, file, IsGraph
<1>10. CASE Validate
  BY <1>10 DEF Validate, world, graph, faiss, file, IsGraph
<1>11. CASE SaveSnapshot
  BY <1>11 DEF SaveSnapshot, world, graph, faiss, file, IsGraph
<1>12. CASE SaveGraph
  <2>1. faults' \in 0 .. MaxFaults
    BY <1>12, Bounds DEF SaveGraph, WriteGraph, KeepGraph
  <2>2. saved' # NoGraph => /\ saved' \in [nodes : SUBSET Node, edges : SUBSET (Node \X Node)]
                            /\ IsGraph(saved'.nodes, saved'.edges)
    BY <1>12 DEF SaveGraph, WriteGraph, KeepGraph, IsGraph
  <2> QED
    BY <1>12, <2>1, <2>2, Markers DEF SaveGraph, WriteGraph, KeepGraph, world, graph
<1>13. CASE UNCHANGED vars
  BY <1>13 DEF vars, world, graph, faiss, file, IsGraph
<1> QED
  BY <1>1, <1>2, <1>3, <1>4, <1>5, <1>6, <1>7, <1>8, <1>9, <1>10, <1>11, <1>12, <1>13 DEF Next

LEMMA ControlStep ==
    ASSUME Typed, Control, [Next]_vars
    PROVE  Control'
<1> USE DEF Control
<1>1. ASSUME NEW f \in File, Edit(f) PROVE Control'
  BY <1>1 DEF Edit
<1>2. CASE Restart
  BY <1>2 DEF Restart
<1>3. ASSUME NEW force \in BOOLEAN, Start(force) PROVE Control'
  BY <1>3 DEF Start
<1>4. CASE RemoveOldChunks
  BY <1>4 DEF RemoveOldChunks
<1>5. CASE Clear \/ Fail
  BY <1>5 DEF Clear, Fail
<1>6. CASE AddNodes \/ AddEdges \/ InjectCallEdges
  BY <1>6 DEF AddNodes, AddEdges, InjectCallEdges
<1>7. CASE Validate \/ SaveSnapshot \/ SaveGraph
  BY <1>7, Markers DEF Validate, SaveSnapshot, SaveGraph, Typed
<1>8. CASE UNCHANGED vars
  BY <1>8 DEF vars
<1> QED
  BY <1>1, <1>2, <1>3, <1>4, <1>5, <1>6, <1>7, <1>8 DEF Next

\* An edit makes a new edition, so that no file looks again like the snapshot's
\* after a run has seen that it is not.
LEMMA EditFacts ==
    ASSUME Typed, Stable, NEW f \in File, Edit(f)
    PROVE  /\ Editions(src)' /\ Editions(dag)' /\ (snap # NoGraph => Editions(snap))'
           /\ snap # NoGraph => \A g \in File :
                snap[g] # NoFile /\ src'[g] = snap[g] => src[g] = snap[g]
<1> USE DEF Stable, Editions
<1>1. CASE /\ edits' = edits + 1
           /\ \E b \in Bodies : src' = [src EXCEPT ![f] = [edition |-> edits + 1, body |-> b]]
  <2>1. PICK b \in Bodies : src' = [src EXCEPT ![f] = [edition |-> edits + 1, body |-> b]]
    BY <1>1
  <2>2. edits \in Nat /\ edits <= edits + 1
    BY Bounds DEF Typed
  <2>3. \A tree \in Tree, g \in File : tree[g] # NoFile => tree[g].edition \in Nat
    BY Bounds DEF Tree, Text
  <2>4. src'[f].edition = edits + 1 /\ \A g \in File \ {f} : src'[g] = src[g]
    BY <2>1 DEF Typed, Tree
  <2>5. Editions(src)' /\ Editions(dag)' /\ (snap # NoGraph => Editions(snap))'
    BY <1>1, <2>2, <2>3, <2>4 DEF Edit, Typed
  <2>6. snap # NoGraph /\ snap[f] # NoFile => src'[f] # snap[f]
    BY <2>2, <2>3, <2>4 DEF Typed
  <2> QED
    BY <2>4, <2>5, <2>6
<1>2. CASE src' = [src EXCEPT ![f] = NoFile] /\ UNCHANGED edits
  BY <1>2 DEF Edit, Typed, Tree
<1> QED
  BY <1>1, <1>2 DEF Edit

LEMMA StableStep ==
    ASSUME Typed, Stable, [Next]_vars
    PROVE  Stable'
<1> USE DEF Stable, Editions
<1>1. ASSUME NEW f \in File, Edit(f) PROVE Stable'
  BY <1>1, EditFacts DEF Edit
<1>2. CASE Restart
  BY <1>2 DEF Restart, world, Empty
<1>3. ASSUME NEW force \in BOOLEAN, Start(force) PROVE Stable'
  BY <1>3 DEF Start, world
<1>4. CASE RemoveOldChunks
  BY <1>4 DEF RemoveOldChunks, world
<1>5. CASE Clear \/ Fail
  BY <1>5 DEF Clear, Fail, world
<1>6. CASE AddNodes \/ AddEdges \/ InjectCallEdges
  BY <1>6 DEF AddNodes, AddEdges, InjectCallEdges, world
<1>7. CASE Validate \/ SaveSnapshot
  BY <1>7 DEF Validate, SaveSnapshot, world
<1>8. CASE SaveGraph
  BY <1>8 DEF SaveGraph, world, Empty
<1>9. CASE UNCHANGED vars
  BY <1>9 DEF vars, world
<1> QED
  BY <1>1, <1>2, <1>3, <1>4, <1>5, <1>6, <1>7, <1>8, <1>9 DEF Next

\* What an incremental run takes out of FAISS: every file it has to remove, if
\* FAISS is not empty; a run that takes out everything had no unchanged file.
LEMMA RemovalFacts ==
    ASSUME Typed, Control, Stable, MetaKept, FaissOnDisk, FaissInMemory, RemoveOldChunks,
           NEW gone, gone = {f \in ToRemove : dense[f] # NoFile /\ meta[f] = dense[f]}
    PROVE  /\ snap # NoGraph /\ ToRemove \subseteq File
           /\ dense = denseFile /\ dense' = Without(dense, gone)
           /\ dense = Empty \/ (dense = snap /\ gone = ToRemove)
           /\ gone # {} /\ dense' = Empty => \A f \in File : ~Unchanged(f)
           /\ \A f \in File : Unchanged(f) => f \notin ToRemove
<1>1. snap # NoGraph /\ pc = "remove" /\ snap \in Tree
  BY DEF RemoveOldChunks, Control, Typed
<1>2. ToRemove = {f \in File : dag[f] # snap[f] /\ snap[f] # NoFile} /\ gone \subseteq ToRemove
  BY DEF ToRemove, Changed
<1>3. dense = denseFile /\ dense' = Without(dense, gone)
  BY <1>1 DEF RemoveOldChunks, FaissInMemory
<1>4. dense = Empty \/ (dense = snap /\ \A f \in File : snap[f] # NoFile => meta[f] = snap[f])
  BY <1>1, <1>3 DEF FaissOnDisk
<1>5. dense = Empty \/ (dense = snap /\ gone = ToRemove)
  BY <1>2, <1>4
<1>6. ASSUME NEW f \in File, Unchanged(f) PROVE f \notin ToRemove /\ (gone # {} => dense'[f] # NoFile)
  <2>1. f \notin ToRemove /\ snap[f] # NoFile
    BY <1>1, <1>2, <1>6 DEF Unchanged, Now
  <2>2. gone # {} => dense = snap
    BY <1>4, <1>2 DEF Empty
  <2> QED
    BY <1>2, <1>3, <2>1, <2>2 DEF Without
<1> QED
  BY <1>1, <1>2, <1>3, <1>5, <1>6 DEF Empty

LEMMA MetaKeptStep ==
    ASSUME Typed, Control, Stable, MetaKept, FaissOnDisk, FaissInMemory, Filled, [Next]_vars
    PROVE  MetaKept'
<1> USE DEF MetaKept, Unchanged, Now
<1>1. ASSUME NEW f \in File, Edit(f) PROVE MetaKept'
  BY <1>1, EditFacts DEF Edit
<1>2. CASE Restart
  BY <1>2 DEF Restart, world, Stable
<1>3. ASSUME NEW force \in BOOLEAN, Start(force) PROVE MetaKept'
  BY <1>3 DEF Start, world
<1>4. CASE RemoveOldChunks
  BY <1>4, RemovalFacts DEF RemoveOldChunks, world, Without
<1>5. CASE Clear \/ Fail
  BY <1>5 DEF Clear, Fail, world, Control
<1>6. CASE AddNodes
  BY <1>6 DEF AddNodes, world, Batch, Target, Changed, Control
<1>7. CASE AddEdges \/ InjectCallEdges \/ Validate \/ SaveSnapshot
  BY <1>7 DEF AddEdges, InjectCallEdges, Validate, SaveSnapshot, world
<1>8. CASE SaveGraph
  BY <1>8 DEF SaveGraph, Filled, Control, world
<1>9. CASE UNCHANGED vars
  BY <1>9 DEF vars, world
<1> QED
  BY <1>1, <1>2, <1>3, <1>4, <1>5, <1>6, <1>7, <1>8, <1>9 DEF Next

LEMMA FaissOnDiskStep ==
    ASSUME Typed, Control, Stable, MetaKept, FaissOnDisk, FaissInMemory, Filled, [Next]_vars
    PROVE  FaissOnDisk'
<1> USE DEF FaissOnDisk, Running, ToRemove, Changed
<1>1. ASSUME NEW f \in File, Edit(f) PROVE FaissOnDisk'
  BY <1>1 DEF Edit, faiss
<1>2. CASE Restart
  BY <1>2 DEF Restart
<1>3. ASSUME NEW force \in BOOLEAN, Start(force) PROVE FaissOnDisk'
  BY <1>3 DEF Start, faiss
<1>4. CASE RemoveOldChunks
  <2> DEFINE gone == {f \in ToRemove : dense[f] # NoFile /\ meta[f] = dense[f]}
  <2>1. CASE gone = {}
    <3>1. denseFile' = denseFile /\ (dense = Empty \/ ToRemove = {})
      BY <1>4, <2>1, RemovalFacts DEF RemoveOldChunks
    <3>2. \A f \in File : snap[f] # NoFile /\ ToRemove = {} => meta'[f] = meta[f]
      BY <1>4, <2>1 DEF RemoveOldChunks, Without, Typed, Tree
    <3> QED
      BY <1>4, <3>1, <3>2, RemovalFacts DEF RemoveOldChunks
  <2>2. CASE gone # {}
    BY <1>4, <2>2 DEF RemoveOldChunks
  <2> QED
    BY <2>1, <2>2
<1>5. CASE Clear \/ Fail
  BY <1>5 DEF Clear, Fail, faiss
<1>6. CASE AddNodes
  BY <1>6 DEF AddNodes, Batch, Target, Control
<1>7. CASE AddEdges \/ InjectCallEdges \/ Validate \/ SaveSnapshot
  BY <1>7 DEF AddEdges, InjectCallEdges, Validate, SaveSnapshot, faiss
<1>8. CASE SaveGraph
  <2>1. dense = dag /\ meta = dag /\ snap = dag
    BY <1>8 DEF SaveGraph, Filled, Control
  <2>2. dense = Empty => denseFile = Empty
    BY <1>8 DEF SaveGraph, FaissInMemory, Empty, Typed, Tree
  <2> QED
    BY <1>8, <2>1, <2>2 DEF SaveGraph
<1>9. CASE UNCHANGED vars
  BY <1>9 DEF vars, faiss
<1> QED
  BY <1>1, <1>2, <1>3, <1>4, <1>5, <1>6, <1>7, <1>8, <1>9 DEF Next

LEMMA FaissInMemoryStep ==
    ASSUME Typed, Control, Stable, MetaKept, FaissOnDisk, FaissInMemory, Filled, [Next]_vars
    PROVE  FaissInMemory'
<1> USE DEF FaissInMemory, Running
<1>1. ASSUME NEW f \in File, Edit(f) PROVE FaissInMemory'
  BY <1>1 DEF Edit, faiss
<1>2. CASE Restart
  BY <1>2 DEF Restart
<1>3. ASSUME NEW force \in BOOLEAN, Start(force) PROVE FaissInMemory'
  BY <1>3 DEF Start, faiss
<1>4. CASE RemoveOldChunks
  <2> DEFINE gone == {f \in ToRemove : dense[f] # NoFile /\ meta[f] = dense[f]}
  <2>1. SUFFICES ASSUME NEW f \in File
                 PROVE  /\ denseFile'[f] # NoFile => dense'[f] = denseFile'[f]
                        /\ dag[f] = NoFile => dense'[f] = NoFile
    BY <1>4 DEF RemoveOldChunks
  <2>2. denseFile'[f] # NoFile => dense'[f] = denseFile'[f]
    BY <1>4, RemovalFacts DEF RemoveOldChunks, Without, Empty
  <2>3. dag[f] = NoFile => f \in ToRemove \/ snap[f] = NoFile
    BY DEF ToRemove, Changed
  <2>4. dag[f] = NoFile => dense'[f] = NoFile
    BY <1>4, <2>3, RemovalFacts DEF Without, Empty
  <2> QED
    BY <2>2, <2>4
<1>5. CASE Clear \/ Fail
  BY <1>5 DEF Clear, Fail, faiss, Empty, Control
<1>6. CASE AddNodes
  <2>1. SUFFICES ASSUME NEW f \in File
                 PROVE  /\ denseFile[f] # NoFile => dense'[f] = denseFile[f]
                        /\ dag[f] = NoFile => dense'[f] = NoFile
    BY <1>6 DEF AddNodes
  <2>2. f \in Batch => dag[f] # NoFile /\ dense'[f] = dag[f]
    BY <1>6 DEF AddNodes, Batch
  <2>3. f \notin Batch => dense'[f] = dense[f]
    BY <1>6 DEF AddNodes
  <2>4. f \in Batch => denseFile[f] = NoFile
    <3>1. CASE full
      BY <1>6, <3>1 DEF AddNodes, Filled, Empty
    <3>2. CASE ~full
      BY <1>6, <3>2 DEF AddNodes, Control, FaissOnDisk, Batch, Target, ToRemove, Changed, Empty
    <3> QED
      BY <3>1, <3>2
  <2> QED
    BY <1>6, <2>2, <2>3, <2>4 DEF AddNodes
<1>7. CASE AddEdges \/ InjectCallEdges \/ Validate \/ SaveSnapshot
  BY <1>7 DEF AddEdges, InjectCallEdges, Validate, SaveSnapshot, faiss
<1>8. CASE SaveGraph
  <2>1. dense = Empty => denseFile = Empty
    BY <1>8 DEF SaveGraph, Empty, Typed, Tree
  <2> QED
    BY <1>8, <2>1 DEF SaveGraph
<1>9. CASE UNCHANGED vars
  BY <1>9 DEF vars, faiss
<1> QED
  BY <1>1, <1>2, <1>3, <1>4, <1>5, <1>6, <1>7, <1>8, <1>9 DEF Next

LEMMA FilledStep ==
    ASSUME Typed, Control, Stable, MetaKept, FaissOnDisk, FaissInMemory, Filled, [Next]_vars
    PROVE  Filled'
<1> USE DEF Filled, Added, Running
<1>1. ASSUME NEW f \in File, Edit(f) PROVE Filled'
  BY <1>1 DEF Edit, faiss
<1>2. CASE Restart
  BY <1>2 DEF Restart
<1>3. ASSUME NEW force \in BOOLEAN, Start(force) PROVE Filled'
  BY <1>3 DEF Start, faiss
<1>4. CASE RemoveOldChunks
  BY <1>4 DEF RemoveOldChunks, Control
<1>5. CASE Clear \/ Fail
  BY <1>5 DEF Clear, Fail, faiss
<1>6. CASE AddNodes
  <2>1. pc' = "edges" /\ full' = full /\ dag' = dag
    BY <1>6 DEF AddNodes
  <2>2. ASSUME NEW f \in File, dag[f] # NoFile PROVE meta'[f] = dag[f]
    <3>1. CASE f \in Batch
      BY <1>6, <3>1 DEF AddNodes
    <3>2. CASE f \notin Batch
      BY <1>6, <2>2, <3>2 DEF AddNodes, Batch, Target, Changed, Control, MetaKept, Unchanged, Now
    <3> QED
      BY <3>1, <3>2
  <2>3. ASSUME full PROVE meta' = dag /\ dense' = dag
    <3>1. \A f \in File : meta'[f] = dag[f] /\ dense'[f] = dag[f]
      BY <1>6, <2>3 DEF AddNodes, Batch, Target, Empty
    <3> QED
      BY <1>6, <3>1 DEF AddNodes, Typed, Tree
  <2> QED
    BY <2>1, <2>2, <2>3
<1>7. CASE AddEdges
  BY <1>7 DEF AddEdges, faiss
<1>8. CASE InjectCallEdges \/ SaveSnapshot
  BY <1>8 DEF InjectCallEdges, SaveSnapshot, faiss
<1>9. CASE Validate
  <2>1. ASSUME dense = meta PROVE meta = dag
    <3>1. \A f \in File : meta[f] = dag[f]
      BY <1>9, <2>1 DEF Validate, FaissInMemory
    <3> QED
      BY <3>1 DEF Typed, Tree
  <2> QED
    BY <1>9, <2>1 DEF Validate, faiss
<1>10. CASE SaveGraph
  BY <1>10 DEF SaveGraph
<1>11. CASE UNCHANGED vars
  BY <1>11 DEF vars, faiss
<1> QED
  BY <1>1, <1>2, <1>3, <1>4, <1>5, <1>6, <1>7, <1>8, <1>9, <1>10, <1>11 DEF Next

LEMMA IndexedStep ==
    ASSUME Typed, GraphInMemory, Indexed, [Next]_vars
    PROVE  Indexed'
<1> USE DEF Indexed
<1>1. ASSUME NEW f \in File, Edit(f) PROVE Indexed'
  BY <1>1 DEF Edit, graph
<1>2. CASE Restart
  BY <1>2, NameFacts DEF Restart, Load
<1>3. ASSUME NEW force \in BOOLEAN, Start(force) PROVE Indexed'
  BY <1>3 DEF Start, graph
<1>4. CASE RemoveOldChunks
  BY <1>4 DEF RemoveOldChunks, ClearGraph, RemoveFileNodes, RemoveNodes
<1>5. CASE Clear \/ Fail
  BY <1>5 DEF Clear, Fail, ClearGraph, graph
<1>6. CASE AddNodes
  BY <1>6 DEF AddNodes
<1>7. CASE AddEdges
  <2>1. nodes' \cap Id \subseteq nodes \cap Id
    BY <1>7, NewEdgeFacts, NameFacts DEF AddEdges, GraphInMemory
  <2> QED
    BY <1>7, <2>1 DEF AddEdges
<1>8. CASE InjectCallEdges \/ Validate \/ SaveSnapshot \/ SaveGraph
  BY <1>8 DEF InjectCallEdges, Validate, SaveSnapshot, SaveGraph, graph
<1>9. CASE UNCHANGED vars
  BY <1>9 DEF vars, graph
<1> QED
  BY <1>1, <1>2, <1>3, <1>4, <1>5, <1>6, <1>7, <1>8, <1>9 DEF Next

LEMMA NothingAgrees ==
    \A f : Agrees([nodes |-> {}, edges |-> {}], f, NoFile)
BY DEF Agrees, NodesOf, Own, Defines

\* Only a run's end makes a file unchanged again: an edit does not, nor a crash,
\* nor the start of a run.
LEMMA UnchangedShrinks ==
    ASSUME Typed, Stable, Next, pc # "save", snap # NoGraph, snap' = snap
    PROVE  \A f \in File : Unchanged(f)' => Unchanged(f)
<1> USE DEF Unchanged, Now
<1>1. ASSUME NEW f \in File, Edit(f) PROVE \A g \in File : Unchanged(g)' => Unchanged(g)
  BY <1>1, EditFacts DEF Edit
<1>2. CASE Restart
  BY <1>2 DEF Restart, Stable, world
<1>3. ASSUME NEW force \in BOOLEAN, Start(force) PROVE \A g \in File : Unchanged(g)' => Unchanged(g)
  BY <1>3 DEF Start, world
<1>4. CASE RemoveOldChunks \/ Clear
  BY <1>4, Markers DEF RemoveOldChunks, Clear, world
<1>5. CASE Fail
  BY <1>5 DEF Fail, Stable, world
<1>6. CASE AddNodes \/ AddEdges \/ InjectCallEdges
  BY <1>6 DEF AddNodes, AddEdges, InjectCallEdges, world
<1>7. CASE Validate \/ SaveSnapshot
  BY <1>7 DEF Validate, SaveSnapshot, world
<1>8. CASE SaveGraph
  BY <1>8 DEF SaveGraph
<1> QED
  BY <1>1, <1>2, <1>3, <1>4, <1>5, <1>6, <1>7, <1>8 DEF Next

LEMMA GraphOnDiskStep ==
    ASSUME IndInv, [Next]_vars
    PROVE  GraphOnDisk'
<1> USE DEF IndInv, GraphOnDisk
<1> DEFINE Kept == saved' = saved /\ outdated' = outdated /\ snap' = snap
<1>1. ASSUME Kept, Next, pc # "save", pc' # "save", snap # NoGraph, ~outdated
      PROVE  OfSnapshot(OnDisk)'
  BY <1>1, UnchangedShrinks DEF OfSnapshot, OnDisk
<1>2. ASSUME NEW f \in File, Edit(f) PROVE GraphOnDisk'
  BY <1>1, <1>2 DEF Edit, file, graph, OnDisk, InMemory, Next
<1>3. CASE Restart
  <2>1. OnDisk' = InMemory'
    BY <1>3 DEF Restart, Load, OnDisk, InMemory, file, Typed
  <2> QED
    BY <1>1, <1>3, <2>1 DEF Restart, Next, file
<1>4. ASSUME NEW force \in BOOLEAN, Start(force) PROVE GraphOnDisk'
  BY <1>1, <1>4 DEF Start, file, Next
<1>5. CASE RemoveOldChunks
  <2>1. CASE saved' = NoGraph /\ \A f \in File : ~Unchanged(f)
    <3>1. \A f \in File : ~Unchanged(f)'
      BY <1>5, <2>1 DEF RemoveOldChunks, Unchanged, Now
    <3> QED
      BY <1>5, <2>1, <3>1, NothingAgrees DEF RemoveOldChunks, OfSnapshot, OnDisk
  <2>2. CASE UNCHANGED file
    BY <1>1, <1>5, <2>2 DEF RemoveOldChunks, file, Next
  <2> QED
    BY <1>5, <2>1, <2>2, RemovalFacts DEF RemoveOldChunks, ClearGraph
<1>6. CASE Clear
  BY <1>6 DEF Clear
<1>7. CASE Fail
  BY <1>1, <1>7 DEF Fail, file, Next, Control
<1>8. CASE AddNodes \/ AddEdges \/ InjectCallEdges \/ Validate
  BY <1>1, <1>8 DEF AddNodes, AddEdges, InjectCallEdges, Validate, file, Next
<1>9. CASE SaveSnapshot
  BY <1>9 DEF SaveSnapshot
<1>10. CASE SaveGraph
  <2>1. snap = dag /\ snap' = snap /\ stale' = stale /\ pc' = "idle"
    BY <1>10 DEF SaveGraph, Control, graph
  <2>2. ~outdated' => ~stale /\ OnDisk' = InMemory /\ InMemory' = InMemory
    <3>1. CASE WriteGraph
      <4>1. [nodes |-> nodes, edges |-> edges] \in [nodes : SUBSET Node, edges : SUBSET (Node \X Node)]
        BY DEF Typed, IsGraph
      <4>2. saved' # NoGraph
        BY <3>1, <4>1, CallGraphAssumption DEF WriteGraph
      <4> QED
        BY <1>10, <3>1, <4>2 DEF SaveGraph, WriteGraph, OnDisk, InMemory, graph
    <3>2. CASE KeepGraph
      BY <1>10, <3>2 DEF SaveGraph, KeepGraph, OnDisk, InMemory, graph, Typed, IsGraph
    <3> QED
      BY <1>10, <3>1, <3>2 DEF SaveGraph
  <2>3. ~stale => \A f \in File : Agrees(InMemory, f, snap[f])
    BY <1>10, <2>1 DEF SaveGraph, GraphInMemory, AgreesWith, Added, Running
  <2> QED
    BY <2>1, <2>2, <2>3 DEF OfSnapshot
<1>11. CASE UNCHANGED vars
  BY <1>11 DEF vars, file, graph, world, OnDisk, InMemory, OfSnapshot, Unchanged, Now
<1> QED
  BY <1>2, <1>3, <1>4, <1>5, <1>6, <1>7, <1>8, <1>9, <1>10, <1>11 DEF Next

\* Removal leaves of the changed files nothing, and of the others everything.
LEMMA RemovalKeeps ==
    ASSUME IndInv, RemoveOldChunks, ~stale'
    PROVE  AgreesWith(InMemory, Without(dag, Target))'
<1> USE DEF IndInv
<1>1. snap # NoGraph /\ ~full /\ pc = "remove" /\ pc' = "add" /\ dag' = dag /\ snap' = snap /\ full' = full
  BY DEF RemoveOldChunks, Control
<1>2. SUFFICES ASSUME NEW f \in File
               PROVE  Agrees(InMemory', f, IF f \in Changed THEN NoFile ELSE dag[f])
  BY <1>1 DEF AgreesWith, Without, Target, Changed
<1>3. f \notin Changed => dag[f] = snap[f] /\ (snap[f] # NoFile => Unchanged(f))
  BY <1>1 DEF Changed, Unchanged, Now
<1>4. CASE nodes' = {} /\ edges' = {} /\ \A g \in File : ~Unchanged(g)
  BY <1>3, <1>4, NothingAgrees DEF InMemory
<1>5. CASE RemoveFileNodes(ToRemove) /\ ~stale
  <2> DEFINE gone == {n \in nodes \cap Id : n.file \in ToRemove}
  <2>1. /\ InMemory'.nodes = nodes \ gone
        /\ InMemory'.edges = {e \in edges : e[1] \notin gone /\ e[2] \notin gone}
    BY <1>5 DEF RemoveFileNodes, RemoveNodes, InMemory
  <2>2. snap[f] = NoFile \/ Unchanged(f) => Agrees(InMemory, f, snap[f])
    BY <1>1, <1>5 DEF GraphInMemory, OfSnapshot
  <2>3. InMemory.nodes = nodes /\ InMemory.edges = edges
    BY DEF InMemory
  <2>4. CASE f \in ToRemove
    <3>1. NodesOf(InMemory', f) = {} /\ \A e \in InMemory'.edges : e[1].file # f
      BY <2>1, <2>4 DEF NodesOf, Typed, IsGraph
    <3> QED
      BY <2>4, <3>1 DEF Agrees, Own, Defines, ToRemove
  <2>5. CASE f \notin ToRemove
    <3>1. Agrees(InMemory, f, IF f \in Changed THEN NoFile ELSE dag[f])
      BY <1>3, <2>2, <2>5 DEF ToRemove
    <3>2. NodesOf(InMemory', f) = NodesOf(InMemory, f) /\ InMemory'.edges \subseteq InMemory.edges
      BY <2>1, <2>3, <2>5 DEF NodesOf
    <3> QED
      BY <3>1, <3>2 DEF Agrees
  <2> QED
    BY <2>4, <2>5
<1> QED
  BY <1>4, <1>5, RemovalFacts DEF RemoveOldChunks, ClearGraph, RemoveFileNodes, RemoveNodes

\* What the batch adds is what its texts make.
LEMMA AdditionAgrees ==
    ASSUME IndInv, AddNodes, ~stale
    PROVE  AgreesWith(InMemory, dag)'
<1> USE DEF IndInv
<1>1. SUFFICES ASSUME NEW f \in File PROVE Agrees(InMemory', f, dag[f])
  BY DEF AddNodes, AgreesWith
<1>2. Agrees(InMemory, f, IF f \in Target THEN NoFile ELSE dag[f])
  BY DEF AddNodes, GraphInMemory, AgreesWith, Without
<1>3. /\ InMemory'.nodes = InMemory.nodes \cup IdsOf(dag, Batch)
      /\ InMemory'.edges = InMemory.edges
  BY DEF AddNodes, InMemory
<1>4. NodesOf(InMemory', f) = NodesOf(InMemory, f) \cup {n \in IdsOf(dag, Batch) : n.file = f}
  BY <1>3, BatchFacts DEF NodesOf
<1>5. dag \in Tree /\ Batch \subseteq File /\ (f \in Batch <=> f \in Target /\ dag[f] # NoFile)
  BY BatchFacts DEF Typed, Batch, Target, Changed
<1>6. {n \in IdsOf(dag, Batch) : n.file = f} = IF f \in Batch THEN Own(f, dag[f]) ELSE {}
  BY <1>5, IdsFacts, IdFacts DEF Own, Tree
<1>7. NodesOf(InMemory', f) = Own(f, dag[f])
  BY <1>2, <1>4, <1>5, <1>6 DEF Agrees, Own, Defines
<1> QED
  BY <1>2, <1>3, <1>7 DEF Agrees, CallsOf

\* An edge that is added, by the batch or by the resolvers, is a call.
LEMMA MoreEdgesAgree ==
    ASSUME IndInv, ~stale, AddEdges \/ InjectCallEdges
    PROVE  AgreesWith(InMemory, dag)'
<1> USE DEF IndInv
<1>1. SUFFICES ASSUME NEW f \in File PROVE Agrees(InMemory', f, dag[f])
  BY DEF AddEdges, InjectCallEdges, AgreesWith
<1>2. Agrees(InMemory, f, dag[f])
  BY DEF AddEdges, InjectCallEdges, GraphInMemory, AgreesWith, Added, Running
<1>3. /\ InMemory'.nodes \cap Id = InMemory.nodes \cap Id
      /\ \A e \in InMemory'.edges \ InMemory.edges :
           \E c \in CallsOf(dag[e[1].file]) : c.name = NameOf(e[2])
  <2>1. CASE AddEdges
    BY <2>1, NewEdgeFacts, NameFacts DEF AddEdges, InMemory, GraphInMemory
  <2>2. CASE InjectCallEdges
    <3>1. meta = dag /\ dag \in Tree
      BY <2>2 DEF InjectCallEdges, Filled, Typed
    <3>2. ASSUME NEW e \in Resolvable PROVE \E c \in CallsOf(dag[e[1].file]) : c.name = NameOf(e[2])
      BY <3>1, <3>2, IdsFacts, NameFacts DEF Resolvable, CallsOf, Defines
    <3> QED
      BY <2>2, <3>2 DEF InjectCallEdges, InMemory
  <2> QED
    BY <2>1, <2>2
<1> QED
  BY <1>2, <1>3 DEF Agrees, NodesOf

LEMMA GraphInMemoryStep ==
    ASSUME IndInv, [Next]_vars
    PROVE  GraphInMemory'
<1> USE DEF IndInv, GraphInMemory, Added, Running
<1>1. ASSUME NEW f \in File, Edit(f) PROVE GraphInMemory'
  BY <1>1, UnchangedShrinks DEF Edit, graph, InMemory, AgreesWith, OfSnapshot, Next, Target, Batch, Changed
<1>2. CASE Restart
  <2>1. InMemory' = OnDisk /\ stale' = outdated /\ pc' = "idle" /\ snap' = snap
    BY <1>2 DEF Restart, Load, OnDisk, InMemory, Typed
  <2> QED
    BY <1>2, <2>1, UnchangedShrinks DEF Restart, OfSnapshot, GraphOnDisk, Next
<1>3. ASSUME NEW force \in BOOLEAN, Start(force) PROVE GraphInMemory'
  BY <1>3, UnchangedShrinks DEF Start, graph, InMemory, OfSnapshot, Next
<1>4. CASE RemoveOldChunks
  BY <1>4, RemovalKeeps DEF RemoveOldChunks
<1>5. CASE Clear
  <2>1. pc' = "add" /\ snap' = NoGraph /\ Without(dag, Target)' = Empty
    BY <1>5 DEF Clear, Control, Without, Target, Empty
  <2> QED
    BY <1>5, <2>1, NothingAgrees DEF Clear, ClearGraph, InMemory, AgreesWith, Empty
<1>6. CASE Fail
  BY <1>6 DEF Fail, Control
<1>7. CASE AddNodes
  BY <1>7, AdditionAgrees DEF AddNodes, Batch, Target, Changed
<1>8. CASE AddEdges \/ InjectCallEdges
  BY <1>8, MoreEdgesAgree DEF AddEdges, InjectCallEdges
<1>9. CASE Validate \/ SaveSnapshot
  BY <1>9 DEF Validate, SaveSnapshot, graph, InMemory, AgreesWith
<1>10. CASE SaveGraph
  BY <1>10 DEF SaveGraph, graph, InMemory, AgreesWith, OfSnapshot, Control
<1>11. CASE UNCHANGED vars
  BY <1>11 DEF vars, graph, world, InMemory, AgreesWith, OfSnapshot, Unchanged, Now, Target, Batch, Changed, Without, IdsOf
<1> QED
  BY <1>1, <1>2, <1>3, <1>4, <1>5, <1>6, <1>7, <1>8, <1>9, <1>10, <1>11 DEF Next

\* The targets of a call meant for one function have it among them, for the
\* import or the caller's own file can single out no other.
LEMMA ChosenIsTarget ==
    ASSUME Typed, full, meta = dag, NEW f \in File, NEW g \in File, Defines(dag[g]),
           NEW c, c.name = dag[g].body.name, Chosen(f, c, g)
    PROVE  IdOf(g, dag[g]) \in CallTargets(f, c)
<1> DEFINE all == Candidates(c.name)
<1>1. g \in Batch /\ Batch \subseteq File /\ dag \in Tree
  BY BatchFacts DEF Batch, Target, Defines, Typed
<1>2. IdOf(g, dag[g]) \in all
  BY <1>1, IdsFacts, IdFacts DEF Candidates, Tree
<1>3. \A n \in all : n.file \in File /\ Defines(dag[n.file]) /\ n = IdOf(n.file, dag[n.file])
                     /\ dag[n.file].body.name = c.name
  BY <1>1, IdsFacts DEF Candidates, IdOf
<1>4. \A n \in In(all, f) \cup In(all, c.from) : n = IdOf(g, dag[g])
  BY <1>3 DEF Chosen, In
<1>5. \A ids : Only(ids) => ids # {}
  BY FS_EmptySet DEF Only
<1> QED
  BY <1>2, <1>4, <1>5 DEF CallTargets

LEMMA FoundStep ==
    ASSUME IndInv, [Next]_vars
    PROVE  Found'
<1> USE DEF IndInv, Found
<1>1. ASSUME CallersFound, meta' = meta, edges \subseteq edges' PROVE CallersFound'
  BY <1>1 DEF CallersFound, Callers, Chosen
<1>2. ASSUME NEW f \in File, Edit(f) PROVE Found'
  BY <1>1, <1>2 DEF Edit, graph
<1>3. CASE AddEdges
  <2>1. ASSUME full, NEW f \in File, NEW g \in File, Defines(dag[f]), Defines(dag[g]),
               NEW c \in dag[f].body.calls, c.name = dag[g].body.name, Chosen(f, c, g)
        PROVE  IdOf(f, dag[f]) \in Callers(IdOf(g, dag[g]))'
    <3>1. IdOf(g, dag[g]) \in CallTargets(f, c) /\ f \in Batch
      BY <1>3, <2>1, ChosenIsTarget DEF AddEdges, Filled, Batch, Target, Defines
    <3>2. <<IdOf(f, dag[f]), IdOf(g, dag[g])>> \in NewEdges
      BY <2>1, <3>1 DEF NewEdges
    <3> QED
      BY <1>3, <3>2 DEF AddEdges, Callers
  <2> QED
    BY <1>3, <2>1 DEF AddEdges, Filled, CallersFound, Chosen
<1>4. CASE InjectCallEdges
  BY <1>1, <1>4 DEF InjectCallEdges
<1>5. CASE Validate \/ SaveSnapshot
  BY <1>1, <1>5 DEF Control, Validate, SaveSnapshot, graph
<1>6. CASE Restart \/ RemoveOldChunks \/ Clear \/ Fail \/ AddNodes \/ SaveGraph
  BY <1>6 DEF Restart, RemoveOldChunks, Clear, Fail, AddNodes, SaveGraph
<1>7. ASSUME NEW force \in BOOLEAN, Start(force) PROVE Found'
  BY <1>7 DEF Start
<1>8. CASE UNCHANGED vars
  BY <1>1, <1>8 DEF vars, graph
<1> QED
  BY <1>2, <1>3, <1>4, <1>5, <1>6, <1>7, <1>8 DEF Next

-----------------------------------------------------------------------------
\* The theorems.

\* Whatever files change and whatever fails: through the phases of a run metadata,
\* vectors and graph are, file by file, those of the snapshot or of the tree the
\* run works from, in memory and on disk.
THEOREM Invariant == Spec => []IndInv
<1>1. Init => IndInv
  <2> SUFFICES ASSUME Init PROVE IndInv
    OBVIOUS
  <2>1. Typed /\ Control /\ Indexed /\ Found
    BY TypedInit DEF Init, Control, Indexed, Found
  <2>2. Stable
    BY Bounds DEF Init, Stable, Editions, Empty
  <2>3. MetaKept /\ FaissOnDisk /\ FaissInMemory /\ Filled
    BY DEF Init, MetaKept, FaissOnDisk, FaissInMemory, Filled, Running, Added
  <2>4. GraphOnDisk /\ GraphInMemory
    BY DEF Init, GraphOnDisk, GraphInMemory, Running, Added
  <2> QED
    BY <2>1, <2>2, <2>3, <2>4 DEF IndInv
<1>2. IndInv /\ [Next]_vars => IndInv'
  <2> SUFFICES ASSUME IndInv, [Next]_vars PROVE IndInv'
    OBVIOUS
  <2>1. Typed' /\ Control' /\ Stable' /\ Indexed'
    BY TypedStep, ControlStep, StableStep, IndexedStep DEF IndInv
  <2>2. MetaKept' /\ FaissOnDisk' /\ FaissInMemory' /\ Filled'
    BY MetaKeptStep, FaissOnDiskStep, FaissInMemoryStep, FilledStep DEF IndInv
  <2>3. GraphOnDisk' /\ GraphInMemory' /\ Found'
    BY GraphOnDiskStep, GraphInMemoryStep, FoundStep
  <2> QED
    BY <2>1, <2>2, <2>3 DEF IndInv
<1> QED
  BY <1>1, <1>2, PTL DEF Spec

\* With nothing left to index the functions in the graph are those of the files
\* (GraphIntegration and remove_file_nodes), whatever failed on the way, unless
\* the graph was read back from a file that an earlier run did not write.
THEOREM GraphInSync == Spec => []InSync
<1>1. IndInv => InSync
  <2> SUFFICES ASSUME IndInv, UpToDate, ~stale PROVE nodes \cap Id = IdsOf(src, File)
    BY DEF InSync
  <2>1. snap = src /\ src \in Tree /\ snap # NoGraph
    BY Markers DEF IndInv, Typed, UpToDate
  <2>2. \A f \in File : Agrees(InMemory, f, src[f])
    BY <2>1 DEF IndInv, GraphInMemory, OfSnapshot, Unchanged, Now, UpToDate
  <2>3. \A f \in File : {n \in nodes \cap Id : n.file = f} = Own(f, src[f])
    BY <2>2 DEF Agrees, NodesOf, InMemory
  <2>4. ASSUME NEW n \in nodes \cap Id PROVE n \in IdsOf(src, File)
    BY <2>1, <2>3, NameFacts, IdsFacts DEF Own
  <2>5. ASSUME NEW n \in IdsOf(src, File) PROVE n \in nodes \cap Id
    BY <2>1, <2>3, IdsFacts DEF Own
  <2> QED
    BY <2>4, <2>5
<1> QED
  BY <1>1, Invariant, PTL

\* With nothing left to index no edge outlives its call, under the same condition;
\* at all times edges end in nodes and every function is found by its name.
THEOREM GraphSound == Spec => []GraphIsSound
<1>1. IndInv => GraphIsSound
  <2> SUFFICES ASSUME IndInv PROVE GraphIsSound
    OBVIOUS
  <2>1. ASSUME UpToDate, ~stale, NEW e \in edges
        PROVE  \E c \in CallsOf(src[e[1].file]) : c.name = NameOf(e[2])
    <3>1. snap = src /\ snap # NoGraph /\ e[1].file \in File
      BY <2>1, Markers, NameFacts DEF IndInv, Typed, IsGraph, UpToDate
    <3>2. Agrees(InMemory, e[1].file, src[e[1].file])
      BY <2>1, <3>1 DEF IndInv, GraphInMemory, OfSnapshot, Unchanged, Now, UpToDate
    <3> QED
      BY <3>2 DEF Agrees, InMemory
  <2> QED
    BY <2>1 DEF GraphIsSound, IndInv, Indexed
<1> QED
  BY <1>1, Invariant, PTL

\* With nothing left to index, a new process that loads the graph file serves the
\* graph that was served, unless the last run left the file as it was.
THEOREM RestartHarmless == Spec => []RestartIsHarmless
<1>1. IndInv => RestartIsHarmless
  <2> SUFFICES ASSUME IndInv, UpToDate, ~outdated
               PROVE  IF saved = NoGraph THEN nodes = {} ELSE saved = [nodes |-> nodes, edges |-> edges]
    BY DEF RestartIsHarmless
  <2>1. OnDisk = InMemory
    BY Markers DEF IndInv, Typed, UpToDate, GraphOnDisk
  <2> QED
    BY <2>1 DEF OnDisk, InMemory
<1> QED
  BY <1>1, Invariant, PTL

\* After a full run, whatever part of the calls the resolvers found, the direct
\* callers of every function are found (_resolve_call_target, inject_call_edges).
THEOREM FullRunComplete == Spec => FullRunFindsCallers
<1>1. IndInv /\ [Next]_vars => [pc = "save" /\ full /\ pc' = "idle" => CallersFound']_vars
  <2> SUFFICES ASSUME IndInv, Next, pc = "save", full, pc' = "idle" PROVE CallersFound'
    OBVIOUS
  <2>1. SaveGraph \/ \E f \in File : Edit(f)
    BY DEF Next, Restart, Start, RemoveOldChunks, Clear, Fail, AddNodes, AddEdges, InjectCallEdges, Validate, SaveSnapshot
  <2>2. meta' = meta /\ edges' = edges
    BY <2>1 DEF SaveGraph, Edit, graph
  <2>3. CallersFound
    BY DEF IndInv, Found
  <2> QED
    BY <2>2, <2>3 DEF CallersFound, Callers, Chosen
<1> QED
  BY <1>1, Invariant, PTL DEF Spec, FullRunFindsCallers
===============================================================================

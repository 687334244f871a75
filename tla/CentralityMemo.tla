---------------------------- MODULE CentralityMemo ----------------------------
(***************************************************************************)
(* graph/graph_storage.py keeps the centrality scores of the call graph,   *)
(* per method, tagged with the version the graph had when they were        *)
(* computed.  Threads that index mutate the graph; threads that search     *)
(* look the scores up and compute them on a miss                           *)
(* (search/centrality_ranker.py).  No lock orders the two.                 *)
(*                                                                         *)
(* The graph is the set of mutations that have reached it; scores are the  *)
(* graph they were computed from.  A mutation changes the graph, draws a   *)
(* number, and assigns it to _version: three steps others see.             *)
(***************************************************************************)
EXTENDS MemoParameters

VARIABLES
    made,      \* mutations begun
    graph,     \* the mutations that have changed the graph
    completed, \* history: those that have assigned their version, too
    count,     \* _version_seq: the next number itertools.count() gives
    version,   \* _version
    cache,     \* _centrality_cache
    mpc, mutation, drawn,            \* a mutator: where it is, what it makes
    rpc, method, entry, captured, scores  \* a ranker: what it looks for and holds

mutators == <<made, graph, completed, count, version, mpc, mutation, drawn>>
rankers  == <<cache, rpc, method, entry, captured, scores>>
vars == <<mutators, rankers>>

\* The constructor bumps once.
Init ==
    /\ made = 0 /\ graph = {} /\ completed = {}
    /\ count = 1 /\ version = 0
    /\ cache = [m \in Methods |-> NoEntry]
    /\ mpc = [t \in Mutators |-> "idle"]
    /\ mutation = [t \in Mutators |-> 0]
    /\ drawn = [t \in Mutators |-> 0]
    /\ rpc = [t \in Rankers |-> "idle"]
    /\ method \in [Rankers -> Methods]
    /\ entry = [t \in Rankers |-> NoEntry]
    /\ captured = [t \in Rankers |-> 0]
    /\ scores = [t \in Rankers |-> {}]

-----------------------------------------------------------------------------
\* add_node, add_call_edge, upgrade_call_edge, add_relationship_edge, load,
\* clear and remove_file_nodes: the graph first, then _bump_version.

Change(t) ==
    /\ mpc[t] = "idle" /\ made < MaxMutations
    /\ made' = made + 1
    /\ mutation' = [mutation EXCEPT ![t] = made + 1]
    /\ graph' = graph \cup {made + 1}
    /\ mpc' = [mpc EXCEPT ![t] = "changed"]
    /\ UNCHANGED <<completed, count, version, drawn, rankers>>

\* Mutant: a plain increment, which two threads can compute from one value.
Draw_PlainIncrement(t) ==
    /\ mpc[t] = "changed"
    /\ drawn' = [drawn EXCEPT ![t] = version + 1]
    /\ mpc' = [mpc EXCEPT ![t] = "drawn"]
    /\ UNCHANGED <<made, graph, completed, count, version, mutation, rankers>>

\* next(self._version_seq), atomic in CPython.
Draw(t) ==
    /\ mpc[t] = "changed"
    /\ drawn' = [drawn EXCEPT ![t] = count]
    /\ count' = count + 1
    /\ mpc' = [mpc EXCEPT ![t] = "drawn"]
    /\ UNCHANGED <<made, graph, completed, version, mutation, rankers>>

\* The assignment is a step of its own: a later number may be there already.
Assign(t) ==
    /\ mpc[t] = "drawn"
    /\ version' = drawn[t]
    /\ completed' = completed \cup {mutation[t]}
    /\ mpc' = [mpc EXCEPT ![t] = "idle"]
    /\ UNCHANGED <<made, graph, count, mutation, drawn, rankers>>

-----------------------------------------------------------------------------
\* CentralityRanker.get_centrality_scores.

\* get_cached_centrality reads the entry, and only then compares versions.
LookUp(t, m) ==
    /\ rpc[t] = "idle"
    /\ method' = [method EXCEPT ![t] = m]
    /\ entry' = [entry EXCEPT ![t] = cache[m]]
    /\ rpc' = [rpc EXCEPT ![t] = "looked"]
    /\ UNCHANGED <<mutators, cache, captured, scores>>

\* Mutant: the version is not looked at.
Valid_AnyVersion(e) == e # NoEntry

Valid(e) == e # NoEntry /\ e.version = version

Hit(t) ==
    /\ rpc[t] = "looked" /\ Valid(entry[t])
    /\ rpc' = [rpc EXCEPT ![t] = "idle"]
    /\ entry' = [entry EXCEPT ![t] = NoEntry]
    /\ UNCHANGED <<mutators, cache, method, captured, scores>>

\* A miss on a graph with nodes: the version is taken before the computation.
Capture(t) ==
    /\ rpc[t] = "looked" /\ ~Valid(entry[t])
    /\ captured' = [captured EXCEPT ![t] = version]
    /\ entry' = [entry EXCEPT ![t] = NoEntry]
    /\ rpc' = [rpc EXCEPT ![t] = "captured"]
    /\ UNCHANGED <<mutators, cache, method, scores>>

\* The scores reflect at least what had reached the graph when they began.
Compute(t) ==
    /\ rpc[t] = "captured"
    /\ scores' = [scores EXCEPT ![t] = graph]
    /\ rpc' = [rpc EXCEPT ![t] = "computed"]
    /\ UNCHANGED <<mutators, cache, method, entry, captured>>

\* An empty graph, no convergence, or a graph that changed under the
\* iteration: nothing is cached.
GiveUp(t) ==
    /\ rpc[t] = "captured"
    /\ rpc' = [rpc EXCEPT ![t] = "idle"]
    /\ UNCHANGED <<mutators, cache, method, entry, captured, scores>>

\* Mutant: the version is read after the computation.
Store_LateVersion(t) ==
    /\ rpc[t] = "computed"
    /\ cache' = [cache EXCEPT ![method[t]] = [version |-> version, scores |-> scores[t]]]
    /\ rpc' = [rpc EXCEPT ![t] = "idle"]
    /\ UNCHANGED <<mutators, method, entry, captured, scores>>

\* set_cached_centrality overwrites whatever is there, newer entries too.
Store(t) ==
    /\ rpc[t] = "computed"
    /\ cache' = [cache EXCEPT ![method[t]] = [version |-> captured[t], scores |-> scores[t]]]
    /\ rpc' = [rpc EXCEPT ![t] = "idle"]
    /\ UNCHANGED <<mutators, method, entry, captured, scores>>

MutatorStep(t) == Change(t) \/ Draw(t) \/ Assign(t)
RankerStep(t) ==
    \/ \E m \in Methods : LookUp(t, m)
    \/ Hit(t) \/ Capture(t) \/ Compute(t) \/ GiveUp(t) \/ Store(t)

Next ==
    \/ \E t \in Mutators : MutatorStep(t)
    \/ \E t \in Rankers : RankerStep(t)

Spec == Init /\ [][Next]_vars

-----------------------------------------------------------------------------
\* TypeOK: every variable stays in its range; what a cache holds is an entry
\* or nothing.
TypeOK ==
    /\ made \in 0 .. MaxMutations
    /\ graph \subseteq Mutation /\ completed \subseteq Mutation
    /\ count \in Nat /\ version \in Nat
    /\ cache \in [Methods -> Entry \cup {NoEntry}]
    /\ mpc \in [Mutators -> {"idle", "changed", "drawn"}]
    /\ mutation \in [Mutators -> 0 .. MaxMutations]
    /\ drawn \in [Mutators -> Nat]
    /\ rpc \in [Rankers -> {"idle", "looked", "captured", "computed"}]
    /\ method \in [Rankers -> Methods]
    /\ entry \in [Rankers -> Entry \cup {NoEntry}]
    /\ captured \in [Rankers -> Nat]
    /\ scores \in [Rankers -> SUBSET Mutation]

\* An entry whose version is the graph's reflects every mutation that has
\* completed, however the threads interleave.
NoStaleEntry ==
    \A m \in Methods :
        cache[m] # NoEntry /\ cache[m].version = version =>
            completed \subseteq cache[m].scores

\* "Never a stale read": scores served from the cache reflect every mutation
\* completed by the time they are served, though the entry and the version
\* are read one after the other.
ReadsAreFresh == \A t \in Rankers : Hit(t) => completed \subseteq entry[t].scores
NeverAStaleRead == [][ReadsAreFresh]_vars
=============================================================================

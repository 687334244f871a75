------------------------ MODULE FurtherServices_proofs ------------------------
(* Proofs about the components of FurtherServices, for every value of their      *)
(* parameters.  Each section names the variables as its component does.          *)
EXTENDS FurtherServices, SequencePlaces_proofs

LEMMA FurtherStep ==
  ASSUME [FurtherNext]_FurtherVars
  PROVE  /\ part' = part
         /\ part = "reranking" => [Reranking!Next]_(Reranking!vars)
         /\ part = "settings" => [Settings!Next]_(Settings!vars)
         /\ part = "memo" => [Memo!Next]_(Memo!vars)
<1>1. CASE UNCHANGED FurtherVars
  BY <1>1 DEF FurtherVars, vars, After9, Reranking!vars, Settings!vars,
              Memo!vars, Memo!mutators, Memo!rankers
<1>2. CASE FurtherNext
  BY <1>2 DEF FurtherNext, Complete
<1> QED
  BY <1>1, <1>2

LEMMA FurtherStart ==
  ASSUME FurtherInit
  PROVE  /\ part = "reranking" => Reranking!Init
         /\ part = "settings" => Settings!Init
         /\ part = "memo" => Memo!Init
  BY DEF FurtherInit

------------------------------------------------------------------------------
(* CentralityMemo.  NoStaleEntry is not inductive: a version assigned late might *)
(* be the tag of an old entry.  The strengthening says that it cannot: a drawn    *)
(* number is nobody else's, neither the graph's version nor a tag anywhere.       *)

made == v1
graph == v2
completed == v3
count == v4
version == v5
cache == v6
mpc == v7
mutation == v8
drawn == v9
rpc == v10
method == v11
entry == v12
captured == v13
scores == v14
USE DEF made, graph, completed, count, version, cache, mpc, mutation, drawn,
        rpc, method, entry, captured, scores

LEMMA MemoConstants == MaxMutations \in Nat /\ NoEntry \notin Memo!Entry
  BY MemoAssumption DEF Entry, Mutation, Memo!Entry, Memo!Mutation

\* Mutations complete after they have changed the graph.
CompletedReached ==
    /\ completed \subseteq graph
    /\ \A t \in Mutators : mpc[t] # "idle" => mutation[t] \in graph

\* Numbers still to be drawn are above every number in use.
CountIsFresh ==
    /\ version < count
    /\ \A t \in Mutators : mpc[t] = "drawn" => drawn[t] < count
    /\ \A t \in Rankers : captured[t] < count
    /\ \A t \in Rankers : entry[t] # NoEntry => entry[t].version < count
    /\ \A m \in Methods : cache[m] # NoEntry => cache[m].version < count

\* A drawn number is in use nowhere until it is assigned.
DrawnIsUnused ==
    \A t \in Mutators : mpc[t] = "drawn" =>
        /\ drawn[t] # version
        /\ \A u \in Mutators : u # t /\ mpc[u] = "drawn" => drawn[u] # drawn[t]
        /\ \A r \in Rankers : captured[r] # drawn[t]
        /\ \A r \in Rankers : entry[r] # NoEntry => entry[r].version # drawn[t]
        /\ \A m \in Methods : cache[m] # NoEntry => cache[m].version # drawn[t]

\* Scores tagged with the graph's version are up to date: those on their way
\* to the cache, those in it, and those taken out of it.
ComputedIsFresh ==
    \A r \in Rankers :
        rpc[r] = "computed" /\ captured[r] = version => completed \subseteq scores[r]
LookedUpIsFresh ==
    \A r \in Rankers :
        entry[r] # NoEntry /\ entry[r].version = version => completed \subseteq entry[r].scores

MemoInv ==
    /\ Memo!TypeOK
    /\ CompletedReached
    /\ CountIsFresh
    /\ DrawnIsUnused
    /\ ComputedIsFresh
    /\ Memo!NoStaleEntry
    /\ LookedUpIsFresh

-----------------------------------------------------------------------------
LEMMA MemoInit == Memo!Init => MemoInv
<1> SUFFICES ASSUME Memo!Init PROVE MemoInv
  OBVIOUS
<1> USE MemoConstants DEF Memo!Init
<1>1. Memo!TypeOK
  BY DEF Memo!TypeOK
<1>2. CompletedReached
  BY DEF CompletedReached
<1>3. CountIsFresh
  BY DEF CountIsFresh
<1>4. DrawnIsUnused
  BY DEF DrawnIsUnused
<1>5. ComputedIsFresh /\ Memo!NoStaleEntry /\ LookedUpIsFresh
  BY DEF ComputedIsFresh, Memo!NoStaleEntry, LookedUpIsFresh
<1> QED
  BY <1>1, <1>2, <1>3, <1>4, <1>5 DEF MemoInv

\* Every action keeps the types; a mutation that completes is one that was made.
LEMMA MemoTypes == Memo!TypeOK /\ CompletedReached /\ [Memo!Next]_(Memo!vars) => Memo!TypeOK'
<1> SUFFICES ASSUME Memo!TypeOK, CompletedReached, [Memo!Next]_(Memo!vars) PROVE Memo!TypeOK'
  OBVIOUS
<1> USE MemoConstants DEF Memo!TypeOK, Memo!Mutation
<1>1. ASSUME NEW t \in Mutators, Memo!Change(t) PROVE Memo!TypeOK'
  BY <1>1 DEF Memo!Change, Memo!rankers
<1>2. ASSUME NEW t \in Mutators, Memo!Draw(t) PROVE Memo!TypeOK'
  BY <1>2 DEF Memo!Draw, Memo!rankers
<1>3. ASSUME NEW t \in Mutators, Memo!Assign(t) PROVE Memo!TypeOK'
  BY <1>3 DEF Memo!Assign, Memo!rankers, CompletedReached
<1>4. ASSUME NEW t \in Rankers, NEW m \in Methods, Memo!LookUp(t, m) PROVE Memo!TypeOK'
  BY <1>4 DEF Memo!LookUp, Memo!mutators
<1>5. ASSUME NEW t \in Rankers, Memo!Hit(t) PROVE Memo!TypeOK'
  BY <1>5 DEF Memo!Hit, Memo!mutators
<1>6. ASSUME NEW t \in Rankers, Memo!Capture(t) PROVE Memo!TypeOK'
  BY <1>6 DEF Memo!Capture, Memo!mutators
<1>7. ASSUME NEW t \in Rankers, Memo!Compute(t) PROVE Memo!TypeOK'
  BY <1>7 DEF Memo!Compute, Memo!mutators
<1>8. ASSUME NEW t \in Rankers, Memo!GiveUp(t) PROVE Memo!TypeOK'
  BY <1>8 DEF Memo!GiveUp, Memo!mutators
<1>9. ASSUME NEW t \in Rankers, Memo!Store(t) PROVE Memo!TypeOK'
  BY <1>9 DEF Memo!Store, Memo!mutators, Memo!Entry
<1>10. CASE UNCHANGED Memo!vars
  BY <1>10 DEF Memo!vars, Memo!mutators, Memo!rankers
<1> QED
  BY <1>1, <1>2, <1>3, <1>4, <1>5, <1>6, <1>7, <1>8, <1>9, <1>10
  DEF Memo!Next, Memo!MutatorStep, Memo!RankerStep

\* Every step keeps the whole invariant, one conjunct at a time.
LEMMA MemoStep == MemoInv /\ [Memo!Next]_(Memo!vars) => MemoInv'
<1> SUFFICES ASSUME MemoInv, [Memo!Next]_(Memo!vars) PROVE MemoInv'
  OBVIOUS
<1>t. Memo!TypeOK /\ Memo!TypeOK'
  BY MemoTypes DEF MemoInv
<1> USE <1>t, MemoConstants DEF MemoInv
<1>1. ASSUME NEW t \in Mutators, Memo!Change(t) PROVE MemoInv'
  <2>1. CompletedReached'
    BY <1>1 DEF Memo!Change, Memo!rankers, CompletedReached, Memo!TypeOK
  <2>2. CountIsFresh'
    BY <1>1 DEF Memo!Change, Memo!rankers, CountIsFresh, Memo!TypeOK
  <2>3. DrawnIsUnused'
    BY <1>1 DEF Memo!Change, Memo!rankers, DrawnIsUnused, Memo!TypeOK, CountIsFresh
  <2>4. ComputedIsFresh'
    BY <1>1 DEF Memo!Change, Memo!rankers, ComputedIsFresh, Memo!TypeOK
  <2>5. Memo!NoStaleEntry'
    BY <1>1 DEF Memo!Change, Memo!rankers, Memo!NoStaleEntry, Memo!TypeOK
  <2>6. LookedUpIsFresh'
    BY <1>1 DEF Memo!Change, Memo!rankers, LookedUpIsFresh, Memo!TypeOK
  <2> QED
    BY <2>1, <2>2, <2>3, <2>4, <2>5, <2>6
<1>2. ASSUME NEW t \in Mutators, Memo!Draw(t) PROVE MemoInv'
  <2>1. CompletedReached'
    BY <1>2 DEF Memo!Draw, Memo!rankers, CompletedReached, Memo!TypeOK
  <2>2. CountIsFresh'
    BY <1>2 DEF Memo!Draw, Memo!rankers, CountIsFresh, Memo!TypeOK, Memo!Entry
  <2>3. DrawnIsUnused'
    BY <1>2 DEF Memo!Draw, Memo!rankers, DrawnIsUnused, Memo!TypeOK, CountIsFresh
  <2>4. ComputedIsFresh'
    BY <1>2 DEF Memo!Draw, Memo!rankers, ComputedIsFresh, Memo!TypeOK
  <2>5. Memo!NoStaleEntry'
    BY <1>2 DEF Memo!Draw, Memo!rankers, Memo!NoStaleEntry, Memo!TypeOK
  <2>6. LookedUpIsFresh'
    BY <1>2 DEF Memo!Draw, Memo!rankers, LookedUpIsFresh, Memo!TypeOK
  <2> QED
    BY <2>1, <2>2, <2>3, <2>4, <2>5, <2>6
<1>3. ASSUME NEW t \in Mutators, Memo!Assign(t) PROVE MemoInv'
  <2>1. CompletedReached'
    BY <1>3 DEF Memo!Assign, Memo!rankers, CompletedReached, Memo!TypeOK, DrawnIsUnused
  <2>2. CountIsFresh'
    BY <1>3 DEF Memo!Assign, Memo!rankers, CountIsFresh, Memo!TypeOK, DrawnIsUnused
  <2>3. DrawnIsUnused'
    BY <1>3 DEF Memo!Assign, Memo!rankers, DrawnIsUnused, Memo!TypeOK, CountIsFresh
  <2>4. ComputedIsFresh'
    BY <1>3 DEF Memo!Assign, Memo!rankers, ComputedIsFresh, Memo!TypeOK, DrawnIsUnused
  <2>5. Memo!NoStaleEntry'
    BY <1>3 DEF Memo!Assign, Memo!rankers, Memo!NoStaleEntry, Memo!TypeOK, DrawnIsUnused
  <2>6. LookedUpIsFresh'
    BY <1>3 DEF Memo!Assign, Memo!rankers, LookedUpIsFresh, Memo!TypeOK, DrawnIsUnused
  <2> QED
    BY <2>1, <2>2, <2>3, <2>4, <2>5, <2>6
<1>4. ASSUME NEW t \in Rankers, NEW m \in Methods, Memo!LookUp(t, m) PROVE MemoInv'
  <2>1. CompletedReached'
    BY <1>4 DEF Memo!LookUp, Memo!mutators, CompletedReached, Memo!TypeOK
  <2>2. CountIsFresh'
    BY <1>4 DEF Memo!LookUp, Memo!mutators, CountIsFresh, Memo!TypeOK
  <2>3. DrawnIsUnused'
    BY <1>4 DEF Memo!LookUp, Memo!mutators, DrawnIsUnused, Memo!TypeOK, CountIsFresh
  <2>4. ComputedIsFresh'
    BY <1>4 DEF Memo!LookUp, Memo!mutators, ComputedIsFresh, Memo!TypeOK
  <2>5. Memo!NoStaleEntry'
    BY <1>4 DEF Memo!LookUp, Memo!mutators, Memo!NoStaleEntry, Memo!TypeOK
  <2>6. LookedUpIsFresh'
    BY <1>4 DEF Memo!LookUp, Memo!mutators, LookedUpIsFresh, Memo!TypeOK, Memo!NoStaleEntry
  <2> QED
    BY <2>1, <2>2, <2>3, <2>4, <2>5, <2>6
<1>5. ASSUME NEW t \in Rankers, Memo!Hit(t) PROVE MemoInv'
  <2>1. CompletedReached'
    BY <1>5 DEF Memo!Hit, Memo!mutators, CompletedReached, Memo!TypeOK
  <2>2. CountIsFresh'
    BY <1>5 DEF Memo!Hit, Memo!mutators, CountIsFresh, Memo!TypeOK
  <2>3. DrawnIsUnused'
    BY <1>5 DEF Memo!Hit, Memo!mutators, DrawnIsUnused, Memo!TypeOK, CountIsFresh
  <2>4. ComputedIsFresh'
    BY <1>5 DEF Memo!Hit, Memo!mutators, ComputedIsFresh, Memo!TypeOK
  <2>5. Memo!NoStaleEntry'
    BY <1>5 DEF Memo!Hit, Memo!mutators, Memo!NoStaleEntry, Memo!TypeOK
  <2>6. LookedUpIsFresh'
    BY <1>5 DEF Memo!Hit, Memo!mutators, LookedUpIsFresh, Memo!TypeOK
  <2> QED
    BY <2>1, <2>2, <2>3, <2>4, <2>5, <2>6
<1>6. ASSUME NEW t \in Rankers, Memo!Capture(t) PROVE MemoInv'
  <2>1. CompletedReached'
    BY <1>6 DEF Memo!Capture, Memo!mutators, CompletedReached, Memo!TypeOK
  <2>2. CountIsFresh'
    BY <1>6 DEF Memo!Capture, Memo!mutators, CountIsFresh, Memo!TypeOK
  <2>3. DrawnIsUnused'
    BY <1>6 DEF Memo!Capture, Memo!mutators, DrawnIsUnused, Memo!TypeOK, CountIsFresh
  <2>4. ComputedIsFresh'
    BY <1>6 DEF Memo!Capture, Memo!mutators, ComputedIsFresh, Memo!TypeOK
  <2>5. Memo!NoStaleEntry'
    BY <1>6 DEF Memo!Capture, Memo!mutators, Memo!NoStaleEntry, Memo!TypeOK
  <2>6. LookedUpIsFresh'
    BY <1>6 DEF Memo!Capture, Memo!mutators, LookedUpIsFresh, Memo!TypeOK
  <2> QED
    BY <2>1, <2>2, <2>3, <2>4, <2>5, <2>6
<1>7. ASSUME NEW t \in Rankers, Memo!Compute(t) PROVE MemoInv'
  <2>1. CompletedReached'
    BY <1>7 DEF Memo!Compute, Memo!mutators, CompletedReached, Memo!TypeOK
  <2>2. CountIsFresh'
    BY <1>7 DEF Memo!Compute, Memo!mutators, CountIsFresh, Memo!TypeOK
  <2>3. DrawnIsUnused'
    BY <1>7 DEF Memo!Compute, Memo!mutators, DrawnIsUnused, Memo!TypeOK, CountIsFresh
  <2>4. ComputedIsFresh'
    BY <1>7 DEF Memo!Compute, Memo!mutators, ComputedIsFresh, Memo!TypeOK, CompletedReached
  <2>5. Memo!NoStaleEntry'
    BY <1>7 DEF Memo!Compute, Memo!mutators, Memo!NoStaleEntry, Memo!TypeOK
  <2>6. LookedUpIsFresh'
    BY <1>7 DEF Memo!Compute, Memo!mutators, LookedUpIsFresh, Memo!TypeOK
  <2> QED
    BY <2>1, <2>2, <2>3, <2>4, <2>5, <2>6
<1>8. ASSUME NEW t \in Rankers, Memo!GiveUp(t) PROVE MemoInv'
  <2>1. CompletedReached'
    BY <1>8 DEF Memo!GiveUp, Memo!mutators, CompletedReached, Memo!TypeOK
  <2>2. CountIsFresh'
    BY <1>8 DEF Memo!GiveUp, Memo!mutators, CountIsFresh, Memo!TypeOK
  <2>3. DrawnIsUnused'
    BY <1>8 DEF Memo!GiveUp, Memo!mutators, DrawnIsUnused, Memo!TypeOK, CountIsFresh
  <2>4. ComputedIsFresh'
    BY <1>8 DEF Memo!GiveUp, Memo!mutators, ComputedIsFresh, Memo!TypeOK
  <2>5. Memo!NoStaleEntry'
    BY <1>8 DEF Memo!GiveUp, Memo!mutators, Memo!NoStaleEntry, Memo!TypeOK
  <2>6. LookedUpIsFresh'
    BY <1>8 DEF Memo!GiveUp, Memo!mutators, LookedUpIsFresh, Memo!TypeOK
  <2> QED
    BY <2>1, <2>2, <2>3, <2>4, <2>5, <2>6
<1>9. ASSUME NEW t \in Rankers, Memo!Store(t) PROVE MemoInv'
  <2>1. CompletedReached'
    BY <1>9 DEF Memo!Store, Memo!mutators, CompletedReached, Memo!TypeOK, Memo!Entry
  <2>2. CountIsFresh'
    BY <1>9 DEF Memo!Store, Memo!mutators, CountIsFresh, Memo!TypeOK, Memo!Entry
  <2>3. DrawnIsUnused'
    BY <1>9 DEF Memo!Store, Memo!mutators, DrawnIsUnused, Memo!TypeOK, CountIsFresh, Memo!Entry
  <2>4. ComputedIsFresh'
    BY <1>9 DEF Memo!Store, Memo!mutators, ComputedIsFresh, Memo!TypeOK, Memo!Entry
  <2>5. Memo!NoStaleEntry'
    BY <1>9 DEF Memo!Store, Memo!mutators, Memo!NoStaleEntry, Memo!TypeOK, ComputedIsFresh, Memo!Entry
  <2>6. LookedUpIsFresh'
    BY <1>9 DEF Memo!Store, Memo!mutators, LookedUpIsFresh, Memo!TypeOK, Memo!Entry
  <2> QED
    BY <2>1, <2>2, <2>3, <2>4, <2>5, <2>6
<1>10. CASE UNCHANGED Memo!vars
  BY <1>10 DEF Memo!vars, Memo!mutators, Memo!rankers, CompletedReached, CountIsFresh,
     DrawnIsUnused, ComputedIsFresh, Memo!NoStaleEntry, LookedUpIsFresh
<1> QED
  BY <1>1, <1>2, <1>3, <1>4, <1>5, <1>6, <1>7, <1>8, <1>9, <1>10
  DEF Memo!Next, Memo!MutatorStep, Memo!RankerStep

LEMMA MemoAlways == FurtherSpec => [](part = "memo" => MemoInv)
<1>1. FurtherInit => (part = "memo" => MemoInv)
  BY FurtherStart, MemoInit
<1>2. (part = "memo" => MemoInv) /\ [FurtherNext]_FurtherVars => (part = "memo" => MemoInv)'
  BY FurtherStep, MemoStep
<1> QED
  BY <1>1, <1>2, PTL DEF FurtherSpec

\* The variables keep their types, whatever the interleaving.
THEOREM MemoTypesCorrect == FurtherSpec => [](part = "memo" => Memo!TypeOK)
<1>1. (part = "memo" => MemoInv) => (part = "memo" => Memo!TypeOK)
  BY DEF MemoInv
<1> QED
  BY <1>1, MemoAlways, PTL

\* No entry tagged with the graph's version misses a completed mutation.
THEOREM EntriesFresh == FurtherSpec => [](part = "memo" => Memo!NoStaleEntry)
<1>1. (part = "memo" => MemoInv) => (part = "memo" => Memo!NoStaleEntry)
  BY DEF MemoInv
<1> QED
  BY <1>1, MemoAlways, PTL

(* Scores that are served from the cache reflect every mutation completed by then,  *)
(* whatever the threads and however their steps come between each other             *)
(* (graph_storage.py, centrality_ranker.py).                                        *)
THEOREM ReadsFresh == FurtherSpec => NeverAStaleRead
<1>1. (part = "memo" => MemoInv) /\ [FurtherNext]_FurtherVars
        => [part = "memo" => Memo!ReadsAreFresh]_FurtherVars
  BY DEF MemoInv, LookedUpIsFresh, Memo!Hit, Memo!Valid, Memo!ReadsAreFresh
<1> QED
  BY <1>1, MemoAlways, PTL DEF FurtherSpec, NeverAStaleRead

HIDE DEF made, graph, completed, count, version, cache, mpc, mutation, drawn,
         rpc, method, entry, captured, scores

------------------------------------------------------------------------------
(* Reranker.  The property speaks of searches that are done.  The strengthening   *)
(* says what holds of a search under way: the results it carries are distinct and *)
(* enough at every step (Carried), and as long as nobody disturbs it, it is the    *)
(* only one (AloneIsAlone) and the reranker it has seen is still there when it     *)
(* looks again (StillThere).                                                     *)

current == v1
rerankers == v2
wanted == v3
able == v4
oom == v5
call == v6
changes == v7
USE DEF current, rerankers, wanted, able, oom, call, changes

EnoughResults == Reranking!Min({K, Window, Len(Pool)})
AllDistinct(s) == \A i, j \in DOMAIN s : s[i] = s[j] => i = j
IsSequence(s) == s \in Seq(Reranking!ToSet(s))
Candidates(s) == IsSequence(s) /\ AllDistinct(s)

CallFields == {"pc", "passes", "enable", "name", "mine", "results", "failed", "alone"}
CallsTyped ==
  /\ DOMAIN call = SearchThreads
  /\ \A t \in SearchThreads : DOMAIN call[t] = CallFields
  /\ \A t \in SearchThreads : call[t].alone \in BOOLEAN /\ call[t].failed \in BOOLEAN

Carried ==
  \A t \in SearchThreads : call[t].pc # "rest" =>
    Candidates(call[t].results) /\ Len(call[t].results) >= EnoughResults

AloneIsAlone ==
  \A t \in SearchThreads : call[t].alone /\ call[t].pc # "rest" =>
    \A u \in SearchThreads : u # t => call[u].pc = "rest"

StillThere ==
  \A t \in SearchThreads : call[t].alone /\ call[t].pc \in {"swap", "drop", "use"} => current # Reranking!None

OnlyTheDisturbedFail == \A t \in SearchThreads : call[t].failed => ~call[t].alone

RerankInv ==
  /\ CallsTyped /\ IsSequence(rerankers)
  /\ Carried /\ AloneIsAlone /\ StillThere /\ OnlyTheDisturbedFail

-----------------------------------------------------------------------------
(* Sequences of distinct elements.                                         *)

LEMMA DistinctCount ==
  ASSUME NEW s, Candidates(s)
  PROVE  IsFiniteSet(Reranking!ToSet(s)) /\ Reranking!Cardinality(Reranking!ToSet(s)) = Len(s)
<1>1. Len(s) \in Nat /\ DOMAIN s = 1 .. Len(s)
  BY DEF Candidates, IsSequence
<1>2. s \in [1 .. Len(s) -> Reranking!ToSet(s)]
  BY <1>1 DEF Candidates, IsSequence, Reranking!ToSet
<1>3. s \in Bijection(1 .. Len(s), Reranking!ToSet(s))
  BY <1>1, <1>2 DEF Bijection, Injection, Surjection, IsInjective, Candidates, AllDistinct, Reranking!ToSet
<1>4. ExistsBijection(1 .. Len(s), Reranking!ToSet(s))
  BY <1>3 DEF ExistsBijection
<1>5. \A S : Reranking!Cardinality(S) = Cardinality(S)
  BY Zenon DEF Reranking!Cardinality, Cardinality
<1> QED
  BY <1>1, <1>4, <1>5, FS_CountingElements, FS_NatBijection

LEMMA Shortest ==
  ASSUME NEW a \in Nat, NEW b \in Nat
  PROVE  Reranking!Min({a, b}) \in {a, b} /\ Reranking!Min({a, b}) <= a /\ Reranking!Min({a, b}) <= b
  BY DEF Reranking!Min

LEMMA EnoughIsLeast ==
  /\ EnoughResults \in Nat
  /\ EnoughResults <= K /\ EnoughResults <= Window /\ EnoughResults <= Len(Pool)
<1> DEFINE S == {K, Window, Len(Pool)}
<1>1. K \in Nat /\ Window \in Nat /\ Len(Pool) \in Nat
  BY RerankerAssumption
<1>2. \E x \in S : \A y \in S : x =< y
  BY <1>1
<1>3. EnoughResults \in S /\ \A y \in S : EnoughResults =< y
  BY <1>2 DEF EnoughResults, Reranking!Min
<1> QED
  BY <1>1, <1>3

\* A cut keeps candidates distinct, and as many as there are or as it may keep.
LEMMA CutKeeps ==
  ASSUME NEW s, Candidates(s), NEW n \in Nat
  PROVE  /\ Candidates(Reranking!Cut(s, n))
         /\ \A m \in Nat : m <= n /\ m <= Len(s) => m <= Len(Reranking!Cut(s, n))
<1>1. Len(s) \in Nat /\ DOMAIN s = 1 .. Len(s) /\ s \in Seq(Reranking!ToSet(s))
  BY DEF Candidates, IsSequence
<1>2. /\ Reranking!Min({n, Len(s)}) \in {n, Len(s)}
      /\ Reranking!Min({n, Len(s)}) <= Len(s)
  BY <1>1, Shortest
<1>3. PICK k \in Nat : k <= Len(s) /\ (k = n \/ k = Len(s)) /\ Reranking!Cut(s, n) = SubSeq(s, 1, k)
  BY <1>1, <1>2 DEF Reranking!Cut
<1>4. \A i \in 1 .. k : i \in DOMAIN s
  <2>1. Len(s) \in Nat /\ k <= Len(s)
    BY <1>1, <1>3
  <2>2. \A i \in 1 .. k : i \in 1 .. Len(s)
    BY <2>1
  <2>3. DOMAIN s = 1 .. Len(s)
    BY <1>1
  <2> QED
    BY <2>2, <2>3
<1>5. \A i \in 1 .. k : s[i] \in Reranking!ToSet(s)
  BY <1>4 DEF Reranking!ToSet
<1>6. /\ Reranking!Cut(s, n) \in Seq(Reranking!ToSet(s)) /\ Len(Reranking!Cut(s, n)) = k
      /\ \A i \in 1 .. k : Reranking!Cut(s, n)[i] = s[i]
  <2>1. /\ SubSeq(s, 1, k) \in Seq(Reranking!ToSet(s))
        /\ Len(SubSeq(s, 1, k)) = IF 1 <= k THEN k - 1 + 1 ELSE 0
        /\ \A i \in 1 .. k - 1 + 1 : SubSeq(s, 1, k)[i] = s[1 + i - 1]
    BY <1>5, SubSeqProperties
  <2>2. k - 1 + 1 = k /\ \A i \in 1 .. k : 1 + i - 1 = i
    BY <1>3
  <2> QED
    BY <1>3, <2>1, <2>2
<1>7. DOMAIN Reranking!Cut(s, n) = 1 .. k
  BY <1>6
<1>8. IsSequence(Reranking!Cut(s, n))
  <2> DEFINE T == Reranking!ToSet(Reranking!Cut(s, n))
  <2>1. \A i \in 1 .. k : Reranking!Cut(s, n)[i] \in T
    BY <1>7 DEF Reranking!ToSet
  <2> HIDE DEF T
  <2>2. Reranking!Cut(s, n) \in [1 .. k -> T]
    BY <1>6, <1>7, <2>1
  <2>3. Reranking!Cut(s, n) \in Seq(T)
    BY <2>2
  <2> QED
    BY <2>3 DEF IsSequence, T
<1>9. AllDistinct(Reranking!Cut(s, n))
  BY <1>4, <1>6, <1>7 DEF Candidates, AllDistinct
<1> QED
  BY <1>1, <1>3, <1>6, <1>8, <1>9 DEF Candidates

\* Any order of distinct candidates has all of them once.
LEMMA OrderKeeps ==
  ASSUME NEW s, Candidates(s), NEW ranked \in Reranking!SetToSeqs(Reranking!ToSet(s))
  PROVE  Candidates(ranked) /\ Len(ranked) = Len(s)
<1>1. Len(s) \in Nat /\ Reranking!Cardinality(Reranking!ToSet(s)) = Len(s)
  BY DistinctCount DEF Candidates, IsSequence
<1>2. /\ ranked \in [1 .. Len(s) -> Reranking!ToSet(s)]
      /\ \A i, j \in 1 .. Len(s) : i # j => ranked[i] # ranked[j]
  BY <1>1 DEF Reranking!SetToSeqs
<1>3. ranked \in Seq(Reranking!ToSet(s)) /\ Len(ranked) = Len(s) /\ DOMAIN ranked = 1 .. Len(s)
  BY <1>1, <1>2
<1>4. IsSequence(ranked)
  <2> DEFINE T == Reranking!ToSet(ranked)
  <2>1. \A i \in 1 .. Len(s) : ranked[i] \in T
    BY <1>3 DEF Reranking!ToSet
  <2> HIDE DEF T
  <2>2. ranked \in [1 .. Len(s) -> T]
    BY <1>2, <2>1
  <2>3. ranked \in Seq(T)
    BY <1>1, <2>2
  <2> QED
    BY <2>3 DEF IsSequence, T
<1>5. AllDistinct(ranked)
  BY <1>2, <1>3 DEF AllDistinct
<1> QED
  BY <1>3, <1>4, <1>5 DEF Candidates

\* A sequence stays one when its elements are replaced.
LEMMA ReplacedStays ==
  ASSUME NEW s, IsSequence(s), NEW r, DOMAIN r = DOMAIN s, r = [i \in DOMAIN s |-> r[i]]
  PROVE  IsSequence(r)
<1> DEFINE T == Reranking!ToSet(r)
<1>1. Len(s) \in Nat /\ DOMAIN s = 1 .. Len(s)
  BY DEF IsSequence
<1>2. \A i \in DOMAIN r : r[i] \in T
  BY DEF Reranking!ToSet
<1> HIDE DEF T
<1>3. r \in [1 .. Len(s) -> T]
  BY <1>1, <1>2
<1>4. r \in Seq(T)
  BY <1>1, <1>3
<1> QED
  BY <1>4 DEF IsSequence, T

LEMMA AppendedStays ==
  ASSUME NEW s, IsSequence(s), NEW e
  PROVE  IsSequence(Append(s, e)) /\ Len(s) + 1 # Reranking!None
<1> DEFINE T == Reranking!ToSet(s) \cup {e}
<1>1. s \in Seq(T) /\ e \in T
  BY DEF IsSequence
<1>2. Append(s, e) \in Seq(T)
  BY <1>1
<1>3. Len(s) \in Nat /\ Len(Append(s, e)) = Len(s) + 1
  BY <1>1
<1> HIDE DEF T
<1>4. DOMAIN Append(s, e) = 1 .. Len(s) + 1
  BY <1>2, <1>3
<1> DEFINE A == Reranking!ToSet(Append(s, e))
<1>5. \A i \in 1 .. Len(s) + 1 : Append(s, e)[i] \in A
  BY <1>4 DEF Reranking!ToSet
<1> HIDE DEF A
<1>6. Append(s, e) \in Seq(A)
  BY <1>2, <1>3, <1>4, <1>5
<1> QED
  BY <1>3, <1>6 DEF IsSequence, A, Reranking!None

-----------------------------------------------------------------------------
(* The steps of a search.                                                  *)

LEMMA RerankInit == Reranking!Init => RerankInv
<1> SUFFICES ASSUME Reranking!Init PROVE RerankInv
  OBVIOUS
<1> USE DEF Reranking!Init
<1>1. IsSequence(rerankers)
  BY DEF IsSequence
<1>2. \A t \in SearchThreads : call[t] = Reranking!Resting
  OBVIOUS
<1>3. /\ DOMAIN Reranking!Resting = CallFields /\ Reranking!Resting.pc = "rest"
      /\ Reranking!Resting.alone = TRUE /\ Reranking!Resting.failed = FALSE
  BY DEF Reranking!Resting, CallFields
<1> QED
  BY <1>1, <1>2, <1>3 DEF RerankInv, CallsTyped, Carried, AloneIsAlone, StillThere, OnlyTheDisturbedFail

\* One search goes on: it does not disturb itself, and disturbs nobody who is alone.
LEMMA OneGoesOn ==
  ASSUME RerankInv, NEW t \in SearchThreads, call[t].pc # "rest",
         NEW c, call' = [call EXCEPT ![t] = c], DOMAIN c = CallFields, c.pc # "rest",
         c.alone = call[t].alone, c.failed \in BOOLEAN, c.failed => ~c.alone,
         Candidates(c.results), Len(c.results) >= EnoughResults,
         c.alone /\ c.pc \in {"swap", "drop", "use"} => current' # Reranking!None,
         IsSequence(rerankers')
  PROVE  RerankInv'
<1>1. /\ DOMAIN call' = SearchThreads /\ call'[t] = c
      /\ \A u \in SearchThreads : u # t => call'[u] = call[u]
  BY DEF RerankInv, CallsTyped
<1>2. CallsTyped'
  BY <1>1 DEF RerankInv, CallsTyped
<1>3. Carried'
  BY <1>1 DEF RerankInv, Carried
<1>4. \A u \in SearchThreads : u # t /\ call[u].pc # "rest" => ~call[u].alone
  BY DEF RerankInv, AloneIsAlone, CallsTyped
<1>5. AloneIsAlone'
  BY <1>1, <1>4 DEF RerankInv, AloneIsAlone
<1>6. StillThere'
  BY <1>1, <1>4 DEF RerankInv, StillThere
<1>7. OnlyTheDisturbedFail'
  BY <1>1 DEF RerankInv, OnlyTheDisturbedFail
<1> QED
  BY <1>2, <1>3, <1>5, <1>6, <1>7 DEF RerankInv

LEMMA GoesTo ==
  ASSUME RerankInv, NEW t \in SearchThreads, call[t].pc # "rest", NEW pc, pc # "rest", Reranking!Goto(t, pc),
         call[t].alone /\ pc \in {"swap", "drop", "use"} => current' # Reranking!None,
         IsSequence(rerankers')
  PROVE  RerankInv'
<1> DEFINE c == [call[t] EXCEPT !.pc = pc]
<1>1. DOMAIN call[t] = CallFields /\ call' = [call EXCEPT ![t] = c]
  BY DEF RerankInv, CallsTyped, Reranking!Goto
<1>2. /\ DOMAIN c = CallFields /\ c.pc = pc /\ c.alone = call[t].alone
      /\ c.failed = call[t].failed /\ c.results = call[t].results
  BY <1>1 DEF CallFields
<1> HIDE DEF c
<1>3. /\ Candidates(c.results) /\ Len(c.results) >= EnoughResults
      /\ c.failed \in BOOLEAN /\ (c.failed => ~c.alone)
  BY <1>2 DEF RerankInv, Carried, CallsTyped, OnlyTheDisturbedFail
<1> QED
  BY <1>1, <1>2, <1>3, OneGoesOn

LEMMA RaisesInductive ==
  ASSUME RerankInv, NEW t \in SearchThreads, call[t].pc # "rest", Reranking!Raises(t), ~call[t].alone,
         IsSequence(rerankers')
  PROVE  RerankInv'
<1> DEFINE c == [call[t] EXCEPT !.pc = "done", !.failed = TRUE]
<1>1. DOMAIN call[t] = CallFields /\ call' = [call EXCEPT ![t] = c]
  BY DEF RerankInv, CallsTyped, Reranking!Raises
<1>2. /\ DOMAIN c = CallFields /\ c.pc = "done" /\ c.alone = call[t].alone
      /\ c.failed = TRUE /\ c.results = call[t].results
  BY <1>1 DEF CallFields
<1> HIDE DEF c
<1>3. Candidates(c.results) /\ Len(c.results) >= EnoughResults
  BY <1>2 DEF RerankInv, Carried
<1> QED
  BY <1>1, <1>2, <1>3, OneGoesOn

LEMMA PassedInductive ==
  ASSUME RerankInv, NEW t \in SearchThreads, call[t].pc # "rest", NEW results, Reranking!Passed(t, results),
         Candidates(results), Len(results) >= EnoughResults, IsSequence(rerankers')
  PROVE  RerankInv'
<1> DEFINE pc == IF call[t].passes + 1 = MaxPasses THEN "done" ELSE "check"
           c == [call[t] EXCEPT !.results = results, !.passes = call[t].passes + 1,
                   !.mine = Reranking!None, !.pc = pc]
<1>1. DOMAIN call[t] = CallFields /\ call' = [call EXCEPT ![t] = c]
  BY DEF RerankInv, CallsTyped, Reranking!Passed
<1>2. pc \in {"done", "check"}
  OBVIOUS
<1> HIDE DEF pc
<1>3. /\ DOMAIN c = CallFields /\ c.pc = pc /\ c.alone = call[t].alone
      /\ c.failed = call[t].failed /\ c.results = results
  BY <1>1 DEF CallFields
<1> HIDE DEF c
<1>4. c.failed \in BOOLEAN /\ (c.failed => ~c.alone)
  BY <1>3 DEF RerankInv, CallsTyped, OnlyTheDisturbedFail
<1> QED
  BY <1>1, <1>2, <1>3, <1>4, OneGoesOn

-----------------------------------------------------------------------------
LEMMA BeginInductive ==
  ASSUME RerankInv, NEW t \in SearchThreads, Reranking!BeginSearch(t)
  PROVE  RerankInv'
<1> DEFINE c == [Reranking!Resting EXCEPT !.pc = "check", !.results = Pool, !.alone = (Reranking!Active = {})]
<1>1. /\ DOMAIN call' = SearchThreads /\ call'[t] = c
      /\ \A u \in SearchThreads : u # t => call'[u] = [call[u] EXCEPT !.alone = FALSE]
  BY DEF Reranking!BeginSearch
<1>2. /\ DOMAIN c = CallFields /\ c.pc = "check" /\ c.results = Pool
      /\ c.alone = (Reranking!Active = {}) /\ c.failed = FALSE
  BY DEF Reranking!Resting, CallFields
<1> HIDE DEF c
<1>3. \A u \in SearchThreads : u # t => /\ DOMAIN call'[u] = CallFields /\ call'[u].pc = call[u].pc
                                  /\ call'[u].results = call[u].results
                                  /\ call'[u].failed = call[u].failed
                                  /\ call'[u].alone = FALSE
  BY <1>1 DEF RerankInv, CallsTyped, CallFields
<1>4. CallsTyped'
  BY <1>1, <1>2, <1>3 DEF RerankInv, CallsTyped
<1>5. Candidates(Pool) /\ Len(Pool) >= EnoughResults
  <2>1. Candidates(Pool)
    BY RerankerAssumption DEF Candidates, IsSequence, AllDistinct, Reranking!ToSet
  <2>2. Len(Pool) \in Nat
    BY <2>1 DEF Candidates, IsSequence
  <2> QED
    BY <2>1, <2>2, EnoughIsLeast
<1>6. Carried'
  BY <1>1, <1>2, <1>3, <1>5 DEF RerankInv, Carried
<1>7. AloneIsAlone'
  <2>1. c.alone => \A u \in SearchThreads : call[u].pc = "rest"
    BY <1>2 DEF Reranking!Active
  <2> QED
    BY <1>1, <1>3, <2>1 DEF AloneIsAlone
<1>8. StillThere'
  BY <1>1, <1>2, <1>3 DEF StillThere
<1>9. OnlyTheDisturbedFail'
  BY <1>1, <1>2, <1>3 DEF RerankInv, OnlyTheDisturbedFail
<1>10. IsSequence(rerankers')
  BY DEF Reranking!BeginSearch, RerankInv
<1> QED
  BY <1>4, <1>6, <1>7, <1>8, <1>9, <1>10 DEF RerankInv

LEMMA ShouldEnableInductive ==
  ASSUME RerankInv, NEW t \in SearchThreads, Reranking!ShouldEnable(t)
  PROVE  RerankInv'
<1> DEFINE c == [call[t] EXCEPT !.enable = able /\ ~oom, !.name = wanted, !.pc = "ensure"]
<1>1. DOMAIN call[t] = CallFields /\ call' = [call EXCEPT ![t] = c]
  BY DEF RerankInv, CallsTyped, Reranking!ShouldEnable
<1>2. /\ DOMAIN c = CallFields /\ c.pc = "ensure" /\ c.alone = call[t].alone
      /\ c.failed = call[t].failed /\ c.results = call[t].results
  BY <1>1 DEF CallFields
<1> HIDE DEF c
<1>3. call[t].pc # "rest" /\ rerankers' = rerankers
  BY DEF Reranking!ShouldEnable
<1>4. /\ Candidates(c.results) /\ Len(c.results) >= EnoughResults
      /\ c.failed \in BOOLEAN /\ (c.failed => ~c.alone) /\ IsSequence(rerankers')
  BY <1>2, <1>3 DEF RerankInv, Carried, CallsTyped, OnlyTheDisturbedFail
<1> QED
  BY <1>1, <1>2, <1>3, <1>4, OneGoesOn

\* Which branch is taken: the reranker that is to be swapped or dropped is there.
LEMMA EnsureInductive ==
  ASSUME RerankInv, NEW t \in SearchThreads, Reranking!Ensure(t)
  PROVE  RerankInv'
<1>1. PICK pc \in {"create", "swap", "drop", "gate"} :
        Reranking!Goto(t, pc) /\ (pc \in {"swap", "drop"} => current # Reranking!None)
  BY DEF Reranking!Ensure
<1>2. call[t].pc # "rest" /\ IsSequence(rerankers') /\ current' = current
  BY DEF Reranking!Ensure, RerankInv
<1> QED
  BY <1>1, <1>2, GoesTo

LEMMA CreateInductive ==
  ASSUME RerankInv, NEW t \in SearchThreads, Reranking!Create(t)
  PROVE  RerankInv'
<1>1. IsSequence(rerankers')
  BY AppendedStays DEF Reranking!Create, RerankInv
<1> QED
  BY <1>1, GoesTo DEF Reranking!Create

LEMMA CleanUpInductive ==
  ASSUME RerankInv, NEW t \in SearchThreads, Reranking!CleanUp(t)
  PROVE  RerankInv'
<1>1. CASE current = Reranking!None
  <2>1. ~call[t].alone
    BY <1>1 DEF Reranking!CleanUp, RerankInv, StillThere
  <2> QED
    BY <1>1, <2>1, RaisesInductive DEF Reranking!CleanUp, RerankInv
<1>2. CASE current # Reranking!None
  <2>1. IsSequence(rerankers')
    <3>1. rerankers' = [rerankers EXCEPT ![current].loaded = FALSE]
      BY <1>2 DEF Reranking!CleanUp
    <3> QED
      BY <3>1, ReplacedStays DEF RerankInv
  <2>2. PICK pc \in {"create", "clear"} : Reranking!Goto(t, pc)
    BY <1>2 DEF Reranking!CleanUp
  <2>3. call[t].pc # "rest"
    BY DEF Reranking!CleanUp
  <2> QED
    BY <2>1, <2>2, <2>3, GoesTo
<1> QED
  BY <1>1, <1>2

LEMMA ClearInductive ==
  ASSUME RerankInv, NEW t \in SearchThreads, Reranking!Clear(t)
  PROVE  RerankInv'
BY GoesTo DEF Reranking!Clear, RerankInv

LEMMA SameResults ==
  ASSUME RerankInv, NEW t \in SearchThreads, call[t].pc # "rest", IsSequence(rerankers'),
         Reranking!Passed(t, call[t].results)
  PROVE  RerankInv'
BY PassedInductive DEF RerankInv, Carried

LEMMA GateInductive ==
  ASSUME RerankInv, NEW t \in SearchThreads, Reranking!Gate(t)
  PROVE  RerankInv'
<1>1. call[t].pc # "rest" /\ IsSequence(rerankers') /\ current' = current
  BY DEF Reranking!Gate, RerankInv
<1>2. CASE call[t].enable /\ current # Reranking!None
  BY <1>1, <1>2, GoesTo DEF Reranking!Gate
<1>3. CASE ~(call[t].enable /\ current # Reranking!None)
  BY <1>1, <1>3, SameResults DEF Reranking!Gate
<1> QED
  BY <1>2, <1>3

LEMMA UseInductive ==
  ASSUME RerankInv, NEW t \in SearchThreads, Reranking!Use(t)
  PROVE  RerankInv'
<1>1. call[t].pc = "use" /\ IsSequence(rerankers') /\ current' = current
  BY DEF Reranking!Use, RerankInv
<1>2. CASE current = Reranking!None
  BY <1>1, <1>2, RaisesInductive DEF Reranking!Use, RerankInv, StillThere
<1>3. CASE current # Reranking!None
  BY <1>1, <1>3, GoesTo DEF Reranking!Use
<1> QED
  BY <1>2, <1>3

LEMMA FetchInductive ==
  ASSUME RerankInv, NEW t \in SearchThreads, Reranking!Fetch(t)
  PROVE  RerankInv'
<1>1. call[t].pc # "rest" /\ IsSequence(rerankers')
  BY DEF Reranking!Fetch, RerankInv
<1>2. CASE current = Reranking!None
  BY <1>1, <1>2, SameResults DEF Reranking!Fetch
<1>3. CASE current # Reranking!None
  <2> DEFINE c == [call[t] EXCEPT !.mine = current, !.pc = "model"]
  <2>1. DOMAIN call[t] = CallFields /\ call' = [call EXCEPT ![t] = c]
    BY <1>3 DEF RerankInv, CallsTyped, Reranking!Fetch
  <2>2. /\ DOMAIN c = CallFields /\ c.pc = "model" /\ c.alone = call[t].alone
        /\ c.failed = call[t].failed /\ c.results = call[t].results
    BY <2>1 DEF CallFields
  <2> HIDE DEF c
  <2>3. /\ Candidates(c.results) /\ Len(c.results) >= EnoughResults
        /\ c.failed \in BOOLEAN /\ (c.failed => ~c.alone)
    BY <1>1, <2>2 DEF RerankInv, Carried, CallsTyped, OnlyTheDisturbedFail
  <2> QED
    BY <1>1, <2>1, <2>2, <2>3, OneGoesOn
<1> QED
  BY <1>2, <1>3

LEMMA LoadModelInductive ==
  ASSUME RerankInv, NEW t \in SearchThreads, Reranking!LoadModel(t)
  PROVE  RerankInv'
<1>1. call[t].pc # "rest"
  BY DEF Reranking!LoadModel
<1>2. CASE rerankers' = [rerankers EXCEPT ![call[t].mine].loaded = TRUE] /\ Reranking!Goto(t, "infer")
  <2>1. IsSequence(rerankers')
    BY <1>2, ReplacedStays DEF RerankInv
  <2> QED
    BY <1>1, <1>2, <2>1, GoesTo
<1>3. CASE UNCHANGED rerankers /\ Reranking!Passed(t, call[t].results)
  BY <1>1, <1>3, SameResults DEF RerankInv
<1> QED
  BY <1>2, <1>3 DEF Reranking!LoadModel

\* What a pass looks at is distinct and enough, and so is what it may cut it to.
LEMMA WindowIsEnough ==
  ASSUME RerankInv, NEW t \in SearchThreads, call[t].pc # "rest"
  PROVE  /\ Candidates(Reranking!Cut(call[t].results, Window))
         /\ Len(Reranking!Cut(call[t].results, Window)) >= EnoughResults
         /\ Len(Reranking!Cut(call[t].results, Window)) \in Nat
<1>1. Candidates(call[t].results) /\ Len(call[t].results) >= EnoughResults
  BY DEF RerankInv, Carried
<1>2. Window \in Nat /\ EnoughResults \in Nat /\ EnoughResults <= Window
  BY RerankerAssumption, EnoughIsLeast
<1>3. Len(call[t].results) \in Nat
  BY <1>1 DEF Candidates, IsSequence
<1>4. Candidates(Reranking!Cut(call[t].results, Window))
  BY <1>1, <1>2, CutKeeps
<1>5. Len(Reranking!Cut(call[t].results, Window)) \in Nat
  BY <1>4 DEF Candidates, IsSequence
<1>6. EnoughResults <= Len(Reranking!Cut(call[t].results, Window))
  BY <1>1, <1>2, <1>3, CutKeeps
<1> QED
  BY <1>2, <1>4, <1>5, <1>6

LEMMA CutToK ==
  ASSUME NEW s, Candidates(s), Len(s) >= EnoughResults
  PROVE  Candidates(Reranking!Cut(s, K)) /\ Len(Reranking!Cut(s, K)) >= EnoughResults
<1>1. K \in Nat /\ EnoughResults \in Nat /\ EnoughResults <= K
  BY RerankerAssumption, EnoughIsLeast
<1>2. Len(s) \in Nat
  BY DEF Candidates, IsSequence
<1>3. Candidates(Reranking!Cut(s, K)) /\ EnoughResults <= Len(Reranking!Cut(s, K))
  BY <1>1, <1>2, CutKeeps
<1>4. Len(Reranking!Cut(s, K)) \in Nat
  BY <1>3 DEF Candidates, IsSequence
<1> QED
  BY <1>1, <1>3, <1>4

LEMMA ScoreInductive ==
  ASSUME RerankInv, NEW t \in SearchThreads, Reranking!Score(t)
  PROVE  RerankInv'
<1> DEFINE w == Reranking!Cut(call[t].results, Window)
<1>1. call[t].pc # "rest" /\ IsSequence(rerankers')
  BY DEF Reranking!Score, RerankInv
<1>2. Candidates(w) /\ Len(w) >= EnoughResults
  BY <1>1, WindowIsEnough
<1>3. PICK ranked \in Reranking!SetToSeqs(Reranking!ToSet(w)) :
        Reranking!Passed(t, IF Reranking!Kind(t) = "generative" THEN Reranking!Cut(ranked, K) ELSE ranked)
  BY DEF Reranking!Score
<1> HIDE DEF w
<1>4. Candidates(ranked) /\ Len(ranked) >= EnoughResults
  BY <1>2, OrderKeeps
<1>5. Candidates(Reranking!Cut(ranked, K)) /\ Len(Reranking!Cut(ranked, K)) >= EnoughResults
  BY <1>4, CutToK
<1> QED
  BY <1>1, <1>3, <1>4, <1>5, PassedInductive

LEMMA InferenceFailsInductive ==
  ASSUME RerankInv, NEW t \in SearchThreads, Reranking!InferenceFails(t)
  PROVE  RerankInv'
<1>1. call[t].pc # "rest" /\ IsSequence(rerankers')
  BY DEF Reranking!InferenceFails, RerankInv
<1>2. CASE Reranking!Kind(t) = "generative"
  <2> DEFINE w == Reranking!Cut(call[t].results, Window)
  <2>1. Candidates(w) /\ Len(w) >= EnoughResults
    BY <1>1, WindowIsEnough
  <2>2. Reranking!Passed(t, Reranking!Cut(w, K))
    BY <1>2 DEF Reranking!InferenceFails
  <2> HIDE DEF w
  <2>3. Candidates(Reranking!Cut(w, K)) /\ Len(Reranking!Cut(w, K)) >= EnoughResults
    BY <2>1, CutToK
  <2> QED
    BY <1>1, <2>2, <2>3, PassedInductive
<1>3. CASE Reranking!Kind(t) # "generative"
  BY <1>1, <1>3, SameResults DEF Reranking!InferenceFails
<1> QED
  BY <1>2, <1>3

LEMMA ReturnInductive ==
  ASSUME RerankInv, NEW t \in SearchThreads, Reranking!Return(t)
  PROVE  RerankInv'
<1>1. /\ DOMAIN call' = SearchThreads /\ call'[t] = Reranking!Resting
      /\ \A u \in SearchThreads : u # t => call'[u] = call[u]
  BY DEF Reranking!Return, RerankInv, CallsTyped
<1>2. /\ DOMAIN Reranking!Resting = CallFields /\ Reranking!Resting.pc = "rest"
      /\ Reranking!Resting.alone = TRUE /\ Reranking!Resting.failed = FALSE
  BY DEF Reranking!Resting, CallFields
<1>3. IsSequence(rerankers') /\ current' = current
  BY DEF Reranking!Return, RerankInv
<1>4. CallsTyped' /\ Carried'
  BY <1>1, <1>2 DEF RerankInv, CallsTyped, Carried
<1>5. AloneIsAlone'
  BY <1>1, <1>2 DEF RerankInv, AloneIsAlone
<1>6. StillThere' /\ OnlyTheDisturbedFail'
  BY <1>1, <1>2, <1>3 DEF RerankInv, StillThere, OnlyTheDisturbedFail
<1> QED
  BY <1>3, <1>4, <1>5, <1>6 DEF RerankInv

LEMMA ShutdownInductive ==
  ASSUME RerankInv, Reranking!Shutdown
  PROVE  RerankInv'
<1>1. /\ DOMAIN call' = SearchThreads
      /\ \A t \in SearchThreads : call'[t] = [call[t] EXCEPT !.alone = FALSE]
  BY DEF Reranking!Shutdown
<1>2. \A t \in SearchThreads : /\ DOMAIN call'[t] = CallFields /\ call'[t].pc = call[t].pc
                         /\ call'[t].results = call[t].results
                         /\ call'[t].failed = call[t].failed
                         /\ call'[t].alone = FALSE
  BY <1>1 DEF RerankInv, CallsTyped, CallFields
<1>3. IsSequence(rerankers')
  BY ReplacedStays DEF Reranking!Shutdown, RerankInv
<1>4. CallsTyped' /\ Carried'
  BY <1>1, <1>2 DEF RerankInv, CallsTyped, Carried
<1>5. AloneIsAlone' /\ StillThere' /\ OnlyTheDisturbedFail'
  BY <1>2 DEF AloneIsAlone, StillThere, OnlyTheDisturbedFail
<1> QED
  BY <1>3, <1>4, <1>5 DEF RerankInv

LEMMA RerankStep == RerankInv /\ [Reranking!Next]_(Reranking!vars) => RerankInv'
<1> SUFFICES ASSUME RerankInv, [Reranking!Next]_(Reranking!vars) PROVE RerankInv'
  OBVIOUS
<1>1. ASSUME NEW t \in SearchThreads,
             \/ Reranking!BeginSearch(t) \/ Reranking!ShouldEnable(t) \/ Reranking!Ensure(t) \/ Reranking!Create(t) \/ Reranking!CleanUp(t)
             \/ Reranking!Clear(t) \/ Reranking!Gate(t) \/ Reranking!Use(t) \/ Reranking!Fetch(t) \/ Reranking!LoadModel(t) \/ Reranking!Score(t)
             \/ Reranking!InferenceFails(t) \/ Reranking!Return(t)
      PROVE  RerankInv'
  BY <1>1, BeginInductive, ShouldEnableInductive, EnsureInductive, CreateInductive,
     CleanUpInductive, ClearInductive, GateInductive, UseInductive, FetchInductive,
     LoadModelInductive, ScoreInductive, InferenceFailsInductive, ReturnInductive
<1>2. CASE Reranking!Change \/ UNCHANGED Reranking!vars
  BY <1>2 DEF Reranking!Change, Reranking!vars, RerankInv, CallsTyped, Carried, AloneIsAlone, StillThere,
     OnlyTheDisturbedFail
<1>3. CASE Reranking!Shutdown
  BY <1>3, ShutdownInductive
<1> QED
  BY <1>1, <1>2, <1>3 DEF Reranking!Next

LEMMA RerankAlways == FurtherSpec => [](part = "reranking" => RerankInv)
<1>1. FurtherInit => (part = "reranking" => RerankInv)
  BY FurtherStart, RerankInit
<1>2. (part = "reranking" => RerankInv) /\ [FurtherNext]_FurtherVars => (part = "reranking" => RerankInv)'
  BY FurtherStep, RerankStep
<1> QED
  BY <1>1, <1>2, PTL DEF FurtherSpec

(* However many searches share the reranker and whatever becomes of its model, a    *)
(* search that nobody disturbs does not fail, and one that ends has the results it   *)
(* was asked for, or as many as a pass may look at, each of them once                *)
(* (reranking_engine.py:201-251).                                                    *)
THEOREM RerankingOptional == FurtherSpec => []RerankingIsOptional
<1>1. RerankInv => Reranking!RerankingIsOptional
  <2> SUFFICES ASSUME RerankInv, NEW t \in SearchThreads, call[t].pc = "done"
               PROVE  /\ call[t].failed => ~call[t].alone
                      /\ Len(call[t].results) >= EnoughResults
                      /\ Reranking!Cardinality(Reranking!ToSet(call[t].results)) = Len(call[t].results)
    BY DEF Reranking!RerankingIsOptional, EnoughResults
  <2>1. Candidates(call[t].results) /\ Len(call[t].results) >= EnoughResults
    BY DEF RerankInv, Carried
  <2>2. call[t].failed => ~call[t].alone
    BY DEF RerankInv, OnlyTheDisturbedFail
  <2>3. Reranking!Cardinality(Reranking!ToSet(call[t].results)) = Len(call[t].results)
    BY <2>1, DistinctCount
  <2> QED
    BY <2>1, <2>2, <2>3
<1>2. (part = "reranking" => RerankInv) => RerankingIsOptional
  BY <1>1 DEF RerankingIsOptional
<1> QED
  BY <1>2, RerankAlways, PTL

HIDE DEF current, rerankers, wanted, able, oom, call, changes

------------------------------------------------------------------------------
(* Configuration, which has proofs of its own: what is proved there holds here.  *)

SettingsProofs == INSTANCE Configuration_proofs WITH
  Readers <- ConfigReaders, Fields <- ConfigFields, Values <- FieldValues,
  Default <- FieldDefault, Environment <- EnvironmentSets,
  Requests <- ConfigAsked, Contents <- ConfigContents, MaxWrites <- MaxConfigWrites,
  global <- v1, overrides <- v2, writes <- v3, cache <- v4, at <- v5, task <- v6,
  touched <- v7, missed <- v8, overridden <- v9

\* Two modules' names for one step of the configuration.
LEMMA SameConfiguration ==
  /\ SettingsProofs!Threads = Settings!Threads
  /\ SettingsProofs!NoCache = Settings!NoCache /\ SettingsProofs!Now = Settings!Now
  /\ SettingsProofs!Layered = Settings!Layered
  /\ \A s : SettingsProofs!ToSet(s) = Settings!ToSet(s)
  /\ \A a, b : SettingsProofs!Over(a, b) = Settings!Over(a, b)
  /\ \A a, b : SettingsProofs!Keep(a, b) = Settings!Keep(a, b)
  /\ \A a, b : SettingsProofs!Effective(a, b) = Settings!Effective(a, b)
<1>1. /\ SettingsProofs!Threads = Settings!Threads
      /\ SettingsProofs!NoCache = Settings!NoCache /\ SettingsProofs!Now = Settings!Now
      /\ SettingsProofs!Layered = Settings!Layered
  BY DEF SettingsProofs!Threads, SettingsProofs!NoCache, SettingsProofs!Now, SettingsProofs!Layered,
         Settings!Threads, Settings!NoCache, Settings!Now, Settings!Layered
<1>2. /\ \A s : SettingsProofs!ToSet(s) = Settings!ToSet(s)
      /\ \A a, b : SettingsProofs!Over(a, b) = Settings!Over(a, b)
      /\ \A a, b : SettingsProofs!Keep(a, b) = Settings!Keep(a, b)
  BY Zenon DEF SettingsProofs!ToSet, SettingsProofs!Over, SettingsProofs!Keep,
               Settings!ToSet, Settings!Over, Settings!Keep
<1>3. \A a, b : SettingsProofs!Effective(a, b) = Settings!Effective(a, b)
  BY <1>2 DEF SettingsProofs!Effective, Settings!Effective
<1> QED
  BY <1>1, <1>2, <1>3

LEMMA SameSettingsStep == [Settings!Next]_(Settings!vars) => [SettingsProofs!Next]_(SettingsProofs!vars)
<1>1. UNCHANGED Settings!vars => UNCHANGED SettingsProofs!vars
  BY DEF Settings!vars, SettingsProofs!vars
<1>2. ASSUME NEW c PROVE Settings!EditGlobal(c) => SettingsProofs!EditGlobal(c)
  BY DEF Settings!EditGlobal, SettingsProofs!EditGlobal
<1>3. ASSUME NEW c PROVE Settings!EditOverrides(c) => SettingsProofs!EditOverrides(c)
  BY DEF Settings!EditOverrides, SettingsProofs!EditOverrides
<1>4. Settings!Invalidate => SettingsProofs!Invalidate
  BY SameConfiguration DEF Settings!Invalidate, SettingsProofs!Invalidate
<1>5. ASSUME NEW t PROVE Settings!Stat(t) => SettingsProofs!Stat(t)
  BY SameConfiguration DEF Settings!Stat, SettingsProofs!Stat
<1>6. ASSUME NEW t PROVE Settings!Hit(t) => SettingsProofs!Hit(t)
  BY SameConfiguration DEF Settings!Hit, SettingsProofs!Hit, Settings!Loaded, SettingsProofs!Loaded
<1>7. ASSUME NEW t PROVE Settings!Read(t) => SettingsProofs!Read(t)
  BY SameConfiguration DEF Settings!Read, SettingsProofs!Read, Settings!Reloading, SettingsProofs!Reloading
<1>7a. ASSUME NEW t PROVE Settings!Merge(t) => SettingsProofs!Merge(t)
  BY SameConfiguration DEF Settings!Merge, SettingsProofs!Merge
<1>8. ASSUME NEW t PROVE Settings!Publish(t) => SettingsProofs!Publish(t)
  BY SameConfiguration
  DEF Settings!Publish, SettingsProofs!Publish, Settings!Loaded, SettingsProofs!Loaded
<1>9. ASSUME NEW r PROVE Settings!Ask(r) => SettingsProofs!Ask(r)
  BY DEF Settings!Ask, SettingsProofs!Ask
<1>10. Settings!Patch => SettingsProofs!Patch
  BY SameConfiguration DEF Settings!Patch, SettingsProofs!Patch
<1>11. Settings!SaveWrite => SettingsProofs!SaveWrite
  BY SameConfiguration DEF Settings!SaveWrite, SettingsProofs!SaveWrite
<1>12. Settings!SaveStat => SettingsProofs!SaveStat
  BY DEF Settings!SaveStat, SettingsProofs!SaveStat
<1>13. Settings!GiveUp => SettingsProofs!GiveUp
  BY DEF Settings!GiveUp, SettingsProofs!GiveUp
<1>14. Settings!Next => SettingsProofs!Next
  BY <1>2, <1>3, <1>4, <1>5, <1>6, <1>7, <1>7a, <1>8, <1>9, <1>10, <1>11, <1>12, <1>13, SameConfiguration
  DEF Settings!Next, SettingsProofs!Next
<1> QED
  BY <1>1, <1>14

LEMMA SettingsStart == Settings!Init => SettingsProofs!Init
  BY SameConfiguration DEF Settings!Init, SettingsProofs!Init

LEMMA SettingsAlone == FurtherSpec => SettingsProofs!Spec \/ []~(part = "settings")
<1>1. FurtherInit /\ part = "settings" => SettingsProofs!Init
  BY FurtherStart, SettingsStart
<1>2. part = "settings" /\ [FurtherNext]_FurtherVars => (part = "settings")' /\ [SettingsProofs!Next]_(SettingsProofs!vars)
  BY FurtherStep, SameSettingsStep
<1>3. ~(part = "settings") /\ [FurtherNext]_FurtherVars => ~(part = "settings")'
  BY FurtherStep
<1> QED
  BY <1>1, <1>2, <1>3, PTL DEF FurtherSpec, SettingsProofs!Spec

(* The configuration that is served from the cache is what the files say, whatever *)
(* the threads, the fields and what is asked for and written, unless a request set  *)
(* it or a reload or an edit came between the steps of a save                       *)
(* (config.py:1842-1944, 2049-2072).                                                *)
THEOREM ConfigurationIsTrue == FurtherSpec => []CacheIsTrue
<1>1. SettingsProofs!CacheIsTrue => CacheIsTrue
  BY SameConfiguration DEF SettingsProofs!CacheIsTrue, Settings!CacheIsTrue, CacheIsTrue
<1>2. ~(part = "settings") => CacheIsTrue
  BY DEF CacheIsTrue
<1>3. SettingsProofs!Spec => []SettingsProofs!CacheIsTrue
  BY SettingsProofs!CacheTrue
<1> QED
  BY <1>1, <1>2, <1>3, SettingsAlone, PTL

(* A value that only the active project's overrides set gets into the global file   *)
(* at no other time than while a thread reloads and has not read the overrides yet, *)
(* or when they changed since the handler looked (config.py:1899-1915, 2023-2047).  *)
THEOREM OverridesStayLocal == FurtherSpec => GlobalStaysGlobal
<1>1. [SettingsProofs!GlobalStaysGlobal]_(SettingsProofs!vars)
        => [part = "settings" => Settings!GlobalStaysGlobal]_FurtherVars
  BY SameConfiguration
  DEF SettingsProofs!GlobalStaysGlobal, Settings!GlobalStaysGlobal, SettingsProofs!vars
<1>2. ~(part = "settings") => [part = "settings" => Settings!GlobalStaysGlobal]_FurtherVars
  OBVIOUS
<1>3. SettingsProofs!Spec => [][SettingsProofs!GlobalStaysGlobal]_(SettingsProofs!vars)
  BY SettingsProofs!GlobalStays
<1> QED
  BY <1>1, <1>2, <1>3, SettingsAlone, PTL DEF GlobalStaysGlobal

------------------------------------------------------------------------------
(* BatchSizing.                                                                *)

LEMMA LargerIs ==
  ASSUME NEW a \in Int, NEW b \in Int
  PROVE  Sizing!Max({a, b}) = IF a >= b THEN a ELSE b
  BY DEF Sizing!Max

LEMMA SmallerIs ==
  ASSUME NEW a \in Int, NEW b \in Int
  PROVE  Sizing!Min({a, b}) = IF a <= b THEN a ELSE b
  BY DEF Sizing!Min

LEMMA BetweenIs ==
  ASSUME NEW low \in Int, NEW x \in Int, NEW high \in Int
  PROVE  /\ Sizing!Between(low, x, high) \in Int
         /\ Sizing!Between(low, x, high) >= low
         /\ Sizing!Between(low, x, high) = low \/ Sizing!Between(low, x, high) <= x
         /\ Sizing!Between(low, x, high) = low \/ Sizing!Between(low, x, high) <= high
         /\ Sizing!Between(low, x, high) >= x \/ Sizing!Between(low, x, high) >= high
<1> DEFINE least == Sizing!Min({x, high})
<1>1. least \in Int /\ least <= x /\ least <= high /\ (least = x \/ least = high)
  BY SmallerIs
<1> HIDE DEF least
<1>2. Sizing!Max({low, least}) = IF low >= least THEN low ELSE least
  BY <1>1, LargerIs
<1> QED
  BY <1>1, <1>2 DEF Sizing!Between, least

LEMMA InputTyped ==
  ASSUME NEW in \in Sizing!Inputs
  PROVE  /\ in.gpu.total \in Nat /\ in.gpu.us \in Nat /\ in.gpu.free \in Nat
         /\ in.gpu.us + in.gpu.free <= in.gpu.total
         /\ in.fraction \in 5 .. 100 /\ in.fraction \in Nat
         /\ in.measured \in Nat /\ in.min \in Nat \ {0} /\ in.max \in Nat \ {0}
         /\ in.cuda \in BOOLEAN /\ in.arch \in Sizing!Archs
<1>1. in.gpu \in Sizing!Gpus
  BY DEF Sizing!Inputs
<1>2. /\ in.gpu.total \in Nat /\ in.gpu.us \in Nat /\ in.gpu.free \in Nat
      /\ in.gpu.us + in.gpu.free <= in.gpu.total
  BY <1>1 DEF Sizing!Gpus
<1> QED
  BY <1>2 DEF Sizing!Inputs

\* A chunk costs something.
LEMMA CostIs ==
  ASSUME NEW in \in Sizing!Inputs
  PROVE  Sizing!Cost(in) \in Nat \ {0}
<1>1. in.measured \in Nat /\ in.arch \in Sizing!Archs /\ LeastCost \in Nat \ {0}
  BY InputTyped, SizingAssumption
<1>2. ASSUME in.arch.hidden > 0 PROVE Sizing!EstimatedCost(in.arch) \in Nat \ {0}
  <2> DEFINE arch == in.arch
             head == IF arch.head = 0 THEN arch.hidden \div arch.heads ELSE arch.head
             inner == IF arch.inner = 0 THEN 4 * arch.hidden ELSE arch.inner
             attends == 3 * arch.hidden + 2 * arch.kv * head
             feeds == 2 * arch.hidden + (IF arch.type \in GatedTypes THEN 2 ELSE 1) * inner
             bytes == (Sizing!Max({attends, feeds}) + arch.hidden) * (IF arch.wide THEN 4 ELSE 2)
  <2>1. /\ arch.hidden \in Nat /\ arch.heads \in Nat \ {0} /\ arch.kv \in Nat /\ arch.head \in Nat
        /\ arch.inner \in Nat
    BY <1>1, <1>2 DEF Sizing!Archs
  <2> HIDE DEF arch
  <2>2. head \in Nat /\ inner \in Nat
    BY <2>1
  <2> HIDE DEF head, inner
  <2>3. attends \in Nat /\ feeds \in Nat
    BY <2>1, <2>2
  <2> HIDE DEF attends, feeds
  <2>4. bytes \in Nat
    BY <2>1, <2>3, LargerIs
  <2> HIDE DEF bytes
  <2>5. Sizing!Max({30 * bytes, LeastCost}) \in Nat \ {0}
    BY <1>1, <2>4, LargerIs
  <2>6. Sizing!EstimatedCost(in.arch) = Sizing!Max({30 * bytes, LeastCost})
    BY DEF Sizing!EstimatedCost, bytes, attends, feeds, head, inner, arch
  <2> QED
    BY <2>5, <2>6
<1> QED
  BY <1>1, <1>2 DEF Sizing!Cost

Share(fraction) == Sizing!Between(500, (fraction * 8125) \div 100, 9500)

LEMMA ShareIs ==
  ASSUME NEW fraction \in 5 .. 100
  PROVE  /\ Share(fraction) \in Nat /\ Share(fraction) >= 500
         /\ fraction >= 75 => 100 * Share(fraction) <= 8125 * fraction
<1> DEFINE q == (fraction * 8125) \div 100
<1>1. q \in Nat /\ 100 * q <= fraction * 8125 /\ fraction * 8125 < 100 * q + 100
  OBVIOUS
<1> HIDE DEF q
<1>2. Sizing!Between(500, q, 9500) = IF 500 >= (IF q <= 9500 THEN q ELSE 9500) THEN 500
                                     ELSE IF q <= 9500 THEN q ELSE 9500
  BY <1>1, LargerIs, SmallerIs DEF Sizing!Between
<1>3. Share(fraction) = Sizing!Between(500, q, 9500)
  BY DEF Share, q
<1> QED
  BY <1>1, <1>2, <1>3

TargetOf(free, share) == (((free * share) \div 10000) * 82) \div 100
Spares(target, free, share) == 1000000 * target <= 82 * (free * share)

LEMMA TargetIs ==
  ASSUME NEW free \in Nat, NEW share \in Nat
  PROVE  TargetOf(free, share) \in Nat /\ Spares(TargetOf(free, share), free, share)
<1> DEFINE x == free * share
           a == x \div 10000
           b == (a * 82) \div 100
<1>1. x \in Nat
  OBVIOUS
<1> HIDE DEF x
<1>2. a \in Nat /\ 10000 * a <= x
  BY <1>1, QuotientIs
<1> HIDE DEF a
<1>3. b \in Nat /\ 100 * b <= a * 82
  BY <1>2, QuotientIs
<1> HIDE DEF b
<1>4. 1000000 * b <= 82 * x
  BY <1>1, <1>2, <1>3
<1> QED
  BY <1>3, <1>4 DEF TargetOf, Spares, x, a, b

LEMMA TargetsKeepOrder ==
  ASSUME NEW free \in Nat, NEW more \in Nat, free <= more, NEW share \in Nat
  PROVE  TargetOf(free, share) <= TargetOf(more, share)
<1> DEFINE a == (free * share) \div 10000
           b == (more * share) \div 10000
<1>1. free * share \in Nat /\ more * share \in Nat /\ free * share <= more * share
  OBVIOUS
<1>2. a \in Nat /\ b \in Nat /\ a <= b
  BY <1>1, QuotientIs, QuotientsKeepOrder
<1> HIDE DEF a, b
<1>3. a * 82 \in Nat /\ b * 82 \in Nat /\ a * 82 <= b * 82
  BY <1>2
<1>4. (a * 82) \div 100 <= (b * 82) \div 100
  BY <1>3, QuotientsKeepOrder
<1> QED
  BY <1>4 DEF TargetOf, a, b

Leaves(target, total, free, fraction) == /\ target + (total - (fraction * total) \div 100) <= free
                                         /\ 100 * (total - free + target) <= 95 * total

\* What is taken of half of the GPU leaves the headroom alone.
LEMMA TargetSparesHeadroom ==
  ASSUME NEW total \in Nat, NEW free \in Nat, free <= total, 2 * free >= total,
         NEW fraction \in Nat, 75 <= fraction, fraction <= 100,
         NEW target \in Nat, NEW share \in Nat,
         100 * share <= 8125 * fraction, Spares(target, free, share)
  PROVE  Leaves(target, total, free, fraction)
<1> DEFINE x == free * fraction
           y == fraction * total
           user == y \div 100
           s == free * share
<1>1. x \in Nat /\ 75 * free <= x /\ x <= 100 * free /\ y \in Nat /\ s \in Nat
  OBVIOUS
<1>2. 100 * s <= 8125 * x
  <2>1. free * (100 * share) <= free * (8125 * fraction)
    OBVIOUS
  <2>2. free * (100 * share) = 100 * s /\ free * (8125 * fraction) = 8125 * x
    OBVIOUS
  <2> QED
    BY <2>1, <2>2
<1>3. 100 * total - y <= 200 * free - 2 * x
  <2>1. (100 - fraction) * total <= (100 - fraction) * (2 * free)
    OBVIOUS
  <2>2. (100 - fraction) * total = 100 * total - y
    OBVIOUS
  <2>3. (100 - fraction) * (2 * free) = 200 * free - 2 * x
    OBVIOUS
  <2> QED
    BY <2>1, <2>2, <2>3
<1>4. user \in Nat /\ y < 100 * user + 100
  BY <1>1, QuotientIs
<1>5. 1000000 * target <= 82 * s
  BY DEF Spares
<1> HIDE DEF x, y, user, s
<1>6. 100 * target <= 2 * x - 100 * free /\ 100 * target <= 67 * free
  BY <1>1, <1>2, <1>5
<1>7. target + (total - user) <= free
  BY <1>1, <1>3, <1>4, <1>6
<1>8. 100 * (total - free + target) <= 95 * total
  BY <1>6
<1> QED
  BY <1>7, <1>8 DEF Leaves, user, y

LEMMA LimitsAre ==
  ASSUME NEW in \in Sizing!Inputs
  PROVE  /\ Sizing!Limits(in).min \in Nat \ {0} /\ Sizing!Limits(in).min <= in.min
         /\ Sizing!Limits(in).max \in Nat \ {0} /\ Sizing!Limits(in).max <= in.max
<1> DEFINE small == in.gpu.total <= 6 * 1024
           laptop == ~small /\ in.gpu.total <= 10 * 1024
           high == IF small THEN 16 ELSE IF laptop THEN 32 ELSE in.max
           low == IF small THEN 2 ELSE IF laptop THEN 4 ELSE in.min
           scarce == IF in.gpu.free < 4 * 1024 THEN 8 ELSE IF in.gpu.free < 6 * 1024 THEN 16 ELSE in.max
<1>1. high \in Nat \ {0} /\ low \in Nat \ {0} /\ scarce \in Nat \ {0} /\ in.min \in Nat \ {0} /\ in.max \in Nat \ {0}
  BY InputTyped
<1>2. Sizing!Limits(in) = [min |-> Sizing!Min({in.min, low}), max |-> Sizing!Min({in.max, high, scarce})]
  BY DEF Sizing!Limits
<1> HIDE DEF high, low, scarce
<1>3. Sizing!Min({in.min, low}) \in Nat \ {0} /\ Sizing!Min({in.min, low}) <= in.min
  BY <1>1, SmallerIs
<1>4. Sizing!Min({in.max, high, scarce}) \in {in.max, high, scarce} /\ Sizing!Min({in.max, high, scarce}) <= in.max
  <2>1. \E x \in {in.max, high, scarce} : \A y \in {in.max, high, scarce} : x <= y
    BY <1>1
  <2> QED
    BY <2>1 DEF Sizing!Min
<1> QED
  BY <1>1, <1>2, <1>3, <1>4

LEMMA TargetTyped ==
  ASSUME NEW in \in Sizing!Inputs
  PROVE  Sizing!Target(in) = TargetOf(in.gpu.free, Share(in.fraction)) /\ Sizing!Target(in) \in Nat
<1>1. Sizing!Target(in) = TargetOf(in.gpu.free, Share(in.fraction))
  BY DEF Sizing!Target, TargetOf, Share
<1>2. in.gpu.free \in Nat /\ Share(in.fraction) \in Nat
  BY InputTyped, ShareIs
<1> QED
  BY <1>1, <1>2, TargetIs

LEMMA SizedBatchIs ==
  ASSUME NEW in \in Sizing!Inputs, in.cuda
  PROVE  LET size == Sizing!OptimalBatch(in)
         IN /\ size \in Nat \ {0} /\ (size <= in.min \/ size <= in.max)
            /\ size > Sizing!Limits(in).min => (size * Sizing!Cost(in)) \div 1024 <= Sizing!Target(in)
<1> DEFINE size == Sizing!OptimalBatch(in)
           cost == Sizing!Cost(in)
           target == Sizing!Target(in)
           x == (target * 1024) \div cost
           low == Sizing!Limits(in).min
           high == Sizing!Limits(in).max
<1>1. low \in Nat \ {0} /\ low <= in.min /\ high \in Nat \ {0} /\ high <= in.max
  BY LimitsAre
<1>2. cost \in Nat \ {0} /\ target \in Nat
  BY CostIs, TargetTyped
<1>3. size = Sizing!Between(low, x, high)
  BY DEF Sizing!OptimalBatch
<1>4. in.min \in Nat /\ in.max \in Nat
  BY InputTyped
<1> HIDE DEF cost, target, low, high, size
<1>5. x \in Nat /\ cost * x <= target * 1024
  BY <1>2, QuotientIs
<1> HIDE DEF x
<1>6. size \in Int /\ size >= low /\ (size = low \/ size <= x) /\ (size = low \/ size <= high)
  <2>1. low \in Int /\ x \in Int /\ high \in Int
    BY <1>1, <1>5
  <2> QED
    <3>1. /\ Sizing!Between(low, x, high) \in Int /\ Sizing!Between(low, x, high) >= low
          /\ Sizing!Between(low, x, high) = low \/ Sizing!Between(low, x, high) <= x
          /\ Sizing!Between(low, x, high) = low \/ Sizing!Between(low, x, high) <= high
      BY <2>1, BetweenIs
    <3> QED
      BY <1>3, <3>1
<1>7. ASSUME size > low PROVE (size * cost) \div 1024 <= target
  <2>1. size \in Nat /\ size <= x
    BY <1>1, <1>6, <1>7
  <2>2. size * cost <= cost * x
    BY <2>1, <1>2, <1>5
  <2>3. size * cost \in Nat /\ size * cost <= target * 1024
    BY <2>1, <2>2, <1>2, <1>5
  <2>4. (size * cost) \div 1024 <= (target * 1024) \div 1024
    BY <2>3, <1>2, QuotientsKeepOrder
  <2>5. (target * 1024) \div 1024 = target
    BY <1>2
  <2> QED
    BY <2>4, <2>5
<1>8. size \in Nat \ {0} /\ (size <= in.min \/ size <= in.max)
  BY <1>1, <1>4, <1>6
<1> QED
  BY <1>7, <1>8 DEF size, low, cost, target

LEMMA MoreIsFree ==
  ASSUME NEW in \in Sizing!Inputs, in.cuda, NEW more \in Nat,
         in.gpu.us + in.gpu.free + 1024 * more <= in.gpu.total
  PROVE  Sizing!OptimalBatch(in) <= Sizing!OptimalBatch([in EXCEPT !.gpu.free = @ + 1024 * more])
<1> DEFINE freer == [in EXCEPT !.gpu.free = @ + 1024 * more]
<1>1. /\ in.gpu.total \in Nat /\ in.gpu.us \in Nat /\ in.gpu.free \in Nat /\ in.gpu \in Sizing!Gpus
      /\ in.gpu = [total |-> in.gpu.total, us |-> in.gpu.us, free |-> in.gpu.free]
  <2>1. in.gpu \in Sizing!Gpus
    BY DEF Sizing!Inputs
  <2> QED
    BY <2>1 DEF Sizing!Gpus
<1>2. freer = [in EXCEPT !.gpu = [total |-> in.gpu.total, us |-> in.gpu.us, free |-> in.gpu.free + 1024 * more]]
  BY <1>1 DEF Sizing!Inputs
<1>3. /\ freer.gpu = [total |-> in.gpu.total, us |-> in.gpu.us, free |-> in.gpu.free + 1024 * more]
      /\ freer.cuda = in.cuda /\ freer.fraction = in.fraction /\ freer.measured = in.measured
      /\ freer.arch = in.arch /\ freer.min = in.min /\ freer.max = in.max
  <2>1. "gpu" \in DOMAIN in
    BY DEF Sizing!Inputs
  <2> HIDE DEF freer
  <2>2. freer = [in EXCEPT !["gpu"] = [total |-> in.gpu.total, us |-> in.gpu.us, free |-> in.gpu.free + 1024 * more]]
    BY <1>2
  <2>3. freer.gpu = [total |-> in.gpu.total, us |-> in.gpu.us, free |-> in.gpu.free + 1024 * more]
    BY <2>1, <2>2
  <2>4. \A f \in DOMAIN in : f # "gpu" => freer[f] = in[f]
    BY <2>2
  <2>5. /\ "cuda" \in DOMAIN in /\ "fraction" \in DOMAIN in /\ "measured" \in DOMAIN in
        /\ "arch" \in DOMAIN in /\ "min" \in DOMAIN in /\ "max" \in DOMAIN in
    BY DEF Sizing!Inputs
  <2>6. /\ freer["cuda"] = in["cuda"] /\ freer["fraction"] = in["fraction"]
        /\ freer["measured"] = in["measured"] /\ freer["arch"] = in["arch"]
        /\ freer["min"] = in["min"] /\ freer["max"] = in["max"]
    BY <2>4, <2>5
  <2> QED
    BY <2>3, <2>6
<1>4. freer \in Sizing!Inputs
  <2>1. [total |-> in.gpu.total, us |-> in.gpu.us, free |-> in.gpu.free + 1024 * more] \in Sizing!Gpus
    BY <1>1 DEF Sizing!Gpus
  <2> QED
    BY <1>2, <2>1 DEF Sizing!Inputs
<1>5. /\ freer.gpu.total = in.gpu.total /\ freer.gpu.free \in Nat /\ in.gpu.free <= freer.gpu.free
  BY <1>1, <1>3
<1> HIDE DEF freer
<1>6. Sizing!Cost(freer) = Sizing!Cost(in) /\ Sizing!Cost(in) \in Nat \ {0}
  BY <1>3, CostIs DEF Sizing!Cost
<1>7. Sizing!Target(in) \in Nat /\ Sizing!Target(freer) \in Nat /\ Sizing!Target(in) <= Sizing!Target(freer)
  <2>1. Share(in.fraction) \in Nat
    BY ShareIs, InputTyped
  <2>2. Sizing!Target(in) = TargetOf(in.gpu.free, Share(in.fraction)) /\ Sizing!Target(in) \in Nat
    BY TargetTyped
  <2>3. Sizing!Target(freer) = TargetOf(freer.gpu.free, Share(in.fraction)) /\ Sizing!Target(freer) \in Nat
    BY <1>3, <1>4, TargetTyped
  <2> QED
    BY <1>1, <1>5, <2>1, <2>2, <2>3, TargetsKeepOrder
<1> DEFINE x == (Sizing!Target(in) * 1024) \div Sizing!Cost(in)
           y == (Sizing!Target(freer) * 1024) \div Sizing!Cost(in)
           low == Sizing!Limits(in).min
           high == Sizing!Limits(in).max
           higher == Sizing!Limits(freer).max
<1>8. x \in Nat /\ y \in Nat /\ x <= y
  <2>1. /\ Sizing!Target(in) * 1024 \in Nat /\ Sizing!Target(freer) * 1024 \in Nat
        /\ Sizing!Target(in) * 1024 <= Sizing!Target(freer) * 1024
    BY <1>7
  <2> QED
    BY <1>6, <2>1, QuotientIs, QuotientsKeepOrder
<1>9. /\ low \in Nat /\ high \in Nat /\ higher \in Nat /\ Sizing!Limits(freer).min = low /\ high <= higher
  <2>1. low \in Nat /\ high \in Nat /\ higher \in Nat
    BY <1>4, LimitsAre
  <2>2. Sizing!Limits(freer).min = low
    BY <1>3, <1>5 DEF Sizing!Limits
  <2>3. high <= higher
    <3> DEFINE small == in.gpu.total <= 6 * 1024
               laptop == ~small /\ in.gpu.total <= 10 * 1024
               upper == IF small THEN 16 ELSE IF laptop THEN 32 ELSE in.max
               Scarce(free) == IF free < 4 * 1024 THEN 8 ELSE IF free < 6 * 1024 THEN 16 ELSE in.max
               a == Scarce(in.gpu.free)
               b == Scarce(freer.gpu.free)
    <3>1. in.max \in Nat /\ upper \in Nat /\ a \in Nat /\ b \in Nat /\ (a <= b \/ in.max <= b)
      BY <1>1, <1>5, InputTyped
    <3>2. high = Sizing!Min({in.max, upper, a})
      BY DEF Sizing!Limits
    <3>3. higher = Sizing!Min({in.max, upper, b})
      BY <1>3, <1>5 DEF Sizing!Limits
    <3> HIDE DEF upper, a, b, high, higher
    <3>4. \A c \in Nat : LET S == {in.max, upper, c}
                         IN Sizing!Min(S) \in S /\ \A z \in S : Sizing!Min(S) <= z
      <4> TAKE c \in Nat
      <4>1. \E z \in {in.max, upper, c} : \A w \in {in.max, upper, c} : z <= w
        BY <3>1
      <4> QED
        BY <4>1 DEF Sizing!Min
    <3>5. high \in {in.max, upper, a} /\ \A z \in {in.max, upper, a} : high <= z
      BY <3>1, <3>2, <3>4
    <3>6. higher \in {in.max, upper, b} /\ \A z \in {in.max, upper, b} : higher <= z
      BY <3>1, <3>3, <3>4
    <3> QED
      BY <3>1, <3>5, <3>6
  <2> QED
    BY <2>1, <2>2, <2>3
<1>10. Sizing!OptimalBatch(in) = Sizing!Between(low, x, high)
  BY DEF Sizing!OptimalBatch
<1>11. Sizing!OptimalBatch(freer) = Sizing!Between(low, y, higher)
  BY <1>3, <1>6, <1>9 DEF Sizing!OptimalBatch
<1> HIDE DEF x, y, low, high, higher
<1>12. Sizing!Between(low, x, high) <= Sizing!Between(low, y, higher)
  <2>1. low \in Int /\ x \in Int /\ y \in Int /\ high \in Int /\ higher \in Int /\ x <= y /\ high <= higher
    BY <1>8, <1>9
  <2>2. /\ Sizing!Between(low, x, high) \in Int
        /\ Sizing!Between(low, x, high) = low \/ Sizing!Between(low, x, high) <= x
        /\ Sizing!Between(low, x, high) = low \/ Sizing!Between(low, x, high) <= high
    BY <2>1, BetweenIs
  <2>3. /\ Sizing!Between(low, y, higher) \in Int /\ Sizing!Between(low, y, higher) >= low
        /\ Sizing!Between(low, y, higher) >= y \/ Sizing!Between(low, y, higher) >= higher
    BY <2>1, BetweenIs
  <2> QED
    BY <2>1, <2>2, <2>3
<1> QED
  BY <1>10, <1>11, <1>12 DEF freer

\* The ceiling leaves the target alone where half of the GPU is free.
LEMMA CeilingIs ==
  ASSUME NEW in \in Sizing!Inputs
  PROVE  LET cap == Sizing!EffectiveCap(in)
             user == (in.fraction * in.gpu.total) \div 100
             physical == in.gpu.us + in.gpu.free - Sizing!Headroom(in)
             floor == (5 * in.gpu.total) \div 100
         IN /\ user \in Nat /\ user <= in.gpu.total /\ floor \in Nat /\ Sizing!Headroom(in) = in.gpu.total - user
            /\ cap = LET held == IF (IF user <= physical THEN user ELSE physical) >= in.gpu.us
                                 THEN IF user <= physical THEN user ELSE physical ELSE in.gpu.us
                         least == IF held <= user THEN held ELSE user
                     IN IF floor >= least THEN floor ELSE least
<1> DEFINE user == (in.fraction * in.gpu.total) \div 100
           physical == in.gpu.us + in.gpu.free - Sizing!Headroom(in)
           floor == (5 * in.gpu.total) \div 100
           least == Sizing!Min({user, physical})
           held == Sizing!Max({least, in.gpu.us})
           allowed == Sizing!Min({held, user})
<1>1. /\ in.gpu.total \in Nat /\ in.gpu.us \in Nat /\ in.gpu.free \in Nat /\ in.fraction \in 5 .. 100
      /\ in.fraction * in.gpu.total \in Nat /\ in.fraction * in.gpu.total <= 100 * in.gpu.total
      /\ 5 * in.gpu.total \in Nat
  BY InputTyped
<1>2. user \in Nat /\ floor \in Nat /\ 100 * user <= in.fraction * in.gpu.total
  BY <1>1, QuotientIs
<1>3. Sizing!Headroom(in) = in.gpu.total - user
  BY DEF Sizing!Headroom
<1>4. Sizing!EffectiveCap(in) = Sizing!Max({floor, allowed})
  BY DEF Sizing!EffectiveCap
<1> HIDE DEF user, floor
<1>5. user <= in.gpu.total /\ physical \in Int
  BY <1>1, <1>2, <1>3
<1> HIDE DEF physical
<1>6. least = IF user <= physical THEN user ELSE physical
  BY <1>2, <1>5, SmallerIs
<1> HIDE DEF least
<1>7. held = IF least >= in.gpu.us THEN least ELSE in.gpu.us
  BY <1>1, <1>2, <1>5, <1>6, LargerIs
<1> HIDE DEF held
<1>8. allowed = IF held <= user THEN held ELSE user
  BY <1>1, <1>2, <1>5, <1>6, <1>7, SmallerIs
<1> HIDE DEF allowed
<1>9. Sizing!Max({floor, allowed}) = IF floor >= allowed THEN floor ELSE allowed
  BY <1>1, <1>2, <1>5, <1>6, <1>7, <1>8, LargerIs
<1> QED
  BY <1>2, <1>3, <1>4, <1>5, <1>6, <1>7, <1>8, <1>9 DEF user, physical, floor

LEMMA BatchFits ==
  ASSUME NEW in \in Sizing!Inputs, in.cuda
  PROVE  Sizing!Fits(in)
<1> DEFINE size == Sizing!OptimalBatch(in)
           taken == (size * Sizing!Cost(in)) \div 1024
<1>1. /\ size \in Nat \ {0} /\ (size <= in.min \/ size <= in.max)
      /\ size > Sizing!Limits(in).min => taken <= Sizing!Target(in)
  BY SizedBatchIs
<1>2. size <= Sizing!Max({in.min, in.max})
  BY <1>1, InputTyped, LargerIs
<1>3. taken \in Nat
  BY <1>1, CostIs, QuotientIs
<1>4. ASSUME size > Sizing!Limits(in).min, in.fraction >= 75, 2 * in.gpu.free >= in.gpu.total
      PROVE  in.gpu.us + taken <= Sizing!EffectiveCap(in) /\ ~Sizing!Exhausted(in, in.gpu.us + taken)
  <2> DEFINE user == (in.fraction * in.gpu.total) \div 100
             target == Sizing!Target(in)
  <2>1. /\ in.gpu.total \in Nat /\ in.gpu.us \in Nat /\ in.gpu.free \in Nat /\ in.fraction \in 75 .. 100
        /\ in.gpu.us + in.gpu.free <= in.gpu.total /\ in.gpu.free <= in.gpu.total
    BY <1>4, InputTyped
  <2>2. Share(in.fraction) \in Nat /\ 100 * Share(in.fraction) <= 8125 * in.fraction
    BY <1>4, <2>1, ShareIs
  <2>3. target \in Nat /\ Spares(target, in.gpu.free, Share(in.fraction))
    <3>1. target = TargetOf(in.gpu.free, Share(in.fraction)) /\ target \in Nat
      BY TargetTyped
    <3> HIDE DEF target
    <3>2. in.gpu.free \in Nat /\ Share(in.fraction) \in Nat
      BY <2>1, <2>2
    <3>3. Spares(TargetOf(in.gpu.free, Share(in.fraction)), in.gpu.free, Share(in.fraction))
      BY <3>2, TargetIs
    <3> QED
      BY <3>1, <3>3
  <2> HIDE DEF target
  <2>4. target + (in.gpu.total - user) <= in.gpu.free /\ 100 * (in.gpu.total - in.gpu.free + target) <= 95 * in.gpu.total
    <3>1. Leaves(target, in.gpu.total, in.gpu.free, in.fraction)
      <4> DEFINE total == in.gpu.total
                 free == in.gpu.free
                 fraction == in.fraction
                 share == Share(in.fraction)
      <4>1. /\ total \in Nat /\ free \in Nat /\ free <= total /\ 2 * free >= total
            /\ fraction \in Nat /\ 75 <= fraction /\ fraction <= 100
            /\ target \in Nat /\ share \in Nat /\ 100 * share <= 8125 * fraction /\ Spares(target, free, share)
        BY <1>4, <2>1, <2>2, <2>3
      <4> HIDE DEF total, free, fraction, share
      <4>2. Leaves(target, total, free, fraction)
        BY <4>1, TargetSparesHeadroom
      <4> QED
        BY <4>2 DEF total, free, fraction
    <3> QED
      BY <3>1 DEF Leaves
  <2>5. taken <= target
    BY <1>1, <1>4 DEF target
  <2>6. user \in Nat /\ user <= in.gpu.total
    BY CeilingIs
  <2> HIDE DEF user, taken
  <2>7. in.gpu.us + taken <= user /\ in.gpu.us + taken <= in.gpu.us + in.gpu.free - (in.gpu.total - user)
    BY <1>3, <2>1, <2>3, <2>4, <2>5, <2>6
  <2>8. 100 * (in.gpu.us + taken) <= 95 * in.gpu.total
    BY <1>3, <2>1, <2>3, <2>4, <2>5
  <2>9. in.gpu.us + taken <= Sizing!EffectiveCap(in)
    BY <1>3, <2>1, <2>6, <2>7, CeilingIs DEF user
  <2> QED
    BY <1>3, <2>1, <2>8, <2>9 DEF Sizing!Exhausted
<1>5. ASSUME NEW more \in 0 .. (in.gpu.total - in.gpu.us - in.gpu.free) \div 1024
      PROVE  size <= Sizing!OptimalBatch([in EXCEPT !.gpu.free = @ + 1024 * more])
  <2> DEFINE rest == in.gpu.total - in.gpu.us - in.gpu.free
  <2>1. /\ in.gpu.total \in Nat /\ in.gpu.us \in Nat /\ in.gpu.free \in Nat /\ rest \in Nat
        /\ rest = in.gpu.total - in.gpu.us - in.gpu.free
    BY InputTyped
  <2> HIDE DEF rest
  <2> DEFINE most == rest \div 1024
  <2>2. most \in Nat /\ 1024 * most <= rest
    BY <2>1, QuotientIs
  <2>3. more \in 0 .. most
    BY DEF rest
  <2> HIDE DEF most
  <2>4. more \in Nat /\ 1024 * more <= rest
    BY <2>1, <2>2, <2>3
  <2> QED
    BY <2>1, <2>4, MoreIsFree
<1> QED
  BY <1>1, <1>2, <1>4, <1>5 DEF Sizing!Fits

LEMMA CeilingSparesOthers ==
  ASSUME NEW in \in Sizing!Inputs
  PROVE  Sizing!CapSparesOthers(in)
<1> DEFINE floor == (5 * in.gpu.total) \div 100
<1>1. in.gpu.total \in Nat /\ in.gpu.us \in Nat /\ in.gpu.free \in Nat
  BY InputTyped
<1>2. floor \in Nat /\ Sizing!Max({in.gpu.us, floor}) = IF in.gpu.us >= floor THEN in.gpu.us ELSE floor
  BY <1>1, CeilingIs, LargerIs
<1> HIDE DEF floor
<1>3. \/ Sizing!EffectiveCap(in) + (in.gpu.total - in.gpu.free - in.gpu.us) + Sizing!Headroom(in) <= in.gpu.total
      \/ Sizing!EffectiveCap(in) <= Sizing!Max({in.gpu.us, floor})
  BY <1>1, <1>2, CeilingIs DEF floor
<1> QED
  BY <1>3 DEF Sizing!CapSparesOthers, floor

(* Whatever the GPU, the model and the configuration are, a sized batch takes no more *)
(* than its share, stays below the ceiling if half of the GPU is free, never gets      *)
(* smaller with more free memory, and the ceiling spares the other processes           *)
(* (embedder.py:196-252, 339-431, 1320-1336).                                          *)
THEOREM SizedBatchesFit == FurtherSpec => []BatchesFit
<1> DEFINE Inv == part = "sizing" => /\ v2 = NoInput => v1 \in DOMAIN GpuInputs
                                     /\ v2 # NoInput => v2 \in Sizing!Inputs
<1>1. FurtherInit => Inv
  BY DEF FurtherInit, Chosen
<1>2. Inv /\ [FurtherNext]_FurtherVars => Inv'
  <2> SUFFICES ASSUME Inv, [FurtherNext]_FurtherVars, part' = "sizing" PROVE Inv'
    BY Zenon
  <2>1. CASE UNCHANGED FurtherVars
    BY <2>1 DEF FurtherVars, vars
  <2>2. CASE FurtherNext
    <3>1. part = "sizing" /\ Complete(GpuInputs[v1])
      BY <2>2, FurtherStep DEF FurtherNext
    <3> QED
      BY <3>1, SizingAssumption DEF Complete
  <2> QED
    BY <2>1, <2>2
<1>3. Inv => BatchesFit
  BY BatchFits, CeilingSparesOthers DEF BatchesFit, Sizing!BatchesFit
<1> QED
  BY <1>1, <1>2, <1>3, PTL DEF FurtherSpec

------------------------------------------------------------------------------
(* IntentRouting.                                                              *)

LEMMA RoutingCounts ==
  /\ \A S : Routing!Cardinality(S) = Cardinality(S)
  /\ \A S : Routing!IsFiniteSet(S) <=> IsFiniteSet(S)
<1>1. \A S : Routing!Cardinality(S) = Cardinality(S)
  BY Zenon DEF Routing!Cardinality, Cardinality
<1>2. \A S : Routing!IsFiniteSet(S) <=> IsFiniteSet(S)
  BY Zenon DEF Routing!IsFiniteSet, IsFiniteSet
<1> QED
  BY <1>1, <1>2

LEMMA LargestIs ==
  ASSUME NEW S \in SUBSET Int, IsFiniteSet(S), S # {}
  PROVE  Routing!Max(S) \in S /\ \A y \in S : y <= Routing!Max(S)
<1>1. \E x \in S : \A y \in S : x >= y
  BY Extremes
<1> QED
  BY <1>1 DEF Routing!Max

LEMMA SmallestIs ==
  ASSUME NEW S \in SUBSET Int, IsFiniteSet(S), S # {}
  PROVE  Routing!Min(S) \in S /\ \A y \in S : Routing!Min(S) <= y
<1>1. \E x \in S : \A y \in S : x <= y
  BY Extremes
<1> QED
  BY <1>1 DEF Routing!Min

LEMMA LargerOf ==
  ASSUME NEW a \in Int, NEW b \in Int
  PROVE  Routing!Max({a, b}) = IF a >= b THEN a ELSE b
  BY DEF Routing!Max

LEMMA SmallerOf ==
  ASSUME NEW a \in Int, NEW b \in Int
  PROVE  Routing!Min({a, b}) = IF a <= b THEN a ELSE b
  BY DEF Routing!Min

\* ... with a bound.
LEMMA AtMost ==
  ASSUME NEW x \in Nat, NEW most \in Nat
  PROVE  Routing!Min({most, x}) \in Nat
  BY SmallerOf

LEMMA IntentsAre ==
  /\ IsFiniteSet(Routing!Intents) /\ Routing!Intents # {}
  /\ Routing!Intents = {IntentOrder[n] : n \in 1 .. Len(IntentOrder)} /\ Len(IntentOrder) \in Nat
  /\ DOMAIN IntentOrder = 1 .. Len(IntentOrder)
<1>1. /\ Len(IntentOrder) \in Nat /\ Len(IntentOrder) # 0 /\ DOMAIN IntentOrder = 1 .. Len(IntentOrder)
  BY RoutingAssumption
<1>2. Routing!Intents = {IntentOrder[n] : n \in 1 .. Len(IntentOrder)}
  BY <1>1 DEF Routing!Intents, Routing!ToSet
<1>3. IsFiniteSet(1 .. Len(IntentOrder)) /\ 1 \in 1 .. Len(IntentOrder)
  BY <1>1, FS_Interval
<1> QED
  BY <1>1, <1>2, <1>3, ImageIsFinite

\* The scored from words are natural numbers.
LEMMA KeywordScores ==
  ASSUME NEW in, Routing!IsQuery(in)
  PROVE  Routing!CalculateScores(in) \in [Routing!Intents -> Nat]
<1> DEFINE matched(i) == Routing!Min({10000, (10 * in.keywords[i] + in.patterns[i]) * IntentWeights[i]})
           few(styles) == Cardinality(Routing!Written(in, styles))
           sum == 2500 * few({"camel", "dotted"}) + 2000 * few({"snake"}) + 1500 * few({"upper"})
<1>1. ASSUME NEW i \in Routing!Intents PROVE matched(i) \in Nat
  <2> DEFINE keywords == in.keywords[i]
             patterns == in.patterns[i]
             weight == IntentWeights[i]
             strength == (10 * keywords + patterns) * weight
  <2>1. keywords \in Nat /\ patterns \in Nat /\ weight \in Nat
    BY RoutingAssumption DEF Routing!IsQuery
  <2> HIDE DEF keywords, patterns, weight
  <2>2. strength \in Nat
    BY <2>1
  <2> HIDE DEF strength
  <2>3. Routing!Min({10000, strength}) \in Nat
    BY <2>2, AtMost
  <2> QED
    BY <2>3 DEF strength, keywords, patterns, weight
<1> HIDE DEF matched
<1>2. \A i \in Routing!Intents : matched(i) \in Nat
  BY <1>1
<1>3. ASSUME NEW styles PROVE few(styles) \in Nat
  <2>1. DOMAIN in.tokens = 1 .. Len(in.tokens) /\ Len(in.tokens) \in Nat
    BY DEF Routing!IsQuery
  <2>2. Routing!Written(in, styles) \subseteq 1 .. Len(in.tokens)
    BY <2>1 DEF Routing!Written
  <2>3. IsFiniteSet(Routing!Written(in, styles))
    <3>1. IsFiniteSet(1 .. Len(in.tokens))
      BY <2>1, FS_Interval
    <3> QED
      BY <2>2, <3>1, FS_Subset
  <2> QED
    BY <2>3, FS_CardinalityType
<1> HIDE DEF few
<1>4. Routing!DetectCodeSymbols(in) \in Nat
  <2>1. few({"camel", "dotted"}) \in Nat /\ few({"snake"}) \in Nat /\ few({"upper"}) \in Nat
    BY <1>3
  <2>2. sum \in Nat
    BY <2>1
  <2>3. Routing!DetectCodeSymbols(in) = Routing!Min({5000, sum})
    BY RoutingCounts DEF few, Routing!DetectCodeSymbols
  <2> HIDE DEF sum
  <2>4. Routing!Min({5000, sum}) \in Nat
    BY <2>2, AtMost
  <2> QED
    BY <2>3, <2>4
<1>5. ASSUME NEW i \in Routing!Intents
      PROVE  Routing!Min({10000, matched(i) + Routing!DetectCodeSymbols(in)}) \in Nat
  <2> DEFINE more == matched(i) + Routing!DetectCodeSymbols(in)
  <2>1. more \in Nat
    BY <1>2, <1>4
  <2> HIDE DEF more
  <2>2. Routing!Min({10000, more}) \in Nat
    BY <2>1, AtMost
  <2> QED
    BY <2>2 DEF more
<1> QED
  BY <1>2, <1>5 DEF Routing!CalculateScores, matched

LEMMA KeptIs ==
  ASSUME NEW in, Routing!IsQuery(in)
  PROVE  /\ Routing!Kept(in) \subseteq 1 .. Len(in.cache)
         /\ IsFiniteSet(Routing!Kept(in)) /\ Routing!Kept(in) \in SUBSET Int
<1>1. DOMAIN in.cache = 1 .. Len(in.cache) /\ Len(in.cache) \in Nat
  BY DEF Routing!IsQuery
<1>2. Routing!Kept(in) \subseteq 1 .. Len(in.cache)
  BY <1>1 DEF Routing!Kept
<1>3. IsFiniteSet(1 .. Len(in.cache))
  BY <1>1, FS_Interval
<1> QED
  BY <1>1, <1>2, <1>3, FS_Subset

\* A model's anchors: some for some of the intents.
LEMMA AnchorsAre ==
  ASSUME NEW in, Routing!IsQuery(in)
  PROVE  /\ DOMAIN Routing!AnchorEmbeddings(in) \subseteq Routing!Intents
         /\ \A i \in DOMAIN Routing!AnchorEmbeddings(in) :
              Routing!AnchorEmbeddings(in)[i] \in Routing!Anchors \ {{}}
<1>1. CASE Routing!Kept(in) = {}
  <2>1. Routing!AnchorEmbeddings(in) = Routing!Embedded(in)
    BY <1>1 DEF Routing!AnchorEmbeddings
  <2>2. ASSUME NEW A \in Routing!Anchors PROVE {a \in A : ~a.fails} \in Routing!Anchors
    BY RoutingCounts, FS_Subset DEF Routing!Anchors
  <2>3. in.anchors \in [Routing!Intents -> Routing!Anchors]
    BY DEF Routing!IsQuery
  <2> QED
    BY <2>1, <2>2, <2>3 DEF Routing!Embedded
<1>2. CASE Routing!Kept(in) # {}
  <2>1. Routing!EntryOf(in) \in Routing!ToSet(in.cache)
    <3>1. DOMAIN in.cache = 1 .. Len(in.cache)
      BY DEF Routing!IsQuery
    <3>2. Routing!Min(Routing!Kept(in)) \in DOMAIN in.cache
      BY <1>2, <3>1, KeptIs, SmallestIs
    <3> QED
      BY <3>1, <3>2 DEF Routing!EntryOf, Routing!ToSet
  <2>2. Routing!IsEntry(Routing!EntryOf(in))
    BY <2>1 DEF Routing!IsQuery
  <2> QED
    BY <1>2, <2>2 DEF Routing!AnchorEmbeddings, Routing!IsEntry
<1> QED
  BY <1>1, <1>2

LEMMA SemanticScoresAre ==
  ASSUME NEW in, Routing!IsQuery(in)
  PROVE  Routing!Likeness(Routing!SemanticScores(in)) \in [Routing!Intents -> Nat]
<1> DEFINE semantic == Routing!SemanticScores(in)
           anchors == Routing!AnchorEmbeddings(in)
<1>1. \A i \in DOMAIN semantic : semantic[i] \in Int
  <2>1. CASE ~in.semantic \/ ~in.embeds
    BY <2>1 DEF Routing!SemanticScores, Routing!CalculateSemanticScores
  <2>2. CASE in.semantic /\ in.embeds
    <3>1. semantic = [i \in DOMAIN anchors |-> Routing!Max({a.like : a \in anchors[i]})]
      BY <2>2 DEF Routing!SemanticScores, Routing!CalculateSemanticScores
    <3>2. ASSUME NEW i \in DOMAIN anchors PROVE Routing!Max({a.like : a \in anchors[i]}) \in Int
      <4>1. anchors[i] \in Routing!Anchors \ {{}}
        BY AnchorsAre
      <4> DEFINE of == anchors[i]
                 like == [a \in of |-> a.like]
                 likes == {like[a] : a \in of}
      <4> HIDE DEF of
      <4>2. of # {} /\ IsFiniteSet(of) /\ \A a \in of : a.like \in Int
        BY <4>1, RoutingCounts DEF of, Routing!Anchors
      <4>3. IsFiniteSet(likes)
        BY <4>2, ImageIsFinite
      <4>4. likes \in SUBSET Int /\ likes # {}
        BY <4>2
      <4>5. Routing!Max(likes) \in Int
        BY <4>3, <4>4, LargestIs
      <4>6. likes = {a.like : a \in of}
        OBVIOUS
      <4> QED
        BY <4>5, <4>6 DEF of
    <3> QED
      BY <3>1, <3>2
  <2> QED
    BY <2>1, <2>2
<1> HIDE DEF semantic
<1>2. ASSUME NEW i \in DOMAIN semantic PROVE Routing!Max({0, semantic[i]}) \in Nat
  BY <1>1, LargerOf
<1> QED
  BY <1>2 DEF Routing!Likeness, semantic

\* Who has no fewer signs in words and in anchors scored no less; who scored has a sign.
LEMMA ScoresKeepOrder ==
  ASSUME NEW in, Routing!IsQuery(in)
  PROVE  LET keyword == Routing!CalculateScores(in)
             like == Routing!Likeness(Routing!SemanticScores(in))
             scored == Routing!Scores(in)
         IN /\ scored \in [Routing!Intents -> Nat]
            /\ \A i, j \in Routing!Intents :
                 keyword[i] <= keyword[j] /\ like[i] <= like[j] => scored[i] <= scored[j]
            /\ \A i \in Routing!Intents : scored[i] > 0 => keyword[i] > 0 \/ like[i] > 0
<1> DEFINE keyword == Routing!CalculateScores(in)
           semantic == Routing!SemanticScores(in)
           like == Routing!Likeness(semantic)
           scored == Routing!Scores(in)
           mean == Routing!EnsembleScores(in, keyword, semantic)
           weighed(i) == (100 - in.share) * keyword[i] + in.share * 100 * like[i]
<1>1. keyword \in [Routing!Intents -> Nat] /\ like \in [Routing!Intents -> Nat] /\ in.share \in 0 .. 100
  BY KeywordScores, SemanticScoresAre DEF Routing!IsQuery
<1>2. scored = keyword \/ scored = mean
  BY DEF Routing!Scores, Routing!Combined
<1>3. mean = [i \in Routing!Intents |-> weighed(i) \div 100]
  BY DEF Routing!EnsembleScores
<1> HIDE DEF keyword, semantic, like, scored, mean
<1>4. ASSUME NEW i \in Routing!Intents
      PROVE  weighed(i) \in Nat /\ (weighed(i) > 0 => keyword[i] > 0 \/ like[i] > 0)
  <2> DEFINE share == in.share
             rest == 100 - share
             words == keyword[i]
             liked == like[i]
  <2>1. share \in Nat /\ rest \in Nat /\ words \in Nat /\ liked \in Nat
    BY <1>1
  <2> HIDE DEF share, rest, words, liked
  <2>2. rest * words \in Nat /\ share * 100 * liked \in Nat
    BY <2>1
  <2>3. words = 0 /\ liked = 0 => rest * words + share * 100 * liked = 0
    BY <2>1
  <2> QED
    BY <2>1, <2>2, <2>3 DEF share, rest, words, liked
<1>5. ASSUME NEW i \in Routing!Intents, NEW j \in Routing!Intents,
             keyword[i] <= keyword[j], like[i] <= like[j]
      PROVE  weighed(i) <= weighed(j)
  <2> DEFINE share == in.share
             rest == 100 - share
             a == keyword[i]
             b == keyword[j]
             c == like[i]
             d == like[j]
  <2>1. share \in Nat /\ rest \in Nat /\ a \in Nat /\ b \in Nat /\ c \in Nat /\ d \in Nat /\ a <= b /\ c <= d
    BY <1>1, <1>5
  <2> HIDE DEF share, rest, a, b, c, d
  <2>2. rest * a <= rest * b /\ share * 100 * c <= share * 100 * d
    BY <2>1
  <2>3. rest * a \in Nat /\ rest * b \in Nat /\ share * 100 * c \in Nat /\ share * 100 * d \in Nat
    BY <2>1
  <2>4. rest * a + share * 100 * c <= rest * b + share * 100 * d
    BY <2>2, <2>3
  <2> QED
    BY <2>4 DEF share, rest, a, b, c, d
<1> HIDE DEF weighed
<1>6. /\ mean \in [Routing!Intents -> Nat]
      /\ \A i \in Routing!Intents : mean[i] = weighed(i) \div 100
      /\ \A i \in Routing!Intents : mean[i] > 0 => weighed(i) > 0
  <2>1. \A i \in Routing!Intents : weighed(i) \div 100 \in Nat /\ (weighed(i) = 0 => weighed(i) \div 100 = 0)
    BY <1>4
  <2> QED
    BY <1>3, <1>4, <2>1
<1>7. \A i, j \in Routing!Intents :
        keyword[i] <= keyword[j] /\ like[i] <= like[j] => mean[i] <= mean[j]
  BY <1>4, <1>5, <1>6, QuotientsKeepOrder
<1>8. scored \in [Routing!Intents -> Nat]
  BY <1>1, <1>2, <1>6
<1>9. \A i, j \in Routing!Intents :
        keyword[i] <= keyword[j] /\ like[i] <= like[j] => scored[i] <= scored[j]
  BY <1>2, <1>7
<1>10. \A i \in Routing!Intents : scored[i] > 0 => keyword[i] > 0 \/ like[i] > 0
  BY <1>2, <1>4, <1>6
<1> QED
  BY <1>8, <1>9, <1>10 DEF keyword, semantic, like, scored

\* Of those that are nearly the best the first in precedence is chosen.
LEMMA TieIs ==
  ASSUME NEW scored \in [Routing!Intents -> Nat]
  PROVE  /\ Routing!ResolveTie(scored) \in Routing!Intents
         /\ \A i \in Routing!Intents :
              Routing!Before(i, Routing!ResolveTie(scored)) => scored[i] < scored[Routing!ResolveTie(scored)]
<1> DEFINE places == 1 .. Len(IntentOrder)
           best == Routing!Best(scored)
           close == {n \in places : best - scored[IntentOrder[n]] < 500}
           m == Routing!Min(close)
<1>1. /\ DOMAIN IntentOrder = places /\ IsFiniteSet(places) /\ places \in SUBSET Int
      /\ \A n \in places : IntentOrder[n] \in Routing!Intents
      /\ \A i \in Routing!Intents : \E n \in places : IntentOrder[n] = i
      /\ \A n, o \in places : IntentOrder[n] = IntentOrder[o] => n = o
  <2>1. IsFiniteSet(places) /\ places \in SUBSET Int
    BY IntentsAre, FS_Interval
  <2>2. DOMAIN IntentOrder = places /\ Routing!Intents = {IntentOrder[n] : n \in places}
    BY IntentsAre
  <2>3. \A n, o \in places : IntentOrder[n] = IntentOrder[o] => n = o
    BY <2>2, RoutingAssumption
  <2> HIDE DEF places
  <2> QED
    BY <2>1, <2>2, <2>3
<1>2. best \in Int /\ \E i \in Routing!Intents : scored[i] = best
  <2> DEFINE all == {scored[i] : i \in Routing!Intents}
  <2>1. all \in SUBSET Int /\ all # {}
    <3>1. \A i \in Routing!Intents : scored[i] \in Int
      OBVIOUS
    <3>2. Routing!Intents # {}
      BY IntentsAre
    <3> QED
      BY <3>1, <3>2
  <2>2. IsFiniteSet(all)
    BY IntentsAre, ImageIsFinite
  <2> HIDE DEF all
  <2>3. Routing!Max(all) \in all /\ Routing!Max(all) \in Int
    BY <2>1, <2>2, LargestIs
  <2> QED
    BY <2>3 DEF Routing!Best, all
<1>3. Routing!ResolveTie(scored) = IntentOrder[m]
  BY <1>1 DEF Routing!ResolveTie
<1> HIDE DEF best, places
<1>4. m \in close /\ \A n \in close : m <= n
  <2>1. close # {}
    BY <1>1, <1>2
  <2>2. close \in SUBSET Int /\ IsFiniteSet(close)
    BY <1>1, FS_Subset
  <2> QED
    BY <2>1, <2>2, SmallestIs
<1> HIDE DEF m
<1>5. m \in places /\ best - scored[IntentOrder[m]] < 500
  BY <1>4
<1>6. ASSUME NEW i \in Routing!Intents, Routing!Before(i, IntentOrder[m])
      PROVE  scored[i] < scored[IntentOrder[m]]
  <2>1. PICK p \in places : p < m /\ IntentOrder[p] = i
    BY <1>1, <1>5, <1>6 DEF Routing!Before
  <2>2. p \notin close
    BY <1>1, <1>4, <1>5, <2>1
  <2>3. scored[i] \in Nat /\ scored[IntentOrder[m]] \in Nat /\ ~(best - scored[i] < 500)
    BY <1>1, <1>5, <2>1, <2>2
  <2> QED
    BY <1>2, <1>5, <2>3
<1> QED
  BY <1>1, <1>3, <1>5, <1>6

\* What is decided is chosen well.
LEMMA DecidedWell ==
  ASSUME NEW in, Routing!IsQuery(in), Routing!Classify(in).decided
  PROVE  Routing!WellChosen(Routing!Classify(in), Routing!CalculateScores(in),
                            Routing!Likeness(Routing!SemanticScores(in)))
<1> DEFINE keyword == Routing!CalculateScores(in)
           like == Routing!Likeness(Routing!SemanticScores(in))
           scored == Routing!Scores(in)
           d == Routing!Classify(in)
           chosen == Routing!ResolveTie(scored)
<1>1. keyword \in [Routing!Intents -> Nat] /\ like \in [Routing!Intents -> Nat]
  BY KeywordScores, SemanticScoresAre
<1>2. /\ scored \in [Routing!Intents -> Nat]
      /\ \A i, j \in Routing!Intents :
           keyword[i] <= keyword[j] /\ like[i] <= like[j] => scored[i] <= scored[j]
      /\ \A i \in Routing!Intents : scored[i] > 0 => keyword[i] > 0 \/ like[i] > 0
  BY ScoresKeepOrder
<1>3. d = Routing!Decide(in, scored, chosen)
  BY DEF Routing!Classify, Routing!Weighed
<1> HIDE DEF keyword, like, scored
<1>4. /\ chosen \in Routing!Intents
      /\ \A i \in Routing!Intents : Routing!Before(i, chosen) => scored[i] < scored[chosen]
  BY <1>2, TieIs
<1> HIDE DEF chosen, d
<1>5. in.threshold \in 1 .. 100
  BY DEF Routing!IsQuery
<1>6. d.decided
  BY DEF d
<1>7. d.intent = chosen /\ scored[chosen] > 0
  <2> DEFINE score == scored[chosen]
             confidence == Routing!Confidence(in, chosen, score)
  <2>1. score \in Nat
    BY <1>2, <1>4
  <2> HIDE DEF score
  <2>2. score = 0 => confidence = 0
    BY DEF Routing!Confidence
  <2>3. d = Routing!Decision(in, chosen, confidence)
    BY <1>3, <1>6 DEF Routing!Decide, score
  <2> HIDE DEF confidence
  <2>4. confidence >= 100 * in.threshold /\ d.intent = chosen
    BY <1>6, <2>3 DEF Routing!Decision
  <2> QED
    BY <1>5, <2>1, <2>2, <2>4 DEF score
<1>8. ~\E i \in Routing!Intents : Routing!Before(i, chosen) /\ keyword[i] >= keyword[chosen] /\ like[i] >= like[chosen]
  <2> SUFFICES ASSUME NEW i \in Routing!Intents, Routing!Before(i, chosen),
                      keyword[chosen] <= keyword[i], like[chosen] <= like[i]
               PROVE  FALSE
    BY <1>1, <1>4
  <2>1. scored[chosen] <= scored[i] /\ scored[i] < scored[chosen]
    BY <1>2, <1>4
  <2>2. scored[chosen] \in Nat /\ scored[i] \in Nat
    BY <1>2, <1>4
  <2> QED
    BY <2>1, <2>2
<1> QED
  BY <1>2, <1>4, <1>7, <1>8 DEF Routing!WellChosen, d, keyword, like

\* A query is classified by what it says and by its own model's anchors.
LEMMA SameClass ==
  ASSUME NEW in, Routing!IsQuery(in), NEW entries,
         Routing!AnchorEmbeddings([in EXCEPT !.cache = entries]) = Routing!AnchorEmbeddings(in)
  PROVE  Routing!Classify([in EXCEPT !.cache = entries]) = Routing!Classify(in)
<1> DEFINE other == [in EXCEPT !.cache = entries]
<1>1. /\ other.keywords = in.keywords /\ other.patterns = in.patterns /\ other.tokens = in.tokens
      /\ other.share = in.share /\ other.semantic = in.semantic /\ other.embeds = in.embeds
      /\ other.default = in.default /\ other.words = in.words /\ other.threshold = in.threshold
  BY DEF Routing!IsQuery, Routing!Fields
<1> HIDE DEF other
<1>2. Routing!CalculateScores(other) = Routing!CalculateScores(in)
  BY <1>1 DEF Routing!CalculateScores, Routing!DetectCodeSymbols, Routing!Written
<1>3. Routing!SemanticScores(other) = Routing!SemanticScores(in)
  BY <1>1 DEF Routing!SemanticScores, Routing!CalculateSemanticScores, other
<1>4. Routing!Scores(other) = Routing!Scores(in)
  BY <1>1, <1>2, <1>3 DEF Routing!Scores, Routing!Combined, Routing!EnsembleScores
<1> QED
  BY <1>1, <1>4 DEF Routing!Classify, Routing!Weighed, Routing!Decide, Routing!Decision, Routing!Confidence, other

\* An entry that is the only one of its model is the one that is found.
LEMMA OnlyEntry ==
  ASSUME NEW in, Routing!IsQuery(in), NEW entries, NEW n \in Nat,
         {o \in DOMAIN entries : entries[o].model = in.model} = {n}
  PROVE  Routing!AnchorEmbeddings([in EXCEPT !.cache = entries]) = entries[n].anchors
<1> DEFINE other == [in EXCEPT !.cache = entries]
<1>1. other.cache = entries /\ other.model = in.model
  BY DEF Routing!IsQuery, Routing!Fields
<1> HIDE DEF other
<1>2. Routing!Kept(other) = {n}
  BY <1>1 DEF Routing!Kept
<1>3. Routing!Min({n}) = n
  BY DEF Routing!Min
<1>4. Routing!AnchorEmbeddings(other) = entries[n].anchors
  BY <1>1, <1>2, <1>3 DEF Routing!AnchorEmbeddings, Routing!EntryOf
<1> QED
  BY <1>4 DEF other

LEMMA NothingKept ==
  ASSUME NEW in, Routing!IsQuery(in), Routing!Kept(in) = {}
  PROVE  /\ Routing!AnchorEmbeddings(in) = Routing!Embedded(in)
         /\ Routing!AnchorEmbeddings([in EXCEPT !.cache = <<>>]) = Routing!AnchorEmbeddings(in)
<1> DEFINE other == [in EXCEPT !.cache = <<>>]
<1>1. other.cache = <<>> /\ other.anchors = in.anchors
  BY DEF Routing!IsQuery, Routing!Fields
<1> HIDE DEF other
<1>2. Routing!Kept(other) = {}
  BY <1>1 DEF Routing!Kept
<1>3. Routing!Embedded(other) = Routing!Embedded(in)
  BY <1>1 DEF Routing!Embedded
<1> QED
  BY <1>2, <1>3 DEF Routing!AnchorEmbeddings, other

\* The entry found is in the cache, and of the model.
LEMMA EntryFound ==
  ASSUME NEW in, Routing!IsQuery(in), Routing!Kept(in) # {}
  PROVE  Routing!EntryOf(in).model = in.model
<1>1. Routing!Min(Routing!Kept(in)) \in Routing!Kept(in)
  BY KeptIs, SmallestIs
<1> QED
  BY <1>1 DEF Routing!Kept, Routing!EntryOf

\* Other models' anchors play no part.
LEMMA AloneIsSame ==
  ASSUME NEW in, Routing!IsQuery(in)
  PROVE  Routing!Classify([in EXCEPT !.cache = IF Routing!Kept(in) = {} THEN <<>> ELSE <<Routing!EntryOf(in)>>])
           = Routing!Classify(in)
<1>1. CASE Routing!Kept(in) = {}
  BY <1>1, NothingKept, SameClass
<1>2. CASE Routing!Kept(in) # {}
  <2> DEFINE e == Routing!EntryOf(in)
  <2>1. e.model = in.model /\ Routing!AnchorEmbeddings(in) = e.anchors
    BY <1>2, EntryFound DEF Routing!AnchorEmbeddings
  <2> HIDE DEF e
  <2>2. {o \in DOMAIN <<e>> : <<e>>[o].model = in.model} = {1}
    BY <2>1
  <2>3. Routing!AnchorEmbeddings([in EXCEPT !.cache = <<e>>]) = <<e>>[1].anchors
    BY <2>2, OnlyEntry
  <2>4. Routing!Classify([in EXCEPT !.cache = <<e>>]) = Routing!Classify(in)
    BY <2>1, <2>3, SameClass
  <2> QED
    BY <1>2, <2>4 DEF e
<1> QED
  BY <1>1, <1>2

\* The cache as it is left gives the same answer, and is bounded.
LEMMA CacheIsLeft ==
  ASSUME NEW in, Routing!IsQuery(in)
  PROVE  /\ Routing!Classify([in EXCEPT !.cache = Routing!CacheAfter(in)]) = Routing!Classify(in)
         /\ Len(Routing!CacheAfter(in)) <= AnchorCacheSize
<1> DEFINE after == Routing!CacheAfter(in)
           added == [model |-> in.model, anchors |-> Routing!Embedded(in)]
<1>1. /\ in.cache \in Seq(Routing!ToSet(in.cache)) /\ Len(in.cache) \in Nat /\ Len(in.cache) <= AnchorCacheSize
      /\ DOMAIN in.cache = 1 .. Len(in.cache) /\ AnchorCacheSize \in Nat \ {0}
  BY RoutingAssumption DEF Routing!IsQuery
<1>2. CASE ~in.semantic \/ Routing!Kept(in) # {}
  <2>1. after = in.cache
    BY <1>2 DEF Routing!CacheAfter
  <2>2. [in EXCEPT !.cache = in.cache].cache = in.cache /\ [in EXCEPT !.cache = in.cache].model = in.model
        /\ [in EXCEPT !.cache = in.cache].anchors = in.anchors
    BY DEF Routing!IsQuery, Routing!Fields
  <2>3. Routing!AnchorEmbeddings([in EXCEPT !.cache = in.cache]) = Routing!AnchorEmbeddings(in)
    BY <2>2 DEF Routing!AnchorEmbeddings, Routing!Kept, Routing!EntryOf, Routing!Embedded
  <2> QED
    BY <1>1, <2>1, <2>3, SameClass
<1>3. CASE in.semantic /\ Routing!Kept(in) = {}
  <2> DEFINE rest == IF Len(in.cache) >= AnchorCacheSize THEN Tail(in.cache) ELSE in.cache
  <2>1. after = Append(rest, added)
    BY <1>3 DEF Routing!CacheAfter
  <2>2. \A o \in 1 .. Len(in.cache) : in.cache[o].model # in.model
    BY <1>1, <1>3 DEF Routing!Kept
  <2>3. /\ rest \in Seq(Routing!ToSet(in.cache)) /\ Len(rest) \in Nat /\ Len(rest) + 1 <= AnchorCacheSize
        /\ \A o \in 1 .. Len(rest) : rest[o].model # in.model
    <3>1. CASE Len(in.cache) >= AnchorCacheSize
      <4>1. in.cache # <<>> /\ rest = Tail(in.cache)
        BY <1>1, <3>1
      <4> HIDE DEF rest
      <4>2. /\ rest \in Seq(Routing!ToSet(in.cache)) /\ Len(rest) = Len(in.cache) - 1
            /\ \A o \in 1 .. Len(rest) : rest[o] = in.cache[o + 1]
        BY <1>1, <4>1, HeadTailProperties
      <4>3. \A o \in 1 .. Len(rest) : o + 1 \in 1 .. Len(in.cache)
        BY <1>1, <4>2
      <4> QED
        BY <1>1, <2>2, <3>1, <4>1, <4>2, <4>3
    <3>2. CASE ~(Len(in.cache) >= AnchorCacheSize)
      BY <1>1, <2>2, <3>2
    <3> QED
      BY <3>1, <3>2
  <2> HIDE DEF rest, added
  <2>4. /\ Len(after) = Len(rest) + 1 /\ DOMAIN after = 1 .. Len(rest) + 1 /\ after[Len(rest) + 1] = added
        /\ \A o \in 1 .. Len(rest) : after[o] = rest[o]
    <3>1. rest \in Seq(Routing!ToSet(in.cache) \cup {added})
      BY <2>3
    <3> QED
      BY <2>1, <2>3, <3>1
  <2> HIDE DEF after
  <2>5. added.model = in.model /\ added.anchors = Routing!Embedded(in)
    BY DEF added
  <2>6. {o \in DOMAIN after : after[o].model = in.model} = {Len(rest) + 1}
    <3>1. \A o \in 1 .. Len(rest) : after[o].model # in.model
      BY <2>3, <2>4
    <3>2. \A o \in 1 .. Len(rest) + 1 : o \in 1 .. Len(rest) \/ o = Len(rest) + 1
      BY <2>3
    <3>3. Len(rest) + 1 \in 1 .. Len(rest) + 1
      BY <2>3
    <3> QED
      BY <2>4, <2>5, <3>1, <3>2, <3>3, Zenon
  <2>7. Routing!AnchorEmbeddings([in EXCEPT !.cache = after]) = after[Len(rest) + 1].anchors
    BY <2>3, <2>6, OnlyEntry
  <2>8. Routing!AnchorEmbeddings([in EXCEPT !.cache = after]) = Routing!AnchorEmbeddings(in)
    BY <1>3, <2>4, <2>5, <2>7, NothingKept
  <2>9. Routing!Classify([in EXCEPT !.cache = after]) = Routing!Classify(in)
    BY <2>8, SameClass
  <2> QED
    BY <2>3, <2>4, <2>9 DEF after
<1> QED
  BY <1>2, <1>3 DEF Routing!IsQuery

\* A plan takes nothing away from what was asked for.
LEMMA NothingTakenAway ==
  ASSUME NEW in, Routing!IsQuery(in), NEW d
  PROVE  Routing!TakesNothingAway(in, Routing!Plan(in, d))
<1> DEFINE s == Routing!Suggested(in, d)
           plan == Routing!Plan(in, d)
           asked == Routing!Min({in.k, in.maxK})
<1>1. in.k \in Nat /\ in.maxK \in Nat /\ in.ego \in BOOLEAN
  BY DEF Routing!IsQuery
<1>2. plan = Routing!Applied(in, d, s)
  BY DEF Routing!Plan
<1>3. plan.k >= asked /\ plan.k <= Routing!Max({in.maxK, 10})
  <2>1. asked \in Nat /\ asked <= in.maxK
    BY <1>1, SmallerOf
  <2> HIDE DEF asked
  <2>2. s.k = 10 \/ s.k = 0
    BY DEF Routing!Suggested
  <2>3. plan.k = asked \/ plan.k = Routing!Max({asked, s.k})
    BY <1>2 DEF Routing!Applied, asked
  <2>4. plan.k \in Nat /\ plan.k >= asked /\ (plan.k = asked \/ plan.k = s.k)
    BY <2>1, <2>2, <2>3, LargerOf
  <2>5. Routing!Max({in.maxK, 10}) = IF in.maxK >= 10 THEN in.maxK ELSE 10
    BY <1>1, LargerOf
  <2> QED
    BY <1>1, <2>1, <2>2, <2>4, <2>5
<1>4. (in.ego => plan.ego) /\ (in.mode # "auto" => plan.mode = in.mode)
  BY <1>1, <1>2 DEF Routing!Applied
<1>5. ASSUME Routing!Answered(in, plan) = "similar"
      PROVE  /\ plan.intent = "similarity"
             /\ in.named # NoSymbol \/ Routing!Written(in, {"camel", "dotted", "snake", "upper"}) # {}
  <2>1. plan.symbol # NoSymbol
    BY <1>5 DEF Routing!Answered
  <2>2. plan.intent = d.intent /\ d.intent = "similarity" /\ plan.symbol = s.symbol
    BY <1>2, <2>1 DEF Routing!Applied
  <2>3. s.symbol = Routing!ExtractSymbol(in)
    BY <2>1, <2>2 DEF Routing!Suggested
  <2>4. ASSUME in.named = NoSymbol PROVE Routing!Written(in, {"camel", "dotted", "snake", "upper"}) # {}
    <3>1. PICK n \in DOMAIN in.tokens : ~in.tokens[n].common /\ Routing!RankOf(in.tokens[n]) >= 0
      BY <2>1, <2>2, <2>3, <2>4 DEF Routing!ExtractSymbol
    <3>2. in.tokens[n] \in Routing!Token
      BY DEF Routing!IsQuery
    <3>3. in.tokens[n].style \in {"camel", "dotted", "snake", "upper", "word"}
      BY <3>2 DEF Routing!Token
    <3>4. in.tokens[n].style # "word"
      BY <3>1 DEF Routing!RankOf
    <3> QED
      BY <3>1, <3>3, <3>4 DEF Routing!Written
  <2> QED
    BY <2>2, <2>4
<1> QED
  BY <1>3, <1>4, <1>5 DEF Routing!TakesNothingAway

\* A model that cannot embed the query changes nothing.
LEMMA UnaskedIsSame ==
  ASSUME NEW in, Routing!IsQuery(in), ~in.embeds
  PROVE  Routing!Classify([in EXCEPT !.semantic = FALSE]) = Routing!Classify(in)
<1> DEFINE other == [in EXCEPT !.semantic = FALSE]
<1>1. /\ other.keywords = in.keywords /\ other.patterns = in.patterns /\ other.tokens = in.tokens
      /\ other.share = in.share /\ other.semantic = FALSE
      /\ other.default = in.default /\ other.words = in.words /\ other.threshold = in.threshold
  BY DEF Routing!IsQuery, Routing!Fields
<1> HIDE DEF other
<1>2. Routing!CalculateScores(other) = Routing!CalculateScores(in)
  BY <1>1 DEF Routing!CalculateScores, Routing!DetectCodeSymbols, Routing!Written
<1>3. Routing!SemanticScores(other) = <<>> /\ Routing!SemanticScores(in) = <<>>
  BY <1>1 DEF Routing!SemanticScores, Routing!CalculateSemanticScores
<1>4. Routing!Scores(other) = Routing!Scores(in)
  BY <1>2, <1>3 DEF Routing!Scores, Routing!Combined
<1> QED
  BY <1>1, <1>4 DEF Routing!Classify, Routing!Weighed, Routing!Decide, Routing!Decision, Routing!Confidence, other

LEMMA RoutedWell ==
  ASSUME NEW in, Routing!IsQuery(in)
  PROVE  Routing!RoutingIsReasoned(in)
<1>1. Routing!Classify(in).decided =>
        Routing!WellChosen(Routing!Classify(in), Routing!CalculateScores(in),
                           Routing!Likeness(Routing!SemanticScores(in)))
  BY DecidedWell
<1>2. Len(Routing!CacheAfter(in)) <= AnchorCacheSize
  BY CacheIsLeft
<1>3. Routing!Classify([in EXCEPT !.cache = Routing!CacheAfter(in)]) = Routing!Classify(in)
  BY CacheIsLeft
<1>4. Routing!TakesNothingAway(in, Routing!Plan(in, Routing!Classify(in)))
  BY NothingTakenAway
<1>5. ~in.embeds => Routing!Classify([in EXCEPT !.semantic = FALSE]) = Routing!Classify(in)
  BY UnaskedIsSame
<1>6. Routing!Classify([in EXCEPT !.cache = IF Routing!Kept(in) = {} THEN <<>> ELSE <<Routing!EntryOf(in)>>])
        = Routing!Classify(in)
  BY AloneIsSame
<1> QED
  BY <1>1, <1>2, <1>3, <1>4, <1>5, <1>6 DEF Routing!RoutingIsReasoned, Routing!Reasoned

(* Whatever a query matches, whatever its anchors are like and whatever is cached, no     *)
(* intent is passed over for one that comes after it and has no more to say for itself;  *)
(* other models' anchors and a model that cannot embed the query play no part; and the   *)
(* plan takes nothing away (intent_classifier.py:242-672, search_orchestrator.py:129-206). *)
THEOREM QueriesAreRouted == FurtherSpec => []RoutingIsReasoned
<1> DEFINE Inv == part = "routing" => /\ v2 = NoInput => v1 \in DOMAIN QueryInputs
                                      /\ v2 # NoInput => Routing!IsQuery(v2)
<1>1. FurtherInit => Inv
  BY DEF FurtherInit, Chosen
<1>2. Inv /\ [FurtherNext]_FurtherVars => Inv'
  <2> SUFFICES ASSUME Inv, [FurtherNext]_FurtherVars, part' = "routing" PROVE Inv'
    BY Zenon
  <2>1. CASE UNCHANGED FurtherVars
    BY <2>1 DEF FurtherVars, vars
  <2>2. CASE FurtherNext
    <3>1. part = "routing" /\ Complete(QueryInputs[v1])
      BY <2>2, FurtherStep DEF FurtherNext
    <3>2. v2 = NoInput /\ v1 \in DOMAIN QueryInputs /\ v2' \in QueryInputs[v1]
      BY <3>1 DEF Complete
    <3>3. Routing!IsQuery(v2')
      BY <3>2, RoutingAssumption
    <3>4. Routing!IsQuery(v2)'
      BY <3>3
    <3> QED
      BY <3>1, <3>4 DEF Complete
  <2> QED
    BY <2>1, <2>2
<1>3. Inv => RoutingIsReasoned
  BY RoutedWell DEF RoutingIsReasoned
<1> QED
  BY <1>1, <1>2, <1>3, PTL DEF FurtherSpec
==============================================================================

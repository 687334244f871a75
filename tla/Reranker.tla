------------------------------ MODULE Reranker ------------------------------
(***************************************************************************)
(* The one neural reranker that concurrent searches share:                 *)
(* RerankingEngine (search/reranking_engine.py), which makes, swaps and     *)
(* drops it without a lock as configuration and memory demand, and the     *)
(* rerankers themselves (search/neural_reranker.py), which load their      *)
(* model on first use.  A search passes through it once per stage, in a     *)
(* worker thread of its own; each step below is a read or a write of the   *)
(* engine's attributes that others come between.                           *)
(***************************************************************************)
EXTENDS RerankerParameters, Integers, FiniteSets, SequencesExt

CONSTANTS
  Threads,
  Names,     \* models that can be configured
  KindOf,    \* per name: "cross", "generative" or "listwise"
  MaxPasses, \* stages of a search that rerank
  MaxMade, MaxChanges  \* bounds: rerankers made, changes of the settings

VARIABLES
  current, \* neural_reranker: a number, 0 for None
  made,    \* the rerankers so far, by number: name and whether the model is loaded
  wanted,  \* the configured name
  able,    \* reranking is enabled and memory suffices
  oom,     \* _session_oom_detected
  call,    \* per thread
  changes

vars == <<current, made, wanted, able, oom, call, changes>>

None == 0
Resting == [pc |-> "rest", passes |-> 0, enable |-> FALSE, name |-> "none", mine |-> None,
            results |-> <<>>, failed |-> FALSE, alone |-> TRUE]
Active == {t \in Threads : call[t].pc # "rest"}

Init ==
  /\ current = None /\ made = <<>>
  /\ wanted \in Names /\ able \in BOOLEAN
  /\ oom = FALSE
  /\ call = [t \in Threads |-> Resting]
  /\ changes = 0

Goto(t, pc) == call' = [call EXCEPT ![t].pc = pc]

\* An exception that nothing on the way up to the search catches.
Raises(t) == call' = [call EXCEPT ![t].pc = "done", ![t].failed = TRUE]

\* The pass is over with these results; the next stage, or the end of the search.
Passed(t, results) ==
  call' = [call EXCEPT ![t].results = results, ![t].passes = @ + 1, ![t].mine = None,
             ![t].pc = IF call[t].passes + 1 = MaxPasses THEN "done" ELSE "check"]

-----------------------------------------------------------------------------
\* Every search takes back the memory of an earlier lack of memory, its own or not.
BeginSearch(t) ==
  /\ call[t].pc = "rest"
  /\ oom' = FALSE
  /\ call' = [u \in Threads |->
       IF u = t THEN [Resting EXCEPT !.pc = "check", !.results = Pool, !.alone = (Active = {})]
       ELSE [call[u] EXCEPT !.alone = FALSE]]
  /\ UNCHANGED <<current, made, wanted, able, changes>>

\* should_enable_neural_reranking, with the configuration the pass has fetched.
ShouldEnable(t) ==
  /\ call[t].pc = "check"
  /\ call' = [call EXCEPT ![t].enable = able /\ ~oom, ![t].name = wanted, ![t].pc = "ensure"]
  /\ UNCHANGED <<current, made, wanted, able, oom, changes>>

\* _ensure_reranker: which branch is taken.
Ensure(t) ==
  /\ call[t].pc = "ensure"
  /\ Goto(t, IF call[t].enable /\ current = None THEN "create"
             ELSE IF call[t].enable /\ made[current].name # call[t].name THEN "swap"
             ELSE IF ~call[t].enable /\ current # None THEN "drop"
             ELSE "gate")
  /\ UNCHANGED <<current, made, wanted, able, oom, changes>>

Create(t) ==
  /\ call[t].pc = "create"
  /\ Len(made) < MaxMade
  /\ made' = Append(made, [name |-> call[t].name, loaded |-> FALSE])
  /\ current' = Len(made) + 1
  /\ Goto(t, "gate")
  /\ UNCHANGED <<wanted, able, oom, changes>>

\* The attribute is read again for the cleanup: by now it can be None.
CleanUp(t) ==
  /\ call[t].pc \in {"swap", "drop"}
  /\ IF current = None
     THEN Raises(t) /\ UNCHANGED made
     ELSE /\ made' = [made EXCEPT ![current].loaded = FALSE]
          /\ Goto(t, IF call[t].pc = "swap" THEN "create" ELSE "clear")
  /\ UNCHANGED <<current, wanted, able, oom, changes>>

Clear(t) ==
  /\ call[t].pc = "clear"
  /\ current' = None
  /\ Goto(t, "gate")
  /\ UNCHANGED <<made, wanted, able, oom, changes>>

Gate(t) ==
  /\ call[t].pc = "gate"
  /\ IF call[t].enable /\ current # None THEN Goto(t, "use") ELSE Passed(t, call[t].results)
  /\ UNCHANGED <<current, made, wanted, able, oom, changes>>

-----------------------------------------------------------------------------
(* _run_rerank.                                                            *)

\* The assertion is outside the try.
Use(t) ==
  /\ call[t].pc = "use"
  /\ IF current = None THEN Raises(t) ELSE Goto(t, "fetch")
  /\ UNCHANGED <<current, made, wanted, able, oom, changes>>

\* From here on whatever fails gives the candidates back.
Fetch(t) ==
  /\ call[t].pc = "fetch"
  /\ IF current = None
     THEN Passed(t, call[t].results)
     ELSE call' = [call EXCEPT ![t].mine = current, ![t].pc = "model"]
  /\ UNCHANGED <<current, made, wanted, able, oom, changes>>

Kind(t) == KindOf[made[call[t].mine].name]

\* The model is loaded once, under _load_lock; the generative one has no such lock,
\* and two that find it missing load it twice.
LoadModel(t) ==
  /\ call[t].pc = "model"
  /\ \/ /\ made' = [made EXCEPT ![call[t].mine].loaded = TRUE]
        /\ Goto(t, "infer")
     \/ ~made[call[t].mine].loaded /\ UNCHANGED made /\ Passed(t, call[t].results)
  /\ UNCHANGED <<current, wanted, able, oom, changes>>

Cut(results, n) == SubSeq(results, 1, Min({n, Len(results)}))

\* The window comes back in the order of its scores.  Only the generative reranker
\* cuts it to k; the others leave that to whoever removes duplicates.
Score(t) ==
  /\ call[t].pc = "infer"
  /\ \E ranked \in SetToSeqs(ToSet(Cut(call[t].results, Window))) :
       Passed(t, IF Kind(t) = "generative" THEN Cut(ranked, K) ELSE ranked)
  /\ UNCHANGED <<current, made, wanted, able, oom, changes>>

InferenceFails_Raises(t) ==
  /\ call[t].pc = "infer"
  /\ Raises(t)
  /\ UNCHANGED <<current, made, wanted, able, oom, changes>>

\* The generative reranker answers with the first k as they were, and only its own
\* count tells.  An exception of the others ends in _run_rerank, which remembers it
\* when the message speaks of CUDA and of memory.
InferenceFails(t) ==
  /\ call[t].pc = "infer"
  /\ IF Kind(t) = "generative"
     THEN Passed(t, Cut(Cut(call[t].results, Window), K)) /\ UNCHANGED oom
     ELSE Passed(t, call[t].results) /\ (oom' = TRUE \/ UNCHANGED oom)
  /\ UNCHANGED <<current, made, wanted, able, changes>>

Return(t) ==
  /\ call[t].pc = "done"
  /\ call' = [call EXCEPT ![t] = Resting]
  /\ UNCHANGED <<current, made, wanted, able, oom, changes>>

-----------------------------------------------------------------------------
\* configure_reranking, or memory taken or given back by others.
Change ==
  /\ changes < MaxChanges
  /\ changes' = changes + 1
  /\ \/ wanted' \in Names \ {wanted} /\ UNCHANGED able
     \/ able' = ~able /\ UNCHANGED wanted
  /\ UNCHANGED <<current, made, oom, call>>

\* The searcher is shut down, whoever is searching with it.
Shutdown ==
  /\ current # None
  /\ current' = None
  /\ made' = [made EXCEPT ![current].loaded = FALSE]
  /\ call' = [t \in Threads |-> [call[t] EXCEPT !.alone = FALSE]]
  /\ UNCHANGED <<wanted, able, oom, changes>>

Next ==
  \/ \E t \in Threads :
       \/ BeginSearch(t) \/ ShouldEnable(t) \/ Ensure(t) \/ Create(t) \/ CleanUp(t) \/ Clear(t)
       \/ Gate(t) \/ Use(t) \/ Fetch(t) \/ LoadModel(t) \/ Score(t) \/ InferenceFails(t) \/ Return(t)
  \/ Change \/ Shutdown

Spec == Init /\ [][Next]_vars

-----------------------------------------------------------------------------
\* Reranking is a refinement that no search needs: whatever becomes of the model, a
\* search that nobody disturbs does not fail, and a search that ends has at least the
\* results it was asked for, or as many as a pass may look at, each of them once (reranking_engine.py:201-251).  Two that share
\* the engine can take the reranker away from each other, see README.
RerankingIsOptional ==
  \A t \in Threads : call[t].pc = "done" =>
    /\ call[t].failed => ~call[t].alone
    /\ ~call[t].failed =>
         /\ Len(call[t].results) >= Min({K, Window, Len(Pool)})
         /\ Cardinality(ToSet(call[t].results)) = Len(call[t].results)
=============================================================================

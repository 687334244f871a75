---------------------------- MODULE MemoParameters ----------------------------
(* The parameters of CentralityMemo. *)
EXTENDS Naturals

CONSTANTS Mutators,     \* threads inside a method that mutates the graph
          Rankers,      \* threads inside get_centrality_scores
          Methods,      \* pagerank, degree, betweenness, closeness
          NoEntry,
          MaxMutations  \* bound: mutations of the graph ever made

Mutation == 1 .. MaxMutations
Entry == [version : Nat, scores : SUBSET Mutation]

ASSUME MemoAssumption ==
    /\ MaxMutations \in Nat
    /\ NoEntry \notin Entry
=============================================================================

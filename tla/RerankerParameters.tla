-------------------------- MODULE RerankerParameters --------------------------
(* The parameters of Reranker that say how many results a search has. *)
EXTENDS Naturals, Sequences

CONSTANTS K,       \* results asked for
          Window,  \* top_k_candidates
          Pool     \* candidates of a pass

ASSUME RerankerAssumption ==
    /\ K \in Nat /\ Window \in Nat
    /\ Pool \in Seq({Pool[i] : i \in DOMAIN Pool})
    /\ \A i, j \in DOMAIN Pool : Pool[i] = Pool[j] => i = j
=============================================================================

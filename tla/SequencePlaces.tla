---------------------------- MODULE SequencePlaces ----------------------------
(* Parts of a sequence, by their places.  (SelectSeq of the library is defined  *)
(* recursively, which nothing can be proved about.)                             *)
EXTENDS Integers, Sequences, FiniteSets

\* The elements of a sequence that are at some of its places, in their order.
Selected(s, places) ==
  [n \in 1 .. Cardinality(places) |->
     s[CHOOSE i \in places : Cardinality({j \in places : j <= i}) = n]]
=============================================================================

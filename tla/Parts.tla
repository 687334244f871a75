--------------------------------- MODULE Parts ---------------------------------
(* A behaviour of a sum of components is one of the component that "part" names,  *)
(* whose variables are v1, v2, ...; those it has no use for are unused.           *)
(* A component that is an algorithm has an input, chosen in two steps: its first  *)
(* part, v1, and the whole, v2.                                                  *)
EXTENDS Integers, Sequences, FiniteSets

CONSTANT NoInput

VARIABLES part, v1, v2, v3, v4, v5, v6, v7, v8, v9

vars == <<part, v1, v2, v3, v4, v5, v6, v7, v8, v9>>

After7 == <<v8, v9>>
After3 == <<v4, v5, v6, v7, After7>>
Unused == "unused"
Unused7 == v8 = Unused /\ v9 = Unused
Unused3 == v4 = Unused /\ v5 = Unused /\ v6 = Unused /\ v7 = Unused /\ Unused7

Chosen == v2 = NoInput /\ v3 = Unused /\ Unused3
Complete(inputs) == v2 = NoInput /\ v2' \in inputs /\ UNCHANGED <<part, v1, v3, After3>>
=============================================================================

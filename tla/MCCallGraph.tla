------------------------------ MODULE MCCallGraph ------------------------------
(* CallGraph over bodies with and without imports, ambiguity and recursion. *)
EXTENDS CallGraph, TLC

Body(at, name, calls) == [at |-> at, name |-> name, calls |-> calls]
To(name, from) == [name |-> name, from |-> from]

\* Two functions: one calls itself; the other calls the first, from another
\* place or with an import from some file.  A chunk that defines none.
CONSTANTS n, m
MCBodies ==
    {Body(1, n, {To(n, NoFile)}), Body(2, m, {To(n, NoFile)}), Body(1, NoName, {})}
    \cup {Body(1, m, {To(n, f)}) : f \in File}

Symm == Permutations(File)
=============================================================================

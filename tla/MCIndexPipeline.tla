--------------------------- MODULE MCIndexPipeline ---------------------------
(***************************************************************************)
(* Small instances of IndexPipeline for TLC: two files, which are          *)
(* interchangeable, and the kinds of fault each run allows.                *)
(***************************************************************************)
EXTENDS IndexPipeline, TLC

CONSTANTS a, b

TwoFiles == {a, b}
OneFile == {a}

\* What the pipeline is built to survive: steps that fail, clears that are refused
\* or stop half-way, and a process that dies.
FailingOrDying == {"embed", "add", "removeBm25", "locked", "clear", "crash"}
AllButHalfClears == FaultKinds \ {"clear"}
SavingInterrupted == {"save", "crashSaving"}

Symmetric == Permutations(File)
=============================================================================

-------------------------- MODULE MCServerWorkflow --------------------------
(* Requests for model checking ServerWorkflow.                             *)
EXTENDS ServerWorkflow, TLC

CONSTANTS A, B

Req(op, p) == [op |-> op, place |-> p]

EveryRequest ==
    {Req("search", None), Req("clear", None), Req("cleanup", None)}
        \union {Req(op, p) : op \in {"index", "switch", "delete"}, p \in Projects}

\* A free object is as good as any other: its record is written before it is read.
Referred == {i \in Ids : i = searcher \/ \E t \in Tasks : task[t].obj = i}

\* Once a call has strayed, all that matters of a searcher is whether it was shut down
\* and has an index.
Seen(i) == IF strayed THEN <<objects[i].edition > 0, objects[i].closed>> ELSE objects[i]

\* How often a lock was dropped since it was made, for all that is asked of a lock is
\* whether it is another's, or the project's present one.
Age(lock) == IF lock = None THEN None ELSE <<lock[1], lockGen[lock[1]] - lock[2]>>

View == <<current, searcher, disk, files, mutex, strayed,
          [t \in Tasks |-> [task[t] EXCEPT !.lock = Age(@)]],
          [i \in Referred |-> Seen(i)], IF strayed THEN {} ELSE lapsed \cap Referred>>

Calling(op) == Cardinality({t \in Tasks : task[t].op = op})
UnderWay == Cardinality({t \in Tasks : task[t].op # None})

\* Bounds: at most two searches at a time, and when two index_directory calls overlap,
\* they are alone.
MixedCalls ==
    /\ Calling("search") <= 2
    /\ Calling("index") > 1 => UnderWay = 2

Symm == {x @@ y : x \in Permutations(Tasks), y \in Permutations(Projects)}
=============================================================================

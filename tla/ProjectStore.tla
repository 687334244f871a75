----------------------------- MODULE ProjectStore -----------------------------
(* What the server keeps of its projects across calls and restarts: a directory  *)
(* per project and model with the filters the user gave, its index and snapshot, *)
(* the selected project, the queue of directories still to be deleted, and the   *)
(* calls of index_directory.  mcp_server/storage_manager.py,                     *)
(* project_persistence.py, cleanup_queue.py and tools/index_handlers.py.         *)
(*                                                                              *)
(* Calls of index_directory interleave: no lock is held between reading the      *)
(* stored filters and the run.  The other calls and the run itself are one       *)
(* action each; ServerWorkflow has their interleavings, IndexPipeline what a run *)
(* does and how it fails.  A filter is a value of Filters.                       *)
EXTENDS Integers, Sequences, FiniteSets, SequencesExt

CONSTANTS Projects, Models, Filters,
          NoProject, NotGiven,   \* no project; a filter the caller did not give
          NoDir,                 \* no such directory
          Callers,               \* numbers for the calls of index_directory under way
          MaxLocks, MaxSwitches, MaxQueue,   \* bounds
          MaxTurns               \* ... of locks and switches, and of calls under way, twice

VARIABLES
  model,      \* the configured model, on disk
  info,       \* per project and model: the filter in project_info.json, or NoDir
  built,      \* ... the filter the index was built with, or NoDir
  snapshots,  \* the projects and models that have a snapshot, with its filter
  selection,  \* the selected project, on disk
  queue,      \* the directories to delete, on disk: [dir, attempts]
  locked,     \* the directories with files that another process holds open
  mem,        \* in memory: [current, calls of index_directory under way]
  past        \* [asked: the filter the user gave last for the project,
              \*  failed: the projects whose last indexing failed,
              \*  raced: those whose calls have overlapped, until filters are
              \*  given again in a call that nothing overlaps,
              \*  locks, switches: how often so far]

vars == <<model, info, built, snapshots, selection, queue, locked, mem, past>>

MayTurn(n) == past.locks + past.switches + 2 * Cardinality(mem.calls) + n <= MaxTurns

Dirs == Projects \X Models
Known == {d \in Dirs : info[d] # NoDir}
DirsOf(p) == {d \in Known : d[1] = p}
Started(p) == [current |-> p, calls |-> {}]

Init ==
  /\ model \in Models
  /\ info = [d \in Dirs |-> NoDir]
  /\ built = [d \in Dirs |-> NoDir]
  /\ snapshots = [d \in Dirs |-> NoDir]
  /\ selection = NoProject
  /\ queue = <<>>
  /\ locked = {}
  /\ mem = Started(NoProject)
  /\ past = [asked |-> [p \in Projects |-> NotGiven], failed |-> {}, raced |-> {},
             locks |-> 0, switches |-> 0]

------------------------------------------------------------------------------
(* Directories and their filters.                                               *)

\* get_project_storage_dir: the directory of the configured model, made with the
\* given filter if there is none.
Ensured(dirs, p, filter) ==
  IF dirs[<<p, model>>] = NoDir THEN [dirs EXCEPT ![<<p, model>>] = filter] ELSE dirs

\* The directory whose filters count: the configured model's, or else any other.
Canonical(p) ==
  IF info[<<p, model>>] # NoDir THEN {<<p, model>>} ELSE DirsOf(p)

\* Mutant: what was stored does not count.
Effective_GivenOnly(given, stored) == given
Effective(given, stored) == IF given # NotGiven THEN given ELSE stored

\* update_project_filters: a filter that is not given never clears a stored one.
Updated(dirs, p, filter) ==
  IF filter = NotGiven THEN dirs ELSE [dirs EXCEPT ![<<p, model>>] = filter]

------------------------------------------------------------------------------
(* index_directory.                                                             *)

\* The filter a run indexes by: an incremental one takes over that of the snapshot
\* when it has none of its own.
RunFilter(p, full, filter) ==
  IF ~full /\ filter = NotGiven /\ snapshots[<<p, model>>] # NoDir
  THEN snapshots[<<p, model>>] ELSE filter

Canonicals(p) == IF DirsOf(p) = {} THEN {<<p, model>>} ELSE Canonical(p)

CallsOf(p) == {call \in mem.calls : call.project = p}
SavedCalls == {call \in mem.calls : call.saved}
\* The calls under way, of which those for p are no longer alone.
Overlapped(p) == {IF call.project = p THEN [call EXCEPT !.alone = FALSE] ELSE call : call \in mem.calls}

\* A call has released resources and probed files, and reads the stored filters; the file
\* is chosen and read in one step.  Its caller waits for it or, with wait=false, polls the
\* job that runs the same task.
IndexDirectory(p, given, full) ==
  LET free == Callers \ {call.by : call \in mem.calls}
      made == IF DirsOf(p) = {} THEN Ensured(info, p, NotGiven) ELSE info
  IN /\ MayTurn(2)
     /\ info' = made
     /\ \E by \in free, d \in Canonicals(p) :
          /\ \A other \in free : by <= other
          /\ mem' = [mem EXCEPT !.calls = Overlapped(p) \cup
                      {[by |-> by, project |-> p, given |-> given, full |-> full, saved |-> FALSE,
                        from |-> d, stored |-> made[d], alone |-> CallsOf(p) = {}]}]
     /\ past' = [past EXCEPT !.raced = IF CallsOf(p) = {} THEN @ ELSE @ \cup {p}]
     /\ UNCHANGED <<model, built, snapshots, selection, queue, locked>>

\* The filters are saved if they are not those that were read; the project is selected
\* and its directory bound.  Then the call waits for the project's lock.
SaveFilters(call) ==
  LET p == call.project
      filter == Effective(call.given, call.stored)
      exists == info[call.from] # NoDir
      changed == exists /\ filter # call.stored
      kept == IF exists /\ ~changed THEN info ELSE Updated(Ensured(info, p, filter), p, filter)
  IN /\ ~call.saved
     /\ info' = Ensured(kept, p, NotGiven)
     /\ mem' = [mem EXCEPT !.current = p,
                           !.calls = (@ \ {call}) \cup
                             {[call EXCEPT !.saved = TRUE, !.given = filter, !.full = @ \/ changed,
                                           !.from = NoDir, !.stored = NotGiven]}]
     /\ past' = [past EXCEPT !.asked[p] = IF call.given = NotGiven THEN @ ELSE call.given,
                             !.raced = IF call.alone /\ call.given # NotGiven THEN @ \ {p} ELSE @]
     /\ UNCHANGED <<model, built, snapshots, selection, queue, locked>>

\* Under the lock: the configured model's index is built with the filters that the call
\* found.  A run may fail and then leaves the index as it was (or as IndexPipeline says).
RunIndex(call) ==
  LET p == call.project
      used == RunFilter(p, call.full, call.given)
  IN /\ call.saved
     /\ info' = Ensured(info, p, NotGiven)
     /\ \E succeeds \in BOOLEAN :
          LET Put(f) == IF succeeds THEN [f EXCEPT ![<<p, model>>] = used] ELSE f
          IN /\ built' = Put(built)
             /\ snapshots' = Put(snapshots)
             /\ past' = [past EXCEPT !.failed = IF succeeds THEN @ \ {p} ELSE @ \cup {p}]
     /\ mem' = [mem EXCEPT !.calls = @ \ {call}]
     /\ UNCHANGED <<model, selection, queue, locked>>

------------------------------------------------------------------------------
(* Other calls.                                                                 *)

SwitchProject(p) ==
  /\ mem' = [mem EXCEPT !.current = p]
  /\ selection' = p
  /\ info' = Ensured(info, p, NotGiven)
  /\ UNCHANGED <<model, built, snapshots, queue, locked, past>>

SwitchModel(m) ==
  /\ m # model /\ past.switches < MaxSwitches /\ MayTurn(1)
  /\ model' = m
  /\ past' = [past EXCEPT !.switches = @ + 1]
  /\ UNCHANGED <<info, built, snapshots, selection, queue, locked, mem>>

\* clear_index: the index and the snapshots of every model, but for files that are
\* held open; the directories and their filters stay.
ClearIndex ==
  LET dirs == DirsOf(mem.current)
  IN /\ mem.current # NoProject
     /\ built' = [d \in Dirs |-> IF d \in dirs \ locked THEN NoDir ELSE built[d]]
     /\ snapshots' = [d \in Dirs |-> IF d[1] = mem.current THEN NoDir ELSE snapshots[d]]
     /\ UNCHANGED <<model, info, selection, queue, locked, mem, past>>

\* delete_project: a directory with a held file is queued; rmtree meets that file, in
\* the index, before project_info.json.  The selection stays.
DeleteProject(p, force) ==
  LET dirs == DirsOf(p)
      held == dirs \cap locked
      gone(f) == [d \in Dirs |-> IF d \in dirs \ held THEN NoDir ELSE f[d]]
  IN /\ p = mem.current => force
     /\ dirs # {} /\ Len(queue) + Cardinality(held) <= MaxQueue
     /\ info' = gone(info)
     /\ built' = gone(built)
     /\ snapshots' = [d \in Dirs |-> IF d[1] = p THEN NoDir ELSE snapshots[d]]
     /\ queue' = queue \o SetToSeq({[dir |-> d, attempts |-> 0] : d \in held})
     /\ mem' = [mem EXCEPT !.current = IF p = @ THEN NoProject ELSE @, !.calls = Overlapped(p)]
     /\ past' = [past EXCEPT !.asked[p] = NotGiven,
                             !.raced = IF CallsOf(p) = {} THEN @ ELSE @ \cup {p}]
     /\ UNCHANGED <<model, selection, locked>>

------------------------------------------------------------------------------
(* The server starts again: calls end, the selected project is bound,   *)
(* then the queue is worked off, whatever its directories are used for now.      *)

Tried(q) == [i \in DOMAIN q |-> [q[i] EXCEPT !.attempts = @ + 1]]

Process(dirs) ==
  LET removed == {q.dir : q \in ToSet(queue)} \ locked
      gone(f) == [d \in Dirs |-> IF d \in removed THEN NoDir ELSE f[d]]
  IN /\ info' = gone(dirs)
     /\ built' = gone(built)
     /\ queue' = SelectSeq(Tried(queue), LAMBDA q : q.dir \in locked /\ q.attempts < 3)
     /\ past' = [past EXCEPT !.asked = [p \in Projects |->
                   IF \E d \in removed : d[1] = p THEN NotGiven ELSE @[p]],
                             !.failed = @ \cup {call.project : call \in SavedCalls}]

Restart ==
  /\ mem' = Started(selection)
  /\ Process(IF selection = NoProject THEN info ELSE Ensured(info, selection, NotGiven))
  /\ UNCHANGED <<model, snapshots, selection, locked>>

\* Another process opens files of a directory, or closes them.
Lock ==
  /\ past.locks < MaxLocks /\ MayTurn(1)
  /\ \E d \in Known \ locked : locked' = locked \cup {d}
  /\ past' = [past EXCEPT !.locks = @ + 1]
  /\ UNCHANGED <<model, info, built, snapshots, selection, queue, mem>>

Unlock ==
  /\ \E d \in locked : locked' = locked \ {d}
  /\ UNCHANGED <<model, info, built, snapshots, selection, queue, mem, past>>

Next ==
  \/ \E p \in Projects, given \in Filters \cup {NotGiven}, full \in BOOLEAN :
       IndexDirectory(p, given, full)
  \/ \E call \in mem.calls : SaveFilters(call) \/ RunIndex(call)
  \/ \E p \in Projects : SwitchProject(p)
  \/ \E m \in Models : SwitchModel(m)
  \/ ClearIndex
  \/ \E p \in Projects, force \in BOOLEAN : DeleteProject(p, force)
  \/ Restart \/ Lock \/ Unlock

Spec == Init /\ [][Next]_vars

------------------------------------------------------------------------------
KeptFor(p) ==
  past.asked[p] # NotGiven /\ p \notin past.raced =>
    /\ info[<<p, model>>] # NoDir => info[<<p, model>>] = past.asked[p]
    /\ p \in past.failed \/ SavedCalls \cap CallsOf(p) # {}
         \/ built[<<p, model>>] \in {NoDir, past.asked[p]}

\* The filters a user gave last for a project outlive every call that does not
\* give any: full and incremental runs, jobs, failed runs, switches of project and
\* restarts, at any point of a call.  Whatever index the configured model has was
\* built with them, unless the last run failed or is under way, and the next call
\* finds them.  This is so as long as the project has a directory for one model only
\* and its calls do not overlap: of two that do, one may save filters after the other
\* has read them, and run last.  After that the claim holds again from the next call
\* alone that gives filters.  (A step that deletes a directory of the project ends it.)
FiltersAreKept == \A p \in Projects : Cardinality(DirsOf(p)) = 1 => KeptFor(p)

\* ... and for any number of models, as _run_index_directory's comment on
\* get_canonical_project_info has it.
FiltersOutliveTheModel == \A p \in Projects : KeptFor(p)

------------------------------------------------------------------------------
(* The invariant of the proof (Services_proofs).                               *)

Given == Filters \cup {NotGiven}
Call == [by : Callers, project : Projects, given : Given, full : BOOLEAN,
         saved : BOOLEAN, from : Dirs \cup {NoDir}, stored : Given,
         alone : BOOLEAN]

TypeOK ==
  /\ model \in Models
  /\ info \in [Dirs -> Given \cup {NoDir}]
  /\ built \in [Dirs -> Given \cup {NoDir}]
  /\ snapshots \in [Dirs -> Given \cup {NoDir}]
  /\ selection \in Projects \cup {NoProject}
  /\ locked \subseteq Dirs
  /\ mem \in [current : Projects \cup {NoProject}, calls : SUBSET Call]
  /\ past \in [asked : [Projects -> Given], failed : SUBSET Projects, raced : SUBSET Projects,
               locks : Nat, switches : Nat]

\* An index is in a directory, and a project without one has forgotten its filters.
IndexHasDirectory == \A d \in Dirs : info[d] = NoDir => built[d] = NoDir
ForgottenWithDirectory == \A p \in Projects : DirsOf(p) = {} => past.asked[p] = NotGiven

\* A call that is alone is the only one of its project, and of others it is known.
AloneIsAlone == \A call \in mem.calls : call.alone => CallsOf(call.project) = {call}
OverlapIsKnown == \A call \in mem.calls : call.alone \/ call.project \in past.raced

\* What a call alone has read is still what is stored.
ReadIsStored ==
  \A call \in mem.calls :
    ~call.saved =>
      /\ call.from \in Dirs /\ call.from[1] = call.project
      /\ call.alone => info[call.from] = call.stored

\* The only directory of a project has its filters, whatever model is configured now, and
\* the call that has saved them runs with them.
OnlyOneKeeps(p) ==
  \A d \in Dirs :
    DirsOf(p) = {d} /\ past.asked[p] # NotGiven /\ p \notin past.raced =>
      /\ info[d] = past.asked[p]
      /\ \A call \in CallsOf(p) : call.saved => call.given = past.asked[p]
      /\ p \in past.failed \/ SavedCalls \cap CallsOf(p) # {} \/ built[d] \in {NoDir, past.asked[p]}
OnlyDirectoryKeeps == \A p \in Projects : OnlyOneKeeps(p)

IInv == /\ TypeOK /\ IndexHasDirectory /\ ForgottenWithDirectory
        /\ AloneIsAlone /\ OverlapIsKnown /\ ReadIsStored /\ OnlyDirectoryKeeps
===============================================================================

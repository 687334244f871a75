--------------------------- MODULE ServerWorkflow ---------------------------
(***************************************************************************)
(* The MCP server's request handlers over their shared state.              *)
(*                                                                         *)
(* Every tool call is a coroutine; its blocking parts run in worker        *)
(* threads, so the steps of two calls interleave wherever one awaits or    *)
(* runs in a thread.  The shared state is the ApplicationState singleton   *)
(* (current project, cached searcher, per-project reader-writer locks,     *)
(* mutation lock, thread lock) and each project's index on disk.           *)
(*                                                                         *)
(* Handlers: search_code (with its inline auto-reindex), index_directory,  *)
(* switch_project, clear_index, delete_project, cleanup_resources.         *)
(*                                                                         *)
(* The reader-writer lock is used here by what ReaderWriter promises: its  *)
(* holders and the preference for writers that wait.  How it is built, and *)
(* what cancellation does to it, is AsyncRWLock's subject.                 *)
(***************************************************************************)
EXTENDS Naturals, FiniteSets

CONSTANTS Tasks,      \* the tool calls in flight; each serves one request
          Projects,   \* the indexed projects
          Home,       \* PROJECT_ROOT, searched when no project is active
          Requests,   \* the [op, place] pairs clients may send
          None,
          MaxEdits,   \* bound: how often the files of a project change
          MaxEdited   \* bound: how many projects' files change

Places == Projects \union {Home}

ASSUME WorkflowAssumption ==
    /\ IsFiniteSet(Tasks)
    /\ Home \notin Projects
    /\ None \notin Tasks \union Places \union Nat
    /\ Requests \subseteq [op : {"search", "clear", "cleanup"}, place : {None}]
                      \union [op : {"index", "switch", "delete"}, place : Projects]
    /\ MaxEdits \in Nat /\ MaxEdited \in Nat

VARIABLES
    current,   \* state.current_project
    searcher,  \* state.searcher: the id of a searcher object, or None
    disk,      \* the edition each project's index on disk holds, 0 for no index
    files,     \* the edition of each project's source files
    lockGen,   \* how often delete_project dropped a project's lock from the registry
    mutex,     \* holder of state._lock while it is held across blocking work
    strayed,   \* history: a call took up a project without that project's lock, or
               \* the cached searcher was of another project than the active one
    task,      \* what each call has got to
    objects,   \* the searcher objects: project, edition loaded, shut down or not
    lapsed     \* history: the searcher objects that a reindex which failed may have
               \* left behind, and those built without loading the index

vars == <<current, searcher, objects, disk, files, lockGen, mutex, strayed, lapsed, task>>

Ids == 1 .. Cardinality(Tasks) + 1   \* enough for every object still referenced

Mutators == {"switch", "clear", "delete"}

Idle == [pc |-> "idle", op |-> None, key |-> None, lock |-> None,
         held |-> "none", place |-> None, obj |-> None,
         fresh |-> FALSE, full |-> FALSE, changed |-> FALSE]

Init ==
    /\ current \in Projects
    /\ searcher = None
    /\ objects = [i \in Ids |-> [place |-> Home, edition |-> 0, closed |-> FALSE]]
    /\ disk = [p \in Places |-> IF p = Home THEN 0 ELSE 1]
    /\ files = [p \in Places |-> 1]
    /\ lockGen = [p \in Places |-> 0]
    /\ mutex = None
    /\ strayed = FALSE /\ lapsed = {}
    /\ task = [t \in Tasks |-> Idle]

-----------------------------------------------------------------------------
(* Locks.  A lock object is a project and the number of times the registry *)
(* entry of that project was dropped before the object was made.           *)

\* state.get_reindex_rwlock
LockOf(p) == <<p, lockGen[p]>>

Holding(l, mode) == {u \in Tasks : task[u].lock = l /\ task[u].held = mode}

CanRead(l) ==
    /\ Holding(l, "write") = {}
    /\ ~\E u \in Tasks : task[u].pc = "wantWrite" /\ task[u].lock = l

CanWrite(l) == Holding(l, "write") = {} /\ Holding(l, "read") = {}

\* The holder of the mutation lock.
Mutating == {u \in Tasks : /\ task[u].op \in Mutators
                           /\ task[u].pc \notin {"idle", "wantMutation", "done"}}

\* What a call that waits for the lock of project p looks like.
Awaiting(rec, p, pc) == [rec EXCEPT !.pc = pc, !.key = p, !.lock = LockOf(p)]

\* A call that is answered has left its locks and refers to no object.
Done == [Idle EXCEPT !.pc = "done"]

Goto(t, pc) == task' = [task EXCEPT ![t].pc = pc]

\* An object nothing refers to any more: its id serves for the next one.
FreeId == CHOOSE i \in Ids : i # searcher /\ \A u \in Tasks : task[u].obj # i

NewObject(p) == [objects EXCEPT ![FreeId] = [place |-> p, edition |-> disk[p], closed |-> FALSE]]

-----------------------------------------------------------------------------
(* A request arrives.                                                      *)

StartSearch(t) ==
    /\ task[t].pc = "idle"
    /\ [op |-> "search", place |-> None] \in Requests
    /\ IF current = None
       THEN task' = [task EXCEPT ![t] = Awaiting([@ EXCEPT !.op = "search"], Home, "wantRead")]
       ELSE task' = [task EXCEPT ![t].op = "search", ![t].key = current, ![t].pc = "stale?"]
    /\ UNCHANGED <<current, searcher, objects, disk, files, lockGen, mutex, strayed, lapsed>>

StartMutation(t) ==
    /\ task[t].pc = "idle"
    /\ \E r \in Requests :
        /\ r.op \in Mutators
        /\ task' = [task EXCEPT ![t].op = r.op, ![t].key = r.place, ![t].pc = "wantMutation"]
    /\ UNCHANGED <<current, searcher, objects, disk, files, lockGen, mutex, strayed, lapsed>>

\* index_directory and cleanup_resources start with the teardown, holding nothing.
StartTeardown(t) ==
    /\ task[t].pc = "idle"
    /\ \E r \in Requests :
        /\ r.op \in {"index", "cleanup"}
        /\ task' = [task EXCEPT ![t].op = r.op, ![t].key = r.place, ![t].pc = "closing"]
    /\ UNCHANGED <<current, searcher, objects, disk, files, lockGen, mutex, strayed, lapsed>>

\* with_mutation_lock is entered; clear_index captures the current project here.
EnterMutation(t) ==
    /\ task[t].pc = "wantMutation"
    /\ Mutating = {}
    /\ LET p == IF task[t].op = "clear" THEN current ELSE task[t].key
       IN  task' = [task EXCEPT ![t] =
               IF task[t].op = "switch" THEN [@ EXCEPT !.pc = "closing"]
               ELSE IF p = None THEN Done ELSE Awaiting(@, p, "wantWrite")]
    /\ UNCHANGED <<current, searcher, objects, disk, files, lockGen, mutex, strayed, lapsed>>

-----------------------------------------------------------------------------
(* Taking the project's reader-writer lock.                                *)

\* The lock a call waited for may no longer be the project's.
NoteDropped(t) == strayed' = (strayed \/ task[t].lock # LockOf(task[t].key))

AcquireRead(t) ==
    /\ task[t].pc = "wantRead"
    /\ CanRead(task[t].lock)
    /\ task' = [task EXCEPT ![t].held = "read", ![t].pc = "resolve"]
    /\ NoteDropped(t)
    /\ UNCHANGED <<current, searcher, objects, disk, files, lockGen, mutex, lapsed>>

AcquireWrite(t) ==
    /\ task[t].pc = "wantWrite"
    /\ CanWrite(task[t].lock)
    /\ task' = [task EXCEPT ![t].held = "write",
                            ![t].pc = IF task[t].op = "search" THEN "prepare"
                                      ELSE IF task[t].op = "index" THEN "resolve"
                                      ELSE "ifCurrent"]
    /\ NoteDropped(t)
    /\ UNCHANGED <<current, searcher, objects, disk, files, lockGen, mutex, lapsed>>

-----------------------------------------------------------------------------
(* search_code before its read lock: the inline auto-reindex.              *)

\* _is_index_stale, without a lock: changed files make the index stale, and
\* so does age alone; a request may also ask for no auto-reindex.
CheckStale(t) ==
    /\ task[t].pc = "stale?"
    /\ \E pc \in {"wantRead", "wantWrite"} :
          task' = [task EXCEPT ![t] = Awaiting(@, task[t].key, pc)]
    /\ UNCHANGED <<current, searcher, objects, disk, files, lockGen, mutex, strayed, lapsed>>

\* The project and the cached searcher are one pair, written by different calls.
NoteTorn == strayed' = (strayed \/ (searcher' # None /\ objects'[searcher'].place # current'))

\* The first half of _check_auto_reindex: a searcher of the task's own, and
\* the active project set to the one searched, also when the cached searcher is of
\* another.  None of this is under state._lock.
PrepareReindex(t) ==
    /\ task[t].pc = "prepare"
    /\ objects' = NewObject(task[t].key)
    /\ task' = [task EXCEPT ![t].obj = FreeId, ![t].fresh = TRUE, ![t].pc = "took"]
    /\ current' = task[t].key
    /\ UNCHANGED searcher
    /\ NoteTorn
    /\ lapsed' = lapsed \ {FreeId}
    /\ UNCHANGED <<disk, files, lockGen, mutex>>

\* The second half: the searcher is cached if none is and the embedder it was
\* built with is still the pool's.
BindSearcher(t) ==
    /\ task[t].pc = "bind"
    /\ searcher' = IF searcher = None /\ task[t].fresh THEN task[t].obj ELSE searcher
    /\ Goto(t, "reset")
    /\ UNCHANGED <<current, objects>>
    /\ NoteTorn
    /\ UNCHANGED <<disk, files, lockGen, mutex, lapsed>>

\* Mutant: the reset looks redundant and is dropped.
FinishReindex_NoReset(t) ==
    /\ task[t].pc = "reset"
    /\ task' = [task EXCEPT ![t] = Awaiting([Idle EXCEPT !.op = "search"], task[t].key, "wantRead")]
    /\ UNCHANGED <<current, searcher, objects, disk, files, lockGen, mutex, strayed, lapsed>>

\* Mutant: the read lock is entered inside the write lock, which is not reentrant.
FinishReindex_Nested(t) ==
    /\ task[t].pc = "reset"
    /\ task[t].changed => mutex = None
    /\ searcher' = IF task[t].changed THEN None ELSE searcher
    /\ task' = [task EXCEPT ![t].pc = "wantRead"]
    /\ UNCHANGED <<current, objects, disk, files, lockGen, mutex, strayed, lapsed>>

\* _maybe_reindex, back on the event loop: reset_searcher() inside the write
\* lock if anything was added or modified, then on to the read lock.
FinishReindex(t) ==
    /\ task[t].pc = "reset"
    /\ task[t].changed => mutex = None
    /\ searcher' = IF task[t].changed THEN None ELSE searcher
    /\ task' = [task EXCEPT ![t] = Awaiting([Idle EXCEPT !.op = "search"], task[t].key, "wantRead")]
    /\ UNCHANGED <<current, objects, disk, files, lockGen, mutex, strayed, lapsed>>

-----------------------------------------------------------------------------
(* get_searcher: double-checked locking on state._lock.                    *)

Cached(p) == current = p /\ searcher # None

\* The project to fetch for: index_directory names it, a search takes what is
\* active now.
ResolvePlace(t) ==
    /\ task[t].pc = "resolve"
    /\ LET p == IF task[t].op = "index" THEN task[t].key
                ELSE IF current = None THEN Home ELSE current
       IN  /\ task' = [task EXCEPT ![t].place = p, ![t].pc = "fetch"]
           /\ strayed' = (strayed \/ p # task[t].key)
    /\ UNCHANGED <<current, searcher, objects, disk, files, lockGen, mutex, lapsed>>

\* The test without the lock.
LookUp(t) ==
    /\ task[t].pc = "fetch"
    /\ Goto(t, IF Cached(task[t].place) THEN "take" ELSE "wantMutex")
    /\ UNCHANGED <<current, searcher, objects, disk, files, lockGen, mutex, strayed, lapsed>>

\* The lock is free and the test, repeated, finds a searcher after all.
FoundInside(t) ==
    /\ task[t].pc = "wantMutex"
    /\ mutex = None
    /\ Cached(task[t].place)
    /\ Goto(t, "take")
    /\ UNCHANGED <<current, searcher, objects, disk, files, lockGen, mutex, strayed, lapsed>>

\* Otherwise a searcher is built from disk, with the lock held throughout.  A full
\* run fetches one only to write to (load_existing=False): it leaves BM25 unread.
BuildSearcher(t) ==
    /\ task[t].pc = "wantMutex"
    /\ mutex = None
    /\ ~Cached(task[t].place)
    /\ mutex' = t
    /\ objects' = NewObject(task[t].place)
    /\ task' = [task EXCEPT ![t].obj = FreeId, ![t].pc = "commit"]
    /\ lapsed' = IF task[t].full THEN lapsed \union {FreeId} ELSE lapsed \ {FreeId}
    /\ UNCHANGED <<current, searcher, disk, files, lockGen, strayed>>

\* Mutant: state._lock is acquired by hand and never released.
CommitSearcher_KeepsLock(t) ==
    /\ task[t].pc = "commit"
    /\ current' = task[t].place
    /\ searcher' = task[t].obj
    /\ Goto(t, "take")
    /\ UNCHANGED <<objects, disk, files, lockGen, mutex, strayed, lapsed>>

\* Project and searcher are committed together.
CommitSearcher(t) ==
    /\ task[t].pc = "commit"
    /\ current' = task[t].place
    /\ searcher' = task[t].obj
    /\ mutex' = None
    /\ Goto(t, "take")
    /\ UNCHANGED <<objects, disk, files, lockGen, strayed, lapsed>>

\* `return state.searcher`, outside the lock: whatever is cached by now.
TakeSearcher(t) ==
    /\ task[t].pc = "take"
    /\ task' = [task EXCEPT ![t].obj = searcher, ![t].place = None,
                            ![t].pc = IF task[t].op = "search" THEN "serve" ELSE "took"]
    /\ strayed' = (strayed \/ (searcher # None /\ objects[searcher].place # task[t].key))
    /\ UNCHANGED <<current, searcher, objects, disk, files, lockGen, mutex, lapsed>>

-----------------------------------------------------------------------------
(* The search itself.                                                      *)

Ready(t) == task[t].obj # None /\ objects[task[t].obj].edition > 0

\* "No indexed project found", and the read lock is released.
RefuseSearch(t) ==
    /\ task[t].pc = "serve"
    /\ ~Ready(t)
    /\ task' = [task EXCEPT ![t] = Done]
    /\ UNCHANGED <<current, searcher, objects, disk, files, lockGen, mutex, strayed, lapsed>>

BeginSearch(t) ==
    /\ task[t].pc = "serve"
    /\ Ready(t)
    /\ Goto(t, "searching")
    /\ UNCHANGED <<current, searcher, objects, disk, files, lockGen, mutex, strayed, lapsed>>

AnswerSearch(t) ==
    /\ task[t].pc = "searching"
    /\ task' = [task EXCEPT ![t] = Done]
    /\ UNCHANGED <<current, searcher, objects, disk, files, lockGen, mutex, strayed, lapsed>>

-----------------------------------------------------------------------------
(* Rewriting a project's index: auto-reindex and index_directory.          *)

AfterRun(t) == IF task[t].op = "search" THEN "bind" ELSE "leave"

\* An incremental run rewrites if files changed since the index was built.
BeginIncremental(t) ==
    /\ task[t].pc = "took"
    /\ task[t].obj # None
    /\ disk[task[t].key] \notin {0, files[task[t].key]}
    /\ Goto(t, "rewriting")
    /\ UNCHANGED <<current, searcher, objects, disk, files, lockGen, mutex, strayed, lapsed>>

\* A run without a snapshot is full, and so is index_directory(incremental=False):
\* it first releases every resource, the cached searcher among them.
BeginFull(t) ==
    /\ task[t].pc = "took"
    /\ task[t].obj # None
    /\ ~task[t].full
    /\ disk[task[t].key] = 0 \/ task[t].op = "index"
    /\ task' = [task EXCEPT ![t].pc = "closing", ![t].full = TRUE]
    /\ UNCHANGED <<current, searcher, objects, disk, files, lockGen, mutex, strayed, lapsed>>

\* If that shut down its own searcher, the full run has fetched another by now.
ResumeFull(t) ==
    /\ task[t].pc = "took"
    /\ task[t].obj # None
    /\ task[t].full
    /\ Goto(t, "rewriting")
    /\ UNCHANGED <<current, searcher, objects, disk, files, lockGen, mutex, strayed, lapsed>>

\* Nothing changed, the run gave up before it changed anything, or the fetch
\* returned None: the index stays what it is.
SkipRewrite(t) ==
    /\ task[t].pc = "took"
    /\ task' = [task EXCEPT ![t].pc = AfterRun(t), ![t].changed = FALSE]
    /\ UNCHANGED <<current, searcher, objects, disk, files, lockGen, mutex, strayed, lapsed>>

\* The run ends: its searcher and the disk hold the files' edition.
FinishRewrite(t) ==
    /\ task[t].pc = "rewriting"
    /\ disk' = [disk EXCEPT ![task[t].key] = files[task[t].key]]
    /\ objects' = [objects EXCEPT ![task[t].obj].edition = files[task[t].key]]
    /\ task' = [task EXCEPT ![t].pc = AfterRun(t), ![t].changed = TRUE]
    /\ UNCHANGED <<current, searcher, files, lockGen, mutex, strayed, lapsed>>

\* Searchers of project p made so far may serve what its index no longer holds.
Lapse(p) == lapsed' = lapsed \union {i \in Ids : objects[i].place = p}

\* _attempt_recovery: an incremental run that failed clears the index, and goes on
\* as a full one.
RecoverRewrite(t) ==
    /\ task[t].pc = "rewriting"
    /\ ~task[t].full
    /\ disk' = [disk EXCEPT ![task[t].key] = 0]
    /\ Lapse(task[t].key)
    /\ task' = [task EXCEPT ![t].pc = "closing", ![t].full = TRUE]
    /\ UNCHANGED <<current, searcher, objects, files, lockGen, mutex, strayed>>

\* A run that fails, its recovery refused or failing too, returns zero counts, so that
\* nothing is reset.  It leaves the index cleared, or what it made of the edition on
\* disk.  A full run that raised drops the cached searcher, without state._lock.
FailRewrite(t) ==
    /\ task[t].pc = "rewriting"
    /\ disk' \in {disk, [disk EXCEPT ![task[t].key] = 0]}
    /\ Lapse(task[t].key)
    /\ searcher' \in IF task[t].full THEN {searcher, None} ELSE {searcher}
    /\ task' = [task EXCEPT ![t].pc = AfterRun(t), ![t].changed = FALSE]
    /\ UNCHANGED <<current, objects, files, lockGen, mutex, strayed>>

\* index_directory leaves its write lock; the searcher it used stays cached.
LeaveIndex(t) ==
    /\ task[t].pc = "leave"
    /\ task' = [task EXCEPT ![t] = Done]
    /\ UNCHANGED <<current, searcher, objects, disk, files, lockGen, mutex, strayed, lapsed>>

-----------------------------------------------------------------------------
(* _cleanup_previous_resources, in a worker thread.                        *)

\* close_project_resources tears down only what belongs to the active project.
IfCurrent(t) ==
    /\ task[t].pc = "ifCurrent"
    /\ Goto(t, IF current = task[t].key THEN "closing" ELSE "purging")
    /\ UNCHANGED <<current, searcher, objects, disk, files, lockGen, mutex, strayed, lapsed>>

\* state.searcher.shutdown()
CloseSearcher(t) ==
    /\ task[t].pc = "closing"
    /\ objects' = IF searcher = None THEN objects
                  ELSE [objects EXCEPT ![searcher].closed = TRUE]
    /\ Goto(t, "dropping")
    /\ UNCHANGED <<current, searcher, disk, files, lockGen, mutex, strayed, lapsed>>

\* Every embedder captured before is no longer the pool's.
PoolCleared == [u \in Tasks |-> [task[u] EXCEPT !.fresh = FALSE]]

\* What follows the teardown: index_directory and switch_project activate their
\* project; a full run goes on, with its own searcher unless that was closed.
AfterDrop(t) ==
    IF task[t].op = "clear" THEN "purging"
    ELSE IF task[t].op = "delete" THEN "forget"
    ELSE IF task[t].held = "none" THEN "activate"
    ELSE IF objects[task[t].obj].closed THEN "resolve" ELSE "rewriting"

\* Mutant: the searcher is shut down and left in the cache.
DropSearcher_KeepsIt(t) ==
    /\ task[t].pc = "dropping"
    /\ mutex = None
    /\ task' = [PoolCleared EXCEPT ![t] =
          IF @.op = "cleanup" THEN Done
          ELSE [@ EXCEPT !.pc = AfterDrop(t),
                    !.obj = IF AfterDrop(t) = "resolve" THEN None ELSE task[t].obj]]
    /\ UNCHANGED <<current, searcher, objects, disk, files, lockGen, mutex, strayed, lapsed>>

\* state.searcher = None, then clear_embedders(), which nulls it again.
DropSearcher(t) ==
    /\ task[t].pc = "dropping"
    /\ mutex = None
    /\ searcher' = None
    /\ task' = [PoolCleared EXCEPT ![t] =
          IF @.op = "cleanup" THEN Done
          ELSE [@ EXCEPT !.pc = AfterDrop(t),
                    !.obj = IF AfterDrop(t) = "resolve" THEN None ELSE task[t].obj]]
    /\ UNCHANGED <<current, objects, disk, files, lockGen, mutex, strayed, lapsed>>

\* delete_project: close_project_resources(clear_current=True)
ForgetCurrent(t) ==
    /\ task[t].pc = "forget"
    /\ current' = None
    /\ Goto(t, "purging")
    /\ UNCHANGED <<searcher, objects>>
    /\ NoteTorn
    /\ UNCHANGED <<disk, files, lockGen, mutex, lapsed>>

\* set_current_project and bind_active_project_overrides, one segment of the
\* event loop: switch_project is done, index_directory goes for its lock.
Activate(t) ==
    /\ task[t].pc = "activate"
    /\ mutex = None
    /\ current' = task[t].key
    /\ searcher' = None
    /\ task' = [PoolCleared EXCEPT ![t] =
          IF @.op = "switch" THEN Done ELSE Awaiting(@, @.key, "wantWrite")]
    /\ UNCHANGED <<objects, disk, files, lockGen, mutex, strayed, lapsed>>

-----------------------------------------------------------------------------
(* clear_index and delete_project remove the index and its snapshots.      *)

Purge(t) ==
    /\ task[t].pc = "purging"
    /\ disk' = [disk EXCEPT ![task[t].key] = 0]
    /\ Goto(t, "purged")
    /\ UNCHANGED <<current, searcher, objects, files, lockGen, mutex, strayed, lapsed>>

\* reset_search_components() inside the write lock
FinishClear(t) ==
    /\ task[t].pc = "purged"
    /\ task[t].op = "clear"
    /\ mutex = None
    /\ searcher' = None
    /\ task' = [task EXCEPT ![t] = Done]
    /\ UNCHANGED <<current, objects, disk, files, lockGen, mutex, strayed, lapsed>>

\* The write lock is left, then dropped from the registry.
FinishDelete(t) ==
    /\ task[t].pc = "purged"
    /\ task[t].op = "delete"
    /\ lockGen' = [lockGen EXCEPT ![task[t].key] = @ + 1]
    /\ task' = [task EXCEPT ![t] = Done]
    /\ UNCHANGED <<current, searcher, objects, disk, files, mutex, strayed, lapsed>>

-----------------------------------------------------------------------------
\* Somebody edits a project's files (bounds: of MaxEdited projects, MaxEdits times each).
Edit(p) ==
    /\ files[p] <= MaxEdits
    /\ Cardinality({q \in Projects \ {p} : files[q] # 1}) < MaxEdited
    /\ files' = [files EXCEPT ![p] = @ + 1]
    /\ UNCHANGED <<current, searcher, objects, disk, lockGen, mutex, strayed, lapsed, task>>

Start(t) == StartSearch(t) \/ StartMutation(t) \/ StartTeardown(t)

Step(t) ==
    \/ EnterMutation(t) \/ AcquireRead(t) \/ AcquireWrite(t)
    \/ CheckStale(t) \/ PrepareReindex(t) \/ BindSearcher(t) \/ FinishReindex(t)
    \/ ResolvePlace(t) \/ LookUp(t) \/ FoundInside(t) \/ BuildSearcher(t)
    \/ CommitSearcher(t) \/ TakeSearcher(t)
    \/ RefuseSearch(t) \/ BeginSearch(t) \/ AnswerSearch(t)
    \/ BeginIncremental(t) \/ BeginFull(t) \/ ResumeFull(t) \/ SkipRewrite(t)
    \/ FinishRewrite(t) \/ RecoverRewrite(t) \/ FailRewrite(t) \/ LeaveIndex(t)
    \/ IfCurrent(t) \/ CloseSearcher(t) \/ DropSearcher(t) \/ ForgetCurrent(t)
    \/ Activate(t)
    \/ Purge(t) \/ FinishClear(t) \/ FinishDelete(t)

\* Every call has been answered.
AllAnswered == (\A t \in Tasks : task[t].pc = "done") /\ UNCHANGED vars

Next ==
    \/ \E t \in Tasks : Start(t) \/ Step(t)
    \/ \E p \in Projects : Edit(p)
    \/ AllAnswered

Spec == Init /\ [][Next]_vars

-----------------------------------------------------------------------------
(* Properties.                                                             *)

\* Where a handler may be.
Points ==
    {"idle", "stale?", "wantRead", "wantWrite", "wantMutation", "prepare", "bind",
     "reset", "resolve", "fetch", "wantMutex", "commit", "take", "serve",
     "searching", "took", "rewriting", "leave", "ifCurrent", "closing", "dropping",
     "forget", "activate", "purging", "purged", "done"}

Calls ==
    [pc : Points,
     op : {None, "search", "index", "cleanup"} \union Mutators,
     key : Places \union {None}, place : Places \union {None},
     lock : {None} \union (Places \X Nat), held : {"none", "read", "write"},
     obj : Ids \union {None},
     fresh : BOOLEAN, full : BOOLEAN, changed : BOOLEAN]

Typed ==
    /\ current \in Places \union {None}
    /\ searcher \in Ids \union {None}
    /\ objects \in [Ids -> [place : Places, edition : 0 .. MaxEdits + 1, closed : BOOLEAN]]
    /\ disk \in [Places -> 0 .. MaxEdits + 1]
    /\ files \in [Places -> 1 .. MaxEdits + 1]
    /\ lockGen \in [Places -> 0 .. Cardinality(Tasks)]
    /\ mutex \in Tasks \union {None}
    /\ strayed \in BOOLEAN /\ lapsed \subseteq Ids
    /\ task \in [Tasks -> Calls]
    /\ \A t \in Tasks : mutex = t <=> task[t].pc = "commit"
    /\ \A t \in Tasks : task[t].held # "none" => task[t].lock \in Places \X Nat

Rewriting(p) == {t \in Tasks : /\ task[t].key = p
                               /\ task[t].held = "write"
                               /\ task[t].pc \in {"rewriting", "purging", "purged"}}

SearchingIn(p) == {t \in Tasks : /\ task[t].pc = "searching"
                                 /\ objects[task[t].obj].place = p}

\* As long as every call works on a project under that project's own lock and the
\* cached searcher is the active project's, no two calls rewrite one index, none is
\* rewritten under a search of it, and whatever a search reads is the edition on
\* disk: not one cached before the last reindex, clear or delete, nor one loaded
\* while files were half written.  Only a searcher that a reindex which failed left
\* behind may serve what is gone, and none does that was built since.  A searcher
\* that was shut down stays cached only while a teardown is under way that will drop
\* it; a lock is held through a lock object, and state._lock by the call that builds
\* a searcher and no other.
ConsistentReads ==
    /\ Typed
    /\ ~strayed => \A p \in Places :
        /\ Cardinality(Rewriting(p)) <= 1
        /\ SearchingIn(p) # {} => Rewriting(p) = {}
        /\ \A t \in SearchingIn(p) :
              task[t].key = p => task[t].obj \in lapsed \/ objects[task[t].obj].edition = disk[p]
    /\ (searcher # None /\ objects[searcher].closed) => \E t \in Tasks : task[t].pc = "dropping"

Unanswered(t) == task[t].pc \notin {"idle", "done"}

\* The waits of the handlers: the mutation lock, the reader-writer locks, state._lock.
Blocked(t) ==
    \/ task[t].pc = "wantMutation" /\ Mutating # {}
    \/ task[t].pc = "wantRead" /\ ~CanRead(task[t].lock)
    \/ task[t].pc = "wantWrite" /\ ~CanWrite(task[t].lock)
    \/ /\ mutex # None
       /\ \/ task[t].pc \in {"wantMutex", "dropping", "activate"}
          \/ task[t].pc = "reset" /\ task[t].changed
          \/ task[t].pc = "purged" /\ task[t].op = "clear"

NoCircle == (\E t \in Tasks : Unanswered(t)) => \E t \in Tasks : Unanswered(t) /\ ~Blocked(t)

\* The waits for the mutation lock, the reader-writer locks and state._lock never
\* close a circle: while a call is unanswered, some call waits for nothing, and a
\* call that waits for nothing can go on.
NobodyStuck ==
    /\ NoCircle
    /\ \A t \in Tasks : Unanswered(t) => Blocked(t) \/ ENABLED Step(t)

-----------------------------------------------------------------------------
(* What comments of the code say, and the handlers do not keep to.         *)

\* search_orchestrator.py:325-330: "so the read lock's project key always matches
\* what _search below actually searches".
SearchesWhatItLocks ==
    \A t \in Tasks : task[t].pc = "searching" => objects[task[t].obj].place = task[t].key

\* state.py:156-166: discarding a project's lock is "Safe to call while other
\* coroutines still wait on the old lock object".
DiscardIsSafe ==
    \A p \in Projects : Cardinality(Rewriting(p)) <= 1
=============================================================================

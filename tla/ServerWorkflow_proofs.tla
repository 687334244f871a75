------------------------ MODULE ServerWorkflow_proofs ------------------------
(***************************************************************************)
(* Proofs about ServerWorkflow, for any number of calls and projects: the  *)
(* handlers' searches read what is on disk as long as no call strays.      *)
(***************************************************************************)
EXTENDS ServerWorkflow, FiniteSetTheorems, TLAPS

-----------------------------------------------------------------------------
(* The inductive invariant's parts.                                        *)

\* Inside get_searcher; inside _cleanup_previous_resources.
Fetching == {"resolve", "fetch", "wantMutex", "commit", "take"}
Teardown == {"closing", "dropping"}

\* What a handler has at each of its points: its request, lock, project and object.
Shape(c) ==
    /\ c.held # "none" => c.key \in Places /\ c.lock \in Places \X Nat
    /\ c.pc \in {"idle", "done"} => c.held = "none" /\ c.obj = None
    /\ c.pc \in {"stale?", "wantRead"} =>
          c.op = "search" /\ c.held = "none" /\ c.obj = None /\ c.key \in Places
    /\ c.pc \in {"wantRead", "wantWrite"} => c.lock \in Places \X Nat
    /\ c.pc = "wantWrite" =>
          /\ c.op \in {"search", "index", "clear", "delete"}
          /\ c.held = "none" /\ c.obj = None /\ c.key \in Places
    /\ c.pc = "wantMutation" =>
          /\ c.op \in Mutators /\ c.held = "none" /\ c.obj = None
          /\ c.op = "switch" => c.key \in Places
    /\ c.pc \in {"prepare", "bind", "reset"} =>
          c.op = "search" /\ c.held = "write" /\ (c.obj = None <=> c.pc = "prepare")
    /\ c.pc \in Fetching =>
          \/ c.op = "search" /\ c.held = "read"
          \/ c.op = "index" /\ c.held = "write"
    /\ c.pc \in {"resolve", "fetch", "wantMutex"} => c.obj = None
    /\ c.pc \in Fetching \ {"resolve"} => c.place \in Places
    /\ c.pc = "commit" => c.obj # None
    /\ c.pc \in {"took", "rewriting"} => c.op \in {"search", "index"} /\ c.held = "write"
    /\ c.pc = "took" /\ c.op = "search" => c.obj # None
    /\ c.pc = "rewriting" => c.obj # None
    /\ c.pc = "leave" => c.op = "index" /\ c.held = "write"
    /\ c.pc \in {"serve", "searching"} => c.op = "search" /\ c.held = "read"
    /\ c.pc = "searching" => c.obj # None
    /\ c.pc \in {"ifCurrent", "purging", "purged"} => c.op \in {"clear", "delete"} /\ c.held = "write"
    /\ c.pc = "forget" => c.op = "delete" /\ c.held = "write"
    /\ c.pc \in Teardown =>
          \/ c.op \in {"clear", "delete"} /\ c.held = "write"
          \/ c.op \in {"search", "index"} /\ c.held = "write" /\ c.obj # None
          \/ /\ c.op \in {"index", "switch", "cleanup"} /\ c.held = "none" /\ c.obj = None
             /\ c.op # "cleanup" => c.key \in Places
    /\ c.pc = "activate" =>
          c.op \in {"index", "switch"} /\ c.held = "none" /\ c.obj = None /\ c.key \in Places

\* The call's object is one it built itself and that is not cached yet.
Private(c) ==
    \/ c.pc = "commit"
    \/ c.op = "search" /\ c.pc \in {"took", "closing", "dropping", "rewriting", "bind"}

\* A writer is the only holder of its lock.
Locked ==
    \A t, u \in Tasks : t # u /\ task[t].held = "write" /\ task[u].lock = task[t].lock => task[u].held = "none"

\* An object of a call's own is open, not cached and nobody else's.
Owned ==
    \A t \in Tasks : Private(task[t]) =>
        /\ task[t].obj # searcher /\ ~objects[task[t].obj].closed
        /\ \A u \in Tasks \ {t} : task[u].obj # task[t].obj

\* A project's lock was dropped as often as deletions ended, at most.
Dropped == \A p \in Places : lockGen[p] <= Cardinality({t \in Tasks : task[t].pc = "done"})

\* A searcher that was shut down and is cached is about to be dropped.
ClosedGoes == (searcher # None /\ objects[searcher].closed) => \E t \in Tasks : task[t].pc = "dropping"

\* The call reads or writes through its searcher, under its lock.
Using(c) ==
    /\ c.op \in {"search", "index"} /\ c.held # "none" /\ c.obj # None
    /\ c.pc \in {"commit", "took", "closing", "dropping", "rewriting", "bind", "serve", "searching"}

\* A searcher of project p is cached.
CachedIn(p) == searcher # None /\ objects[searcher].place = p

\* A lock that is held is the project's present one.
OwnLock == \A t \in Tasks : task[t].held # "none" => task[t].lock = LockOf(task[t].key)

\* A searcher is fetched for the project whose lock is held.
OwnPlace == \A t \in Tasks : task[t].pc \in Fetching \ {"resolve"} => task[t].place = task[t].key

\* The cached searcher is the active project's.
OnePair == searcher # None => objects[searcher].place = current

\* A searcher in use is of the locked project, and in the edition on disk unless a
\* reindex failed since it was made.
InUse ==
    \A t \in Tasks : Using(task[t]) =>
        /\ objects[task[t].obj].place = task[t].key
        /\ task[t].obj \in lapsed \/ objects[task[t].obj].edition = disk[task[t].key]

\* index_directory rewrites through the cached searcher, if one of its project is cached.
IndexesCached ==
    \A t \in Tasks :
        /\ task[t].op = "index" /\ task[t].held = "write"
        /\ task[t].pc \in {"took", "closing", "dropping", "rewriting"}
        /\ task[t].obj # None /\ CachedIn(task[t].key)
        => searcher = task[t].obj

\* No searcher is cached for a project whose index is being removed.
PurgesUncached == \A t \in Tasks : task[t].pc \in {"purging", "purged", "forget"} => ~CachedIn(task[t].key)

\* What is cached is the edition on disk, or a reindex is about to reset it, or failed.
CacheFresh ==
    searcher # None =>
        \/ searcher \in lapsed
        \/ objects[searcher].edition = disk[objects[searcher].place]
        \/ \E t \in Tasks : /\ task[t].pc \in {"bind", "reset"} /\ task[t].changed
                            /\ task[t].key = objects[searcher].place

Guarded ==
    /\ OwnLock /\ OwnPlace /\ OnePair /\ InUse
    /\ IndexesCached /\ PurgesUncached /\ CacheFresh

\* The invariant: its last part holds until some call strays.
IndInv ==
    /\ Typed
    /\ \A t \in Tasks : Shape(task[t])
    /\ Locked
    /\ Owned
    /\ Dropped
    /\ ClosedGoes
    /\ ~strayed => Guarded

-----------------------------------------------------------------------------
(* Ids and locks.                                                          *)

\* The calls in flight can be counted.
LEMMA TasksCount == Cardinality(Tasks) \in Nat
  BY FS_CardinalityType, WorkflowAssumption

\* There is one id more than there are calls.
LEMMA IdsCount == IsFiniteSet(Ids) /\ Cardinality(Ids) = Cardinality(Tasks) + 1
  <1>1. IsFiniteSet(1 .. Cardinality(Tasks) + 1) /\
        Cardinality(1 .. Cardinality(Tasks) + 1) =
            IF 1 > Cardinality(Tasks) + 1 THEN 0 ELSE Cardinality(Tasks) + 1 - 1 + 1
    BY TasksCount, FS_Interval
  <1> QED
    BY <1>1, TasksCount DEF Ids

\* None is not mistaken for an object, a project or a call.
LEMMA NoneIsNoId == None \notin Ids /\ None \notin Places /\ None \notin Tasks
  <1>1. Ids \subseteq Nat
    BY TasksCount DEF Ids
  <1> QED
    BY <1>1, WorkflowAssumption

\* A call that refers to no object finds a free one: there are enough ids.
LEMMA FreeIdIsFree ==
    ASSUME NEW t \in Tasks, task[t].obj = None
    PROVE  FreeId \in Ids /\ FreeId # searcher /\ \A u \in Tasks : task[u].obj # FreeId
  <1>1. SUFFICES ASSUME \A i \in Ids : i = searcher \/ \E u \in Tasks : task[u].obj = i
                 PROVE  FALSE
    BY NoneIsNoId DEF FreeId
  <1> DEFINE user == [i \in Ids |-> IF i = searcher THEN t ELSE CHOOSE u \in Tasks : task[u].obj = i]
  <1>2. \A i \in Ids : i # searcher => user[i] \in Tasks /\ task[user[i]].obj = i
    BY <1>1
  <1>3. user \in [Ids -> Tasks]
    BY <1>2
  <1>4. \A i, j \in Ids : user[i] = user[j] => i = j
    BY <1>2, NoneIsNoId
  <1>5. IsFiniteSet(Tasks)
    BY WorkflowAssumption
  <1> HIDE DEF user
  <1>6. \E i, j \in Ids : i # j /\ user[i] = user[j]
    BY <1>3, <1>5, IdsCount, TasksCount, FS_PigeonHole
  <1> QED
    BY <1>4, <1>6

-----------------------------------------------------------------------------
(* What a call looks like at each place of its handler.                     *)

\* An answered call is a call, holds nothing and refers to nothing.
LEMMA DoneShape ==
    /\ Done \in Calls /\ Shape(Done)
    /\ Done.pc = "done" /\ Done.obj = None /\ Done.held = "none" /\ Done.op = None
  BY DEF Done, Idle, Calls, Points, Shape, Fetching, Teardown

\* Records with some fields replaced are calls again.
LEMMA WithLock ==
    ASSUME NEW c \in Calls, NEW pc \in Points,
           NEW p \in Places \union {None}, NEW l \in {None} \union (Places \X Nat)
    PROVE  [c EXCEPT !.pc = pc, !.key = p, !.lock = l] \in Calls
  BY DEF Calls

\* ... with another object and project,
LEMMA WithObject ==
    ASSUME NEW c \in Calls, NEW pc \in Points,
           NEW p \in Places \union {None}, NEW i \in Ids \union {None}
    PROVE  [c EXCEPT !.obj = i, !.place = p, !.pc = pc] \in Calls
  BY DEF Calls

\* ... with another object only.
LEMMA WithoutObject ==
    ASSUME NEW c \in Calls, NEW pc \in Points,
           NEW i \in Ids \union {None}
    PROVE  [c EXCEPT !.pc = pc, !.obj = i] \in Calls
  BY DEF Calls

\* A call that goes for a lock waits for the project's present one.
LEMMA AwaitingShape ==
    ASSUME NEW c \in Calls, NEW p \in Places, NEW pc \in {"wantRead", "wantWrite"},
           c.held = "none", c.obj = None,
           c.op \in {"search", "index", "clear", "delete"}, pc = "wantRead" => c.op = "search",
           lockGen \in [Places -> Nat]
    PROVE  LET d == Awaiting(c, p, pc)
           IN  /\ d \in Calls /\ Shape(d)
               /\ d.pc = pc /\ d.held = "none" /\ d.obj = None /\ d.op = c.op /\ d.key = p
  <1> DEFINE d == Awaiting(c, p, pc)
  <1>1. d \in Calls
    <2>1. LockOf(p) \in Places \X Nat
      BY DEF LockOf
    <2>2. d = [c EXCEPT !.pc = pc, !.key = p, !.lock = LockOf(p)]
      BY DEF Awaiting
    <2>3. /\ pc \in Points /\ p \in Places \union {None}
          /\ LockOf(p) \in {None} \union (Places \X Nat)
      BY <2>1 DEF Points
    <2>4. [c EXCEPT !.pc = pc, !.key = p, !.lock = LockOf(p)] \in Calls
      BY <2>3, WithLock
    <2> QED
      BY <2>2, <2>4
  <1>2. d.pc = pc /\ d.held = "none" /\ d.obj = None /\ d.op = c.op /\ d.key = p /\ d.lock \in Places \X Nat
    BY DEF Awaiting, LockOf, Calls
  <1> HIDE DEF d
  <1>3. Shape(d)
    BY <1>2 DEF Shape, Fetching, Teardown
  <1> QED
    BY <1>1, <1>2, <1>3 DEF d

\* Only one call moves, and to a state its handler has.
LEMMA OneCall ==
    ASSUME task \in [Tasks -> Calls], \A u \in Tasks : Shape(task[u]), NEW t \in Tasks,
           NEW c \in Calls, Shape(c), task' = [task EXCEPT ![t] = c]
    PROVE  task' \in [Tasks -> Calls] /\ \A u \in Tasks : Shape(task'[u])
  OBVIOUS

\* Clearing the pool changes what no shape speaks of.
LEMMA ClearedPool ==
    ASSUME task \in [Tasks -> Calls], \A u \in Tasks : Shape(task[u]), NEW t \in Tasks,
           NEW c \in Calls, Shape(c), task' = [PoolCleared EXCEPT ![t] = c]
    PROVE  task' \in [Tasks -> Calls] /\ \A u \in Tasks : Shape(task'[u])
  <1>1. ASSUME NEW u \in Tasks
        PROVE  PoolCleared[u] \in Calls
    <2>1. task[u] \in Calls /\ PoolCleared[u] = [task[u] EXCEPT !.fresh = FALSE]
      BY DEF PoolCleared
    <2> QED
      BY <2>1 DEF Calls
  <1>2. ASSUME NEW u \in Tasks
        PROVE  Shape(PoolCleared[u])
    <2>1. /\ PoolCleared[u].pc = task[u].pc /\ PoolCleared[u].op = task[u].op
          /\ PoolCleared[u].held = task[u].held /\ PoolCleared[u].obj = task[u].obj
          /\ PoolCleared[u].key = task[u].key /\ PoolCleared[u].lock = task[u].lock
          /\ PoolCleared[u].place = task[u].place
      BY DEF PoolCleared, Calls
    <2> QED
      BY <2>1 DEF Shape
  <1>3. PoolCleared = [u \in Tasks |-> PoolCleared[u]]
    BY DEF PoolCleared
  <1> QED
    BY <1>1, <1>2, <1>3

\* Every step leaves the handlers in states their code has.
LEMMA CallsStep ==
    ASSUME Typed, \A u \in Tasks : Shape(task[u]), Owned, NEW t \in Tasks, Start(t) \/ Step(t)
    PROVE  task' \in [Tasks -> Calls] /\ \A u \in Tasks : Shape(task'[u])
  <1>1. task \in [Tasks -> Calls] /\ task[t] \in Calls /\ Shape(task[t]) /\ (\A u \in Tasks : Shape(task[u]))
    BY DEF Typed
  <1>2. lockGen \in [Places -> Nat] /\ current \in Places \union {None} /\ searcher \in Ids \union {None}
    BY TasksCount DEF Typed
  <1>3. CASE StartSearch(t)
    <2>1. CASE current = None
      <3> DEFINE c == [task[t] EXCEPT !.op = "search"]
      <3>1. c \in Calls /\ c.op = "search" /\ c.held = "none" /\ c.obj = None
        BY <1>1, <1>3 DEF StartSearch, Calls, Points, Shape
      <3>2. task' = [task EXCEPT ![t] = Awaiting(c, Home, "wantRead")]
        BY <2>1, <1>3 DEF StartSearch
      <3> HIDE DEF c
      <3> QED
        BY <1>1, <1>2, <3>1, <3>2, AwaitingShape, OneCall DEF Places
    <2>2. CASE current # None
      BY <1>1, <1>2, <1>3, <2>2 DEF StartSearch, Calls, Points, Shape, Fetching, Teardown
    <2> QED
      BY <2>1, <2>2
  <1>4. CASE StartMutation(t)
    <2>1. PICK r \in Requests : r.op \in Mutators /\
              task' = [task EXCEPT ![t].op = r.op, ![t].key = r.place, ![t].pc = "wantMutation"]
      BY <1>4 DEF StartMutation
    <2>2. r.place \in Places \union {None} /\ (r.op \in {"index", "switch", "delete"} => r.place \in Places)
      BY <2>1, WorkflowAssumption DEF Places
    <2> DEFINE c == [task[t] EXCEPT !.op = r.op, !.key = r.place, !.pc = "wantMutation"]
    <2>3. c \in Calls
      <3>1. task[t] \in Calls /\ r.op \in {None, "search", "index", "cleanup"} \union Mutators
        BY <1>1, <2>1
      <3> QED
        BY <3>1, <2>2 DEF Calls, Points
    <2>4. c.op = r.op /\ c.key = r.place /\ c.pc = "wantMutation" /\ c.held = "none" /\ c.obj = None
      BY <1>1, <1>4 DEF StartMutation, Calls, Points, Shape
    <2>5. Shape(c)
      BY <2>1, <2>2, <2>4 DEF Shape, Mutators, Fetching, Teardown
    <2>6. task' = [task EXCEPT ![t] = c]
      BY <1>1, <2>1
    <2> QED
      BY <1>1, <2>3, <2>5, <2>6, OneCall
  <1>5. CASE StartTeardown(t)
    <2>1. PICK r \in Requests : r.op \in {"index", "cleanup"} /\
              task' = [task EXCEPT ![t].op = r.op, ![t].key = r.place, ![t].pc = "closing"]
      BY <1>5 DEF StartTeardown
    <2>2. r.place \in Places \union {None} /\ (r.op \in {"index", "switch", "delete"} => r.place \in Places)
      BY <2>1, WorkflowAssumption DEF Places
    <2> DEFINE c == [task[t] EXCEPT !.op = r.op, !.key = r.place, !.pc = "closing"]
    <2>3. c \in Calls
      <3>1. task[t] \in Calls /\ r.op \in {None, "search", "index", "cleanup"} \union Mutators
        BY <1>1, <2>1
      <3> QED
        BY <3>1, <2>2 DEF Calls, Points
    <2>4. c.op = r.op /\ c.key = r.place /\ c.pc = "closing" /\ c.held = "none" /\ c.obj = None
      BY <1>1, <1>5 DEF StartTeardown, Calls, Points, Shape
    <2>5. Shape(c)
      BY <2>1, <2>2, <2>4 DEF Shape, Mutators, Fetching, Teardown
    <2>6. task' = [task EXCEPT ![t] = c]
      BY <1>1, <2>1
    <2> QED
      BY <1>1, <2>3, <2>5, <2>6, OneCall
  <1>6. CASE EnterMutation(t)
    <2>1. CASE task[t].op = "switch"
      BY <1>1, <1>6, <2>1 DEF EnterMutation, Calls, Points, Shape, Fetching, Teardown
    <2>2. CASE task[t].op # "switch"
      <3> DEFINE p == IF task[t].op = "clear" THEN current ELSE task[t].key
      <3>1. task' = [task EXCEPT ![t] = IF p = None THEN Done ELSE Awaiting(task[t], p, "wantWrite")]
        BY <1>6, <2>2 DEF EnterMutation
      <3>2. p \in Places \union {None}
        BY <1>1, <1>2 DEF Calls
      <3>3. task[t].held = "none" /\ task[t].obj = None /\ task[t].op \in {"clear", "delete"}
        BY <1>1, <1>6, <2>2 DEF EnterMutation, Shape, Mutators
      <3> HIDE DEF p
      <3>4. CASE p = None
        BY <1>1, <3>1, <3>4, DoneShape, OneCall
      <3>5. CASE p # None
        BY <1>1, <1>2, <3>1, <3>2, <3>3, <3>5, AwaitingShape, OneCall
      <3> QED
        BY <3>4, <3>5
    <2> QED
      BY <2>1, <2>2
  <1>7. CASE AcquireRead(t)
    BY <1>1, <1>2, <1>7, NoneIsNoId DEF AcquireRead, Calls, Points, Shape, Mutators, Fetching, Teardown
  <1>8. CASE AcquireWrite(t)
    BY <1>1, <1>2, <1>8, NoneIsNoId DEF AcquireWrite, Calls, Points, Shape, Mutators, Fetching, Teardown
  <1>9. CASE CheckStale(t)
    <2>1. PICK pc \in {"wantRead", "wantWrite"} : task' = [task EXCEPT ![t] = Awaiting(task[t], task[t].key, pc)]
      BY <1>9 DEF CheckStale
    <2>2. task[t].held = "none" /\ task[t].obj = None /\ task[t].op = "search" /\ task[t].key \in Places
      BY <1>1, <1>9 DEF CheckStale, Shape
    <2> QED
      BY <1>1, <1>2, <2>1, <2>2, AwaitingShape, OneCall
  <1>10. CASE PrepareReindex(t)
    BY <1>1, <1>2, <1>10, NoneIsNoId DEF PrepareReindex, Calls, Points, Shape, Mutators, Fetching, Teardown
  <1>11. CASE BindSearcher(t)
    BY <1>1, <1>2, <1>11, NoneIsNoId DEF BindSearcher, Goto, Calls, Points, Shape, Mutators, Fetching, Teardown
  <1>12. CASE FinishReindex(t)
    <2> DEFINE c == [Idle EXCEPT !.op = "search"]
    <2>1. c \in Calls /\ c.op = "search" /\ c.held = "none" /\ c.obj = None
      BY DEF Idle, Calls, Points
    <2>2. task' = [task EXCEPT ![t] = Awaiting(c, task[t].key, "wantRead")]
      BY <1>12 DEF FinishReindex
    <2>3. task[t].key \in Places
      BY <1>1, <1>12 DEF FinishReindex, Shape
    <2> HIDE DEF c
    <2> QED
      BY <1>1, <1>2, <2>1, <2>2, <2>3, AwaitingShape, OneCall
  <1>13. CASE ResolvePlace(t)
    <2> DEFINE p == IF task[t].op = "index" THEN task[t].key ELSE IF current = None THEN Home ELSE current
    <2>1. task' = [task EXCEPT ![t].place = p, ![t].pc = "fetch"]
      BY <1>13 DEF ResolvePlace
    <2>2. task[t].pc = "resolve" /\ task[t].held # "none" /\ task[t].key \in Places
      BY <1>1, <1>13 DEF ResolvePlace, Shape, Fetching
    <2>3. p \in Places
      BY <1>2, <2>2 DEF Places
    <2> HIDE DEF p
    <2> QED
      BY <1>1, <2>1, <2>2, <2>3 DEF Calls, Points, Shape, Fetching, Teardown
  <1>14. CASE LookUp(t)
    <2>1. CASE Cached(task[t].place)
      <3>1. task' = [task EXCEPT ![t].pc = "take"]
        BY <1>14, <2>1 DEF LookUp, Goto
      <3> QED
        BY <1>1, <1>14, <3>1 DEF LookUp, Calls, Points, Shape, Fetching, Teardown
    <2>2. CASE ~(Cached(task[t].place))
      <3>1. task' = [task EXCEPT ![t].pc = "wantMutex"]
        BY <1>14, <2>2 DEF LookUp, Goto
      <3> QED
        BY <1>1, <1>14, <3>1 DEF LookUp, Calls, Points, Shape, Fetching, Teardown
    <2> QED
      BY <2>1, <2>2
  <1>15. CASE FoundInside(t)
    BY <1>1, <1>2, <1>15, NoneIsNoId DEF FoundInside, Goto, Calls, Points, Shape, Mutators, Fetching, Teardown
  <1>16. CASE BuildSearcher(t)
    BY <1>1, <1>2, <1>16, NoneIsNoId DEF BuildSearcher, Goto, Calls, Points, Shape, Mutators, Fetching, Teardown
  <1>17. CASE CommitSearcher(t)
    BY <1>1, <1>2, <1>17, NoneIsNoId DEF CommitSearcher, Goto, Calls, Points, Shape, Mutators, Fetching, Teardown
  <1>18. CASE TakeSearcher(t)
    <2>1. task[t].pc = "take" /\ task' = [task EXCEPT ![t].obj = searcher, ![t].place = None,
              ![t].pc = IF task[t].op = "search" THEN "serve" ELSE "took"]
      BY <1>18 DEF TakeSearcher
    <2>2. \/ task[t].op = "search" /\ task[t].held = "read"
          \/ task[t].op = "index" /\ task[t].held = "write"
      BY <1>1, <2>1 DEF Shape, Fetching
    <2> DEFINE c == [task[t] EXCEPT !.obj = searcher, !.place = None,
                        !.pc = IF task[t].op = "search" THEN "serve" ELSE "took"]
    <2>3. c \in Calls
      <3>1. /\ None \in Places \union {None}
            /\ (IF task[t].op = "search" THEN "serve" ELSE "took") \in Points
        BY DEF Points
      <3> QED
        BY <1>1, <1>2, <3>1, WithObject
    <2>4. /\ c.pc = (IF task[t].op = "search" THEN "serve" ELSE "took") /\ c.op = task[t].op
          /\ c.held = task[t].held /\ c.key = task[t].key /\ c.lock = task[t].lock
      BY <1>1 DEF Calls
    <2>5. Shape(c)
      BY <1>1, <2>2, <2>4 DEF Shape, Fetching, Teardown
    <2>6. task' = [task EXCEPT ![t] = c]
      BY <1>1, <2>1
    <2> QED
      BY <1>1, <2>3, <2>5, <2>6, OneCall
  <1>19. CASE RefuseSearch(t)
    BY <1>1, <1>19, DoneShape, OneCall DEF RefuseSearch
  <1>20. CASE BeginSearch(t)
    BY <1>1, <1>20, NoneIsNoId DEF BeginSearch, Ready, Goto, Calls, Points, Shape, Fetching, Teardown
  <1>21. CASE AnswerSearch(t)
    BY <1>1, <1>21, DoneShape, OneCall DEF AnswerSearch
  <1>22. CASE BeginIncremental(t)
    BY <1>1, <1>2, <1>22, NoneIsNoId DEF BeginIncremental, Goto, Calls, Points, Shape, Mutators, Fetching, Teardown
  <1>23. CASE BeginFull(t)
    BY <1>1, <1>2, <1>23, NoneIsNoId DEF BeginFull, Calls, Points, Shape, Mutators, Fetching, Teardown
  <1>24. CASE ResumeFull(t)
    BY <1>1, <1>2, <1>24, NoneIsNoId DEF ResumeFull, Goto, Calls, Points, Shape, Mutators, Fetching, Teardown
  <1>25. CASE SkipRewrite(t)
    <2>1. AfterRun(t) \in {"bind", "leave"} /\ task' = [task EXCEPT ![t].pc = AfterRun(t), ![t].changed = FALSE]
      BY <1>25 DEF SkipRewrite, AfterRun
    <2> DEFINE c == [task[t] EXCEPT !.pc = AfterRun(t), !.changed = FALSE]
    <2>2. c \in Calls
      BY <1>1, <2>1 DEF Calls, Points
    <2>3. /\ c.pc = AfterRun(t) /\ c.op = task[t].op /\ c.held = task[t].held /\ c.obj = task[t].obj
          /\ c.key = task[t].key /\ c.lock = task[t].lock
      BY <1>1 DEF Calls
    <2>4. Shape(c)
      BY <1>1, <1>25, <2>1, <2>3 DEF Shape, AfterRun, SkipRewrite, Fetching, Teardown
    <2> QED
      BY <1>1, <2>1, <2>2, <2>4, OneCall
  <1>26. CASE FinishRewrite(t)
    <2>1. AfterRun(t) \in {"bind", "leave"} /\ task' = [task EXCEPT ![t].pc = AfterRun(t), ![t].changed = TRUE]
      BY <1>26 DEF FinishRewrite, AfterRun
    <2> DEFINE c == [task[t] EXCEPT !.pc = AfterRun(t), !.changed = TRUE]
    <2>2. c \in Calls
      BY <1>1, <2>1 DEF Calls, Points
    <2>3. /\ c.pc = AfterRun(t) /\ c.op = task[t].op /\ c.held = task[t].held /\ c.obj = task[t].obj
          /\ c.key = task[t].key /\ c.lock = task[t].lock
      BY <1>1 DEF Calls
    <2>4. Shape(c)
      BY <1>1, <1>26, <2>1, <2>3 DEF Shape, AfterRun, FinishRewrite, Fetching, Teardown
    <2> QED
      BY <1>1, <2>1, <2>2, <2>4, OneCall
  <1>fail. CASE FailRewrite(t)
    <2>1. AfterRun(t) \in {"bind", "leave"} /\ task' = [task EXCEPT ![t].pc = AfterRun(t), ![t].changed = FALSE]
      BY <1>fail DEF FailRewrite, AfterRun
    <2> DEFINE c == [task[t] EXCEPT !.pc = AfterRun(t), !.changed = FALSE]
    <2>2. c \in Calls
      BY <1>1, <2>1 DEF Calls, Points
    <2>3. /\ c.pc = AfterRun(t) /\ c.op = task[t].op /\ c.held = task[t].held /\ c.obj = task[t].obj
          /\ c.key = task[t].key /\ c.lock = task[t].lock
      BY <1>1 DEF Calls
    <2>4. Shape(c)
      BY <1>1, <1>fail, <2>1, <2>3 DEF Shape, AfterRun, FailRewrite, Fetching, Teardown
    <2> QED
      BY <1>1, <2>1, <2>2, <2>4, OneCall
  <1>recover. CASE RecoverRewrite(t)
    BY <1>1, <1>2, <1>recover, NoneIsNoId DEF RecoverRewrite, Calls, Points, Shape, Mutators, Fetching, Teardown
  <1>27. CASE LeaveIndex(t)
    BY <1>1, <1>27, DoneShape, OneCall DEF LeaveIndex
  <1>28. CASE IfCurrent(t)
    <2>1. CASE current = task[t].key
      <3>1. task' = [task EXCEPT ![t].pc = "closing"]
        BY <1>28, <2>1 DEF IfCurrent, Goto
      <3> QED
        BY <1>1, <1>28, <3>1 DEF IfCurrent, Calls, Points, Shape, Fetching, Teardown
    <2>2. CASE ~(current = task[t].key)
      <3>1. task' = [task EXCEPT ![t].pc = "purging"]
        BY <1>28, <2>2 DEF IfCurrent, Goto
      <3> QED
        BY <1>1, <1>28, <3>1 DEF IfCurrent, Calls, Points, Shape, Fetching, Teardown
    <2> QED
      BY <2>1, <2>2
  <1>29. CASE CloseSearcher(t)
    BY <1>1, <1>2, <1>29, NoneIsNoId DEF CloseSearcher, Goto, Calls, Points, Shape, Mutators, Fetching, Teardown
  <1>30. CASE DropSearcher(t)
    <2> DEFINE c == [task[t] EXCEPT !.fresh = FALSE]
               d == [c EXCEPT !.pc = AfterDrop(t), !.obj = IF AfterDrop(t) = "resolve" THEN None ELSE c.obj]
    <2>1. task' = [PoolCleared EXCEPT ![t] = IF c.op = "cleanup" THEN Done ELSE d]
      <3>1. PoolCleared[t] = c /\ DOMAIN PoolCleared = Tasks
        BY DEF PoolCleared
      <3>2. task' = [PoolCleared EXCEPT ![t] =
                IF PoolCleared[t].op = "cleanup" THEN Done
                ELSE [PoolCleared[t] EXCEPT !.pc = AfterDrop(t),
                        !.obj = IF AfterDrop(t) = "resolve" THEN None ELSE task[t].obj]]
        BY <1>30 DEF DropSearcher
      <3>3. c.obj = task[t].obj
        BY <1>1 DEF Calls
      <3> HIDE DEF c
      <3> QED
        BY <3>1, <3>2, <3>3
    <2>2. c.op = task[t].op /\ c.held = task[t].held /\ c.obj = task[t].obj
      BY <1>1 DEF Calls
    <2>3. AfterDrop(t) \in Points
      BY DEF AfterDrop, Points
    <2>4. d \in Calls
      <3>1. c \in Calls
        BY <1>1 DEF Calls
      <3>2. (IF AfterDrop(t) = "resolve" THEN None ELSE c.obj) \in Ids \union {None}
        BY <3>1 DEF Calls
      <3> HIDE DEF c
      <3> QED
        BY <2>3, <3>1, <3>2, WithoutObject
    <2>5. /\ d.pc = AfterDrop(t) /\ d.op = task[t].op /\ d.held = task[t].held /\ d.key = task[t].key
          /\ d.lock = task[t].lock /\ d.obj = IF AfterDrop(t) = "resolve" THEN None ELSE task[t].obj
      BY <1>1 DEF Calls
    <2> HIDE DEF d
    <2>6. ASSUME c.op # "cleanup" PROVE Shape(d)
      <3>1. /\ task[t].held # "none" => task[t].key \in Places /\ task[t].lock \in Places \X Nat
            /\ \/ task[t].op \in {"clear", "delete"} /\ task[t].held = "write"
               \/ task[t].op \in {"search", "index"} /\ task[t].held = "write" /\ task[t].obj # None
               \/ /\ task[t].op \in {"index", "switch"} /\ task[t].held = "none" /\ task[t].obj = None
                  /\ task[t].key \in Places
        BY <1>1, <1>30, <2>2, <2>6 DEF DropSearcher, Shape, Teardown
      <3>2. CASE task[t].op \in {"clear", "delete"}
        BY <2>5, <3>1, <3>2 DEF AfterDrop, Shape, Fetching, Teardown
      <3>3. CASE task[t].op \notin {"clear", "delete"} /\ task[t].held = "none"
        BY <2>5, <3>1, <3>3 DEF AfterDrop, Shape, Fetching, Teardown
      <3>4. CASE task[t].op \notin {"clear", "delete"} /\ task[t].held # "none"
        <4>1. AfterDrop(t) \in {"resolve", "rewriting"}
          BY <3>4 DEF AfterDrop
        <4>2. task[t].op \in {"search", "index"} /\ task[t].held = "write" /\ task[t].obj # None
          BY <3>1, <3>4
        <4>3. /\ d.op \in {"search", "index"} /\ d.held = "write"
              /\ d.key \in Places /\ d.lock \in Places \X Nat
          BY <2>5, <3>1, <4>2
        <4>4. (d.pc = "resolve" /\ d.obj = None) \/ (d.pc = "rewriting" /\ d.obj # None)
          <5>1. CASE AfterDrop(t) = "resolve"
            BY <2>5, <5>1
          <5>2. CASE AfterDrop(t) = "rewriting"
            BY <2>5, <4>2, <5>2
          <5> QED
            BY <4>1, <5>1, <5>2
        <4>5. d.pc = "resolve" => d.op = "index"
          BY <1>30, <2>5, <3>4, <4>2 DEF DropSearcher, AfterDrop, Owned, Private
        <4> QED
          BY <4>3, <4>4, <4>5 DEF Shape, Fetching, Teardown
      <3> QED
        BY <3>2, <3>3, <3>4
    <2> QED
      BY <1>1, <2>1, <2>4, <2>6, DoneShape, ClearedPool
  <1>31. CASE ForgetCurrent(t)
    BY <1>1, <1>2, <1>31, NoneIsNoId DEF ForgetCurrent, Goto, Calls, Points, Shape, Mutators, Fetching, Teardown
  <1>32. CASE Activate(t)
    <2> DEFINE c == [task[t] EXCEPT !.fresh = FALSE]
    <2>1. task' = [PoolCleared EXCEPT ![t] = IF c.op = "switch" THEN Done ELSE Awaiting(c, c.key, "wantWrite")]
      <3>1. PoolCleared[t] = c /\ DOMAIN PoolCleared = Tasks
        BY DEF PoolCleared
      <3> HIDE DEF c
      <3> QED
        BY <3>1, <1>32 DEF Activate
    <2>2. c \in Calls /\ c.op = task[t].op /\ c.held = task[t].held /\ c.obj = task[t].obj /\ c.key = task[t].key
      BY <1>1 DEF Calls
    <2>3. c.op \in {"index", "switch"} /\ c.held = "none" /\ c.obj = None /\ c.key \in Places
      BY <1>1, <1>32, <2>2 DEF Activate, Shape
    <2> HIDE DEF c
    <2> QED
      BY <1>1, <1>2, <2>1, <2>2, <2>3, AwaitingShape, DoneShape, ClearedPool
  <1>33. CASE Purge(t)
    BY <1>1, <1>2, <1>33, NoneIsNoId DEF Purge, Goto, Calls, Points, Shape, Mutators, Fetching, Teardown
  <1>34. CASE FinishClear(t)
    BY <1>1, <1>34, DoneShape, OneCall DEF FinishClear
  <1>35. CASE FinishDelete(t)
    BY <1>1, <1>35, DoneShape, OneCall DEF FinishDelete
  <1> QED
    BY <1>3, <1>4, <1>5, <1>6, <1>7, <1>8, <1>9, <1>10, <1>11, <1>12, <1>13, <1>14, <1>15, <1>16, <1>17, <1>18, <1>19, <1>20, <1>21, <1>22, <1>23, <1>24, <1>25, <1>fail, <1>recover, <1>26, <1>27, <1>28, <1>29, <1>30, <1>31, <1>32, <1>33, <1>34, <1>35 DEF Start, Step

-----------------------------------------------------------------------------
(* What a step leaves alone.                                               *)

\* A call that does not move keeps all but its embedder.
Kept(u) ==
    /\ task'[u].pc = task[u].pc /\ task'[u].op = task[u].op /\ task'[u].key = task[u].key
    /\ task'[u].place = task[u].place /\ task'[u].lock = task[u].lock
    /\ task'[u].held = task[u].held /\ task'[u].obj = task[u].obj
    /\ task'[u].changed = task[u].changed

\* A step of one call moves no other.
LEMMA OthersKept ==
    ASSUME Typed, NEW t \in Tasks, Start(t) \/ Step(t)
    PROVE  \A u \in Tasks \ {t} : Kept(u)
  <1>1. \A u \in Tasks : task[u] \in Calls
    BY DEF Typed
  <1>2. \A u \in Tasks : PoolCleared[u] = [task[u] EXCEPT !.fresh = FALSE]
    BY DEF PoolCleared
  <1>3. DOMAIN task = Tasks /\ DOMAIN PoolCleared = Tasks
    BY DEF Typed, PoolCleared
  <1>4. ASSUME \A u \in Tasks \ {t} : task'[u] = task[u]
        PROVE  \A u \in Tasks \ {t} : Kept(u)
    BY <1>4 DEF Kept
  <1>5. ASSUME \A u \in Tasks \ {t} : task'[u] = PoolCleared[u]
        PROVE  \A u \in Tasks \ {t} : Kept(u)
    <2>1. ASSUME NEW u \in Tasks \ {t}
          PROVE  Kept(u)
      <3>1. task[u] \in Calls /\ task'[u] = [task[u] EXCEPT !.fresh = FALSE]
        BY <1>1, <1>2, <1>5
      <3> QED
        BY <3>1 DEF Kept, Calls
    <2> QED
      BY <2>1
  <1>6. CASE StartSearch(t)
    <2>1. CASE current = None
      <3>1. \A u \in Tasks \ {t} : task'[u] = task[u]
        BY <1>3, <1>6, <2>1 DEF StartSearch
      <3> QED
        BY <1>4, <3>1
    <2>2. CASE current # None
      <3>1. \A u \in Tasks \ {t} : task'[u] = task[u]
        BY <1>3, <1>6, <2>2 DEF StartSearch
      <3> QED
        BY <1>4, <3>1
    <2> QED
      BY <2>1, <2>2
  <1>7. CASE StartMutation(t)
    <2>1. \A u \in Tasks \ {t} : task'[u] = task[u]
      BY <1>3, <1>7 DEF StartMutation
    <2> QED
      BY <1>4, <2>1
  <1>8. CASE StartTeardown(t)
    <2>1. \A u \in Tasks \ {t} : task'[u] = task[u]
      BY <1>3, <1>8 DEF StartTeardown
    <2> QED
      BY <1>4, <2>1
  <1>9. CASE EnterMutation(t)
    <2>1. \A u \in Tasks \ {t} : task'[u] = task[u]
      BY <1>3, <1>9 DEF EnterMutation
    <2> QED
      BY <1>4, <2>1
  <1>10. CASE AcquireRead(t)
    <2>1. \A u \in Tasks \ {t} : task'[u] = task[u]
      BY <1>3, <1>10 DEF AcquireRead
    <2> QED
      BY <1>4, <2>1
  <1>11. CASE AcquireWrite(t)
    <2>1. \A u \in Tasks \ {t} : task'[u] = task[u]
      BY <1>3, <1>11 DEF AcquireWrite
    <2> QED
      BY <1>4, <2>1
  <1>12. CASE CheckStale(t)
    <2>1. \A u \in Tasks \ {t} : task'[u] = task[u]
      BY <1>3, <1>12 DEF CheckStale
    <2> QED
      BY <1>4, <2>1
  <1>13. CASE PrepareReindex(t)
    <2>1. \A u \in Tasks \ {t} : task'[u] = task[u]
      BY <1>3, <1>13 DEF PrepareReindex
    <2> QED
      BY <1>4, <2>1
  <1>14. CASE BindSearcher(t)
    <2>1. \A u \in Tasks \ {t} : task'[u] = task[u]
      BY <1>3, <1>14 DEF BindSearcher, Goto
    <2> QED
      BY <1>4, <2>1
  <1>15. CASE FinishReindex(t)
    <2>1. \A u \in Tasks \ {t} : task'[u] = task[u]
      BY <1>3, <1>15 DEF FinishReindex
    <2> QED
      BY <1>4, <2>1
  <1>16. CASE ResolvePlace(t)
    <2>1. \A u \in Tasks \ {t} : task'[u] = task[u]
      BY <1>3, <1>16 DEF ResolvePlace
    <2> QED
      BY <1>4, <2>1
  <1>17. CASE LookUp(t)
    <2>1. \A u \in Tasks \ {t} : task'[u] = task[u]
      BY <1>3, <1>17 DEF LookUp, Goto
    <2> QED
      BY <1>4, <2>1
  <1>18. CASE FoundInside(t)
    <2>1. \A u \in Tasks \ {t} : task'[u] = task[u]
      BY <1>3, <1>18 DEF FoundInside, Goto
    <2> QED
      BY <1>4, <2>1
  <1>19. CASE BuildSearcher(t)
    <2>1. \A u \in Tasks \ {t} : task'[u] = task[u]
      BY <1>3, <1>19 DEF BuildSearcher
    <2> QED
      BY <1>4, <2>1
  <1>20. CASE CommitSearcher(t)
    <2>1. \A u \in Tasks \ {t} : task'[u] = task[u]
      BY <1>3, <1>20 DEF CommitSearcher, Goto
    <2> QED
      BY <1>4, <2>1
  <1>21. CASE TakeSearcher(t)
    <2>1. \A u \in Tasks \ {t} : task'[u] = task[u]
      BY <1>3, <1>21 DEF TakeSearcher
    <2> QED
      BY <1>4, <2>1
  <1>22. CASE RefuseSearch(t)
    <2>1. \A u \in Tasks \ {t} : task'[u] = task[u]
      BY <1>3, <1>22 DEF RefuseSearch
    <2> QED
      BY <1>4, <2>1
  <1>23. CASE BeginSearch(t)
    <2>1. \A u \in Tasks \ {t} : task'[u] = task[u]
      BY <1>3, <1>23 DEF BeginSearch, Goto
    <2> QED
      BY <1>4, <2>1
  <1>24. CASE AnswerSearch(t)
    <2>1. \A u \in Tasks \ {t} : task'[u] = task[u]
      BY <1>3, <1>24 DEF AnswerSearch
    <2> QED
      BY <1>4, <2>1
  <1>25. CASE BeginIncremental(t)
    <2>1. \A u \in Tasks \ {t} : task'[u] = task[u]
      BY <1>3, <1>25 DEF BeginIncremental, Goto
    <2> QED
      BY <1>4, <2>1
  <1>26. CASE BeginFull(t)
    <2>1. \A u \in Tasks \ {t} : task'[u] = task[u]
      BY <1>3, <1>26 DEF BeginFull
    <2> QED
      BY <1>4, <2>1
  <1>27. CASE ResumeFull(t)
    <2>1. \A u \in Tasks \ {t} : task'[u] = task[u]
      BY <1>3, <1>27 DEF ResumeFull, Goto
    <2> QED
      BY <1>4, <2>1
  <1>28. CASE SkipRewrite(t)
    <2>1. \A u \in Tasks \ {t} : task'[u] = task[u]
      BY <1>3, <1>28 DEF SkipRewrite
    <2> QED
      BY <1>4, <2>1
  <1>29. CASE FinishRewrite(t)
    <2>1. \A u \in Tasks \ {t} : task'[u] = task[u]
      BY <1>3, <1>29 DEF FinishRewrite
    <2> QED
      BY <1>4, <2>1
  <1>fail. CASE FailRewrite(t)
    <2>1. \A u \in Tasks \ {t} : task'[u] = task[u]
      BY <1>3, <1>fail DEF FailRewrite
    <2> QED
      BY <1>4, <2>1
  <1>recover. CASE RecoverRewrite(t)
    <2>1. \A u \in Tasks \ {t} : task'[u] = task[u]
      BY <1>3, <1>recover DEF RecoverRewrite
    <2> QED
      BY <1>4, <2>1
  <1>30. CASE LeaveIndex(t)
    <2>1. \A u \in Tasks \ {t} : task'[u] = task[u]
      BY <1>3, <1>30 DEF LeaveIndex
    <2> QED
      BY <1>4, <2>1
  <1>31. CASE IfCurrent(t)
    <2>1. \A u \in Tasks \ {t} : task'[u] = task[u]
      BY <1>3, <1>31 DEF IfCurrent, Goto
    <2> QED
      BY <1>4, <2>1
  <1>32. CASE CloseSearcher(t)
    <2>1. \A u \in Tasks \ {t} : task'[u] = task[u]
      BY <1>3, <1>32 DEF CloseSearcher, Goto
    <2> QED
      BY <1>4, <2>1
  <1>33. CASE DropSearcher(t)
    <2>1. \A u \in Tasks \ {t} : task'[u] = PoolCleared[u]
      BY <1>3, <1>33 DEF DropSearcher
    <2> QED
      BY <1>5, <2>1
  <1>34. CASE ForgetCurrent(t)
    <2>1. \A u \in Tasks \ {t} : task'[u] = task[u]
      BY <1>3, <1>34 DEF ForgetCurrent, Goto
    <2> QED
      BY <1>4, <2>1
  <1>35. CASE Activate(t)
    <2>1. \A u \in Tasks \ {t} : task'[u] = PoolCleared[u]
      BY <1>3, <1>35 DEF Activate
    <2> QED
      BY <1>5, <2>1
  <1>36. CASE Purge(t)
    <2>1. \A u \in Tasks \ {t} : task'[u] = task[u]
      BY <1>3, <1>36 DEF Purge, Goto
    <2> QED
      BY <1>4, <2>1
  <1>37. CASE FinishClear(t)
    <2>1. \A u \in Tasks \ {t} : task'[u] = task[u]
      BY <1>3, <1>37 DEF FinishClear
    <2> QED
      BY <1>4, <2>1
  <1>38. CASE FinishDelete(t)
    <2>1. \A u \in Tasks \ {t} : task'[u] = task[u]
      BY <1>3, <1>38 DEF FinishDelete
    <2> QED
      BY <1>4, <2>1
  <1> QED
    BY <1>6, <1>7, <1>8, <1>9, <1>10, <1>11, <1>12, <1>13, <1>14, <1>15, <1>16, <1>17, <1>18, <1>19, <1>20, <1>21, <1>22, <1>23, <1>24, <1>25, <1>26, <1>27, <1>28, <1>fail, <1>recover, <1>29, <1>30, <1>31, <1>32, <1>33, <1>34, <1>35, <1>36, <1>37, <1>38 DEF Start, Step


-----------------------------------------------------------------------------
(* The locks.                                                              *)

\* Only the two acquisitions take a lock; whoever holds one keeps lock and key.
LEMMA HeldKept ==
    ASSUME Typed, \A u \in Tasks : Shape(task[u]), NEW t \in Tasks, Start(t) \/ Step(t),
           ~AcquireRead(t), ~AcquireWrite(t)
    PROVE  \/ task'[t].held = "none"
           \/ /\ task'[t].held = task[t].held /\ task'[t].lock = task[t].lock
              /\ task'[t].key = task[t].key
  <1>1. task \in [Tasks -> Calls] /\ task[t] \in Calls /\ Shape(task[t]) /\ DOMAIN PoolCleared = Tasks
    BY DEF Typed, PoolCleared
  <1>2. \A c \in Calls, p \in Places \union {None}, pc \in Points : Awaiting(c, p, pc).held = c.held
    BY DEF Awaiting, Calls
  <1>3. CASE StartSearch(t)
    <2>1. task[t].held = "none" /\ task[t].obj = None
      BY <1>1, <1>3 DEF StartSearch, Shape
    <2>2. CASE current = None
      <3> DEFINE c == [task[t] EXCEPT !.op = "search"]
      <3>1. c \in Calls /\ c.held = "none"
        BY <1>1, <2>1 DEF Calls
      <3>2. task'[t] = Awaiting(c, Home, "wantRead")
        BY <1>1, <1>3, <2>2 DEF StartSearch
      <3> HIDE DEF c
      <3> QED
        BY <1>2, <3>1, <3>2 DEF Places, Points
    <2>3. CASE current # None
      BY <1>1, <1>3, <2>1, <2>3 DEF StartSearch, Calls
    <2> QED
      BY <2>2, <2>3
  <1>4. CASE StartMutation(t)
    BY <1>1, <1>4 DEF Shape, Calls, StartMutation
  <1>5. CASE StartTeardown(t)
    BY <1>1, <1>5 DEF Shape, Calls, StartTeardown
  <1>6. CASE EnterMutation(t)
    <2>1. task[t].held = "none"
      BY <1>1, <1>6 DEF EnterMutation, Shape
    <2>2. CASE task[t].op = "switch"
      BY <1>1, <1>6, <2>1, <2>2 DEF EnterMutation, Calls
    <2>3. CASE task[t].op # "switch"
      <3> DEFINE p == IF task[t].op = "clear" THEN current ELSE task[t].key
      <3>1. task'[t] = Done \/ task'[t] = Awaiting(task[t], p, "wantWrite")
        BY <1>1, <1>6, <2>3 DEF EnterMutation
      <3>2. p \in Places \union {None}
        BY <1>1 DEF Typed, Calls
      <3> HIDE DEF p
      <3> QED
        BY <1>1, <1>2, <2>1, <3>1, <3>2, DoneShape DEF Points
    <2> QED
      BY <2>2, <2>3
  <1>7. CASE CheckStale(t)
    <2>1. task[t].held = "none" /\ task[t].key \in Places
      BY <1>1, <1>7 DEF CheckStale, Shape
    <2>2. \E pc \in Points : task'[t] = Awaiting(task[t], task[t].key, pc)
      BY <1>1, <1>7 DEF CheckStale, Points
    <2> QED
      BY <1>1, <1>2, <2>1, <2>2
  <1>8. CASE PrepareReindex(t)
    BY <1>1, <1>8 DEF PrepareReindex, Calls
  <1>9. CASE BindSearcher(t)
    BY <1>1, <1>9 DEF BindSearcher, Goto, Calls
  <1>10. CASE FinishReindex(t)
    <2> DEFINE c == [Idle EXCEPT !.op = "search"]
    <2>1. c \in Calls /\ c.held = "none"
      BY DEF Idle, Calls, Points
    <2>2. task'[t] = Awaiting(c, task[t].key, "wantRead") /\ task[t].key \in Places \union {None}
      BY <1>1, <1>10 DEF FinishReindex, Calls
    <2> HIDE DEF c
    <2> QED
      BY <1>2, <2>1, <2>2 DEF Points
  <1>11. CASE ResolvePlace(t)
    BY <1>1, <1>11 DEF ResolvePlace, Calls
  <1>12. CASE LookUp(t)
    BY <1>1, <1>12 DEF LookUp, Goto, Calls
  <1>13. CASE FoundInside(t)
    BY <1>1, <1>13 DEF FoundInside, Goto, Calls
  <1>14. CASE BuildSearcher(t)
    BY <1>1, <1>14 DEF BuildSearcher, Calls
  <1>15. CASE CommitSearcher(t)
    BY <1>1, <1>15 DEF CommitSearcher, Goto, Calls
  <1>16. CASE TakeSearcher(t)
    BY <1>1, <1>16 DEF TakeSearcher, Calls
  <1>17. CASE RefuseSearch(t)
    BY <1>1, DoneShape, <1>17 DEF RefuseSearch
  <1>18. CASE BeginSearch(t)
    BY <1>1, <1>18 DEF BeginSearch, Goto, Calls
  <1>19. CASE AnswerSearch(t)
    BY <1>1, DoneShape, <1>19 DEF AnswerSearch
  <1>20. CASE BeginIncremental(t)
    BY <1>1, <1>20 DEF BeginIncremental, Goto, Calls
  <1>21. CASE BeginFull(t)
    BY <1>1, <1>21 DEF BeginFull, Calls
  <1>22. CASE ResumeFull(t)
    BY <1>1, <1>22 DEF ResumeFull, Goto, Calls
  <1>23. CASE SkipRewrite(t)
    BY <1>1, <1>23 DEF SkipRewrite, Calls
  <1>24. CASE FinishRewrite(t)
    BY <1>1, <1>24 DEF FinishRewrite, Calls
  <1>fail. CASE FailRewrite(t)
    BY <1>1, <1>fail DEF FailRewrite, Calls
  <1>recover. CASE RecoverRewrite(t)
    BY <1>1, <1>recover DEF RecoverRewrite, Calls
  <1>25. CASE LeaveIndex(t)
    BY <1>1, DoneShape, <1>25 DEF LeaveIndex
  <1>26. CASE IfCurrent(t)
    BY <1>1, <1>26 DEF IfCurrent, Goto, Calls
  <1>27. CASE CloseSearcher(t)
    BY <1>1, <1>27 DEF CloseSearcher, Goto, Calls
  <1>28. CASE DropSearcher(t)
    <2>1. PoolCleared[t] = [task[t] EXCEPT !.fresh = FALSE]
      BY DEF PoolCleared
    <2> DEFINE c == PoolCleared[t]
    <2>2. c \in Calls /\ c.held = task[t].held /\ c.lock = task[t].lock /\ c.key = task[t].key
      BY <1>1, <2>1 DEF Calls
    <2>3. \/ task'[t] = Done
          \/ task'[t] = [c EXCEPT !.pc = AfterDrop(t),
                          !.obj = IF AfterDrop(t) = "resolve" THEN None ELSE task[t].obj]
      BY <1>1, <1>28 DEF DropSearcher
    <2> HIDE DEF c
    <2> QED
      BY <2>2, <2>3, DoneShape DEF Calls
  <1>29. CASE ForgetCurrent(t)
    BY <1>1, <1>29 DEF ForgetCurrent, Goto, Calls
  <1>30. CASE Activate(t)
    <2>1. PoolCleared[t] = [task[t] EXCEPT !.fresh = FALSE]
      BY DEF PoolCleared
    <2> DEFINE c == PoolCleared[t]
    <2>2. c \in Calls /\ c.held = "none" /\ c.key \in Places \union {None}
      BY <1>1, <1>30, <2>1 DEF Activate, Shape, Calls
    <2>3. task'[t] = Done \/ task'[t] = Awaiting(c, c.key, "wantWrite")
      BY <1>1, <1>30 DEF Activate
    <2> HIDE DEF c
    <2> QED
      BY <1>2, <2>2, <2>3, DoneShape DEF Points
  <1>31. CASE Purge(t)
    BY <1>1, <1>31 DEF Purge, Goto, Calls
  <1>32. CASE FinishClear(t)
    BY <1>1, DoneShape, <1>32 DEF FinishClear
  <1>33. CASE FinishDelete(t)
    BY <1>1, DoneShape, <1>33 DEF FinishDelete
  <1> QED
    BY <1>3, <1>4, <1>5, <1>6, <1>7, <1>8, <1>9, <1>10, <1>11, <1>12, <1>13, <1>14, <1>15, <1>16, <1>17, <1>18, <1>19, <1>20, <1>21, <1>22, <1>23, <1>fail, <1>recover, <1>24, <1>25, <1>26, <1>27, <1>28, <1>29, <1>30, <1>31, <1>32, <1>33 DEF Start, Step

\* A writer stays the only holder of its lock.
LEMMA LockedStep ==
    ASSUME Typed, \A u \in Tasks : Shape(task[u]), Locked, NEW t \in Tasks, Start(t) \/ Step(t)
    PROVE  Locked'
  <1>1. \A u \in Tasks \ {t} : Kept(u)
    BY OthersKept
  <1>2. task \in [Tasks -> Calls] /\ \A u \in Tasks : task[u].held \in {"none", "read", "write"}
    BY DEF Typed, Calls
  <1>3. SUFFICES ASSUME NEW a \in Tasks, NEW b \in Tasks, a # b, task'[a].held = "write",
                        task'[b].lock = task'[a].lock, task'[b].held # "none"
                 PROVE  FALSE
    BY DEF Locked
  <1>4. CASE AcquireRead(t)
    <2>1. task'[t].held = "read" /\ task'[t].lock = task[t].lock
      BY <1>2, <1>4 DEF AcquireRead, Calls
    <2>2. \A u \in Tasks : task[u].lock = task[t].lock => task[u].held # "write"
      BY <1>4 DEF AcquireRead, CanRead, Holding
    <2>3. a # t /\ task[a].held = "write" /\ task[a].lock = task'[a].lock
      BY <1>1, <1>3, <2>1 DEF Kept
    <2> QED
      BY <1>1, <1>3, <2>1, <2>2, <2>3 DEF Kept, Locked
  <1>5. CASE AcquireWrite(t)
    <2>1. task'[t].held = "write" /\ task'[t].lock = task[t].lock
      BY <1>2, <1>5 DEF AcquireWrite, Calls
    <2>2. \A u \in Tasks : task[u].lock = task[t].lock => task[u].held = "none"
      BY <1>2, <1>5 DEF AcquireWrite, CanWrite, Holding
    <2> QED
      BY <1>1, <1>3, <2>1, <2>2 DEF Kept, Locked
  <1>6. CASE ~AcquireRead(t) /\ ~AcquireWrite(t)
    <2>1. \A u \in Tasks : task'[u].held = "none" \/ (task'[u].held = task[u].held /\ task'[u].lock = task[u].lock)
      BY <1>1, <1>6, HeldKept DEF Kept
    <2> QED
      BY <1>3, <2>1 DEF Locked
  <1> QED
    BY <1>4, <1>5, <1>6

\* The steps into and out of a handler, and those to a lock it waits for.
Entering(t) ==
    \/ Start(t) \/ EnterMutation(t) \/ CheckStale(t) \/ FinishReindex(t) \/ RefuseSearch(t)
    \/ AnswerSearch(t) \/ LeaveIndex(t) \/ Activate(t) \/ FinishClear(t) \/ FinishDelete(t)

Outer == {"stale?", "wantRead", "wantWrite", "wantMutation", "closing", "done"}

\* ... hold nothing afterwards and build, write and cache nothing.
LEMMA EnteringStep ==
    ASSUME Typed, \A u \in Tasks : Shape(task[u]), NEW t \in Tasks, Entering(t)
    PROVE  /\ task'[t].pc \in Outer /\ task'[t].held = "none" /\ task'[t].obj = None
           /\ task'[t].pc = "closing" => task'[t].op # "search"
           /\ task[t].pc \in {"idle", "stale?", "wantMutation", "reset", "serve", "searching",
                              "leave", "activate", "purged"}
           /\ searcher' \in {searcher, None} /\ objects' = objects
           /\ disk' = disk /\ mutex' = mutex
  <1>1. task \in [Tasks -> Calls] /\ task[t] \in Calls /\ Shape(task[t]) /\ DOMAIN PoolCleared = Tasks
    BY DEF Typed, PoolCleared
  <1>2. \A c \in Calls, p \in Places \union {None}, pc \in Points :
            LET d == Awaiting(c, p, pc)
            IN  d.held = c.held /\ d.obj = c.obj /\ d.pc = pc /\ d.op = c.op
    BY DEF Awaiting, Calls
  <1>3. CASE StartSearch(t)
    <2>1. task[t].held = "none" /\ task[t].obj = None
      BY <1>1, <1>3 DEF StartSearch, Shape
    <2>2. CASE current = None
      <3> DEFINE c == [task[t] EXCEPT !.op = "search"]
      <3>1. c \in Calls /\ c.held = "none" /\ c.obj = None
        BY <1>1, <2>1 DEF Calls
      <3>2. task'[t] = Awaiting(c, Home, "wantRead")
        BY <1>1, <1>3, <2>2 DEF StartSearch
      <3> HIDE DEF c
      <3>3. task'[t].held = "none" /\ task'[t].obj = None /\ task'[t].pc = "wantRead"
        BY <1>2, <3>1, <3>2 DEF Places, Points
      <3> QED
        BY <1>3, <3>3 DEF StartSearch, Outer
    <2>3. CASE current # None
      BY <1>1, <1>3, <2>1, <2>3 DEF StartSearch, Calls, Outer
    <2> QED
      BY <2>2, <2>3
  <1>4. CASE StartMutation(t)
    BY <1>1, <1>4 DEF StartMutation, Calls, Shape, Outer
  <1>5. CASE StartTeardown(t)
    BY <1>1, <1>5 DEF StartTeardown, Calls, Shape, Outer
  <1>6. CASE EnterMutation(t)
    <2>1. task[t].held = "none" /\ task[t].obj = None
      BY <1>1, <1>6 DEF EnterMutation, Shape
    <2>2. CASE task[t].op = "switch"
      BY <1>1, <1>6, <2>1, <2>2 DEF EnterMutation, Calls, Outer
    <2>3. CASE task[t].op # "switch"
      <3> DEFINE p == IF task[t].op = "clear" THEN current ELSE task[t].key
      <3>1. task'[t] = Done \/ task'[t] = Awaiting(task[t], p, "wantWrite")
        BY <1>1, <1>6, <2>3 DEF EnterMutation
      <3>2. p \in Places \union {None}
        BY <1>1 DEF Typed, Calls
      <3> HIDE DEF p
      <3>3. task'[t].held = "none" /\ task'[t].obj = None /\ task'[t].pc \in {"wantWrite", "done"}
        BY <1>1, <1>2, <2>1, <3>1, <3>2, DoneShape DEF Points
      <3> QED
        BY <1>6, <3>3 DEF EnterMutation, Outer
    <2> QED
      BY <2>2, <2>3
  <1>7. CASE CheckStale(t)
    <2>1. task[t].held = "none" /\ task[t].obj = None /\ task[t].key \in Places
      BY <1>1, <1>7 DEF CheckStale, Shape
    <2>2. PICK pc \in {"wantRead", "wantWrite"} : task'[t] = Awaiting(task[t], task[t].key, pc)
      BY <1>1, <1>7 DEF CheckStale
    <2>3. task'[t].held = "none" /\ task'[t].obj = None /\ task'[t].pc = pc
      BY <1>1, <1>2, <2>1, <2>2 DEF Points
    <2> QED
      BY <1>7, <2>3 DEF CheckStale, Outer
  <1>8. CASE FinishReindex(t)
    <2> DEFINE c == [Idle EXCEPT !.op = "search"]
    <2>1. c \in Calls /\ c.held = "none" /\ c.obj = None
      BY DEF Idle, Calls, Points
    <2>2. task'[t] = Awaiting(c, task[t].key, "wantRead") /\ task[t].key \in Places \union {None}
      BY <1>1, <1>8 DEF FinishReindex, Calls
    <2> HIDE DEF c
    <2>3. task'[t].held = "none" /\ task'[t].obj = None /\ task'[t].pc = "wantRead"
      BY <1>2, <2>1, <2>2 DEF Points
    <2> QED
      BY <1>8, <2>3 DEF FinishReindex, Outer
  <1>9. CASE RefuseSearch(t)
    BY <1>1, <1>9, DoneShape DEF RefuseSearch, Outer
  <1>10. CASE AnswerSearch(t)
    BY <1>1, <1>10, DoneShape DEF AnswerSearch, Outer
  <1>11. CASE LeaveIndex(t)
    BY <1>1, <1>11, DoneShape DEF LeaveIndex, Outer
  <1>12. CASE Activate(t)
    <2>1. PoolCleared[t] = [task[t] EXCEPT !.fresh = FALSE]
      BY DEF PoolCleared
    <2> DEFINE c == PoolCleared[t]
    <2>2. c \in Calls /\ c.held = "none" /\ c.obj = None /\ c.key \in Places \union {None}
      BY <1>1, <1>12, <2>1 DEF Activate, Shape, Calls
    <2>3. task'[t] = Done \/ task'[t] = Awaiting(c, c.key, "wantWrite")
      BY <1>1, <1>12 DEF Activate
    <2> HIDE DEF c
    <2>4. task'[t].held = "none" /\ task'[t].obj = None /\ task'[t].pc \in {"done", "wantWrite"}
      BY <1>2, <2>2, <2>3, DoneShape DEF Points
    <2> QED
      BY <1>12, <2>4 DEF Activate, Outer
  <1>13. CASE FinishClear(t)
    BY <1>1, <1>13, DoneShape DEF FinishClear, Outer
  <1>14. CASE FinishDelete(t)
    BY <1>1, <1>14, DoneShape DEF FinishDelete, Outer
  <1> QED
    BY <1>3, <1>4, <1>5, <1>6, <1>7, <1>8, <1>9, <1>10, <1>11, <1>12, <1>13, <1>14 DEF Entering, Start

\* What the second half of a teardown leaves of the call that does it.
LEMMA DropStep ==
    ASSUME Typed, NEW t \in Tasks, DropSearcher(t)
    PROVE  /\ task[t].pc = "dropping" /\ searcher' = None /\ objects' = objects
           /\ disk' = disk /\ mutex' = mutex /\ lockGen' = lockGen /\ strayed' = strayed
           /\ \/ task'[t] = Done
              \/ /\ task'[t].pc = AfterDrop(t) /\ task'[t].op = task[t].op /\ task'[t].key = task[t].key
                 /\ task'[t].held = task[t].held
                 /\ task'[t].obj = IF AfterDrop(t) = "resolve" THEN None ELSE task[t].obj
           /\ task'[t].pc \in {"purging", "forget", "activate", "resolve", "rewriting", "done"}
  <1>1. task[t] \in Calls /\ PoolCleared[t] = [task[t] EXCEPT !.fresh = FALSE] /\ DOMAIN PoolCleared = Tasks
    BY DEF PoolCleared, Typed
  <1> DEFINE c == PoolCleared[t]
  <1>2. c \in Calls /\ c.op = task[t].op /\ c.held = task[t].held /\ c.key = task[t].key
    BY <1>1 DEF Calls
  <1>3. \/ task'[t] = Done
        \/ task'[t] = [c EXCEPT !.pc = AfterDrop(t),
                          !.obj = IF AfterDrop(t) = "resolve" THEN None ELSE task[t].obj]
    BY <1>1 DEF DropSearcher
  <1> HIDE DEF c
  <1>4. \/ task'[t] = Done
        \/ /\ task'[t].pc = AfterDrop(t) /\ task'[t].op = task[t].op /\ task'[t].key = task[t].key
           /\ task'[t].held = task[t].held
           /\ task'[t].obj = IF AfterDrop(t) = "resolve" THEN None ELSE task[t].obj
    BY <1>2, <1>3 DEF Calls
  <1>5. AfterDrop(t) \in {"purging", "forget", "activate", "resolve", "rewriting"}
    BY DEF AfterDrop
  <1>6. task'[t].pc \in {"purging", "forget", "activate", "resolve", "rewriting", "done"}
    BY <1>4, <1>5, DoneShape
  <1> QED
    BY <1>4, <1>6 DEF DropSearcher

\* state._lock is held by the call that builds a searcher, across its building.
LEMMA MutexStep ==
    ASSUME Typed, \A u \in Tasks : Shape(task[u]), NEW t \in Tasks, Start(t) \/ Step(t)
    PROVE  mutex' \in Tasks \union {None} /\ \A u \in Tasks : mutex' = u <=> task'[u].pc = "commit"
  <1>1. task \in [Tasks -> Calls] /\ mutex \in Tasks \union {None}
        /\ (\A u \in Tasks : mutex = u <=> task[u].pc = "commit")
    BY DEF Typed
  <1>2. \A u \in Tasks \ {t} : task'[u].pc = task[u].pc
    BY OthersKept DEF Kept
  <1>3. ASSUME mutex' = mutex, task[t].pc # "commit", task'[t].pc # "commit"
        PROVE  \A u \in Tasks : mutex' = u <=> task'[u].pc = "commit"
    BY <1>1, <1>2, <1>3
  <1>4. CASE Entering(t)
    BY <1>1, <1>3, <1>4, EnteringStep DEF Outer
  <1>5. CASE AcquireRead(t)
    <2>1. mutex' = mutex /\ task[t].pc # "commit" /\ task'[t].pc # "commit"
      BY <1>1, <1>5 DEF AcquireRead, Calls
    <2> QED
      BY <1>1, <1>3, <2>1
  <1>6. CASE AcquireWrite(t)
    <2>1. mutex' = mutex /\ task[t].pc # "commit" /\ task'[t].pc # "commit"
      BY <1>1, <1>6 DEF AcquireWrite, Calls
    <2> QED
      BY <1>1, <1>3, <2>1
  <1>7. CASE PrepareReindex(t)
    <2>1. mutex' = mutex /\ task[t].pc # "commit" /\ task'[t].pc # "commit"
      BY <1>1, <1>7 DEF PrepareReindex, Calls
    <2> QED
      BY <1>1, <1>3, <2>1
  <1>8. CASE BindSearcher(t)
    <2>1. mutex' = mutex /\ task[t].pc # "commit" /\ task'[t].pc # "commit"
      BY <1>1, <1>8 DEF BindSearcher, Goto, Calls
    <2> QED
      BY <1>1, <1>3, <2>1
  <1>9. CASE ResolvePlace(t)
    <2>1. mutex' = mutex /\ task[t].pc # "commit" /\ task'[t].pc # "commit"
      BY <1>1, <1>9 DEF ResolvePlace, Calls
    <2> QED
      BY <1>1, <1>3, <2>1
  <1>10. CASE LookUp(t)
    <2>1. mutex' = mutex /\ task[t].pc # "commit" /\ task'[t].pc # "commit"
      BY <1>1, <1>10 DEF LookUp, Goto, Calls
    <2> QED
      BY <1>1, <1>3, <2>1
  <1>11. CASE FoundInside(t)
    <2>1. mutex' = mutex /\ task[t].pc # "commit" /\ task'[t].pc # "commit"
      BY <1>1, <1>11 DEF FoundInside, Goto, Calls
    <2> QED
      BY <1>1, <1>3, <2>1
  <1>12. CASE BuildSearcher(t)
    BY <1>1, <1>2, <1>12, NoneIsNoId DEF BuildSearcher, Calls
  <1>13. CASE CommitSearcher(t)
    BY <1>1, <1>2, <1>13, NoneIsNoId DEF CommitSearcher, Goto, Calls
  <1>14. CASE TakeSearcher(t)
    <2>1. mutex' = mutex /\ task[t].pc # "commit" /\ task'[t].pc # "commit"
      BY <1>1, <1>14 DEF TakeSearcher, Calls
    <2> QED
      BY <1>1, <1>3, <2>1
  <1>15. CASE BeginSearch(t)
    <2>1. mutex' = mutex /\ task[t].pc # "commit" /\ task'[t].pc # "commit"
      BY <1>1, <1>15 DEF BeginSearch, Goto, Calls
    <2> QED
      BY <1>1, <1>3, <2>1
  <1>16. CASE BeginIncremental(t)
    <2>1. mutex' = mutex /\ task[t].pc # "commit" /\ task'[t].pc # "commit"
      BY <1>1, <1>16 DEF BeginIncremental, Goto, Calls
    <2> QED
      BY <1>1, <1>3, <2>1
  <1>17. CASE BeginFull(t)
    <2>1. mutex' = mutex /\ task[t].pc # "commit" /\ task'[t].pc # "commit"
      BY <1>1, <1>17 DEF BeginFull, Calls
    <2> QED
      BY <1>1, <1>3, <2>1
  <1>18. CASE ResumeFull(t)
    <2>1. mutex' = mutex /\ task[t].pc # "commit" /\ task'[t].pc # "commit"
      BY <1>1, <1>18 DEF ResumeFull, Goto, Calls
    <2> QED
      BY <1>1, <1>3, <2>1
  <1>19. CASE SkipRewrite(t)
    <2>1. mutex' = mutex /\ task[t].pc # "commit" /\ task'[t].pc # "commit"
      BY <1>1, <1>19 DEF SkipRewrite, AfterRun, Calls
    <2> QED
      BY <1>1, <1>3, <2>1
  <1>20. CASE FinishRewrite(t)
    <2>1. mutex' = mutex /\ task[t].pc # "commit" /\ task'[t].pc # "commit"
      BY <1>1, <1>20 DEF FinishRewrite, AfterRun, Calls
    <2> QED
      BY <1>1, <1>3, <2>1
  <1>fail. CASE FailRewrite(t)
    <2>1. mutex' = mutex /\ task[t].pc # "commit" /\ task'[t].pc # "commit"
      BY <1>1, <1>fail DEF FailRewrite, AfterRun, Calls
    <2> QED
      BY <1>1, <1>3, <2>1
  <1>recover. CASE RecoverRewrite(t)
    <2>1. mutex' = mutex /\ task[t].pc # "commit" /\ task'[t].pc # "commit"
      BY <1>1, <1>recover DEF RecoverRewrite, Calls
    <2> QED
      BY <1>1, <1>3, <2>1
  <1>21. CASE IfCurrent(t)
    <2>1. mutex' = mutex /\ task[t].pc # "commit" /\ task'[t].pc # "commit"
      BY <1>1, <1>21 DEF IfCurrent, Goto, Calls
    <2> QED
      BY <1>1, <1>3, <2>1
  <1>22. CASE CloseSearcher(t)
    <2>1. mutex' = mutex /\ task[t].pc # "commit" /\ task'[t].pc # "commit"
      BY <1>1, <1>22 DEF CloseSearcher, Goto, Calls
    <2> QED
      BY <1>1, <1>3, <2>1
  <1>23. CASE DropSearcher(t)
    <2>1. mutex' = mutex /\ task[t].pc = "dropping" /\ task'[t].pc # "commit"
      BY <1>1, <1>23, DropStep
    <2> QED
      BY <1>1, <1>3, <2>1
  <1>24. CASE ForgetCurrent(t)
    <2>1. mutex' = mutex /\ task[t].pc # "commit" /\ task'[t].pc # "commit"
      BY <1>1, <1>24 DEF ForgetCurrent, Goto, Calls
    <2> QED
      BY <1>1, <1>3, <2>1
  <1>25. CASE Purge(t)
    <2>1. mutex' = mutex /\ task[t].pc # "commit" /\ task'[t].pc # "commit"
      BY <1>1, <1>25 DEF Purge, Goto, Calls
    <2> QED
      BY <1>1, <1>3, <2>1
  <1> QED
    BY <1>4, <1>5, <1>6, <1>7, <1>8, <1>9, <1>10, <1>11, <1>12, <1>13, <1>14, <1>15, <1>16, <1>17, <1>18, <1>19, <1>fail, <1>recover, <1>20, <1>21, <1>22, <1>23, <1>24, <1>25 DEF Entering, Start, Step

-----------------------------------------------------------------------------
(* Types.                                                                  *)

\* A lock is dropped from the registry by a deletion that thereby ends.
LEMMA DroppedStep ==
    ASSUME Typed, \A u \in Tasks : Shape(task[u]), Dropped, NEW t \in Tasks, Start(t) \/ Step(t)
    PROVE  Dropped' /\ lockGen' \in [Places -> 0 .. Cardinality(Tasks)]
  <1> DEFINE D == {u \in Tasks : task[u].pc = "done"}
  <1>1. lockGen \in [Places -> Nat] /\ task \in [Tasks -> Calls] /\ task[t] \in Calls
    BY TasksCount DEF Typed
  <1>2. \A u \in Tasks \ {t} : task'[u].pc = task[u].pc
    BY OthersKept DEF Kept
  <1>3. /\ IsFiniteSet(D) /\ Cardinality(D) \in Nat
        /\ IsFiniteSet(D') /\ Cardinality(D') \in Nat /\ Cardinality(D') <= Cardinality(Tasks)
    BY WorkflowAssumption, FS_Subset, FS_CardinalityType
  <1>4. \A p \in Places : lockGen[p] <= Cardinality(D)
    BY DEF Dropped
  <1>5. SUFFICES /\ lockGen' \in [Places -> Nat]
                 /\ \A p \in Places : lockGen'[p] <= Cardinality(D')
    <2>1. lockGen' \in [Places -> Nat] /\ (\A p \in Places : lockGen'[p] <= Cardinality(D'))
          => \A p \in Places : lockGen'[p] \in 0 .. Cardinality(Tasks)
      BY <1>3, TasksCount
    <2> QED
      BY <2>1 DEF Dropped
  <1> HIDE DEF D
  <1>6. CASE FinishDelete(t)
    <2>1. D' = D \cup {t} /\ t \notin D
      BY <1>1, <1>2, <1>6, DoneShape DEF FinishDelete, D
    <2>2. Cardinality(D') = Cardinality(D) + 1
      BY <1>3, <2>1, FS_AddElement
    <2>6. lockGen' = [lockGen EXCEPT ![task[t].key] = lockGen[task[t].key] + 1]
      BY <1>6 DEF FinishDelete
    <2>3. ASSUME NEW p \in Places
          PROVE  lockGen'[p] \in Nat /\ lockGen'[p] <= lockGen[p] + 1
      <3>1. lockGen[p] \in Nat /\ (lockGen'[p] = lockGen[p] \/ lockGen'[p] = lockGen[p] + 1)
        BY <1>1, <2>6
      <3> QED
        BY <3>1
    <2>4. lockGen' \in [Places -> Nat]
      <3>1. lockGen' = [p \in Places |-> lockGen'[p]]
        BY <1>1, <2>6
      <3> QED
        BY <2>3, <3>1
    <2>5. \A p \in Places : lockGen'[p] <= Cardinality(D) + 1
      BY <1>1, <1>3, <1>4, <2>3
    <2> QED
      BY <2>2, <2>4, <2>5
  <1>7. CASE ~FinishDelete(t)
    <2>1. lockGen' = lockGen /\ task[t].pc # "done"
      BY <1>7 DEF Start, Step, StartSearch, StartMutation, StartTeardown, EnterMutation, CheckStale, FinishReindex, RefuseSearch, AnswerSearch, LeaveIndex, Activate, FinishClear, AcquireRead, AcquireWrite, PrepareReindex, BindSearcher, ResolvePlace, LookUp, FoundInside, BuildSearcher, CommitSearcher, TakeSearcher, BeginSearch, BeginIncremental, BeginFull, ResumeFull, SkipRewrite, FinishRewrite, RecoverRewrite, FailRewrite, IfCurrent, CloseSearcher, DropSearcher, ForgetCurrent, Purge
    <2>2. D \subseteq D'
      BY <1>2, <2>1 DEF D
    <2>3. Cardinality(D) <= Cardinality(D')
      BY <1>3, <2>2, FS_Subset
    <2> QED
      BY <1>1, <1>3, <1>4, <2>1, <2>3
  <1> QED
    BY <1>6, <1>7

\* The editions, without their bounds.
LEMMA Editions ==
    ASSUME Typed
    PROVE  /\ \A p \in Places : files[p] \in 0 .. MaxEdits + 1 /\ disk[p] \in 0 .. MaxEdits + 1
           /\ \A i \in Ids : objects[i].edition \in 0 .. MaxEdits + 1
  BY WorkflowAssumption DEF Typed

\* What a failed run may leave behind are searchers.
LEMMA LapsedTyped ==
    ASSUME Typed, \A u \in Tasks : Shape(task[u]), NEW t \in Tasks, Start(t) \/ Step(t)
    PROVE  lapsed' \subseteq Ids
  <1>1. lapsed \subseteq Ids /\ Shape(task[t])
    BY DEF Typed
  <1>2. CASE PrepareReindex(t) \/ BuildSearcher(t)
    <2>1. task[t].obj = None
      BY <1>1, <1>2 DEF PrepareReindex, BuildSearcher, Shape, Fetching
    <2>2. FreeId \in Ids
      BY <2>1, FreeIdIsFree
    <2> QED
      BY <1>1, <1>2, <2>2 DEF PrepareReindex, BuildSearcher
  <1>3. CASE ~PrepareReindex(t) /\ ~BuildSearcher(t)
    BY <1>1, <1>3 DEF Lapse, Start, Step, StartSearch, StartMutation, StartTeardown, EnterMutation, CheckStale, FinishReindex, RefuseSearch, AnswerSearch, LeaveIndex, Activate, FinishClear, FinishDelete, AcquireRead, AcquireWrite, BindSearcher, ResolvePlace, LookUp, FoundInside, CommitSearcher, TakeSearcher, BeginSearch, BeginIncremental, BeginFull, ResumeFull, SkipRewrite, FinishRewrite, RecoverRewrite, FailRewrite, IfCurrent, CloseSearcher, DropSearcher, ForgetCurrent, Purge
  <1> QED
    BY <1>2, <1>3

\* The shared state keeps its types.
LEMMA DataStep ==
    ASSUME Typed, \A u \in Tasks : Shape(task[u]), NEW t \in Tasks, Start(t) \/ Step(t)
    PROVE  /\ current' \in Places \union {None} /\ searcher' \in Ids \union {None}
           /\ objects' \in [Ids -> [place : Places, edition : 0 .. MaxEdits + 1, closed : BOOLEAN]]
           /\ disk' \in [Places -> 0 .. MaxEdits + 1]
           /\ files' = files /\ strayed' \in BOOLEAN /\ lapsed' \subseteq Ids
  <1> DEFINE E == 0 .. MaxEdits + 1
             O == [place : Places, edition : E, closed : BOOLEAN]
  <1>1. /\ current \in Places \union {None} /\ searcher \in Ids \union {None}
        /\ objects \in [Ids -> O] /\ disk \in [Places -> E] /\ strayed \in BOOLEAN
    BY DEF Typed
  <1>2. task[t] \in Calls /\ Shape(task[t])
    BY DEF Typed
  <1>3. \A p \in Places : files[p] \in E
    BY Editions
  <1>4. 0 \in E
    BY WorkflowAssumption
  <1>5. ASSUME NEW p \in Places, task[t].obj = None
        PROVE  NewObject(p) \in [Ids -> O] /\ FreeId \in Ids
    <2>1. FreeId \in Ids
      BY <1>5, FreeIdIsFree
    <2>2. [place |-> p, edition |-> disk[p], closed |-> FALSE] \in O
      BY <1>1
    <2> HIDE DEF O
    <2> QED
      BY <1>1, <2>1, <2>2 DEF NewObject
  <1>6. ASSUME NEW i \in Ids, NEW e \in E
        PROVE  /\ [objects EXCEPT ![i].edition = e] \in [Ids -> O]
               /\ [objects EXCEPT ![i].closed = TRUE] \in [Ids -> O]
    <2>1. [objects[i] EXCEPT !.edition = e] \in O /\ [objects[i] EXCEPT !.closed = TRUE] \in O
      BY <1>1
    <2> HIDE DEF O, E
    <2> QED
      BY <1>1, <2>1
  <1> HIDE DEF E, O
  <1>7. SUFFICES /\ current' \in Places \union {None} /\ searcher' \in Ids \union {None}
                 /\ objects' \in [Ids -> O] /\ disk' \in [Places -> E]
                 /\ files' = files /\ strayed' \in BOOLEAN
    BY LapsedTyped DEF E, O
  <1>8. CASE StartSearch(t)
    BY <1>1, <1>2, <1>8 DEF StartSearch
  <1>9. CASE StartMutation(t)
    BY <1>1, <1>2, <1>9 DEF StartMutation
  <1>10. CASE StartTeardown(t)
    BY <1>1, <1>2, <1>10 DEF StartTeardown
  <1>11. CASE EnterMutation(t)
    BY <1>1, <1>2, <1>11 DEF EnterMutation
  <1>12. CASE CheckStale(t)
    BY <1>1, <1>2, <1>12 DEF CheckStale
  <1>13. CASE FinishReindex(t)
    BY <1>1, <1>2, <1>13 DEF FinishReindex
  <1>14. CASE RefuseSearch(t)
    BY <1>1, <1>2, <1>14 DEF RefuseSearch
  <1>15. CASE AnswerSearch(t)
    BY <1>1, <1>2, <1>15 DEF AnswerSearch
  <1>16. CASE LeaveIndex(t)
    BY <1>1, <1>2, <1>16 DEF LeaveIndex
  <1>17. CASE Activate(t)
    BY <1>1, <1>2, <1>17 DEF Activate, Shape, Calls
  <1>18. CASE FinishClear(t)
    BY <1>1, <1>2, <1>18 DEF FinishClear
  <1>19. CASE FinishDelete(t)
    BY <1>1, <1>2, <1>19 DEF FinishDelete
  <1>20. CASE AcquireRead(t)
    BY <1>1, <1>2, <1>20 DEF AcquireRead, NoteDropped
  <1>21. CASE AcquireWrite(t)
    BY <1>1, <1>2, <1>21 DEF AcquireWrite, NoteDropped
  <1>22. CASE PrepareReindex(t)
    BY <1>1, <1>2, <1>22, <1>5 DEF PrepareReindex, NoteTorn, Shape, Calls
  <1>23. CASE BindSearcher(t)
    BY <1>1, <1>2, <1>23 DEF BindSearcher, NoteTorn, Shape, Calls
  <1>24. CASE ResolvePlace(t)
    BY <1>1, <1>2, <1>24 DEF ResolvePlace
  <1>25. CASE LookUp(t)
    BY <1>1, <1>2, <1>25 DEF LookUp
  <1>26. CASE FoundInside(t)
    BY <1>1, <1>2, <1>26 DEF FoundInside
  <1>27. CASE BuildSearcher(t)
    BY <1>1, <1>2, <1>27, <1>5 DEF BuildSearcher, Shape, Calls, Fetching
  <1>28. CASE CommitSearcher(t)
    BY <1>1, <1>2, <1>28 DEF CommitSearcher, Shape, Calls, Fetching
  <1>29. CASE TakeSearcher(t)
    BY <1>1, <1>2, <1>29 DEF TakeSearcher
  <1>30. CASE BeginSearch(t)
    BY <1>1, <1>2, <1>30 DEF BeginSearch
  <1>31. CASE BeginIncremental(t)
    BY <1>1, <1>2, <1>31 DEF BeginIncremental
  <1>32. CASE BeginFull(t)
    BY <1>1, <1>2, <1>32 DEF BeginFull
  <1>33. CASE ResumeFull(t)
    BY <1>1, <1>2, <1>33 DEF ResumeFull
  <1>34. CASE SkipRewrite(t)
    BY <1>1, <1>2, <1>34 DEF SkipRewrite
  <1>35. CASE FinishRewrite(t)
    BY <1>1, <1>2, <1>35, <1>3, <1>6 DEF FinishRewrite, Shape, Calls
  <1>fail. CASE FailRewrite(t)
    BY <1>1, <1>2, <1>4, <1>fail DEF FailRewrite, Shape, Calls
  <1>recover. CASE RecoverRewrite(t)
    BY <1>1, <1>2, <1>4, <1>recover DEF RecoverRewrite, Shape, Calls
  <1>36. CASE IfCurrent(t)
    BY <1>1, <1>2, <1>36 DEF IfCurrent
  <1>37. CASE CloseSearcher(t)
    BY <1>1, <1>2, <1>37, <1>4, <1>6 DEF CloseSearcher
  <1>38. CASE DropSearcher(t)
    BY <1>1, <1>2, <1>38 DEF DropSearcher
  <1>39. CASE ForgetCurrent(t)
    BY <1>1, <1>2, <1>39 DEF ForgetCurrent, NoteTorn
  <1>40. CASE Purge(t)
    BY <1>1, <1>2, <1>40, <1>4 DEF Purge, Shape, Calls
  <1> QED
    BY <1>8, <1>9, <1>10, <1>11, <1>12, <1>13, <1>14, <1>15, <1>16, <1>17, <1>18, <1>19, <1>20, <1>21, <1>22, <1>23, <1>24, <1>25, <1>26, <1>27, <1>28, <1>29, <1>30, <1>31, <1>32, <1>33, <1>34, <1>fail, <1>recover, <1>35, <1>36, <1>37, <1>38, <1>39, <1>40 DEF Start, Step

\* Types, shapes and the count of deletions are inductive together.
LEMMA TypedStep ==
    ASSUME Typed, \A u \in Tasks : Shape(task[u]), Owned, Dropped, NEW t \in Tasks, Start(t) \/ Step(t)
    PROVE  Typed' /\ (\A u \in Tasks : Shape(task'[u])) /\ Dropped'
  <1>1. task' \in [Tasks -> Calls] /\ \A u \in Tasks : Shape(task'[u])
    BY CallsStep
  <1>2. \A u \in Tasks : task'[u].held # "none" => task'[u].lock \in Places \X Nat
    BY <1>1 DEF Shape
  <1>3. files' = files /\ files \in [Places -> 1 .. MaxEdits + 1]
    BY DataStep DEF Typed
  <1> QED
    BY <1>1, <1>2, <1>3, DataStep, MutexStep, DroppedStep DEF Typed

-----------------------------------------------------------------------------
(* Objects that only one call knows, and those that were shut down.        *)

\* A call with an object of its own holds its project's lock.
LEMMA PrivateHasObject ==
    ASSUME Typed, \A u \in Tasks : Shape(task[u]), NEW u \in Tasks, Private(task[u])
    PROVE  task[u].obj \in Ids /\ task[u].held # "none" /\ task[u].key \in Places
  <1>1. task[u] \in Calls /\ Shape(task[u])
    BY DEF Typed
  <1> QED
    BY <1>1, NoneIsNoId DEF Private, Shape, Calls, Fetching, Teardown

\* Steps that make and cache no object.
LEMMA OwnedKept ==
    ASSUME Typed, \A u \in Tasks : Shape(task[u]), Owned, NEW t \in Tasks,
           \A u \in Tasks \ {t} : Kept(u),
           searcher' \in {searcher, None},
           \A i \in Ids : i # searcher => objects'[i].closed = objects[i].closed,
           task'[t].obj \in {task[t].obj, None, searcher},
           Private(task'[t]) => Private(task[t]) /\ task'[t].obj = task[t].obj
    PROVE  Owned'
  <1>1. \A u \in Tasks : Private(task'[u]) => Private(task[u]) /\ task'[u].obj = task[u].obj
    BY DEF Kept, Private
  <1>2. SUFFICES ASSUME NEW a \in Tasks, Private(task'[a])
                 PROVE  /\ task'[a].obj # searcher' /\ ~objects'[task'[a].obj].closed
                        /\ \A u \in Tasks \ {a} : task'[u].obj # task'[a].obj
    BY DEF Owned
  <1>3. /\ Private(task[a]) /\ task'[a].obj = task[a].obj /\ task[a].obj \in Ids
        /\ task[a].obj # searcher /\ ~objects[task[a].obj].closed
        /\ \A u \in Tasks \ {a} : task[u].obj # task[a].obj
    BY <1>1, <1>2, PrivateHasObject DEF Owned
  <1>4. \A u \in Tasks \ {a} : task'[u].obj # task[a].obj
    BY <1>3, NoneIsNoId DEF Kept
  <1> QED
    BY <1>3, <1>4, NoneIsNoId

\* A new object is known to the call that made it only.
LEMMA OwnedNew ==
    ASSUME Typed, \A u \in Tasks : Shape(task[u]), Owned, NEW t \in Tasks, NEW p \in Places,
           \A u \in Tasks \ {t} : Kept(u), task[t].obj = None,
           searcher' = searcher, objects' = NewObject(p), task'[t].obj = FreeId
    PROVE  Owned'
  <1>1. FreeId \in Ids /\ FreeId # searcher /\ \A u \in Tasks : task[u].obj # FreeId
    BY FreeIdIsFree
  <1>2. DOMAIN objects = Ids
    BY DEF Typed
  <1>3. ~objects'[FreeId].closed /\ \A i \in Ids : i # FreeId => objects'[i] = objects[i]
    BY <1>1, <1>2 DEF NewObject
  <1>4. SUFFICES ASSUME NEW a \in Tasks, Private(task'[a])
                 PROVE  /\ task'[a].obj # searcher' /\ ~objects'[task'[a].obj].closed
                        /\ \A u \in Tasks \ {a} : task'[u].obj # task'[a].obj
    BY DEF Owned
  <1>5. CASE a = t
    BY <1>1, <1>3, <1>5 DEF Kept
  <1>6. CASE a # t
    <2>1. Private(task[a]) /\ task'[a].obj = task[a].obj
      BY <1>4, <1>6 DEF Kept, Private
    <2>2. /\ task[a].obj \in Ids /\ task[a].obj # searcher /\ ~objects[task[a].obj].closed
          /\ \A u \in Tasks \ {a} : task[u].obj # task[a].obj
      BY <2>1, PrivateHasObject DEF Owned
    <2> QED
      BY <1>1, <1>3, <2>1, <2>2 DEF Kept
  <1> QED
    BY <1>5, <1>6

\* An object that is put into the cache is no call's own any more.
LEMMA OwnedCached ==
    ASSUME Typed, \A u \in Tasks : Shape(task[u]), Owned, NEW t \in Tasks, Private(task[t]),
           \A u \in Tasks \ {t} : Kept(u),
           searcher' \in {searcher, task[t].obj}, objects' = objects,
           task'[t].obj = task[t].obj, ~Private(task'[t])
    PROVE  Owned'
  <1>1. SUFFICES ASSUME NEW a \in Tasks, Private(task'[a])
                 PROVE  /\ task'[a].obj # searcher' /\ ~objects'[task'[a].obj].closed
                        /\ \A u \in Tasks \ {a} : task'[u].obj # task'[a].obj
    BY DEF Owned
  <1>2. a # t /\ Private(task[a]) /\ \A u \in Tasks : task'[u].obj = task[u].obj
    BY <1>1 DEF Kept, Private
  <1> QED
    BY <1>2 DEF Owned

\* An object built for one call stays out of every other's reach until cached.
LEMMA OwnedStep ==
    ASSUME Typed, \A u \in Tasks : Shape(task[u]), Owned, NEW t \in Tasks, Start(t) \/ Step(t)
    PROVE  Owned'
  <1>1. \A u \in Tasks \ {t} : Kept(u)
    BY OthersKept
  <1>2. task \in [Tasks -> Calls] /\ task[t] \in Calls /\ Shape(task[t]) /\ DOMAIN objects = Ids
    BY DEF Typed
  <1>3. CASE Entering(t)
    <2>1. ~Private(task'[t])
      BY <1>3, EnteringStep DEF Private, Outer
    <2> QED
      BY <1>1, <1>3, <2>1, EnteringStep, OwnedKept
  <1>4. CASE AcquireRead(t)
    <2>1. /\ searcher' = searcher
          /\ \A i \in Ids : i # searcher => objects'[i].closed = objects[i].closed
      BY <1>2, <1>4 DEF AcquireRead
    <2>2. /\ task'[t].obj \in {task[t].obj, None, searcher}
          /\ Private(task'[t]) => Private(task[t]) /\ task'[t].obj = task[t].obj
      BY <1>2, <1>4 DEF AcquireRead, Private, Calls, Shape, Fetching, Teardown
    <2> QED
      BY <1>1, <2>1, <2>2, OwnedKept
  <1>5. CASE AcquireWrite(t)
    <2>1. /\ searcher' = searcher
          /\ \A i \in Ids : i # searcher => objects'[i].closed = objects[i].closed
      BY <1>2, <1>5 DEF AcquireWrite
    <2>2. /\ task'[t].obj \in {task[t].obj, None, searcher}
          /\ Private(task'[t]) => Private(task[t]) /\ task'[t].obj = task[t].obj
      BY <1>2, <1>5 DEF AcquireWrite, Private, Calls, Shape, Fetching, Teardown
    <2> QED
      BY <1>1, <2>1, <2>2, OwnedKept
  <1>6. CASE PrepareReindex(t)
    <2>1. task[t].obj = None /\ task[t].key \in Places
      BY <1>2, <1>6 DEF PrepareReindex, Shape
    <2>2. searcher' = searcher /\ objects' = NewObject(task[t].key) /\ task'[t].obj = FreeId
      BY <1>2, <1>6 DEF PrepareReindex, Calls
    <2> QED
      BY <1>1, <2>1, <2>2, OwnedNew
  <1>7. CASE BindSearcher(t)
    <2>1. Private(task[t])
      BY <1>2, <1>7 DEF BindSearcher, Shape, Private
    <2>2. /\ searcher' \in {searcher, task[t].obj} /\ objects' = objects
          /\ task'[t].obj = task[t].obj /\ ~Private(task'[t])
      BY <1>2, <1>7 DEF BindSearcher, Goto, Calls, Private
    <2> QED
      BY <1>1, <2>1, <2>2, OwnedCached
  <1>8. CASE ResolvePlace(t)
    <2>1. /\ searcher' = searcher
          /\ \A i \in Ids : i # searcher => objects'[i].closed = objects[i].closed
      BY <1>2, <1>8 DEF ResolvePlace
    <2>2. /\ task'[t].obj \in {task[t].obj, None, searcher}
          /\ Private(task'[t]) => Private(task[t]) /\ task'[t].obj = task[t].obj
      BY <1>2, <1>8 DEF ResolvePlace, Private, Calls, Shape, Fetching, Teardown
    <2> QED
      BY <1>1, <2>1, <2>2, OwnedKept
  <1>9. CASE LookUp(t)
    <2>1. /\ searcher' = searcher
          /\ \A i \in Ids : i # searcher => objects'[i].closed = objects[i].closed
      BY <1>2, <1>9 DEF LookUp
    <2>2. /\ task'[t].obj \in {task[t].obj, None, searcher}
          /\ Private(task'[t]) => Private(task[t]) /\ task'[t].obj = task[t].obj
      BY <1>2, <1>9 DEF LookUp, Goto, Private, Calls, Shape, Fetching, Teardown
    <2> QED
      BY <1>1, <2>1, <2>2, OwnedKept
  <1>10. CASE FoundInside(t)
    <2>1. /\ searcher' = searcher
          /\ \A i \in Ids : i # searcher => objects'[i].closed = objects[i].closed
      BY <1>2, <1>10 DEF FoundInside
    <2>2. /\ task'[t].obj \in {task[t].obj, None, searcher}
          /\ Private(task'[t]) => Private(task[t]) /\ task'[t].obj = task[t].obj
      BY <1>2, <1>10 DEF FoundInside, Goto, Private, Calls, Shape, Fetching, Teardown
    <2> QED
      BY <1>1, <2>1, <2>2, OwnedKept
  <1>11. CASE BuildSearcher(t)
    <2>1. task[t].obj = None /\ task[t].place \in Places
      BY <1>2, <1>11 DEF BuildSearcher, Shape, Fetching
    <2>2. searcher' = searcher /\ objects' = NewObject(task[t].place) /\ task'[t].obj = FreeId
      BY <1>2, <1>11 DEF BuildSearcher, Calls
    <2> QED
      BY <1>1, <2>1, <2>2, OwnedNew
  <1>12. CASE CommitSearcher(t)
    <2>1. Private(task[t])
      BY <1>2, <1>12 DEF CommitSearcher, Shape, Private
    <2>2. /\ searcher' \in {searcher, task[t].obj} /\ objects' = objects
          /\ task'[t].obj = task[t].obj /\ ~Private(task'[t])
      BY <1>2, <1>12 DEF CommitSearcher, Goto, Calls, Private
    <2> QED
      BY <1>1, <2>1, <2>2, OwnedCached
  <1>13. CASE TakeSearcher(t)
    <2>1. /\ searcher' = searcher
          /\ \A i \in Ids : i # searcher => objects'[i].closed = objects[i].closed
      BY <1>2, <1>13 DEF TakeSearcher
    <2>2. /\ task'[t].obj \in {task[t].obj, None, searcher}
          /\ Private(task'[t]) => Private(task[t]) /\ task'[t].obj = task[t].obj
      BY <1>2, <1>13 DEF TakeSearcher, Private, Calls, Shape, Fetching, Teardown
    <2> QED
      BY <1>1, <2>1, <2>2, OwnedKept
  <1>14. CASE BeginSearch(t)
    <2>1. /\ searcher' = searcher
          /\ \A i \in Ids : i # searcher => objects'[i].closed = objects[i].closed
      BY <1>2, <1>14 DEF BeginSearch
    <2>2. /\ task'[t].obj \in {task[t].obj, None, searcher}
          /\ Private(task'[t]) => Private(task[t]) /\ task'[t].obj = task[t].obj
      BY <1>2, <1>14 DEF BeginSearch, Goto, Private, Calls, Shape, Fetching, Teardown
    <2> QED
      BY <1>1, <2>1, <2>2, OwnedKept
  <1>15. CASE BeginIncremental(t)
    <2>1. /\ searcher' = searcher
          /\ \A i \in Ids : i # searcher => objects'[i].closed = objects[i].closed
      BY <1>2, <1>15 DEF BeginIncremental
    <2>2. /\ task'[t].obj \in {task[t].obj, None, searcher}
          /\ Private(task'[t]) => Private(task[t]) /\ task'[t].obj = task[t].obj
      BY <1>2, <1>15 DEF BeginIncremental, Goto, Private, Calls, Shape, Fetching, Teardown
    <2> QED
      BY <1>1, <2>1, <2>2, OwnedKept
  <1>16. CASE BeginFull(t)
    <2>1. /\ searcher' = searcher
          /\ \A i \in Ids : i # searcher => objects'[i].closed = objects[i].closed
      BY <1>2, <1>16 DEF BeginFull
    <2>2. /\ task'[t].obj \in {task[t].obj, None, searcher}
          /\ Private(task'[t]) => Private(task[t]) /\ task'[t].obj = task[t].obj
      BY <1>2, <1>16 DEF BeginFull, Private, Calls, Shape, Fetching, Teardown
    <2> QED
      BY <1>1, <2>1, <2>2, OwnedKept
  <1>17. CASE ResumeFull(t)
    <2>1. /\ searcher' = searcher
          /\ \A i \in Ids : i # searcher => objects'[i].closed = objects[i].closed
      BY <1>2, <1>17 DEF ResumeFull
    <2>2. /\ task'[t].obj \in {task[t].obj, None, searcher}
          /\ Private(task'[t]) => Private(task[t]) /\ task'[t].obj = task[t].obj
      BY <1>2, <1>17 DEF ResumeFull, Goto, Private, Calls, Shape, Fetching, Teardown
    <2> QED
      BY <1>1, <2>1, <2>2, OwnedKept
  <1>18. CASE SkipRewrite(t)
    <2>1. /\ searcher' = searcher
          /\ \A i \in Ids : i # searcher => objects'[i].closed = objects[i].closed
      BY <1>2, <1>18 DEF SkipRewrite
    <2>2. /\ task'[t].obj \in {task[t].obj, None, searcher}
          /\ Private(task'[t]) => Private(task[t]) /\ task'[t].obj = task[t].obj
      BY <1>2, <1>18 DEF SkipRewrite, AfterRun, Private, Calls, Shape, Fetching, Teardown
    <2> QED
      BY <1>1, <2>1, <2>2, OwnedKept
  <1>19. CASE FinishRewrite(t)
    <2>1. /\ searcher' = searcher
          /\ \A i \in Ids : i # searcher => objects'[i].closed = objects[i].closed
      BY <1>2, <1>19 DEF FinishRewrite, Typed
    <2>2. /\ task'[t].obj \in {task[t].obj, None, searcher}
          /\ Private(task'[t]) => Private(task[t]) /\ task'[t].obj = task[t].obj
      BY <1>2, <1>19 DEF FinishRewrite, AfterRun, Private, Calls, Shape, Fetching, Teardown
    <2> QED
      BY <1>1, <2>1, <2>2, OwnedKept
  <1>fail. CASE FailRewrite(t)
    <2>1. /\ searcher' \in {searcher, None}
          /\ \A i \in Ids : i # searcher => objects'[i].closed = objects[i].closed
      BY <1>2, <1>fail DEF FailRewrite
    <2>2. /\ task'[t].obj \in {task[t].obj, None, searcher}
          /\ Private(task'[t]) => Private(task[t]) /\ task'[t].obj = task[t].obj
      BY <1>2, <1>fail DEF FailRewrite, AfterRun, Private, Calls, Shape, Fetching, Teardown
    <2> QED
      BY <1>1, <2>1, <2>2, OwnedKept
  <1>recover. CASE RecoverRewrite(t)
    <2>1. /\ searcher' = searcher
          /\ \A i \in Ids : i # searcher => objects'[i].closed = objects[i].closed
      BY <1>2, <1>recover DEF RecoverRewrite
    <2>2. /\ task'[t].obj \in {task[t].obj, None, searcher}
          /\ Private(task'[t]) => Private(task[t]) /\ task'[t].obj = task[t].obj
      BY <1>2, <1>recover DEF RecoverRewrite, Private, Calls, Shape, Fetching, Teardown
    <2> QED
      BY <1>1, <2>1, <2>2, OwnedKept
  <1>20. CASE IfCurrent(t)
    <2>1. /\ searcher' = searcher
          /\ \A i \in Ids : i # searcher => objects'[i].closed = objects[i].closed
      BY <1>2, <1>20 DEF IfCurrent
    <2>2. /\ task'[t].obj \in {task[t].obj, None, searcher}
          /\ Private(task'[t]) => Private(task[t]) /\ task'[t].obj = task[t].obj
      BY <1>2, <1>20 DEF IfCurrent, Goto, Private, Calls, Shape, Fetching, Teardown
    <2> QED
      BY <1>1, <2>1, <2>2, OwnedKept
  <1>21. CASE CloseSearcher(t)
    <2>1. /\ searcher' = searcher
          /\ \A i \in Ids : i # searcher => objects'[i].closed = objects[i].closed
      BY <1>2, <1>21 DEF CloseSearcher
    <2>2. /\ task'[t].obj \in {task[t].obj, None, searcher}
          /\ Private(task'[t]) => Private(task[t]) /\ task'[t].obj = task[t].obj
      BY <1>2, <1>21 DEF CloseSearcher, Goto, Private, Calls, Shape, Fetching, Teardown
    <2> QED
      BY <1>1, <2>1, <2>2, OwnedKept
  <1>22. CASE DropSearcher(t)
    <2>1. Private(task'[t]) => Private(task[t]) /\ task'[t].obj = task[t].obj
      BY <1>22, DropStep, DoneShape DEF Private
    <2>2. task'[t].obj \in {task[t].obj, None, searcher}
      BY <1>22, DropStep, DoneShape
    <2>3. searcher' \in {searcher, None} /\ objects' = objects
      BY <1>22, DropStep
    <2> QED
      BY <1>1, <2>1, <2>2, <2>3, OwnedKept
  <1>23. CASE ForgetCurrent(t)
    <2>1. /\ searcher' = searcher
          /\ \A i \in Ids : i # searcher => objects'[i].closed = objects[i].closed
      BY <1>2, <1>23 DEF ForgetCurrent
    <2>2. /\ task'[t].obj \in {task[t].obj, None, searcher}
          /\ Private(task'[t]) => Private(task[t]) /\ task'[t].obj = task[t].obj
      BY <1>2, <1>23 DEF ForgetCurrent, Goto, Private, Calls, Shape, Fetching, Teardown
    <2> QED
      BY <1>1, <2>1, <2>2, OwnedKept
  <1>24. CASE Purge(t)
    <2>1. /\ searcher' = searcher
          /\ \A i \in Ids : i # searcher => objects'[i].closed = objects[i].closed
      BY <1>2, <1>24 DEF Purge
    <2>2. /\ task'[t].obj \in {task[t].obj, None, searcher}
          /\ Private(task'[t]) => Private(task[t]) /\ task'[t].obj = task[t].obj
      BY <1>2, <1>24 DEF Purge, Goto, Private, Calls, Shape, Fetching, Teardown
    <2> QED
      BY <1>1, <2>1, <2>2, OwnedKept
  <1> QED
    BY <1>3, <1>4, <1>5, <1>6, <1>7, <1>8, <1>9, <1>10, <1>11, <1>12, <1>13, <1>14, <1>15, <1>16, <1>17, <1>18, <1>fail, <1>recover, <1>19, <1>20, <1>21, <1>22, <1>23, <1>24 DEF Entering, Start, Step

\* What was shut down is dropped by the teardown that did it, or no longer cached.
LEMMA ClosedStep ==
    ASSUME Typed, \A u \in Tasks : Shape(task[u]), Owned, ClosedGoes, NEW t \in Tasks, Start(t) \/ Step(t)
    PROVE  ClosedGoes'
  <1>1. \A u \in Tasks \ {t} : task'[u].pc = task[u].pc
    BY OthersKept DEF Kept
  <1>2. task \in [Tasks -> Calls] /\ task[t] \in Calls /\ Shape(task[t]) /\ searcher \in Ids \union {None} /\ DOMAIN objects = Ids
    BY DEF Typed
  <1>3. ASSUME searcher' \in {searcher, None}, task[t].pc # "dropping",
               \A i \in Ids : i = searcher => objects'[i].closed = objects[i].closed
        PROVE  ClosedGoes'
    BY <1>1, <1>2, <1>3 DEF ClosedGoes
  <1>4. ASSUME searcher' \in {searcher, task[t].obj}, task[t].pc # "dropping", objects' = objects,
               ~objects[task[t].obj].closed
        PROVE  ClosedGoes'
    BY <1>1, <1>2, <1>4 DEF ClosedGoes
  <1>5. CASE Entering(t)
    BY <1>3, <1>5, EnteringStep
  <1>6. CASE AcquireRead(t)
    <2>1. \A i \in Ids : objects'[i].closed = objects[i].closed
      BY <1>2, <1>6 DEF AcquireRead
    <2> QED
      BY <1>3, <1>6, <2>1 DEF AcquireRead
  <1>7. CASE AcquireWrite(t)
    <2>1. \A i \in Ids : objects'[i].closed = objects[i].closed
      BY <1>2, <1>7 DEF AcquireWrite
    <2> QED
      BY <1>3, <1>7, <2>1 DEF AcquireWrite
  <1>8. CASE PrepareReindex(t)
    <2>1. task[t].obj = None
      BY <1>2, <1>8 DEF PrepareReindex, Shape
    <2>2. FreeId # searcher
      BY <2>1, FreeIdIsFree
    <2>3. \A i \in Ids : i = searcher => objects'[i].closed = objects[i].closed
      BY <1>2, <1>8, <2>2 DEF PrepareReindex, NewObject
    <2> QED
      BY <1>3, <1>8, <2>3 DEF PrepareReindex
  <1>9. CASE BindSearcher(t)
    <2>1. Private(task[t])
      BY <1>2, <1>9 DEF BindSearcher, Shape, Private
    <2>2. ~objects[task[t].obj].closed
      BY <2>1 DEF Owned
    <2> QED
      BY <1>4, <1>9, <2>2 DEF BindSearcher
  <1>10. CASE ResolvePlace(t)
    <2>1. \A i \in Ids : objects'[i].closed = objects[i].closed
      BY <1>2, <1>10 DEF ResolvePlace
    <2> QED
      BY <1>3, <1>10, <2>1 DEF ResolvePlace
  <1>11. CASE LookUp(t)
    <2>1. \A i \in Ids : objects'[i].closed = objects[i].closed
      BY <1>2, <1>11 DEF LookUp
    <2> QED
      BY <1>3, <1>11, <2>1 DEF LookUp
  <1>12. CASE FoundInside(t)
    <2>1. \A i \in Ids : objects'[i].closed = objects[i].closed
      BY <1>2, <1>12 DEF FoundInside
    <2> QED
      BY <1>3, <1>12, <2>1 DEF FoundInside
  <1>13. CASE BuildSearcher(t)
    <2>1. task[t].obj = None
      BY <1>2, <1>13 DEF BuildSearcher, Shape, Fetching
    <2>2. FreeId # searcher
      BY <2>1, FreeIdIsFree
    <2>3. \A i \in Ids : i = searcher => objects'[i].closed = objects[i].closed
      BY <1>2, <1>13, <2>2 DEF BuildSearcher, NewObject
    <2> QED
      BY <1>3, <1>13, <2>3 DEF BuildSearcher
  <1>14. CASE CommitSearcher(t)
    <2>1. Private(task[t])
      BY <1>2, <1>14 DEF CommitSearcher, Shape, Private
    <2>2. ~objects[task[t].obj].closed
      BY <2>1 DEF Owned
    <2> QED
      BY <1>4, <1>14, <2>2 DEF CommitSearcher
  <1>15. CASE TakeSearcher(t)
    <2>1. \A i \in Ids : objects'[i].closed = objects[i].closed
      BY <1>2, <1>15 DEF TakeSearcher
    <2> QED
      BY <1>3, <1>15, <2>1 DEF TakeSearcher
  <1>16. CASE BeginSearch(t)
    <2>1. \A i \in Ids : objects'[i].closed = objects[i].closed
      BY <1>2, <1>16 DEF BeginSearch
    <2> QED
      BY <1>3, <1>16, <2>1 DEF BeginSearch
  <1>17. CASE BeginIncremental(t)
    <2>1. \A i \in Ids : objects'[i].closed = objects[i].closed
      BY <1>2, <1>17 DEF BeginIncremental
    <2> QED
      BY <1>3, <1>17, <2>1 DEF BeginIncremental
  <1>18. CASE BeginFull(t)
    <2>1. \A i \in Ids : objects'[i].closed = objects[i].closed
      BY <1>2, <1>18 DEF BeginFull
    <2> QED
      BY <1>3, <1>18, <2>1 DEF BeginFull
  <1>19. CASE ResumeFull(t)
    <2>1. \A i \in Ids : objects'[i].closed = objects[i].closed
      BY <1>2, <1>19 DEF ResumeFull
    <2> QED
      BY <1>3, <1>19, <2>1 DEF ResumeFull
  <1>20. CASE SkipRewrite(t)
    <2>1. \A i \in Ids : objects'[i].closed = objects[i].closed
      BY <1>2, <1>20 DEF SkipRewrite
    <2> QED
      BY <1>3, <1>20, <2>1 DEF SkipRewrite
  <1>21. CASE FinishRewrite(t)
    <2>1. \A i \in Ids : objects'[i].closed = objects[i].closed
      BY <1>2, <1>21 DEF FinishRewrite, Typed
    <2> QED
      BY <1>3, <1>21, <2>1 DEF FinishRewrite
  <1>fail. CASE FailRewrite(t)
    <2>1. \A i \in Ids : objects'[i].closed = objects[i].closed
      BY <1>2, <1>fail DEF FailRewrite
    <2> QED
      BY <1>3, <1>fail, <2>1 DEF FailRewrite
  <1>recover. CASE RecoverRewrite(t)
    <2>1. \A i \in Ids : objects'[i].closed = objects[i].closed
      BY <1>2, <1>recover DEF RecoverRewrite
    <2> QED
      BY <1>3, <1>recover, <2>1 DEF RecoverRewrite
  <1>22. CASE IfCurrent(t)
    <2>1. \A i \in Ids : objects'[i].closed = objects[i].closed
      BY <1>2, <1>22 DEF IfCurrent
    <2> QED
      BY <1>3, <1>22, <2>1 DEF IfCurrent
  <1>23. CASE CloseSearcher(t)
    <2>1. task'[t].pc = "dropping"
      BY <1>2, <1>23 DEF CloseSearcher, Goto, Calls
    <2> QED
      BY <2>1 DEF ClosedGoes
  <1>24. CASE DropSearcher(t)
    BY <1>24 DEF DropSearcher, ClosedGoes
  <1>25. CASE ForgetCurrent(t)
    <2>1. \A i \in Ids : objects'[i].closed = objects[i].closed
      BY <1>2, <1>25 DEF ForgetCurrent
    <2> QED
      BY <1>3, <1>25, <2>1 DEF ForgetCurrent
  <1>26. CASE Purge(t)
    <2>1. \A i \in Ids : objects'[i].closed = objects[i].closed
      BY <1>2, <1>26 DEF Purge
    <2> QED
      BY <1>3, <1>26, <2>1 DEF Purge
  <1> QED
    BY <1>5, <1>6, <1>7, <1>8, <1>9, <1>10, <1>11, <1>12, <1>13, <1>14, <1>15, <1>16, <1>17, <1>18, <1>19, <1>20, <1>fail, <1>recover, <1>21, <1>22, <1>23, <1>24, <1>25, <1>26 DEF Entering, Start, Step

-----------------------------------------------------------------------------
(* What a step does to the shared state, while nobody has strayed.         *)

\* Having strayed is never forgotten.
LEMMA NotStrayed ==
    ASSUME NEW t \in Tasks, Start(t) \/ Step(t), ~strayed'
    PROVE  ~strayed
  BY DEF Start, Step, NoteTorn, NoteDropped, StartSearch, StartMutation, StartTeardown, EnterMutation, CheckStale, FinishReindex, RefuseSearch, AnswerSearch, LeaveIndex, Activate, FinishClear, FinishDelete, AcquireRead, AcquireWrite, PrepareReindex, BindSearcher, ResolvePlace, LookUp, FoundInside, BuildSearcher, CommitSearcher, TakeSearcher, BeginSearch, BeginIncremental, BeginFull, ResumeFull, SkipRewrite, FinishRewrite, RecoverRewrite, FailRewrite, IfCurrent, CloseSearcher, DropSearcher, ForgetCurrent, Purge

\* The cache is filled by the two steps that commit a searcher.
LEMMA SearcherStep ==
    ASSUME NEW t \in Tasks, Start(t) \/ Step(t)
    PROVE  \/ searcher' \in {searcher, None}
           \/ /\ BindSearcher(t) \/ CommitSearcher(t)
              /\ searcher' = task[t].obj /\ objects' = objects /\ disk' = disk
  BY DEF Start, Step, StartSearch, StartMutation, StartTeardown, EnterMutation, CheckStale, FinishReindex, RefuseSearch, AnswerSearch, LeaveIndex, Activate, FinishClear, FinishDelete, AcquireRead, AcquireWrite, PrepareReindex, BindSearcher, ResolvePlace, LookUp, FoundInside, BuildSearcher, CommitSearcher, TakeSearcher, BeginSearch, BeginIncremental, BeginFull, ResumeFull, SkipRewrite, FinishRewrite, RecoverRewrite, FailRewrite, IfCurrent, CloseSearcher, DropSearcher, ForgetCurrent, Purge

\* The steps that may change an index.
Rewrites(t) == FinishRewrite(t) \/ RecoverRewrite(t) \/ FailRewrite(t) \/ Purge(t)

\* The index on disk changes at the end of a run, by its failure and by a purge.
LEMMA DiskStep ==
    ASSUME NEW t \in Tasks, Start(t) \/ Step(t)
    PROVE  \/ disk' = disk
           \/ FinishRewrite(t) /\ disk' = [disk EXCEPT ![task[t].key] = files[task[t].key]]
           \/ RecoverRewrite(t) /\ disk' = [disk EXCEPT ![task[t].key] = 0]
           \/ FailRewrite(t) /\ disk' = [disk EXCEPT ![task[t].key] = 0]
           \/ Purge(t) /\ disk' = [disk EXCEPT ![task[t].key] = 0]
  BY DEF Start, Step, StartSearch, StartMutation, StartTeardown, EnterMutation, CheckStale, FinishReindex, RefuseSearch, AnswerSearch, LeaveIndex, Activate, FinishClear, FinishDelete, AcquireRead, AcquireWrite, PrepareReindex, BindSearcher, ResolvePlace, LookUp, FoundInside, BuildSearcher, CommitSearcher, TakeSearcher, BeginSearch, BeginIncremental, BeginFull, ResumeFull, SkipRewrite, FinishRewrite, RecoverRewrite, FailRewrite, IfCurrent, CloseSearcher, DropSearcher, ForgetCurrent, Purge

\* Objects that are referred to keep their project, and their edition but for
\* the one a run writes through.
LEMMA KnownObjects ==
    ASSUME Typed, \A u \in Tasks : Shape(task[u]), NEW t \in Tasks, Start(t) \/ Step(t),
           NEW i \in Ids, i = searcher \/ \E u \in Tasks : task[u].obj = i
    PROVE  /\ objects'[i].place = objects[i].place
           /\ ~(FinishRewrite(t) /\ i = task[t].obj) => objects'[i].edition = objects[i].edition
  <1>1. DOMAIN objects = Ids /\ Shape(task[t]) /\ objects[i] \in [place : Places, edition : 0 .. MaxEdits + 1, closed : BOOLEAN]
    BY DEF Typed
  <1>2. CASE objects' = objects
    BY <1>2
  <1>3. CASE PrepareReindex(t) \/ BuildSearcher(t)
    <2>1. task[t].obj = None
      BY <1>1, <1>3 DEF PrepareReindex, BuildSearcher, Shape, Fetching
    <2>2. i # FreeId
      BY <2>1, FreeIdIsFree
    <2> QED
      BY <1>1, <1>3, <2>2 DEF PrepareReindex, BuildSearcher, NewObject
  <1>4. CASE CloseSearcher(t)
    <2>1. objects' = objects \/ objects' = [objects EXCEPT ![searcher].closed = TRUE]
      BY <1>4 DEF CloseSearcher
    <2> QED
      BY <1>1, <2>1
  <1>5. CASE FinishRewrite(t)
    <2>1. objects' = [objects EXCEPT ![task[t].obj].edition = files[task[t].key]]
      BY <1>5 DEF FinishRewrite
    <2> QED
      BY <1>1, <1>5, <2>1
  <1> QED
    BY <1>2, <1>3, <1>4, <1>5 DEF Start, Step, StartSearch, StartMutation, StartTeardown, EnterMutation, CheckStale, FinishReindex, RefuseSearch, AnswerSearch, LeaveIndex, Activate, FinishClear, FinishDelete, AcquireRead, AcquireWrite, PrepareReindex, BindSearcher, ResolvePlace, LookUp, FoundInside, BuildSearcher, CommitSearcher, TakeSearcher, BeginSearch, BeginIncremental, BeginFull, ResumeFull, SkipRewrite, FinishRewrite, RecoverRewrite, FailRewrite, IfCurrent, CloseSearcher, DropSearcher, ForgetCurrent, Purge

\* What a failed run left behind stays known as such while it is referred to.
LEMMA LapsedKept ==
    ASSUME Typed, \A u \in Tasks : Shape(task[u]), NEW t \in Tasks, Start(t) \/ Step(t),
           NEW i \in lapsed, i = searcher \/ \E u \in Tasks : task[u].obj = i
    PROVE  i \in lapsed'
  <1>1. CASE PrepareReindex(t) \/ BuildSearcher(t)
    <2>1. Shape(task[t])
      OBVIOUS
    <2>2. task[t].obj = None
      BY <1>1, <2>1 DEF PrepareReindex, BuildSearcher, Shape, Fetching
    <2>3. i # FreeId
      BY <2>2, FreeIdIsFree
    <2> QED
      BY <1>1, <2>3 DEF PrepareReindex, BuildSearcher
  <1>2. CASE ~PrepareReindex(t) /\ ~BuildSearcher(t)
    BY <1>2 DEF Lapse, Start, Step, StartSearch, StartMutation, StartTeardown, EnterMutation, CheckStale, FinishReindex, RefuseSearch, AnswerSearch, LeaveIndex, Activate, FinishClear, FinishDelete, AcquireRead, AcquireWrite, BindSearcher, ResolvePlace, LookUp, FoundInside, CommitSearcher, TakeSearcher, BeginSearch, BeginIncremental, BeginFull, ResumeFull, SkipRewrite, FinishRewrite, RecoverRewrite, FailRewrite, IfCurrent, CloseSearcher, DropSearcher, ForgetCurrent, Purge
  <1> QED
    BY <1>1, <1>2

\* Two calls that hold the locks of one project both read.
LEMMA Alone ==
    ASSUME Locked, OwnLock, NEW a \in Tasks, NEW b \in Tasks, a # b,
           task[a].held = "write", task[b].held # "none"
    PROVE  task[a].key # task[b].key
  BY DEF Locked, OwnLock

\* Nothing but a deletion replaces a project's lock.
LEMMA LockGenKept ==
    ASSUME NEW t \in Tasks, Start(t) \/ Step(t), ~FinishDelete(t)
    PROVE  lockGen' = lockGen
  BY DEF Start, Step, StartSearch, StartMutation, StartTeardown, EnterMutation, CheckStale, FinishReindex, RefuseSearch, AnswerSearch, LeaveIndex, Activate, FinishClear, AcquireRead, AcquireWrite, PrepareReindex, BindSearcher, ResolvePlace, LookUp, FoundInside, BuildSearcher, CommitSearcher, TakeSearcher, BeginSearch, BeginIncremental, BeginFull, ResumeFull, SkipRewrite, FinishRewrite, RecoverRewrite, FailRewrite, IfCurrent, CloseSearcher, DropSearcher, ForgetCurrent, Purge

\* A dropped lock had no holder but the deletion that dropped it.
LEMMA OwnLockStep ==
    ASSUME IndInv, Guarded, NEW t \in Tasks, Start(t) \/ Step(t), ~strayed'
    PROVE  OwnLock'
  <1>1. /\ Typed /\ (\A u \in Tasks : Shape(task[u])) /\ Locked /\ OwnLock
        /\ task[t] \in Calls /\ task \in [Tasks -> Calls] /\ lockGen \in [Places -> Nat]
    BY TasksCount DEF IndInv, Guarded, Typed
  <1>2. \A u \in Tasks \ {t} : Kept(u)
    BY <1>1, OthersKept
  <1>3. SUFFICES ASSUME NEW u \in Tasks, task'[u].held # "none"
                 PROVE  task'[u].lock = <<task'[u].key, lockGen'[task'[u].key]>>
    BY DEF OwnLock, LockOf
  <1>4. CASE AcquireRead(t) \/ AcquireWrite(t)
    <2>1. lockGen' = lockGen /\ task'[t].lock = task[t].lock /\ task'[t].key = task[t].key
      BY <1>1, <1>4 DEF AcquireRead, AcquireWrite, Calls
    <2>2. task[t].lock = LockOf(task[t].key)
      BY <1>4 DEF AcquireRead, AcquireWrite, NoteDropped
    <2> QED
      BY <1>1, <1>2, <1>3, <2>1, <2>2 DEF OwnLock, Kept, LockOf
  <1>5. CASE FinishDelete(t)
    <2>1. task[t].held = "write" /\ task[t].pc = "purged"
      BY <1>1, <1>5 DEF FinishDelete, Shape
    <2>2. u # t
      BY <1>1, <1>3, <1>5, EnteringStep DEF Entering
    <2>3. task[u].held # "none" /\ task'[u].lock = task[u].lock /\ task'[u].key = task[u].key
      BY <1>2, <1>3, <2>2 DEF Kept
    <2>4. task[u].key # task[t].key
      BY <1>1, <2>1, <2>2, <2>3, Alone
    <2>5. task[u].key \in Places
      BY <1>1, <2>3 DEF Shape
    <2>6. lockGen'[task[u].key] = lockGen[task[u].key]
      BY <1>1, <1>5, <2>4, <2>5 DEF FinishDelete
    <2> QED
      BY <1>1, <2>3, <2>6 DEF OwnLock, LockOf
  <1>6. CASE ~AcquireRead(t) /\ ~AcquireWrite(t) /\ ~FinishDelete(t)
    <2>1. lockGen' = lockGen
      BY <1>6, LockGenKept
    <2>2. task'[u].held = task[u].held /\ task'[u].lock = task[u].lock /\ task'[u].key = task[u].key
      BY <1>1, <1>2, <1>3, <1>6, HeldKept DEF Kept
    <2> QED
      BY <1>1, <1>3, <2>1, <2>2 DEF OwnLock, LockOf
  <1> QED
    BY <1>4, <1>5, <1>6

\* The project to fetch for was checked against the lock when it was resolved.
LEMMA OwnPlaceStep ==
    ASSUME IndInv, Guarded, NEW t \in Tasks, Start(t) \/ Step(t), ~strayed'
    PROVE  OwnPlace'
  <1>1. /\ Typed /\ (\A u \in Tasks : Shape(task[u])) /\ OwnPlace
        /\ task[t] \in Calls /\ task \in [Tasks -> Calls]
    BY DEF IndInv, Guarded, Typed
  <1>2. \A u \in Tasks \ {t} : Kept(u)
    BY <1>1, OthersKept
  <1>3. ASSUME task'[t].pc \in Fetching \ {"resolve"} => task'[t].place = task'[t].key
        PROVE  OwnPlace'
    BY <1>1, <1>2, <1>3 DEF OwnPlace, Kept
  <1>4. CASE Entering(t)
    BY <1>1, <1>3, <1>4, EnteringStep DEF Outer, Fetching
  <1>5. CASE AcquireRead(t)
    <2>1. task'[t].pc \notin Fetching \ {"resolve"}
      BY <1>1, <1>5 DEF AcquireRead, Calls, Fetching
    <2> QED
      BY <1>3, <2>1
  <1>6. CASE AcquireWrite(t)
    <2>1. task'[t].pc \notin Fetching \ {"resolve"}
      BY <1>1, <1>6 DEF AcquireWrite, Calls, Fetching
    <2> QED
      BY <1>3, <2>1
  <1>7. CASE PrepareReindex(t)
    <2>1. task'[t].pc \notin Fetching \ {"resolve"}
      BY <1>1, <1>7 DEF PrepareReindex, Calls, Fetching
    <2> QED
      BY <1>3, <2>1
  <1>8. CASE BindSearcher(t)
    <2>1. task'[t].pc \notin Fetching \ {"resolve"}
      BY <1>1, <1>8 DEF BindSearcher, Goto, Calls, Fetching
    <2> QED
      BY <1>3, <2>1
  <1>9. CASE ResolvePlace(t)
    <2>1. task'[t].place = task[t].key /\ task'[t].key = task[t].key
      BY <1>1, <1>9 DEF ResolvePlace, Calls
    <2> QED
      BY <1>3, <2>1
  <1>10. CASE LookUp(t)
    <2>1. /\ task[t].pc \in Fetching \ {"resolve"}
          /\ task'[t].place = task[t].place /\ task'[t].key = task[t].key
      BY <1>1, <1>10 DEF LookUp, Goto, Calls, Fetching
    <2> QED
      BY <1>1, <1>3, <2>1 DEF OwnPlace
  <1>11. CASE FoundInside(t)
    <2>1. /\ task[t].pc \in Fetching \ {"resolve"}
          /\ task'[t].place = task[t].place /\ task'[t].key = task[t].key
      BY <1>1, <1>11 DEF FoundInside, Goto, Calls, Fetching
    <2> QED
      BY <1>1, <1>3, <2>1 DEF OwnPlace
  <1>12. CASE BuildSearcher(t)
    <2>1. /\ task[t].pc \in Fetching \ {"resolve"}
          /\ task'[t].place = task[t].place /\ task'[t].key = task[t].key
      BY <1>1, <1>12 DEF BuildSearcher, Calls, Fetching
    <2> QED
      BY <1>1, <1>3, <2>1 DEF OwnPlace
  <1>13. CASE CommitSearcher(t)
    <2>1. /\ task[t].pc \in Fetching \ {"resolve"}
          /\ task'[t].place = task[t].place /\ task'[t].key = task[t].key
      BY <1>1, <1>13 DEF CommitSearcher, Goto, Calls, Fetching
    <2> QED
      BY <1>1, <1>3, <2>1 DEF OwnPlace
  <1>14. CASE TakeSearcher(t)
    <2>1. task'[t].pc \notin Fetching \ {"resolve"}
      BY <1>1, <1>14 DEF TakeSearcher, Calls, Fetching
    <2> QED
      BY <1>3, <2>1
  <1>15. CASE BeginSearch(t)
    <2>1. task'[t].pc \notin Fetching \ {"resolve"}
      BY <1>1, <1>15 DEF BeginSearch, Goto, Calls, Fetching
    <2> QED
      BY <1>3, <2>1
  <1>16. CASE BeginIncremental(t)
    <2>1. task'[t].pc \notin Fetching \ {"resolve"}
      BY <1>1, <1>16 DEF BeginIncremental, Goto, Calls, Fetching
    <2> QED
      BY <1>3, <2>1
  <1>17. CASE BeginFull(t)
    <2>1. task'[t].pc \notin Fetching \ {"resolve"}
      BY <1>1, <1>17 DEF BeginFull, Calls, Fetching
    <2> QED
      BY <1>3, <2>1
  <1>18. CASE ResumeFull(t)
    <2>1. task'[t].pc \notin Fetching \ {"resolve"}
      BY <1>1, <1>18 DEF ResumeFull, Goto, Calls, Fetching
    <2> QED
      BY <1>3, <2>1
  <1>19. CASE SkipRewrite(t)
    <2>1. task'[t].pc \notin Fetching \ {"resolve"}
      BY <1>1, <1>19 DEF SkipRewrite, AfterRun, Calls, Fetching
    <2> QED
      BY <1>3, <2>1
  <1>20. CASE FinishRewrite(t)
    <2>1. task'[t].pc \notin Fetching \ {"resolve"}
      BY <1>1, <1>20 DEF FinishRewrite, AfterRun, Calls, Fetching
    <2> QED
      BY <1>3, <2>1
  <1>fail. CASE FailRewrite(t)
    <2>1. task'[t].pc \notin Fetching \ {"resolve"}
      BY <1>1, <1>fail DEF FailRewrite, AfterRun, Calls, Fetching
    <2> QED
      BY <1>3, <2>1
  <1>recover. CASE RecoverRewrite(t)
    <2>1. task'[t].pc \notin Fetching \ {"resolve"}
      BY <1>1, <1>recover DEF RecoverRewrite, Calls, Fetching
    <2> QED
      BY <1>3, <2>1
  <1>21. CASE IfCurrent(t)
    <2>1. task'[t].pc \notin Fetching \ {"resolve"}
      BY <1>1, <1>21 DEF IfCurrent, Goto, Calls, Fetching
    <2> QED
      BY <1>3, <2>1
  <1>22. CASE CloseSearcher(t)
    <2>1. task'[t].pc \notin Fetching \ {"resolve"}
      BY <1>1, <1>22 DEF CloseSearcher, Goto, Calls, Fetching
    <2> QED
      BY <1>3, <2>1
  <1>23. CASE DropSearcher(t)
    BY <1>1, <1>3, <1>23, DropStep DEF Fetching
  <1>24. CASE ForgetCurrent(t)
    <2>1. task'[t].pc \notin Fetching \ {"resolve"}
      BY <1>1, <1>24 DEF ForgetCurrent, Goto, Calls, Fetching
    <2> QED
      BY <1>3, <2>1
  <1>25. CASE Purge(t)
    <2>1. task'[t].pc \notin Fetching \ {"resolve"}
      BY <1>1, <1>25 DEF Purge, Goto, Calls, Fetching
    <2> QED
      BY <1>3, <2>1
  <1> QED
    BY <1>4, <1>5, <1>6, <1>7, <1>8, <1>9, <1>10, <1>11, <1>12, <1>13, <1>14, <1>15, <1>16, <1>17, <1>18, <1>19, <1>fail, <1>recover, <1>20, <1>21, <1>22, <1>23, <1>24, <1>25 DEF Entering, Start, Step

\* Project and searcher change together, or the change is noted.
LEMMA OnePairStep ==
    ASSUME IndInv, Guarded, NEW t \in Tasks, Start(t) \/ Step(t), ~strayed'
    PROVE  OnePair'
  <1>1. /\ Typed /\ (\A u \in Tasks : Shape(task[u])) /\ OwnPlace /\ OnePair /\ InUse
        /\ task[t] \in Calls /\ Shape(task[t]) /\ searcher \in Ids \union {None}
    BY DEF IndInv, Guarded, Typed
  <1>2. CASE searcher' # None /\ searcher' = searcher
    <2>1. objects'[searcher].place = objects[searcher].place
      BY <1>1, <1>2, KnownObjects
    <2>2. CASE PrepareReindex(t) \/ BindSearcher(t) \/ ForgetCurrent(t)
      BY <2>2 DEF PrepareReindex, BindSearcher, ForgetCurrent, NoteTorn, OnePair
    <2>3. CASE CommitSearcher(t)
      <3>1. Private(task[t])
        BY <2>3 DEF CommitSearcher, Private
      <3>2. task[t].obj # searcher
        BY <3>1 DEF Owned, IndInv
      <3> QED
        BY <1>2, <2>3, <3>2 DEF CommitSearcher
    <2>4. CASE ~PrepareReindex(t) /\ ~BindSearcher(t) /\ ~ForgetCurrent(t) /\ ~CommitSearcher(t)
      <3>1. current' = current
        BY <1>2, <2>4 DEF Start, Step, StartSearch, StartMutation, StartTeardown, EnterMutation, CheckStale, FinishReindex, RefuseSearch, AnswerSearch, LeaveIndex, Activate, FinishClear, FinishDelete, AcquireRead, AcquireWrite, ResolvePlace, LookUp, FoundInside, BuildSearcher, TakeSearcher, BeginSearch, BeginIncremental, BeginFull, ResumeFull, SkipRewrite, FinishRewrite, RecoverRewrite, FailRewrite, IfCurrent, CloseSearcher, DropSearcher, Purge
      <3> QED
        BY <1>1, <1>2, <2>1, <3>1 DEF OnePair
    <2> QED
      BY <2>2, <2>3, <2>4
  <1>3. CASE BindSearcher(t)
    BY <1>3 DEF BindSearcher, NoteTorn, OnePair
  <1>4. CASE CommitSearcher(t)
    <2>1. Using(task[t])
      BY <1>1, <1>4 DEF CommitSearcher, Using, Shape, Fetching
    <2>2. objects[task[t].obj].place = task[t].key /\ task[t].place = task[t].key
      BY <1>1, <1>4, <2>1 DEF InUse, OwnPlace, CommitSearcher, Fetching
    <2> QED
      BY <1>4, <2>2 DEF CommitSearcher, OnePair
  <1> QED
    BY <1>2, <1>3, <1>4, SearcherStep DEF OnePair

\* The rewrite of one project's index leaves what is read of another's alone.
LEMMA ElsewhereKept ==
    ASSUME IndInv, Guarded, NEW t \in Tasks, Start(t) \/ Step(t),
           NEW u \in Tasks \ {t}, task[u].held # "none"
    PROVE  /\ disk'[task[u].key] = disk[task[u].key]
           /\ Rewrites(t) => task[t].key # task[u].key
  <1>1. /\ Shape(task[t]) /\ Shape(task[u]) /\ Locked /\ OwnLock /\ DOMAIN disk = Places
    BY DEF IndInv, Guarded, Typed
  <1>2. Rewrites(t) => task[t].held = "write"
    BY <1>1 DEF Rewrites, FinishRewrite, RecoverRewrite, FailRewrite, Purge, Shape
  <1>3. Rewrites(t) => task[t].key # task[u].key
    BY <1>1, <1>2, Alone
  <1>4. task[u].key \in Places
    BY <1>1 DEF Shape
  <1> QED
    BY <1>1, <1>3, <1>4, DiskStep DEF Rewrites

\* A searcher in use by another call keeps its project and edition.
LEMMA InUseElsewhere ==
    ASSUME IndInv, Guarded, NEW t \in Tasks, Start(t) \/ Step(t),
           NEW u \in Tasks \ {t}, Using(task'[u])
    PROVE  /\ objects'[task'[u].obj].place = task'[u].key
           /\ \/ task'[u].obj \in lapsed'
              \/ objects'[task'[u].obj].edition = disk'[task'[u].key]
  <1>1. /\ Typed /\ (\A a \in Tasks : Shape(task[a])) /\ InUse /\ task \in [Tasks -> Calls]
    BY DEF IndInv, Guarded, Typed
  <1>2. Kept(u)
    BY <1>1, OthersKept
  <1>3. Using(task[u]) /\ task'[u].obj = task[u].obj /\ task'[u].key = task[u].key
    BY <1>2 DEF Using, Kept
  <1>4. task[u].obj \in Ids /\ task[u].held # "none"
    BY <1>1, <1>3 DEF Using, Calls
  <1>5. /\ objects[task[u].obj].place = task[u].key
        /\ task[u].obj \in lapsed \/ objects[task[u].obj].edition = disk[task[u].key]
    BY <1>1, <1>3 DEF InUse
  <1>6. /\ disk'[task[u].key] = disk[task[u].key]
        /\ FinishRewrite(t) => task[t].key # task[u].key
    BY <1>4, ElsewhereKept DEF Rewrites
  <1>7. FinishRewrite(t) => task[u].obj # task[t].obj
    <2>1. FinishRewrite(t) => Using(task[t])
      <3>1. Shape(task[t])
        BY <1>1
      <3> QED
        BY <3>1 DEF FinishRewrite, Using, Shape
    <2> QED
      BY <1>1, <1>5, <1>6, <2>1 DEF InUse
  <1> QED
    BY <1>1, <1>3, <1>4, <1>5, <1>6, <1>7, KnownObjects, LapsedKept

\* A searcher taken up or built is the locked project's, in the edition on disk.
LEMMA InUseStep ==
    ASSUME IndInv, Guarded, NEW t \in Tasks, Start(t) \/ Step(t), ~strayed'
    PROVE  InUse'
  <1>1. /\ Typed /\ (\A a \in Tasks : Shape(task[a])) /\ InUse /\ OwnPlace /\ CacheFresh
        /\ Locked /\ OwnLock
        /\ task[t] \in Calls /\ task \in [Tasks -> Calls] /\ Shape(task[t])
        /\ searcher \in Ids \union {None} /\ DOMAIN objects = Ids /\ DOMAIN disk = Places
    BY DEF IndInv, Guarded, Typed
  <1>2. SUFFICES ASSUME Using(task'[t])
                 PROVE  /\ objects'[task'[t].obj].place = task'[t].key
                        /\ \/ task'[t].obj \in lapsed'
                           \/ objects'[task'[t].obj].edition = disk'[task'[t].key]
    BY InUseElsewhere DEF InUse
  <1>3. ASSUME Using(task[t]), task'[t].obj = task[t].obj, task'[t].key = task[t].key,
               ~Rewrites(t)
        PROVE  /\ objects'[task'[t].obj].place = task'[t].key
               /\ \/ task'[t].obj \in lapsed'
                  \/ objects'[task'[t].obj].edition = disk'[task'[t].key]
    <2>1. disk' = disk
      BY <1>3, DiskStep DEF Rewrites
    <2>2. task[t].obj \in Ids
      BY <1>1, <1>3 DEF Using, Calls
    <2> QED
      BY <1>1, <1>3, <2>1, <2>2, KnownObjects, LapsedKept DEF InUse, Rewrites
  <1>4. CASE Entering(t)
    BY <1>1, <1>2, <1>4, EnteringStep DEF Using
  <1>5. CASE AcquireRead(t)
    <2>1. ~Using(task'[t])
      BY <1>1, <1>5 DEF AcquireRead, Calls, Using, Shape
    <2> QED
      BY <1>2, <2>1
  <1>6. CASE AcquireWrite(t)
    <2>1. ~Using(task'[t])
      BY <1>1, <1>6 DEF AcquireWrite, Calls, Using, Shape
    <2> QED
      BY <1>2, <2>1
  <1>7. CASE PrepareReindex(t)
    <2>1. /\ task[t].obj = None /\ task[t].key = task[t].key /\ task[t].key \in Places
      BY <1>1, <1>7 DEF PrepareReindex, Shape, Fetching, OwnPlace
    <2>2. FreeId \in Ids
      BY <2>1, FreeIdIsFree
    <2>3. /\ objects' = NewObject(task[t].key) /\ task'[t].obj = FreeId
          /\ task'[t].key = task[t].key /\ disk' = disk
      BY <1>1, <1>7, <2>1 DEF PrepareReindex, Calls
    <2> QED
      BY <1>1, <2>2, <2>3 DEF NewObject
  <1>8. CASE BindSearcher(t)
    <2>1. ~Using(task'[t])
      BY <1>1, <1>8 DEF BindSearcher, Goto, Calls, Using, Shape
    <2> QED
      BY <1>2, <2>1
  <1>9. CASE ResolvePlace(t)
    <2>1. ~Using(task'[t])
      BY <1>1, <1>9 DEF ResolvePlace, Calls, Using, Shape
    <2> QED
      BY <1>2, <2>1
  <1>10. CASE LookUp(t)
    <2>1. ~Using(task'[t])
      BY <1>1, <1>10 DEF LookUp, Goto, Calls, Using, Shape
    <2> QED
      BY <1>2, <2>1
  <1>11. CASE FoundInside(t)
    <2>1. ~Using(task'[t])
      BY <1>1, <1>11 DEF FoundInside, Goto, Calls, Using, Shape
    <2> QED
      BY <1>2, <2>1
  <1>12. CASE BuildSearcher(t)
    <2>1. /\ task[t].obj = None /\ task[t].place = task[t].key /\ task[t].key \in Places
      BY <1>1, <1>12 DEF BuildSearcher, Shape, Fetching, OwnPlace
    <2>2. FreeId \in Ids
      BY <2>1, FreeIdIsFree
    <2>3. /\ objects' = NewObject(task[t].key) /\ task'[t].obj = FreeId
          /\ task'[t].key = task[t].key /\ disk' = disk
      BY <1>1, <1>12, <2>1 DEF BuildSearcher, Calls
    <2> QED
      BY <1>1, <2>2, <2>3 DEF NewObject
  <1>13. CASE CommitSearcher(t)
    <2>1. ~Using(task'[t])
      BY <1>1, <1>13 DEF CommitSearcher, Goto, Calls, Using, Shape
    <2> QED
      BY <1>2, <2>1
  <1>14. CASE TakeSearcher(t)
    <2>1. /\ task'[t].obj = searcher /\ task'[t].key = task[t].key /\ searcher # None
          /\ disk' = disk /\ objects' = objects /\ lapsed' = lapsed
      BY <1>1, <1>2, <1>14 DEF TakeSearcher, Calls, Using
    <2>2. objects[searcher].place = task[t].key
      BY <1>14, <2>1 DEF TakeSearcher
    <2>3. ASSUME NEW w \in Tasks, task[w].pc \in {"bind", "reset"}
          PROVE  task[w].key # task[t].key
      <3>1. Shape(task[w])
        BY <1>1
      <3>2. w # t /\ task[w].held = "write" /\ task[t].held # "none"
        BY <1>1, <1>14, <2>3, <3>1 DEF TakeSearcher, Shape, Fetching
      <3> QED
        BY <1>1, <3>2, Alone
    <2>4. searcher \in lapsed \/ objects[searcher].edition = disk[task[t].key]
      BY <1>1, <2>1, <2>2, <2>3 DEF CacheFresh
    <2> QED
      BY <2>1, <2>2, <2>4
  <1>15. CASE BeginSearch(t)
    <2>1. task'[t].obj = task[t].obj /\ task'[t].key = task[t].key /\ ~Rewrites(t)
      BY <1>1, <1>15 DEF BeginSearch, Goto, Calls, Rewrites, FinishRewrite, RecoverRewrite, FailRewrite, Purge
    <2>2. Using(task[t])
      BY <1>1, <1>2, <1>15 DEF BeginSearch, Goto, Calls, Using
    <2> QED
      BY <1>3, <2>1, <2>2
  <1>16. CASE BeginIncremental(t)
    <2>1. task'[t].obj = task[t].obj /\ task'[t].key = task[t].key /\ ~Rewrites(t)
      BY <1>1, <1>16 DEF BeginIncremental, Goto, Calls, Rewrites, FinishRewrite, RecoverRewrite, FailRewrite, Purge
    <2>2. Using(task[t])
      BY <1>1, <1>2, <1>16 DEF BeginIncremental, Goto, Calls, Using
    <2> QED
      BY <1>3, <2>1, <2>2
  <1>17. CASE BeginFull(t)
    <2>1. task'[t].obj = task[t].obj /\ task'[t].key = task[t].key /\ ~Rewrites(t)
      BY <1>1, <1>17 DEF BeginFull, Calls, Rewrites, FinishRewrite, RecoverRewrite, FailRewrite, Purge
    <2>2. Using(task[t])
      BY <1>1, <1>2, <1>17 DEF BeginFull, Calls, Using
    <2> QED
      BY <1>3, <2>1, <2>2
  <1>18. CASE ResumeFull(t)
    <2>1. task'[t].obj = task[t].obj /\ task'[t].key = task[t].key /\ ~Rewrites(t)
      BY <1>1, <1>18 DEF ResumeFull, Goto, Calls, Rewrites, FinishRewrite, RecoverRewrite, FailRewrite, Purge
    <2>2. Using(task[t])
      BY <1>1, <1>2, <1>18 DEF ResumeFull, Goto, Calls, Using
    <2> QED
      BY <1>3, <2>1, <2>2
  <1>19. CASE SkipRewrite(t)
    <2>1. task'[t].obj = task[t].obj /\ task'[t].key = task[t].key /\ ~Rewrites(t)
      BY <1>1, <1>19 DEF SkipRewrite, AfterRun, Calls, Rewrites, FinishRewrite, RecoverRewrite, FailRewrite, Purge
    <2>2. Using(task[t])
      BY <1>1, <1>2, <1>19 DEF SkipRewrite, AfterRun, Calls, Using
    <2> QED
      BY <1>3, <2>1, <2>2
  <1>20. CASE FinishRewrite(t)
    <2>1. task'[t].obj = task[t].obj /\ task'[t].key = task[t].key
      BY <1>1, <1>20 DEF FinishRewrite, AfterRun, Calls
    <2>2. Using(task[t]) /\ task[t].obj \in Ids /\ task[t].key \in Places
      BY <1>1, <1>20 DEF FinishRewrite, Using, Shape, Calls
    <2>3. objects[task[t].obj].place = task[t].key
      BY <2>2, <1>1 DEF InUse
    <2>4. /\ objects'[task[t].obj].place = objects[task[t].obj].place
          /\ objects'[task[t].obj].edition = files[task[t].key]
      <3>1. objects[task[t].obj] \in [place : Places, edition : 0 .. MaxEdits + 1, closed : BOOLEAN]
        BY <1>1, <2>2 DEF Typed
      <3>2. objects' = [objects EXCEPT ![task[t].obj].edition = files[task[t].key]]
        BY <1>20 DEF FinishRewrite
      <3> QED
        BY <1>1, <2>2, <3>1, <3>2
    <2>5. disk'[task[t].key] = files[task[t].key]
      BY <1>1, <1>20, <2>2 DEF FinishRewrite
    <2> QED
      BY <2>1, <2>3, <2>4, <2>5
  <1>fail. CASE FailRewrite(t)
    <2>1. task'[t].obj = task[t].obj /\ task'[t].key = task[t].key /\ objects' = objects
      BY <1>1, <1>fail DEF FailRewrite, AfterRun, Calls
    <2>2. Using(task[t]) /\ task[t].obj \in Ids
      BY <1>1, <1>fail DEF FailRewrite, Using, Shape, Calls
    <2>3. objects[task[t].obj].place = task[t].key
      BY <1>1, <2>2 DEF InUse
    <2>4. task[t].obj \in lapsed'
      BY <1>fail, <2>2, <2>3 DEF FailRewrite, Lapse
    <2> QED
      BY <2>1, <2>3, <2>4
  <1>recover. CASE RecoverRewrite(t)
    <2>1. task'[t].obj = task[t].obj /\ task'[t].key = task[t].key /\ objects' = objects
      BY <1>1, <1>recover DEF RecoverRewrite, AfterRun, Calls
    <2>2. Using(task[t]) /\ task[t].obj \in Ids
      BY <1>1, <1>recover DEF RecoverRewrite, Using, Shape, Calls
    <2>3. objects[task[t].obj].place = task[t].key
      BY <1>1, <2>2 DEF InUse
    <2>4. task[t].obj \in lapsed'
      BY <1>recover, <2>2, <2>3 DEF RecoverRewrite, Lapse
    <2> QED
      BY <2>1, <2>3, <2>4
  <1>21. CASE IfCurrent(t)
    <2>1. ~Using(task'[t])
      BY <1>1, <1>21 DEF IfCurrent, Goto, Calls, Using, Shape
    <2> QED
      BY <1>2, <2>1
  <1>22. CASE CloseSearcher(t)
    <2>1. task'[t].obj = task[t].obj /\ task'[t].key = task[t].key /\ ~Rewrites(t)
      BY <1>1, <1>22 DEF CloseSearcher, Goto, Calls, Rewrites, FinishRewrite, RecoverRewrite, FailRewrite, Purge
    <2>2. Using(task[t])
      BY <1>1, <1>2, <1>22 DEF CloseSearcher, Goto, Calls, Using
    <2> QED
      BY <1>3, <2>1, <2>2
  <1>23. CASE DropSearcher(t)
    <2>1. ~Rewrites(t)
      BY <1>23 DEF DropSearcher, Rewrites, FinishRewrite, RecoverRewrite, FailRewrite, Purge
    <2>2. Using(task[t]) /\ task'[t].obj = task[t].obj /\ task'[t].key = task[t].key
      BY <1>1, <1>2, <1>23, DropStep, DoneShape DEF Using
    <2> QED
      BY <1>3, <2>1, <2>2
  <1>24. CASE ForgetCurrent(t)
    <2>1. ~Using(task'[t])
      BY <1>1, <1>24 DEF ForgetCurrent, Goto, Calls, Using, Shape
    <2> QED
      BY <1>2, <2>1
  <1>25. CASE Purge(t)
    <2>1. ~Using(task'[t])
      BY <1>1, <1>25 DEF Purge, Goto, Calls, Using, Shape
    <2> QED
      BY <1>2, <2>1
  <1> QED
    BY <1>4, <1>5, <1>6, <1>7, <1>8, <1>9, <1>10, <1>11, <1>12, <1>13, <1>14, <1>15, <1>16, <1>17, <1>18, <1>19, <1>fail, <1>recover, <1>20, <1>21, <1>22, <1>23, <1>24, <1>25 DEF Entering, Start, Step

\* A searcher gets into the cache from a call that holds its project's lock.
LEMMA CachedStep ==
    ASSUME IndInv, Guarded, NEW t \in Tasks, Start(t) \/ Step(t), searcher' # None
    PROVE  \/ searcher' = searcher /\ objects'[searcher'].place = objects[searcher].place
           \/ /\ BindSearcher(t) \/ CommitSearcher(t)
              /\ Using(task[t]) /\ searcher' = task[t].obj
              /\ objects'[searcher'].place = task[t].key
              /\ objects' = objects /\ disk' = disk
  <1>1. /\ Typed /\ (\A a \in Tasks : Shape(task[a])) /\ InUse /\ searcher \in Ids \union {None}
    BY DEF IndInv, Guarded, Typed
  <1>2. CASE searcher' = searcher
    BY <1>1, <1>2, KnownObjects
  <1>3. CASE searcher' # searcher
    <2>1. /\ BindSearcher(t) \/ CommitSearcher(t)
          /\ searcher' = task[t].obj /\ objects' = objects /\ disk' = disk
      BY <1>3, SearcherStep
    <2>2. Shape(task[t])
      BY <1>1
    <2>3. Using(task[t])
      BY <2>1, <2>2 DEF BindSearcher, CommitSearcher, Using, Shape, Fetching
    <2> QED
      BY <1>1, <2>1, <2>3 DEF InUse
  <1> QED
    BY <1>2, <1>3

\* Hence nothing gets into the cache for a project that another call writes to.
LEMMA CachedElsewhere ==
    ASSUME IndInv, Guarded, NEW t \in Tasks, Start(t) \/ Step(t),
           NEW u \in Tasks \ {t}, task[u].held = "write", CachedIn(task[u].key)'
    PROVE  searcher' = searcher /\ CachedIn(task[u].key) /\ task'[u].key = task[u].key
  <1>1. Typed /\ Locked /\ OwnLock
    BY DEF IndInv, Guarded
  <1>2. Kept(u)
    BY <1>1, OthersKept
  <1>3. task'[u].key = task[u].key /\ searcher' # None /\ objects'[searcher'].place = task[u].key
    BY <1>2 DEF Kept, CachedIn
  <1>4. ~(Using(task[t]) /\ task[t].key = task[u].key)
    BY <1>1, Alone DEF Using
  <1> QED
    BY <1>3, <1>4, CachedStep DEF CachedIn

\* The searcher index_directory took stays the cached one, or nothing is cached.
LEMMA IndexesCachedStep ==
    ASSUME IndInv, Guarded, NEW t \in Tasks, Start(t) \/ Step(t)
    PROVE  IndexesCached'
  <1>1. /\ Typed /\ (\A a \in Tasks : Shape(task[a])) /\ IndexesCached
        /\ task[t] \in Calls /\ task \in [Tasks -> Calls] /\ Shape(task[t])
    BY DEF IndInv, Guarded, Typed
  <1> DEFINE Indexing(c) ==
        /\ c.op = "index" /\ c.held = "write"
        /\ c.pc \in {"took", "closing", "dropping", "rewriting"} /\ c.obj # None
  <1>2. SUFFICES ASSUME NEW u \in Tasks, Indexing(task'[u]),
                        searcher' # None, objects'[searcher'].place = task'[u].key
                 PROVE  searcher' = task'[u].obj
    BY DEF IndexesCached, CachedIn
  <1>3. CASE u # t
    <2>1. Kept(u)
      BY <1>1, <1>3, OthersKept
    <2>2. Indexing(task[u]) /\ task'[u].obj = task[u].obj /\ CachedIn(task[u].key)'
      BY <1>2, <2>1 DEF Kept, CachedIn
    <2>3. searcher' = searcher /\ CachedIn(task[u].key)
      BY <1>3, <2>2, CachedElsewhere
    <2> QED
      BY <1>1, <2>2, <2>3 DEF IndexesCached
  <1>4. ASSUME Indexing(task[t]), task'[t].obj = task[t].obj, task'[t].key = task[t].key,
               searcher' = searcher, u = t
        PROVE  searcher' = task'[u].obj
    <2>1. CachedIn(task[t].key)
      BY <1>2, <1>4, CachedStep DEF CachedIn, BindSearcher, CommitSearcher
    <2> QED
      BY <1>1, <1>4, <2>1 DEF IndexesCached
  <1>5. CASE u = t /\ Entering(t)
    BY <1>1, <1>2, <1>5, EnteringStep
  <1>6. CASE u = t /\ AcquireRead(t)
    BY <1>1, <1>2, <1>6 DEF AcquireRead, Calls, Shape
  <1>7. CASE u = t /\ AcquireWrite(t)
    BY <1>1, <1>2, <1>7 DEF AcquireWrite, Calls, Shape
  <1>8. CASE u = t /\ PrepareReindex(t)
    BY <1>1, <1>2, <1>8 DEF PrepareReindex, Calls, Shape
  <1>9. CASE u = t /\ BindSearcher(t)
    BY <1>1, <1>2, <1>9 DEF BindSearcher, Goto, Calls, Shape
  <1>10. CASE u = t /\ ResolvePlace(t)
    BY <1>1, <1>2, <1>10 DEF ResolvePlace, Calls, Shape
  <1>11. CASE u = t /\ LookUp(t)
    BY <1>1, <1>2, <1>11 DEF LookUp, Goto, Calls, Shape
  <1>12. CASE u = t /\ FoundInside(t)
    BY <1>1, <1>2, <1>12 DEF FoundInside, Goto, Calls, Shape
  <1>13. CASE u = t /\ BuildSearcher(t)
    BY <1>1, <1>2, <1>13 DEF BuildSearcher, Calls, Shape
  <1>14. CASE u = t /\ CommitSearcher(t)
    BY <1>1, <1>2, <1>14 DEF CommitSearcher, Goto, Calls, Shape
  <1>15. CASE u = t /\ TakeSearcher(t)
    BY <1>1, <1>15 DEF TakeSearcher, Calls
  <1>16. CASE u = t /\ BeginSearch(t)
    BY <1>1, <1>2, <1>16 DEF BeginSearch, Goto, Calls, Shape
  <1>17. CASE u = t /\ BeginIncremental(t)
    <2>1. /\ task'[t].obj = task[t].obj /\ task'[t].key = task[t].key /\ searcher' = searcher
          /\ task'[t].op = task[t].op /\ task'[t].held = task[t].held
          /\ task[t].pc \in {"took", "closing"}
      BY <1>1, <1>17 DEF BeginIncremental, Goto, Calls
    <2> QED
      BY <1>2, <1>4, <1>17, <2>1
  <1>18. CASE u = t /\ BeginFull(t)
    <2>1. /\ task'[t].obj = task[t].obj /\ task'[t].key = task[t].key /\ searcher' = searcher
          /\ task'[t].op = task[t].op /\ task'[t].held = task[t].held
          /\ task[t].pc \in {"took", "closing"}
      BY <1>1, <1>18 DEF BeginFull, Calls
    <2> QED
      BY <1>2, <1>4, <1>18, <2>1
  <1>19. CASE u = t /\ ResumeFull(t)
    <2>1. /\ task'[t].obj = task[t].obj /\ task'[t].key = task[t].key /\ searcher' = searcher
          /\ task'[t].op = task[t].op /\ task'[t].held = task[t].held
          /\ task[t].pc \in {"took", "closing"}
      BY <1>1, <1>19 DEF ResumeFull, Goto, Calls
    <2> QED
      BY <1>2, <1>4, <1>19, <2>1
  <1>20. CASE u = t /\ SkipRewrite(t)
    BY <1>1, <1>2, <1>20 DEF SkipRewrite, AfterRun, Calls, Shape
  <1>21. CASE u = t /\ FinishRewrite(t)
    BY <1>1, <1>2, <1>21 DEF FinishRewrite, AfterRun, Calls, Shape
  <1>fail. CASE u = t /\ FailRewrite(t)
    BY <1>1, <1>2, <1>fail DEF FailRewrite, AfterRun, Calls, Shape
  <1>recover. CASE u = t /\ RecoverRewrite(t)
    <2>1. /\ task'[t].obj = task[t].obj /\ task'[t].key = task[t].key /\ searcher' = searcher
          /\ task'[t].op = task[t].op /\ task'[t].held = task[t].held
          /\ task[t].pc \in {"took", "closing"}
      BY <1>1, <1>recover DEF RecoverRewrite, Calls
    <2> QED
      BY <1>2, <1>4, <1>recover, <2>1
  <1>22. CASE u = t /\ IfCurrent(t)
    BY <1>1, <1>2, <1>22 DEF IfCurrent, Goto, Calls, Shape
  <1>23. CASE u = t /\ CloseSearcher(t)
    <2>1. /\ task'[t].obj = task[t].obj /\ task'[t].key = task[t].key /\ searcher' = searcher
          /\ task'[t].op = task[t].op /\ task'[t].held = task[t].held
          /\ task[t].pc \in {"took", "closing"}
      BY <1>1, <1>23 DEF CloseSearcher, Goto, Calls
    <2> QED
      BY <1>2, <1>4, <1>23, <2>1
  <1>24. CASE u = t /\ DropSearcher(t)
    BY <1>1, <1>2, <1>24, DropStep
  <1>25. CASE u = t /\ ForgetCurrent(t)
    BY <1>1, <1>2, <1>25 DEF ForgetCurrent, Goto, Calls, Shape
  <1>26. CASE u = t /\ Purge(t)
    BY <1>1, <1>2, <1>26 DEF Purge, Goto, Calls, Shape
  <1> QED
    BY <1>3, <1>5, <1>6, <1>7, <1>8, <1>9, <1>10, <1>11, <1>12, <1>13, <1>14, <1>15, <1>16, <1>17, <1>18, <1>19, <1>20, <1>fail, <1>recover, <1>21, <1>22, <1>23, <1>24, <1>25, <1>26 DEF Entering, Start, Step

\* What clear_index and delete_project purge has no cached searcher.
LEMMA PurgesUncachedStep ==
    ASSUME IndInv, Guarded, NEW t \in Tasks, Start(t) \/ Step(t)
    PROVE  PurgesUncached'
  <1>1. /\ Typed /\ (\A a \in Tasks : Shape(task[a])) /\ PurgesUncached /\ OnePair
        /\ task[t] \in Calls /\ task \in [Tasks -> Calls] /\ Shape(task[t])
    BY DEF IndInv, Guarded, Typed
  <1>2. SUFFICES ASSUME NEW u \in Tasks, task'[u].pc \in {"purging", "purged", "forget"},
                        searcher' # None, objects'[searcher'].place = task'[u].key
                 PROVE  FALSE
    BY DEF PurgesUncached, CachedIn
  <1>3. CASE u # t
    <2>1. Kept(u) /\ Shape(task[u])
      BY <1>1, <1>3, OthersKept
    <2>2. /\ task[u].pc \in {"purging", "purged", "forget"} /\ task[u].held = "write"
          /\ CachedIn(task[u].key)'
      BY <1>2, <2>1 DEF Kept, CachedIn, Shape
    <2>3. CachedIn(task[u].key)
      BY <1>3, <2>2, CachedElsewhere
    <2> QED
      BY <1>1, <2>2, <2>3 DEF PurgesUncached
  <1>4. ASSUME ~CachedIn(task[t].key), task'[t].key = task[t].key,
               searcher' = searcher, u = t
        PROVE  FALSE
    BY <1>2, <1>4, CachedStep DEF CachedIn, BindSearcher, CommitSearcher
  <1>5. CASE u = t /\ Entering(t)
    BY <1>1, <1>2, <1>5, EnteringStep DEF Outer
  <1>6. CASE u = t /\ AcquireRead(t)
    BY <1>1, <1>2, <1>6 DEF AcquireRead, Calls
  <1>7. CASE u = t /\ AcquireWrite(t)
    BY <1>1, <1>2, <1>7 DEF AcquireWrite, Calls
  <1>8. CASE u = t /\ PrepareReindex(t)
    BY <1>1, <1>2, <1>8 DEF PrepareReindex, Calls
  <1>9. CASE u = t /\ BindSearcher(t)
    BY <1>1, <1>2, <1>9 DEF BindSearcher, Goto, Calls
  <1>10. CASE u = t /\ ResolvePlace(t)
    BY <1>1, <1>2, <1>10 DEF ResolvePlace, Calls
  <1>11. CASE u = t /\ LookUp(t)
    BY <1>1, <1>2, <1>11 DEF LookUp, Goto, Calls
  <1>12. CASE u = t /\ FoundInside(t)
    BY <1>1, <1>2, <1>12 DEF FoundInside, Goto, Calls
  <1>13. CASE u = t /\ BuildSearcher(t)
    BY <1>1, <1>2, <1>13 DEF BuildSearcher, Calls
  <1>14. CASE u = t /\ CommitSearcher(t)
    BY <1>1, <1>2, <1>14 DEF CommitSearcher, Goto, Calls
  <1>15. CASE u = t /\ TakeSearcher(t)
    BY <1>1, <1>2, <1>15 DEF TakeSearcher, Calls
  <1>16. CASE u = t /\ BeginSearch(t)
    BY <1>1, <1>2, <1>16 DEF BeginSearch, Goto, Calls
  <1>17. CASE u = t /\ BeginIncremental(t)
    BY <1>1, <1>2, <1>17 DEF BeginIncremental, Goto, Calls
  <1>18. CASE u = t /\ BeginFull(t)
    BY <1>1, <1>2, <1>18 DEF BeginFull, Calls
  <1>19. CASE u = t /\ ResumeFull(t)
    BY <1>1, <1>2, <1>19 DEF ResumeFull, Goto, Calls
  <1>20. CASE u = t /\ SkipRewrite(t)
    BY <1>1, <1>2, <1>20 DEF SkipRewrite, AfterRun, Calls
  <1>21. CASE u = t /\ FinishRewrite(t)
    BY <1>1, <1>2, <1>21 DEF FinishRewrite, AfterRun, Calls
  <1>fail. CASE u = t /\ FailRewrite(t)
    BY <1>1, <1>2, <1>fail DEF FailRewrite, AfterRun, Calls
  <1>recover. CASE u = t /\ RecoverRewrite(t)
    BY <1>1, <1>2, <1>recover DEF RecoverRewrite, Calls
  <1>22. CASE u = t /\ IfCurrent(t)
    <2>1. current # task[t].key /\ task'[t].key = task[t].key /\ searcher' = searcher
      BY <1>1, <1>2, <1>22 DEF IfCurrent, Goto, Calls
    <2>2. ~CachedIn(task[t].key)
      BY <1>1, <2>1 DEF OnePair, CachedIn
    <2> QED
      BY <1>4, <1>22, <2>1, <2>2
  <1>23. CASE u = t /\ CloseSearcher(t)
    BY <1>1, <1>2, <1>23 DEF CloseSearcher, Goto, Calls
  <1>24. CASE u = t /\ DropSearcher(t)
    BY <1>1, <1>2, <1>24, DropStep
  <1>25. CASE u = t /\ ForgetCurrent(t)
    <2>1. /\ task[t].pc \in {"purging", "forget"} /\ task'[t].key = task[t].key /\ searcher' = searcher
      BY <1>1, <1>25 DEF ForgetCurrent, Goto, Calls
    <2> QED
      BY <1>1, <1>4, <1>25, <2>1 DEF PurgesUncached
  <1>26. CASE u = t /\ Purge(t)
    <2>1. /\ task[t].pc \in {"purging", "forget"} /\ task'[t].key = task[t].key /\ searcher' = searcher
      BY <1>1, <1>26 DEF Purge, Goto, Calls
    <2> QED
      BY <1>1, <1>4, <1>26, <2>1 DEF PurgesUncached
  <1> QED
    BY <1>3, <1>5, <1>6, <1>7, <1>8, <1>9, <1>10, <1>11, <1>12, <1>13, <1>14, <1>15, <1>16, <1>17, <1>18, <1>19, <1>20, <1>fail, <1>recover, <1>21, <1>22, <1>23, <1>24, <1>25, <1>26 DEF Entering, Start, Step

\* The cached searcher goes stale only by a run that is about to reset it.
LEMMA CacheFreshStep ==
    ASSUME IndInv, Guarded, NEW t \in Tasks, Start(t) \/ Step(t)
    PROVE  CacheFresh'
  <1>1. /\ Typed /\ (\A a \in Tasks : Shape(task[a])) /\ CacheFresh /\ InUse
        /\ IndexesCached /\ PurgesUncached
        /\ task[t] \in Calls /\ task \in [Tasks -> Calls] /\ Shape(task[t])
        /\ searcher \in Ids \union {None} /\ DOMAIN objects = Ids /\ DOMAIN disk = Places
    BY DEF IndInv, Guarded, Typed
  <1>2. SUFFICES ASSUME searcher' # None
                 PROVE  \/ searcher' \in lapsed'
                        \/ objects'[searcher'].edition = disk'[objects'[searcher'].place]
                        \/ \E w \in Tasks : /\ task'[w].pc \in {"bind", "reset"} /\ task'[w].changed
                                            /\ task'[w].key = objects'[searcher'].place
    BY DEF CacheFresh
  <1>3. CASE Using(task[t]) /\ searcher' = task[t].obj /\ objects' = objects /\ disk' = disk
    BY <1>1, <1>3, LapsedKept DEF InUse
  <1>4. CASE searcher' = searcher /\ objects'[searcher'].place = objects[searcher].place
    <2> DEFINE p == objects[searcher].place
    <2>1. searcher \in Ids /\ searcher # None /\ objects[searcher] \in [place : Places, edition : 0 .. MaxEdits + 1, closed : BOOLEAN]
      BY <1>1, <1>2, <1>4 DEF Typed
    <2>2. p \in Places /\ objects'[searcher'].place = p
      BY <1>4, <2>1
    <2>3. \A w \in Tasks \ {t} : Kept(w)
      BY <1>1, OthersKept
    \* A reset that is still to come stays so, unless it comes now.
    <2>4. ASSUME NEW w \in Tasks, task[w].pc \in {"bind", "reset"}, task[w].changed, task[w].key = p
          PROVE  task'[w].pc \in {"bind", "reset"} /\ task'[w].changed /\ task'[w].key = p
      <3>1. CASE w # t
        BY <2>3, <2>4, <3>1 DEF Kept
      <3>2. CASE w = t
        <4>1. BindSearcher(t) \/ FinishReindex(t)
          BY <2>4, <3>2 DEF Start, Step, StartSearch, StartMutation, StartTeardown, EnterMutation, CheckStale, RefuseSearch, AnswerSearch, LeaveIndex, Activate, FinishClear, FinishDelete, AcquireRead, AcquireWrite, PrepareReindex, ResolvePlace, LookUp, FoundInside, BuildSearcher, CommitSearcher, TakeSearcher, BeginSearch, BeginIncremental, BeginFull, ResumeFull, SkipRewrite, FinishRewrite, RecoverRewrite, FailRewrite, IfCurrent, CloseSearcher, DropSearcher, ForgetCurrent, Purge
        <4>2. ~FinishReindex(t)
          BY <1>2, <2>4, <3>2 DEF FinishReindex
        <4> QED
          BY <1>1, <2>4, <3>2, <4>1, <4>2 DEF BindSearcher, Goto, Calls
      <3> QED
        BY <3>1, <3>2
    <2>5. ASSUME objects'[searcher].edition = objects[searcher].edition, disk'[p] = disk[p]
          PROVE  \/ searcher \in lapsed'
                 \/ objects'[searcher].edition = disk'[p]
                 \/ \E w \in Tasks : /\ task'[w].pc \in {"bind", "reset"} /\ task'[w].changed
                                     /\ task'[w].key = p
      BY <1>1, <2>1, <2>4, <2>5, LapsedKept DEF CacheFresh
    <2>6. CASE FinishRewrite(t) /\ task[t].key = p
      <3>1. CASE task[t].op = "search"
        <4>1. task'[t].pc = "bind" /\ task'[t].changed /\ task'[t].key = p
          BY <1>1, <2>6, <3>1 DEF FinishRewrite, AfterRun, Calls
        <4> QED
          BY <2>2, <4>1
      <3>2. CASE task[t].op # "search"
        <4>1. /\ task[t].op = "index" /\ task[t].held = "write" /\ task[t].pc = "rewriting"
              /\ task[t].obj # None
          BY <1>1, <2>6, <3>2 DEF FinishRewrite, Shape
        <4>2. searcher = task[t].obj
          BY <1>1, <2>1, <2>6, <4>1 DEF IndexesCached, CachedIn
        <4>3. objects' = [objects EXCEPT ![searcher].edition = files[p]] /\ disk' = [disk EXCEPT ![p] = files[p]]
          BY <2>6, <4>2 DEF FinishRewrite
        <4>4. objects'[searcher].edition = files[p] /\ disk'[p] = files[p]
          BY <1>1, <2>1, <2>2, <4>3
        <4> QED
          BY <1>4, <2>2, <4>4
      <3> QED
        BY <3>1, <3>2
    <2>7. CASE FinishRewrite(t) /\ task[t].key # p
      <3>1. Using(task[t])
        BY <1>1, <2>7 DEF FinishRewrite, Using, Shape
      <3>2. task[t].obj # searcher
        BY <1>1, <2>7, <3>1 DEF InUse
      <3>3. objects'[searcher].edition = objects[searcher].edition
        BY <1>1, <2>1, <3>2, KnownObjects
      <3>4. disk'[p] = disk[p]
        BY <1>1, <2>2, <2>7 DEF FinishRewrite
      <3> QED
        BY <1>4, <2>2, <2>5, <3>3, <3>4
    <2>8. CASE Purge(t)
      <3>1. task[t].key # p
        BY <1>1, <2>1, <2>8 DEF Purge, PurgesUncached, CachedIn
      <3>2. objects'[searcher].edition = objects[searcher].edition
        BY <2>8 DEF Purge
      <3>3. disk'[p] = disk[p]
        BY <1>1, <2>2, <2>8, <3>1 DEF Purge
      <3> QED
        BY <1>4, <2>2, <2>5, <3>2, <3>3
    <2>10. CASE (RecoverRewrite(t) \/ FailRewrite(t)) /\ task[t].key = p
      <3>1. searcher \in lapsed'
        BY <2>1, <2>10 DEF RecoverRewrite, FailRewrite, Lapse
      <3> QED
        BY <1>4, <3>1
    <2>11. CASE (RecoverRewrite(t) \/ FailRewrite(t)) /\ task[t].key # p
      <3>1. objects' = objects
        BY <2>11 DEF RecoverRewrite, FailRewrite
      <3>2. disk'[p] = disk[p]
        BY <1>1, <2>2, <2>11 DEF RecoverRewrite, FailRewrite
      <3> QED
        BY <1>4, <2>2, <2>5, <3>1, <3>2
    <2>9. CASE ~Rewrites(t)
      <3>1. objects'[searcher].edition = objects[searcher].edition
        BY <1>1, <2>1, <2>9, KnownObjects DEF Rewrites
      <3>2. disk'[p] = disk[p]
        BY <2>9, DiskStep DEF Rewrites
      <3> QED
        BY <1>4, <2>2, <2>5, <3>1, <3>2
    <2> QED
      BY <2>6, <2>7, <2>8, <2>9, <2>10, <2>11 DEF Rewrites
  <1> QED
    BY <1>2, <1>3, <1>4, CachedStep

-----------------------------------------------------------------------------
(* The inductive invariant.                                                *)

\* Every step of a call preserves the invariant.
LEMMA CallStep ==
    ASSUME IndInv, NEW t \in Tasks, Start(t) \/ Step(t)
    PROVE  IndInv'
  <1>1. /\ Typed /\ (\A u \in Tasks : Shape(task[u])) /\ Locked /\ Owned /\ Dropped /\ ClosedGoes
        /\ ~strayed => Guarded
    BY DEF IndInv
  <1>2. Typed' /\ (\A u \in Tasks : Shape(task'[u])) /\ Dropped'
    BY <1>1, TypedStep
  <1>3. Locked' /\ Owned' /\ ClosedGoes'
    BY <1>1, LockedStep, OwnedStep, ClosedStep
  <1>4. ~strayed' => Guarded'
    <2>1. SUFFICES ASSUME ~strayed'
                   PROVE  Guarded'
      OBVIOUS
    <2>2. Guarded
      BY <1>1, <2>1, NotStrayed
    <2>3. OwnLock' /\ OwnPlace' /\ OnePair' /\ InUse'
      BY <2>1, <2>2, OwnLockStep, OwnPlaceStep, OnePairStep, InUseStep
    <2>4. IndexesCached' /\ PurgesUncached' /\ CacheFresh'
      BY <2>2, IndexesCachedStep, PurgesUncachedStep, CacheFreshStep
    <2> QED
      BY <2>3, <2>4 DEF Guarded
  <1> QED
    BY <1>2, <1>3, <1>4 DEF IndInv

\* Edited files are nothing the handlers' state depends on until they look.
LEMMA EditStep ==
    ASSUME IndInv, NEW p \in Projects, Edit(p)
    PROVE  IndInv'
  <1>1. files' \in [Places -> 1 .. MaxEdits + 1]
    <2>1. p \in Places /\ files \in [Places -> 1 .. MaxEdits + 1] /\ files[p] <= MaxEdits
      BY DEF Places, Edit, IndInv, Typed
    <2>2. files[p] + 1 \in 1 .. MaxEdits + 1
      BY <2>1, WorkflowAssumption
    <2>3. files' = [files EXCEPT ![p] = files[p] + 1]
      BY <2>1 DEF Edit
    <2> QED
      BY <2>1, <2>2, <2>3
  <1>2. UNCHANGED <<current, searcher, objects, disk, lockGen, mutex, strayed, lapsed, task>>
    BY DEF Edit
  <1>3. Typed'
    BY <1>1, <1>2 DEF IndInv, Typed
  <1>4. (\A t \in Tasks : Shape(task'[t])) /\ Locked' /\ Owned' /\ Dropped' /\ ClosedGoes'
    BY <1>2 DEF IndInv, Locked, Owned, Dropped, ClosedGoes
  <1>5. Guarded => Guarded'
    <2>1. OwnLock => OwnLock'
      BY <1>2 DEF OwnLock, LockOf
    <2>2. /\ OwnPlace => OwnPlace'
          /\ OnePair => OnePair'
          /\ InUse => InUse'
      BY <1>2 DEF OwnPlace, OnePair, InUse
    <2>3. /\ IndexesCached => IndexesCached'
          /\ PurgesUncached => PurgesUncached'
          /\ CacheFresh => CacheFresh'
      BY <1>2 DEF IndexesCached, PurgesUncached, CacheFresh, CachedIn
    <2> QED
      BY <2>1, <2>2, <2>3 DEF Guarded
  <1> QED
    BY <1>2, <1>3, <1>4, <1>5 DEF IndInv

\* So does doing nothing.
LEMMA StutterStep ==
    ASSUME IndInv, UNCHANGED vars
    PROVE  IndInv'
  <1>1. UNCHANGED <<current, searcher, objects, disk, files, lockGen, mutex, strayed, lapsed, task>>
    BY DEF vars
  <1>2. OwnLock => OwnLock'
    BY <1>1 DEF OwnLock, LockOf
  <1>3. /\ OwnPlace => OwnPlace'
        /\ OnePair => OnePair'
        /\ InUse => InUse'
        /\ IndexesCached => IndexesCached'
        /\ PurgesUncached => PurgesUncached'
        /\ CacheFresh => CacheFresh'
    BY <1>1 DEF OwnPlace, OnePair, InUse, IndexesCached, PurgesUncached, CacheFresh, CachedIn
  <1>4. Typed' /\ (\A t \in Tasks : Shape(task'[t])) /\ Locked' /\ Owned' /\ Dropped' /\ ClosedGoes'
    BY <1>1 DEF IndInv, Typed, Locked, Owned, Dropped, ClosedGoes
  <1> QED
    BY <1>1, <1>2, <1>3, <1>4 DEF IndInv, Guarded

\* The server starts in it.
LEMMA InitStep == Init => IndInv
  <1> SUFFICES ASSUME Init
               PROVE  IndInv
    OBVIOUS
  <1>1. Idle \in Calls /\ Shape(Idle) /\ ~Private(Idle) /\ ~Using(Idle)
    BY DEF Idle, Calls, Points, Shape, Private, Using, Fetching, Teardown
  <1>2. /\ \A t \in Tasks : task[t] = Idle
        /\ task = [t \in Tasks |-> Idle]
        /\ searcher = None /\ mutex = None /\ strayed = FALSE /\ lapsed = {}
    BY DEF Init
  <1>3. Idle.pc = "idle" /\ Idle.held = "none" /\ Idle.op = None
    BY DEF Idle
  <1>4. Typed
    <2>1. 0 \in 0 .. MaxEdits + 1 /\ 1 \in 0 .. MaxEdits + 1 /\ 1 \in 1 .. MaxEdits + 1
      BY WorkflowAssumption
    <2>2. 0 \in 0 .. Cardinality(Tasks)
      BY TasksCount
    <2>3. /\ disk \in [Places -> 0 .. MaxEdits + 1]
          /\ files \in [Places -> 1 .. MaxEdits + 1]
          /\ lockGen \in [Places -> 0 .. Cardinality(Tasks)]
      BY <2>1, <2>2 DEF Init
    <2>4. objects \in [Ids -> [place : Places, edition : 0 .. MaxEdits + 1, closed : BOOLEAN]]
      BY <2>1 DEF Init, Places
    <2>5. current \in Places
      BY DEF Init, Places
    <2>6. \A t \in Tasks : mutex = t <=> task[t].pc = "commit"
      BY <1>2, <1>3, NoneIsNoId
    <2> QED
      BY <1>1, <1>2, <1>3, <2>3, <2>4, <2>5, <2>6 DEF Typed
  <1>5. Dropped
    <2>1. \A p \in Places : lockGen[p] = 0
      BY DEF Init
    <2>2. {t \in Tasks : task[t].pc = "done"} = {}
      BY <1>2, <1>3
    <2> QED
      BY <2>1, <2>2, FS_EmptySet DEF Dropped
  <1>6. Locked /\ Owned /\ ClosedGoes
    BY <1>1, <1>2, <1>3 DEF Locked, Owned, ClosedGoes
  <1>7. Guarded
    BY <1>1, <1>2, <1>3
       DEF Guarded, OwnLock, OwnPlace, OnePair, InUse, IndexesCached, PurgesUncached, CacheFresh,
           CachedIn, Fetching
  <1> QED
    BY <1>1, <1>2, <1>4, <1>5, <1>6, <1>7 DEF IndInv

\* However many calls are under way: handlers have the shape their code gives them,
\* the locks exclude, an object of one call's own is nobody else's; and while no
\* call has strayed, every lock held is the project's, every searcher in use is of
\* the locked project, and, like what is cached, in the edition on disk, about to be
\* reset, or left behind by a reindex that failed.
THEOREM Invariant == Spec => []IndInv
  <1>1. IndInv /\ [Next]_vars => IndInv'
    BY CallStep, EditStep, StutterStep DEF Next, AllAnswered
  <1> QED
    BY <1>1, InitStep, PTL DEF Spec

-----------------------------------------------------------------------------
(* What a search may rely on.                                              *)

\* Two calls that rewrite one index would both hold its write lock.
LEMMA OneRewrites ==
    ASSUME Locked, OwnLock, NEW p \in Places
    PROVE  Cardinality(Rewriting(p)) <= 1
  <1>1. \A a, b \in Rewriting(p) : a = b
    BY Alone DEF Rewriting
  <1>2. CASE Rewriting(p) = {}
    BY <1>2, FS_EmptySet
  <1>3. CASE Rewriting(p) # {}
    <2>1. PICK a : Rewriting(p) = {a}
      BY <1>1, <1>3
    <2> QED
      BY <2>1, FS_Singleton
  <1> QED
    BY <1>2, <1>3

\* For any number of calls and projects: as long as every call works on a project
\* under that project's own lock and the cached searcher is the active project's, no
\* two calls rewrite one index, none is rewritten under a search of it, whatever a
\* search reads is the edition on disk, unless a reindex failed since its searcher was
\* made; and a searcher that was shut down stays cached only while a teardown is about to drop it (the handlers behind
\* search_code, index_directory, switch_project, clear_index and delete_project).
THEOREM ReadsConsistent == Spec => []ConsistentReads
  <1>1. IndInv => ConsistentReads
    <2> SUFFICES ASSUME IndInv
                 PROVE  ConsistentReads
      OBVIOUS
    <2>1. ASSUME ~strayed, NEW p \in Places
          PROVE  /\ Cardinality(Rewriting(p)) <= 1
                 /\ SearchingIn(p) # {} => Rewriting(p) = {}
                 /\ \A t \in SearchingIn(p) :
                       task[t].key = p => task[t].obj \in lapsed \/ objects[task[t].obj].edition = disk[p]
      <3>1. Locked /\ OwnLock /\ InUse /\ \A t \in Tasks : Shape(task[t])
        BY <2>1 DEF IndInv, Guarded
      <3>2. ASSUME NEW t \in SearchingIn(p)
            PROVE  /\ task[t].key = p /\ task[t].held = "read"
                   /\ task[t].obj \in lapsed \/ objects[task[t].obj].edition = disk[p]
        <4>1. Shape(task[t]) /\ t \in Tasks /\ task[t].pc = "searching" /\ objects[task[t].obj].place = p
          BY <3>1, <3>2 DEF SearchingIn
        <4>2. Using(task[t]) /\ task[t].held = "read"
          BY <4>1 DEF Using, Shape
        <4> QED
          BY <3>1, <4>1, <4>2 DEF InUse
      <3>3. SearchingIn(p) # {} => Rewriting(p) = {}
        <4>1. ASSUME NEW t \in SearchingIn(p), NEW w \in Rewriting(p)
              PROVE  FALSE
          <5>1. /\ t \in Tasks /\ w \in Tasks
                /\ task[w].held = "write" /\ task[w].key = p /\ task[t].held = "read" /\ task[t].key = p
            BY <3>2, <4>1 DEF SearchingIn, Rewriting
          <5> QED
            BY <3>1, <5>1, Alone
        <4> QED
          BY <4>1
      <3> QED
        BY <3>1, <3>2, <3>3, OneRewrites
    <2> QED
      BY <2>1 DEF IndInv, ConsistentReads, ClosedGoes
  <1> QED
    BY <1>1, Invariant, PTL

\* However many calls wait for the mutation lock, for projects' locks and for
\* state._lock: unless all are answered, one of them waits for nothing.  Who holds
\* one of these locks waits at most for a later one in this order, and who holds
\* state._lock waits for none (with_mutation_lock, get_reindex_rwlock, get_searcher).
THEOREM WaitsEnd == Spec => []NoCircle
  <1>1. IndInv => NoCircle
    <2> SUFFICES ASSUME IndInv, NEW a \in Tasks, Unanswered(a),
                        \A t \in Tasks : Unanswered(t) => Blocked(t)
                 PROVE  FALSE
      BY DEF NoCircle
    <2>1. \A t \in Tasks : Shape(task[t]) /\ task[t] \in Calls /\ (mutex = t <=> task[t].pc = "commit")
      BY DEF IndInv, Typed
    <2>2. mutex = None
      <3>1. \A t \in Tasks : task[t].pc # "commit"
        BY DEF Unanswered, Blocked
      <3> QED
        BY <2>1, <3>1 DEF IndInv, Typed
    <2>3. \A t \in Tasks : task[t].pc \in {"idle", "done", "wantMutation", "wantRead", "wantWrite"}
      BY <2>2 DEF Unanswered, Blocked
    <2>4. \A t \in Tasks : task[t].held = "none"
      BY <2>1, <2>3 DEF Shape
    <2>5. \A t \in Tasks : task[t].pc # "wantWrite"
      BY <2>4 DEF Unanswered, Blocked, CanWrite, Holding
    <2>6. \A t \in Tasks : task[t].pc # "wantRead"
      BY <2>4, <2>5 DEF Unanswered, Blocked, CanRead, Holding
    <2>7. Mutating = {}
      BY <2>3, <2>5, <2>6 DEF Mutating, Mutators, Unanswered, Shape
    <2> QED
      BY <2>3, <2>5, <2>6, <2>7 DEF Unanswered, Blocked
  <1> QED
    BY <1>1, Invariant, PTL
===============================================================================

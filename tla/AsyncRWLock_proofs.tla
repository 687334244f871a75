-------------------------- MODULE AsyncRWLock_proofs --------------------------
(***************************************************************************)
(* Theorems about AsyncRWLock, for any finite set of searches and          *)
(* reindexes and any subset of them that may be cancelled.                 *)
(*                                                                         *)
(* The argument: readers, writer and writersWaiting count the tasks that   *)
(* are reading, writing and queued to write (CountersAgree).  A step moves *)
(* one task, so each set gains or loses one element, and the counters move *)
(* with it.  Mutual exclusion and the refinement then read the counters.   *)
(***************************************************************************)
EXTENDS AsyncRWLock, FiniteSetTheorems, SequenceTheorems, TLAPS

-----------------------------------------------------------------------------
\* The tasks at one program point are finitely many, and they change by the
\* one task that moves.
LEMMA AtFinite ==
    ASSUME NEW x
    PROVE  IsFiniteSet(At(x)) /\ Cardinality(At(x)) \in Nat
  <1>1. At(x) \subseteq Task
    BY DEF At
  <1> QED
    BY <1>1, TaskAssumption, FS_Subset, FS_CardinalityType

LEMMA AtMoves ==
    ASSUME TypeOK, NEW t \in Task, NEW w, Become(t, w), NEW x
    PROVE  /\ x = w => At(x)' = At(x) \cup {t}
           /\ x # w => At(x)' = At(x) \ {t}
           /\ t \in At(x) <=> pc[t] = x
  BY DEF At, Become, TypeOK

LEMMA CardMoves ==
    ASSUME TypeOK, NEW t \in Task, NEW w, Become(t, w), NEW x
    PROVE  Cardinality(At(x))' =
             Cardinality(At(x)) + (IF x = w /\ pc[t] # x THEN 1 ELSE 0)
                                - (IF x # w /\ pc[t] = x THEN 1 ELSE 0)
  <1>1. IsFiniteSet(At(x)) /\ Cardinality(At(x)) \in Nat
    BY AtFinite
  <1>2. t \in At(x) <=> pc[t] = x
    BY AtMoves
  <1>3. CASE x = w
    <2>1. At(x)' = At(x) \cup {t}
      BY <1>3, AtMoves
    <2>2. Cardinality(At(x) \cup {t}) =
            IF t \in At(x) THEN Cardinality(At(x)) ELSE Cardinality(At(x)) + 1
      BY <1>1, FS_AddElement
    <2> QED BY <1>1, <1>2, <1>3, <2>1, <2>2
  <1>4. CASE x # w
    <2>1. At(x)' = At(x) \ {t}
      BY <1>4, AtMoves
    <2>2. Cardinality(At(x) \ {t}) =
            IF t \in At(x) THEN Cardinality(At(x)) - 1 ELSE Cardinality(At(x))
      BY <1>1, FS_RemoveElement
    <2> QED BY <1>1, <1>2, <1>4, <2>1, <2>2
  <1> QED
    BY <1>3, <1>4

\* A task at x is counted there.
LEMMA AtCounted ==
    ASSUME NEW t \in Task, NEW x, pc[t] = x
    PROVE  Cardinality(At(x)) \in Nat /\ Cardinality(At(x)) >= 1
  <1>1. IsFiniteSet(At(x)) /\ Cardinality(At(x)) \in Nat /\ t \in At(x)
    BY AtFinite DEF At
  <1> QED BY <1>1, FS_EmptySet

-----------------------------------------------------------------------------
\* The inductive invariant: ranges and counts together, because a counter
\* that is decremented stays a natural number only if it counts somebody.
IInv == TypeOK /\ CountersAgree

LEMMA IInvInit == Init => IInv
  <1> SUFFICES ASSUME Init PROVE IInv
    OBVIOUS
  <1> USE DEF Init
  <1>1. pc \in [Task -> PC] BY DEF PC
  <1>2. readers \in Nat /\ writer \in BOOLEAN /\ writersWaiting \in Nat OBVIOUS
  <1>3. waiters \in Seq(Task) OBVIOUS
  <1>4. ready \in Seq(Task) OBVIOUS
  <1>5. cancelled \subseteq Task OBVIOUS
  <1>6. TypeOK BY <1>1, <1>2, <1>3, <1>4, <1>5 DEF TypeOK
  <1>7. At("reading") = {} /\ At("writing") = {} /\ At("waitWrite") = {}
    BY DEF At
  <1>8. CountersAgree
    BY <1>7, FS_EmptySet DEF CountersAgree
  <1> QED BY <1>6, <1>8 DEF IInv

\* The queues hold tasks, whatever a step does to them.
LEMMA QueueTypes ==
    ASSUME TypeOK, NEW t \in Task
    PROVE  /\ Append(ready, t) \in Seq(Task)
           /\ Append(waiters, t) \in Seq(Task)
           /\ ready # <<>> => Tail(ready) \in Seq(Task) /\ Tail(ready) \o waiters \in Seq(Task)
           /\ \A i \in 1..Len(waiters) : RemoveAt(waiters, i) \in Seq(Task)
  <1> USE DEF TypeOK
  <1>1. Append(ready, t) \in Seq(Task) /\ Append(waiters, t) \in Seq(Task)
    OBVIOUS
  <1>2. ready # <<>> => Tail(ready) \in Seq(Task) /\ Tail(ready) \o waiters \in Seq(Task)
    OBVIOUS
  <1>3. ASSUME NEW i \in 1..Len(waiters)
        PROVE  RemoveAt(waiters, i) \in Seq(Task)
    BY DEF RemoveAt
  <1> QED BY <1>1, <1>2, <1>3

-----------------------------------------------------------------------------
\* One step of one task keeps the invariant.
LEMMA IInvStep ==
    ASSUME IInv, NEW t \in Task,
           \/ CallRead(t) \/ CallWrite(t) \/ BodyEnds(t)
           \/ CancelPending(t) \/ CancelNotified(t) \/ Run(t)
    PROVE  IInv'
  <1> DEFINE R == Cardinality(At("reading"))
             W == Cardinality(At("writing"))
             Q == Cardinality(At("waitWrite"))
  <1>1. TypeOK /\ CountersAgree
    BY DEF IInv
  <1>2. R \in Nat /\ W \in Nat /\ Q \in Nat
    BY AtFinite
  <1>3. readers = R /\ writersWaiting = Q /\ W = (IF writer THEN 1 ELSE 0)
        /\ (writer => readers = 0)
        /\ \A u \in cancelled : pc[u] \in {"waitRead", "waitWrite"}
    BY <1>1 DEF CountersAgree
  <1>4. /\ pc[t] = "reading" => R >= 1
        /\ pc[t] = "writing" => W >= 1
        /\ pc[t] = "waitWrite" => Q >= 1
    BY AtCounted
  <1>5. ASSUME NEW w, Become(t, w)
        PROVE /\ R' = R + (IF w = "reading" /\ pc[t] # "reading" THEN 1 ELSE 0)
                         - (IF w # "reading" /\ pc[t] = "reading" THEN 1 ELSE 0)
              /\ W' = W + (IF w = "writing" /\ pc[t] # "writing" THEN 1 ELSE 0)
                         - (IF w # "writing" /\ pc[t] = "writing" THEN 1 ELSE 0)
              /\ Q' = Q + (IF w = "waitWrite" /\ pc[t] # "waitWrite" THEN 1 ELSE 0)
                         - (IF w # "waitWrite" /\ pc[t] = "waitWrite" THEN 1 ELSE 0)
    BY <1>1, <1>5, CardMoves
  <1>6. ASSUME NEW w \in PC, Become(t, w)
        PROVE pc' \in [Task -> PC] /\ pc'[t] = w /\ \A u \in Task \ {t} : pc'[u] = pc[u]
    BY <1>1, <1>6 DEF TypeOK, Become
  <1>7. pc \in [Task -> PC] /\ readers \in Nat /\ writersWaiting \in Nat
        /\ writer \in BOOLEAN /\ waiters \in Seq(Task) /\ ready \in Seq(Task)
        /\ cancelled \subseteq Task
    BY <1>1 DEF TypeOK
  <1>8. ASSUME pc' = pc
        PROVE R' = R /\ W' = W /\ Q' = Q
    BY <1>8 DEF At
  <1> HIDE DEF R, W, Q
  <1> USE DEF PC
  <1>10. SUFFICES /\ pc' \in [Task -> PC] /\ readers' \in Nat /\ writersWaiting' \in Nat
                  /\ writer' \in BOOLEAN /\ waiters' \in Seq(Task) /\ ready' \in Seq(Task)
                  /\ cancelled' \subseteq Task
                  /\ readers' = R' /\ writersWaiting' = Q' /\ W' = (IF writer' THEN 1 ELSE 0)
                  /\ (writer' => readers' = 0)
                  /\ \A u \in cancelled' : pc'[u] \in {"waitRead", "waitWrite"}
    BY DEF IInv, TypeOK, CountersAgree, R, W, Q
  <1>11. CASE CallRead(t)
    BY <1>1, <1>2, <1>3, <1>5, <1>6, <1>7, <1>11, QueueTypes DEF CallRead
  <1>12. CASE CallWrite(t)
    BY <1>1, <1>2, <1>3, <1>5, <1>6, <1>7, <1>12, QueueTypes DEF CallWrite
  <1>13. CASE BodyEnds(t)
    BY <1>1, <1>2, <1>3, <1>7, <1>8, <1>13, QueueTypes DEF BodyEnds
  <1>14. CASE CancelPending(t)
    BY <1>1, <1>2, <1>3, <1>7, <1>8, <1>14, QueueTypes DEF CancelPending
  <1>15. CASE CancelNotified(t)
    BY <1>1, <1>2, <1>3, <1>7, <1>8, <1>15 DEF CancelNotified
  <1>21. CASE ReadParks(t)
    <2>1. Become(t, "waitRead") /\ t \notin cancelled
      BY <1>21 DEF ReadParks, Park, Runs
    <2>2. waiters' \in Seq(Task) /\ ready' \in Seq(Task) /\ cancelled' = cancelled
      BY <1>1, <1>7, <1>21, QueueTypes DEF ReadParks, Park, Runs
    <2>3. pc' \in [Task -> PC] /\ pc'[t] = "waitRead" /\ \A u \in Task \ {t} : pc'[u] = pc[u]
      BY <2>1, <1>6
    <2>4. \A u \in cancelled' : pc'[u] \in {"waitRead", "waitWrite"}
      BY <2>1, <2>2, <2>3, <1>3, <1>7
    <2>5. R' = R /\ W' = W /\ Q' = Q
      BY <2>1, <1>2, <1>3, <1>5, <1>21 DEF ReadParks, Park, Runs
    <2>6. /\ readers' \in Nat /\ writersWaiting' \in Nat /\ writer' \in BOOLEAN
          /\ readers' = R' /\ writersWaiting' = Q' /\ W' = (IF writer' THEN 1 ELSE 0)
          /\ (writer' => readers' = 0)
      BY <2>5, <1>2, <1>3, <1>4, <1>7, <1>21 DEF ReadParks, Park, Runs
    <2> QED BY <2>2, <2>3, <2>4, <2>6, <1>7
  <1>22. CASE ReadStarts(t)
    <2>1. Become(t, "reading") /\ t \notin cancelled
      BY <1>22 DEF ReadStarts, Proceed, Runs, ReaderBlocked
    <2>2. waiters' \in Seq(Task) /\ ready' \in Seq(Task) /\ cancelled' = cancelled
      BY <1>1, <1>7, <1>22, QueueTypes DEF ReadStarts, Proceed, Runs, ReaderBlocked
    <2>3. pc' \in [Task -> PC] /\ pc'[t] = "reading" /\ \A u \in Task \ {t} : pc'[u] = pc[u]
      BY <2>1, <1>6
    <2>4. \A u \in cancelled' : pc'[u] \in {"waitRead", "waitWrite"}
      BY <2>1, <2>2, <2>3, <1>3, <1>7
    <2>5. R' = R + 1 /\ W' = W /\ Q' = Q
      BY <2>1, <1>2, <1>3, <1>5, <1>22 DEF ReadStarts, Proceed, Runs, ReaderBlocked
    <2>6. /\ readers' \in Nat /\ writersWaiting' \in Nat /\ writer' \in BOOLEAN
          /\ readers' = R' /\ writersWaiting' = Q' /\ W' = (IF writer' THEN 1 ELSE 0)
          /\ (writer' => readers' = 0)
      BY <2>5, <1>2, <1>3, <1>4, <1>7, <1>22 DEF ReadStarts, Proceed, Runs, ReaderBlocked
    <2> QED BY <2>2, <2>3, <2>4, <2>6, <1>7
  <1>23. CASE ReadEnds(t)
    <2>1. Become(t, "idle") /\ t \notin cancelled
      BY <1>23 DEF ReadEnds, Release, Runs
    <2>2. waiters' \in Seq(Task) /\ ready' \in Seq(Task) /\ cancelled' = cancelled
      BY <1>1, <1>7, <1>23, QueueTypes DEF ReadEnds, Release, Runs
    <2>3. pc' \in [Task -> PC] /\ pc'[t] = "idle" /\ \A u \in Task \ {t} : pc'[u] = pc[u]
      BY <2>1, <1>6
    <2>4. \A u \in cancelled' : pc'[u] \in {"waitRead", "waitWrite"}
      BY <2>1, <2>2, <2>3, <1>3, <1>7
    <2>5. R' = R - 1 /\ W' = W /\ Q' = Q
      BY <2>1, <1>2, <1>3, <1>5, <1>23 DEF ReadEnds, Release, Runs
    <2>6. /\ readers' \in Nat /\ writersWaiting' \in Nat /\ writer' \in BOOLEAN
          /\ readers' = R' /\ writersWaiting' = Q' /\ W' = (IF writer' THEN 1 ELSE 0)
          /\ (writer' => readers' = 0)
      BY <2>5, <1>2, <1>3, <1>4, <1>7, <1>23 DEF ReadEnds, Release, Runs
    <2> QED BY <2>2, <2>3, <2>4, <2>6, <1>7
  <1>24. CASE WriteParks(t)
    <2>1. Become(t, "waitWrite") /\ t \notin cancelled
      BY <1>24 DEF WriteParks, Park, Runs
    <2>2. waiters' \in Seq(Task) /\ ready' \in Seq(Task) /\ cancelled' = cancelled
      BY <1>1, <1>7, <1>24, QueueTypes DEF WriteParks, Park, Runs
    <2>3. pc' \in [Task -> PC] /\ pc'[t] = "waitWrite" /\ \A u \in Task \ {t} : pc'[u] = pc[u]
      BY <2>1, <1>6
    <2>4. \A u \in cancelled' : pc'[u] \in {"waitRead", "waitWrite"}
      BY <2>1, <2>2, <2>3, <1>3, <1>7
    <2>5. R' = R /\ W' = W /\ Q' = Q + (IF pc[t] = "enterWrite" THEN 1 ELSE 0)
      BY <2>1, <1>2, <1>3, <1>5, <1>24 DEF WriteParks, Park, Runs
    <2>6. /\ readers' \in Nat /\ writersWaiting' \in Nat /\ writer' \in BOOLEAN
          /\ readers' = R' /\ writersWaiting' = Q' /\ W' = (IF writer' THEN 1 ELSE 0)
          /\ (writer' => readers' = 0)
      BY <2>5, <1>2, <1>3, <1>4, <1>7, <1>24 DEF WriteParks, Park, Runs
    <2> QED BY <2>2, <2>3, <2>4, <2>6, <1>7
  <1>25. CASE WriteStarts(t)
    <2>1. Become(t, "writing") /\ t \notin cancelled
      BY <1>25 DEF WriteStarts, Proceed, Runs, WriterBlocked
    <2>2. waiters' \in Seq(Task) /\ ready' \in Seq(Task) /\ cancelled' = cancelled
      BY <1>1, <1>7, <1>25, QueueTypes DEF WriteStarts, Proceed, Runs, WriterBlocked
    <2>3. pc' \in [Task -> PC] /\ pc'[t] = "writing" /\ \A u \in Task \ {t} : pc'[u] = pc[u]
      BY <2>1, <1>6
    <2>4. \A u \in cancelled' : pc'[u] \in {"waitRead", "waitWrite"}
      BY <2>1, <2>2, <2>3, <1>3, <1>7
    <2>5. R' = R /\ W' = W + 1 /\ Q' = Q - (IF pc[t] = "waitWrite" THEN 1 ELSE 0)
      BY <2>1, <1>2, <1>3, <1>5, <1>25 DEF WriteStarts, Proceed, Runs, WriterBlocked
    <2>6. /\ readers' \in Nat /\ writersWaiting' \in Nat /\ writer' \in BOOLEAN
          /\ readers' = R' /\ writersWaiting' = Q' /\ W' = (IF writer' THEN 1 ELSE 0)
          /\ (writer' => readers' = 0)
      BY <2>5, <1>2, <1>3, <1>4, <1>7, <1>25 DEF WriteStarts, Proceed, Runs, WriterBlocked
    <2> QED BY <2>2, <2>3, <2>4, <2>6, <1>7
  <1>26. CASE WriteEnds(t)
    <2>1. Become(t, "idle") /\ t \notin cancelled
      BY <1>26 DEF WriteEnds, Release, Runs
    <2>2. waiters' \in Seq(Task) /\ ready' \in Seq(Task) /\ cancelled' = cancelled
      BY <1>1, <1>7, <1>26, QueueTypes DEF WriteEnds, Release, Runs
    <2>3. pc' \in [Task -> PC] /\ pc'[t] = "idle" /\ \A u \in Task \ {t} : pc'[u] = pc[u]
      BY <2>1, <1>6
    <2>4. \A u \in cancelled' : pc'[u] \in {"waitRead", "waitWrite"}
      BY <2>1, <2>2, <2>3, <1>3, <1>7
    <2>5. R' = R /\ W' = W - 1 /\ Q' = Q
      BY <2>1, <1>2, <1>5, <1>26 DEF WriteEnds
    <2>6. /\ readers' \in Nat /\ writersWaiting' \in Nat /\ writer' \in BOOLEAN
          /\ readers' = R' /\ writersWaiting' = Q' /\ W' = (IF writer' THEN 1 ELSE 0)
          /\ (writer' => readers' = 0)
      <3>1. readers' = readers /\ writersWaiting' = writersWaiting
        BY <1>26 DEF WriteEnds
      <3>2. writer' = FALSE
        BY <1>26 DEF WriteEnds
      <3>3. ~writer'
        BY <3>2, Zenon
      <3>4. W >= 1
        BY <1>4, <1>26 DEF WriteEnds
      <3>5. W = 1
        BY <3>4, <1>2, <1>3
      <3>6. W' = 0
        BY <3>5, <2>5
      <3>7. writer' \in BOOLEAN
        BY <3>2
      <3> QED BY <2>5, <3>1, <3>3, <3>6, <3>7, <1>2, <1>3, <1>7
    <2> QED BY <2>2, <2>3, <2>4, <2>6, <1>7
  <1>27. CASE WaitCancelled(t)
    <2>1. Become(t, "idle") /\ t \in cancelled
      BY <1>27 DEF WaitCancelled, Runs
    <2>2. waiters' \in Seq(Task) /\ ready' \in Seq(Task) /\ cancelled' = cancelled \ {t}
      BY <1>1, <1>7, <1>27, QueueTypes DEF WaitCancelled, Runs
    <2>3. pc' \in [Task -> PC] /\ pc'[t] = "idle" /\ \A u \in Task \ {t} : pc'[u] = pc[u]
      BY <2>1, <1>6
    <2>4. \A u \in cancelled' : pc'[u] \in {"waitRead", "waitWrite"}
      BY <2>1, <2>2, <2>3, <1>3, <1>7
    <2>5. R' = R /\ W' = W /\ Q' = Q - (IF pc[t] = "waitWrite" THEN 1 ELSE 0)
      BY <2>1, <1>2, <1>3, <1>5, <1>27 DEF WaitCancelled, Runs
    <2>6. /\ readers' \in Nat /\ writersWaiting' \in Nat /\ writer' \in BOOLEAN
          /\ readers' = R' /\ writersWaiting' = Q' /\ W' = (IF writer' THEN 1 ELSE 0)
          /\ (writer' => readers' = 0)
      BY <2>5, <1>2, <1>3, <1>4, <1>7, <1>27 DEF WaitCancelled, Runs
    <2> QED BY <2>2, <2>3, <2>4, <2>6, <1>7
  <1> QED
    BY <1>11, <1>12, <1>13, <1>14, <1>15, <1>21, <1>22, <1>23, <1>24, <1>25, <1>26, <1>27 DEF Run

LEMMA IInvStutter == IInv /\ UNCHANGED vars => IInv'
  BY DEF IInv, TypeOK, CountersAgree, At, vars

LEMMA IInvAlways == Spec => []IInv
  <1>1. IInv /\ [Next]_vars => IInv'
    BY IInvStep, IInvStutter DEF Next
  <1> QED
    BY <1>1, IInvInit, PTL DEF Spec

-----------------------------------------------------------------------------
\* Type correctness of read(), write() and of the queues they wait in.
THEOREM TypeCorrect == Spec => []TypeOK
  <1>1. IInv => TypeOK
    BY DEF IInv
  <1> QED
    BY <1>1, IInvAlways, PTL

\* The counters of _AsyncRWLock count the tasks they are meant to count, in
\* every interleaving of arrivals, wake-ups and cancellations.
THEOREM CountersCorrect == Spec => []CountersAgree
  <1>1. IInv => CountersAgree
    BY DEF IInv
  <1> QED
    BY <1>1, IInvAlways, PTL

LEMMA ExclusionFromCounters == IInv => MutualExclusion
  <1> SUFFICES ASSUME IInv, NEW t \in At("writing")
               PROVE  At("reading") = {} /\ At("writing") = {t}
    BY DEF MutualExclusion
  <1>1. /\ readers = Cardinality(At("reading"))
        /\ Cardinality(At("writing")) = (IF writer THEN 1 ELSE 0)
        /\ writer => readers = 0
    BY DEF IInv, CountersAgree
  <1>2. t \in Task /\ pc[t] = "writing"
    BY DEF At
  <1>3. IsFiniteSet(At("reading")) /\ IsFiniteSet(At("writing"))
    BY AtFinite
  <1>4. Cardinality(At("writing")) \in Nat /\ Cardinality(At("writing")) >= 1
    BY <1>2, AtCounted
  <1>5. writer
    BY <1>1, <1>4
  <1>6. At("reading") = {}
    BY <1>1, <1>3, <1>5, FS_EmptySet
  <1>7. At("writing") = {t}
    <2>1. Cardinality(At("writing") \ {t}) = Cardinality(At("writing")) - 1
      BY <1>3, FS_RemoveElement
    <2>2. Cardinality(At("writing") \ {t}) = 0
      BY <2>1, <1>1, <1>5
    <2>3. At("writing") \ {t} = {}
      BY <2>2, <1>3, FS_RemoveElement, FS_EmptySet
    <2> QED BY <2>3
  <1> QED BY <1>6, <1>7

\* A reindex under write() never overlaps a search under read(), nor another
\* reindex of the same project.
THEOREM Exclusive == Spec => []MutualExclusion
  BY ExclusionFromCounters, IInvAlways, PTL

-----------------------------------------------------------------------------
\* One step of the lock is a step of ReaderWriter or changes nothing there.
LEMMA StepRefines ==
    ASSUME IInv, NEW t \in Task,
           \/ CallRead(t) \/ CallWrite(t) \/ BodyEnds(t)
           \/ CancelPending(t) \/ CancelNotified(t) \/ Run(t)
    PROVE  [Abstract!Next]_(Abstract!vars)
  <1> DEFINE R == At("reading")
             W == At("writing")
             Q == At("waitWrite")
  <1>1. TypeOK /\ CountersAgree /\ MutualExclusion
    BY ExclusionFromCounters DEF IInv
  <1>2. IsFiniteSet(R) /\ IsFiniteSet(W) /\ IsFiniteSet(Q)
    BY AtFinite
  <1>3. /\ writer <=> W # {}
        /\ readers > 0 <=> R # {}
        /\ writersWaiting > 0 <=> Q # {}
    <2>1. readers = Cardinality(R) /\ writersWaiting = Cardinality(Q)
          /\ Cardinality(W) = (IF writer THEN 1 ELSE 0)
      BY <1>1 DEF CountersAgree
    <2>2. /\ Cardinality(R) \in Nat /\ Cardinality(Q) \in Nat
          /\ Cardinality(R) = 0 <=> R = {}
          /\ Cardinality(Q) = 0 <=> Q = {}
          /\ Cardinality(W) = 0 <=> W = {}
      BY <1>2, FS_EmptySet, FS_CardinalityType
    <2> HIDE DEF R, W, Q
    <2>3. readers > 0 <=> R # {}
      BY <2>1, <2>2
    <2>4. writersWaiting > 0 <=> Q # {}
      BY <2>1, <2>2
    <2>5. writer <=> W # {}
      BY <2>1, <2>2
    <2> QED BY <2>3, <2>4, <2>5
  <1>4. ASSUME NEW w, Become(t, w)
        PROVE  /\ R' = IF w = "reading" THEN R \cup {t} ELSE R \ {t}
               /\ W' = IF w = "writing" THEN W \cup {t} ELSE W \ {t}
               /\ Q' = IF w = "waitWrite" THEN Q \cup {t} ELSE Q \ {t}
    BY <1>1, <1>4, AtMoves
  <1>5. /\ t \in R <=> pc[t] = "reading"
        /\ t \in W <=> pc[t] = "writing"
        /\ t \in Q <=> pc[t] = "waitWrite"
    BY DEF At
  <1>6. t \in W => W = {t}
    BY <1>1 DEF MutualExclusion
  <1>7. ASSUME pc' = pc
        PROVE  R' = R /\ W' = W /\ Q' = Q
    BY <1>7 DEF At
  <1>9. ASSUME NEW w, Become(t, w), w \notin {"reading", "writing", "waitWrite"}
        PROVE  R' = R \ {t} /\ W' = W \ {t} /\ Q' = Q \ {t}
    BY <1>4, <1>9
  <1>10. ASSUME NEW w, Become(t, w), w \notin {"reading", "writing", "waitWrite"},
                t \notin R, t \notin W, t \notin Q
         PROVE  R' = R /\ W' = W /\ Q' = Q
    BY <1>9, <1>10
  <1>8. SUFFICES \/ R' = R /\ W' = W /\ Q' = Q
                 \/ Abstract!AdmitReader(t) \/ Abstract!EndRead(t)
                 \/ Abstract!AskToWrite(t) \/ Abstract!AdmitWriter(t)
                 \/ Abstract!EndWrite(t) \/ Abstract!GiveUp(t)
    BY DEF Abstract!Next, Abstract!vars
  <1> HIDE DEF R, W, Q
  <1>11. CASE CallRead(t)
    <2>1. Become(t, "enterRead") /\ t \notin R /\ t \notin W /\ t \notin Q
      BY <1>5, <1>11 DEF CallRead
    <2> QED BY <2>1, <1>10
  <1>12. CASE CallWrite(t)
    <2>1. Become(t, "enterWrite") /\ t \notin R /\ t \notin W /\ t \notin Q
      BY <1>5, <1>12 DEF CallWrite
    <2> QED BY <2>1, <1>10
  <1>13. CASE BodyEnds(t) \/ CancelPending(t) \/ CancelNotified(t)
    BY <1>7, <1>13 DEF BodyEnds, CancelPending, CancelNotified
  <1>21. CASE ReadParks(t)
    <2>1. Become(t, "waitRead") /\ t \notin R /\ t \notin W /\ t \notin Q
      BY <1>5, <1>21 DEF ReadParks, Park
    <2> QED BY <2>1, <1>10
  <1>22. CASE ReadStarts(t)
    <2>1. R' = R \cup {t} /\ W' = W \ {t} /\ Q' = Q \ {t} /\ t \notin R
      BY <1>4, <1>5, <1>22 DEF ReadStarts, Proceed
    <2>2. W = {} /\ Q = {}
      BY <1>3, <1>22 DEF ReadStarts, ReaderBlocked
    <2> QED BY <2>1, <2>2 DEF Abstract!AdmitReader, R, W, Q
  <1>23. CASE ReadEnds(t)
    <2>1. R' = R \ {t} /\ W' = W \ {t} /\ Q' = Q \ {t} /\ t \in R /\ t \notin W /\ t \notin Q
      BY <1>4, <1>5, <1>23 DEF ReadEnds, Release
    <2> QED BY <2>1 DEF Abstract!EndRead, R, W, Q
  <1>24. CASE WriteParks(t)
    <2>1. R' = R /\ W' = W /\ Q' = Q \cup {t}
      BY <1>4, <1>5, <1>24 DEF WriteParks, Park
    <2>2. R # {} \/ W # {}
      BY <1>3, <1>24 DEF WriteParks, WriterBlocked
    <2>3. CASE t \in Q
      BY <2>1, <2>3
    <2>4. CASE t \notin Q
      BY <2>1, <2>2, <2>4 DEF Abstract!AskToWrite, R, W, Q
    <2> QED BY <2>3, <2>4
  <1>25. CASE WriteStarts(t)
    <2>1. R' = R \ {t} /\ W' = W \cup {t} /\ Q' = Q \ {t}
      BY <1>4, <1>25 DEF WriteStarts, Proceed
    <2>2. R = {} /\ W = {}
      BY <1>1, <1>3, <1>25 DEF WriteStarts, WriterBlocked, TypeOK
    <2> QED BY <2>1, <2>2 DEF Abstract!AdmitWriter, R, W, Q
  <1>26. CASE WriteEnds(t)
    <2>1. R' = R \ {t} /\ W' = W \ {t} /\ Q' = Q \ {t} /\ t \in W /\ t \notin R /\ t \notin Q
      BY <1>4, <1>5, <1>26 DEF WriteEnds, Release
    <2> QED BY <2>1, <1>6 DEF Abstract!EndWrite, R, W, Q
  <1>27. CASE WaitCancelled(t)
    <2>1. pc[t] \in {"waitRead", "waitWrite"}
      BY <1>1, <1>27 DEF WaitCancelled, CountersAgree
    <2>2. R' = R /\ W' = W /\ Q' = Q \ {t}
      <3>1. t \notin R /\ t \notin W
        BY <2>1, <1>5
      <3>2. Become(t, "idle")
        BY <1>27 DEF WaitCancelled
      <3> QED BY <3>1, <3>2, <1>9
    <2>3. CASE t \in Q
      BY <2>2, <2>3 DEF Abstract!GiveUp, R, W, Q
    <2>4. CASE t \notin Q
      BY <2>2, <2>4
    <2> QED BY <2>3, <2>4
  <1> QED
    BY <1>11, <1>12, <1>13, <1>21, <1>22, <1>23, <1>24, <1>25, <1>26, <1>27 DEF Run

\* _AsyncRWLock implements ReaderWriter: admissions never overlap a writer
\* and no search is admitted past a queued reindex (ADR-0008).
THEOREM Refinement == Spec => RefinesReaderWriter
  <1>1. Init => Abstract!Init
    BY DEF Init, Abstract!Init, At
  <1>2. IInv /\ [Next]_vars => [Abstract!Next]_(Abstract!vars)
    <2>1. IInv /\ Next => [Abstract!Next]_(Abstract!vars)
      BY StepRefines DEF Next
    <2>2. UNCHANGED vars => UNCHANGED Abstract!vars
      BY DEF vars, Abstract!vars, At
    <2> QED BY <2>1, <2>2
  <1> QED
    BY <1>1, <1>2, IInvAlways, PTL DEF Spec, RefinesReaderWriter, Abstract!Spec

-----------------------------------------------------------------------------
\* No lost wake-up, when no reindex is cancelled while it is queued (the run
\* rwlock_cancelled_writer shows that otherwise one can be lost).  Every task
\* that waits is in a queue; and while the lock is free no reindex sleeps, and a
\* search sleeps only for a reindex that is queued, which is then in `ready`.
Queued == \A t \in Task : pc[t] \in {"waitRead", "waitWrite"} => t \in Range(waiters) \cup Range(ready)
Roles  == cancelled \subseteq Cancellable
          /\ \A t \in Task : pc[t] \in {"enterWrite", "waitWrite"} => t \in Writer
FreeLock ==
    ~writer /\ readers = 0 =>
        /\ \A t \in Range(waiters) : pc[t] # "waitWrite"
        /\ waiters # <<>> => writersWaiting > 0
WakeInv == Queued /\ Roles /\ FreeLock

LEMMA RangeFacts ==
    ASSUME NEW S, NEW s \in Seq(S), NEW t \in S
    PROVE  /\ Range(Append(s, t)) = Range(s) \cup {t}
           /\ s # <<>> => Range(s) = {Head(s)} \cup Range(Tail(s))
           /\ \A r \in Seq(S) : Range(s \o r) = Range(s) \cup Range(r)
           /\ \A i \in 1..Len(s) : /\ Range(s) \subseteq Range(RemoveAt(s, i)) \cup {s[i]}
                                   /\ Range(RemoveAt(s, i)) \subseteq Range(s)
                                   /\ s # <<>>
  <1>1. \A r \in Seq(S) : Range(s \o r) = Range(s) \cup Range(r)
    BY RangeConcatenation
  <1>2. Range(Append(s, t)) = Range(s) \cup {t}
    <2>1. /\ Append(s, t) \in Seq(S) /\ Len(s) \in Nat /\ Len(Append(s, t)) = Len(s) + 1
          /\ \A i \in 1..Len(s) : Append(s, t)[i] = s[i]
          /\ Append(s, t)[Len(s) + 1] = t
      BY AppendProperties, LenProperties
    <2>2. /\ Range(s) = {s[i] : i \in 1..Len(s)}
          /\ Range(Append(s, t)) = {Append(s, t)[i] : i \in 1..Len(Append(s, t))}
      BY <2>1, RangeEquality
    <2>3. ASSUME NEW i \in 1..Len(Append(s, t)) PROVE Append(s, t)[i] \in Range(s) \cup {t}
      BY <2>1, <2>2
    <2>4. ASSUME NEW i \in 1..Len(s) PROVE s[i] \in Range(Append(s, t))
      <3>1. i \in 1..Len(Append(s, t)) /\ Append(s, t)[i] = s[i]
        BY <2>1
      <3> QED BY <2>2, <3>1
    <2>5. t \in Range(Append(s, t))
      <3>1. Len(s) + 1 \in 1..Len(Append(s, t))
        BY <2>1
      <3> QED BY <2>1, <2>2, <3>1
    <2> QED BY <2>2, <2>3, <2>4, <2>5
  <1>3. ASSUME s # <<>> PROVE Range(s) = {Head(s)} \cup Range(Tail(s))
    <2>1. /\ Len(s) \in Nat \ {0} /\ Len(Tail(s)) = Len(s) - 1 /\ Head(s) = s[1]
          /\ \A i \in 1..Len(Tail(s)) : Tail(s)[i] = s[i + 1]
      BY <1>3, EmptySeq, HeadTailProperties
    <2>2. Range(s) = {s[i] : i \in 1..Len(s)} /\ Range(Tail(s)) = {Tail(s)[i] : i \in 1..Len(Tail(s))}
      BY <1>3, RangeEquality, HeadTailProperties
    <2>3. ASSUME NEW i \in 1..Len(s) PROVE s[i] \in {Head(s)} \cup Range(Tail(s))
      <3>1. i = 1 \/ (i - 1 \in 1..Len(Tail(s)) /\ Tail(s)[i - 1] = s[i])
        BY <2>1
      <3> QED BY <2>1, <2>2, <3>1
    <2>4. ASSUME NEW i \in 1..Len(Tail(s)) PROVE Tail(s)[i] \in Range(s)
      BY <2>1, <2>2
    <2> QED BY <2>1, <2>2, <2>3, <2>4
  <1>4. ASSUME NEW i \in 1..Len(s)
        PROVE  /\ Range(s) \subseteq Range(RemoveAt(s, i)) \cup {s[i]}
               /\ Range(RemoveAt(s, i)) \subseteq Range(s)
               /\ s # <<>>
    <2> DEFINE before == SubSeq(s, 1, i - 1)
               after == SubSeq(s, i + 1, Len(s))
    <2>1. Len(s) \in Nat /\ s # <<>> /\ \A j \in 1..Len(s) : s[j] \in S
      BY EmptySeq, LenProperties
    <2>2. /\ before \in Seq(S) /\ Len(before) = i - 1
          /\ \A j \in 1..i - 1 : before[j] = s[j]
      BY <2>1, SubSeqProperties
    <2>3. /\ after \in Seq(S) /\ Len(after) = Len(s) - i
          /\ \A j \in 1..Len(s) - i : after[j] = s[i + j]
      BY <2>1, SubSeqProperties
    <2>4. Range(RemoveAt(s, i)) = Range(before) \cup Range(after)
      BY <2>2, <2>3, RangeConcatenation DEF RemoveAt
    <2>5. /\ Range(s) = {s[j] : j \in 1..Len(s)}
          /\ Range(before) = {before[j] : j \in 1..Len(before)}
          /\ Range(after) = {after[j] : j \in 1..Len(after)}
      BY <2>2, <2>3, RangeEquality
    <2> HIDE DEF before, after
    <2>6. ASSUME NEW j \in 1..Len(s), j # i PROVE s[j] \in Range(before) \cup Range(after)
      <3>1. CASE j < i
        BY <2>1, <2>2, <2>5, <3>1
      <3>2. CASE j > i
        <4>1. j - i \in 1..Len(s) - i /\ after[j - i] = s[j]
          BY <2>1, <2>3, <3>2
        <4> QED BY <2>3, <2>5, <4>1
      <3> QED BY <2>1, <2>6, <3>1, <3>2
    <2>7. Range(before) \subseteq Range(s) /\ Range(after) \subseteq Range(s)
      <3>1. ASSUME NEW j \in 1..Len(before) PROVE before[j] \in Range(s)
        BY <2>1, <2>2, <2>5
      <3>2. ASSUME NEW j \in 1..Len(after) PROVE after[j] \in Range(s)
        BY <2>1, <2>3, <2>5
      <3> QED BY <2>5, <3>1, <3>2
    <2> QED BY <2>1, <2>4, <2>5, <2>6, <2>7
  <1> QED BY <1>1, <1>2, <1>3, <1>4

LEMMA WakeStep ==
    ASSUME Cancellable \cap Writer = {}, IInv, WakeInv, NEW t \in Task,
           \/ CallRead(t) \/ CallWrite(t) \/ BodyEnds(t)
           \/ CancelPending(t) \/ CancelNotified(t) \/ Run(t)
    PROVE  WakeInv'
  <1> USE DEF WakeInv, Queued, Roles, FreeLock
  <1>1. /\ pc \in [Task -> PC] /\ readers \in Nat /\ writersWaiting \in Nat
        /\ waiters \in Seq(Task) /\ ready \in Seq(Task)
    BY DEF IInv, TypeOK
  <1>2. \A u \in cancelled : pc[u] = "waitRead"
    BY DEF IInv, TypeOK, CountersAgree
  <1>3. ASSUME NEW w, Become(t, w)
        PROVE  pc'[t] = w /\ \A u \in Task \ {t} : pc'[u] = pc[u]
    BY <1>1, <1>3 DEF Become
  <1>4. ready # <<>> => Range(ready) = {Head(ready)} \cup Range(Tail(ready)) /\ Tail(ready) \in Seq(Task)
    BY <1>1, RangeFacts, HeadTailProperties
  <1>13. /\ Range(Append(ready, t)) = Range(ready) \cup {t}
         /\ Range(Append(waiters, t)) = Range(waiters) \cup {t}
         /\ Range(waiters) \subseteq Task
    BY <1>1, RangeFacts, RangeOfSeq
  <1>5. CASE CallRead(t) \/ CallWrite(t)
    <2>1. /\ Range(ready') = Range(ready) \cup {t} /\ waiters' = waiters /\ cancelled' = cancelled
          /\ writer' = writer /\ readers' = readers /\ writersWaiting' = writersWaiting
      BY <1>5, <1>13 DEF CallRead, CallWrite
    <2>2. /\ pc'[t] \in {"enterRead", "enterWrite"} /\ (pc'[t] = "enterWrite" => t \in Writer)
          /\ \A u \in Task \ {t} : pc'[u] = pc[u]
      BY <1>3, <1>5 DEF CallRead, CallWrite
    <2> QED BY <1>13, <2>1, <2>2
  <1>6. CASE BodyEnds(t)
    <2>1. Range(ready') = Range(ready) \cup {t} /\ waiters' = waiters
      BY <1>1, <1>6, RangeFacts DEF BodyEnds
    <2> QED BY <1>6, <2>1 DEF BodyEnds
  <1>7. CASE CancelPending(t)
    <2>1. /\ Range(ready') = Range(ready) \cup {t} /\ waiters # <<>>
          /\ Range(waiters) \subseteq Range(waiters') \cup {t} /\ Range(waiters') \subseteq Range(waiters)
      BY <1>1, <1>7, RangeFacts DEF CancelPending
    <2> QED BY <1>7, <2>1 DEF CancelPending
  <1>8. CASE CancelNotified(t)
    BY <1>8 DEF CancelNotified
  <1>9. CASE ReadParks(t) \/ WriteParks(t)
    <2>1. /\ Range(waiters') = Range(waiters) \cup {t}
          /\ Range(ready) = {t} \cup Range(ready')
      BY <1>4, <1>9, <1>13 DEF ReadParks, WriteParks, Park, Runs
    <2>2. CASE ReadParks(t)
      <3>1. pc'[t] = "waitRead" /\ \A u \in Task \ {t} : pc'[u] = pc[u]
        BY <1>3, <2>2 DEF ReadParks, Park
      <3>2. ~writer /\ readers = 0 => writersWaiting > 0
        BY <1>1, <2>2 DEF ReadParks, ReaderBlocked
      <3>3. /\ writer' = writer /\ readers' = readers /\ writersWaiting' = writersWaiting
            /\ cancelled' = cancelled
        BY <2>2 DEF ReadParks, Park
      <3> QED BY <1>13, <2>1, <3>1, <3>2, <3>3
    <2>3. CASE WriteParks(t)
      <3>1. pc'[t] = "waitWrite" /\ \A u \in Task \ {t} : pc'[u] = pc[u]
        BY <1>3, <2>3 DEF WriteParks, Park
      <3>2. writer \/ readers # 0
        BY <1>1, <2>3 DEF WriteParks, WriterBlocked
      <3> QED BY <2>1, <2>3, <3>1, <3>2 DEF WriteParks, Park
    <2> QED BY <1>9, <2>2, <2>3
  <1>10. CASE ReadStarts(t) \/ WriteStarts(t)
    <2>1. /\ Range(ready) = {t} \cup Range(ready') /\ waiters' = waiters /\ cancelled' = cancelled
          /\ pc'[t] \in {"reading", "writing"} /\ \A u \in Task \ {t} : pc'[u] = pc[u]
      BY <1>3, <1>4, <1>10 DEF ReadStarts, WriteStarts, Proceed, Runs
    <2>2. writer' \/ readers' # 0
      BY <1>1, <1>10 DEF ReadStarts, WriteStarts
    <2> QED BY <2>1, <2>2
  <1>11. CASE ReadEnds(t) \/ WriteEnds(t)
    <2>1. /\ pc'[t] = "idle" /\ \A u \in Task \ {t} : pc'[u] = pc[u]
          /\ cancelled' = cancelled
      BY <1>3, <1>11 DEF ReadEnds, WriteEnds, Release
    <2>2. PICK wake \in BOOLEAN : /\ Release(t, wake) /\ Runs(t)
                                  /\ ~wake => readers' # 0
      BY <1>11 DEF ReadEnds, WriteEnds
    <2>3. Range(waiters) \cup Range(ready) \subseteq {t} \cup Range(waiters') \cup Range(ready')
      <3>1. CASE wake
        <4>1. ready' = Tail(ready) \o waiters
          BY <2>2, <3>1 DEF Release
        <4>2. ready # <<>> /\ Head(ready) = t /\ Tail(ready) \in Seq(Task)
          BY <1>4, <2>2 DEF Runs
        <4>3. \A p, q \in Seq(Task) : Range(p \o q) = Range(p) \cup Range(q)
          BY RangeConcatenation
        <4>4. Range(ready') = Range(Tail(ready)) \cup Range(waiters)
          BY <1>1, <4>1, <4>2, <4>3, Zenon
        <4> QED BY <1>4, <4>2, <4>4
      <3>2. CASE ~wake
        <4>1. Range(<<>>) = {}
          BY DEF Range
        <4>2. Range(ready') = Range(Tail(ready)) /\ waiters' = waiters
          BY <1>1, <1>4, <2>2, <3>2, <4>1, RangeConcatenation DEF Release, Runs
        <4> QED BY <1>4, <2>2, <4>2 DEF Runs
      <3> QED BY <3>1, <3>2
    <2>4. readers' = 0 => waiters' = <<>> /\ Range(waiters') = {}
      BY <2>2 DEF Release, Range
    <2> QED BY <2>1, <2>3, <2>4
  <1>12. CASE WaitCancelled(t)
    <2>1. /\ Range(ready) = {t} \cup Range(ready') /\ waiters' = waiters /\ writersWaiting' = writersWaiting
      BY <1>1, <1>2, <1>4, <1>12 DEF WaitCancelled
    <2>2. pc'[t] = "idle" /\ \A u \in Task \ {t} : pc'[u] = pc[u]
      BY <1>3, <1>12 DEF WaitCancelled
    <2>3. cancelled' \subseteq cancelled /\ writer' = writer /\ readers' = readers
      BY <1>12 DEF WaitCancelled
    <2> QED BY <1>13, <2>1, <2>2, <2>3
  <1> QED
    BY <1>5, <1>6, <1>7, <1>8, <1>9, <1>10, <1>11, <1>12 DEF Run

\* When reindexes are not cancelled while they wait, nobody is left asleep on a
\* free lock with nothing to run, in any order of arrivals and cancellations.
THEOREM NoWakeupLost ==
    ASSUME Cancellable \cap Writer = {}
    PROVE  Spec => []NoLostWakeup
  <1>1. Init => WakeInv
    <2>1. Range(<<>>) = {}
      BY DEF Range
    <2> QED BY <2>1 DEF Init, WakeInv, Queued, Roles, FreeLock
  <1>2. IInv /\ WakeInv /\ [Next]_vars => WakeInv'
    <2>1. IInv /\ WakeInv /\ UNCHANGED vars => WakeInv'
      BY DEF vars, WakeInv, Queued, Roles, FreeLock
    <2> QED BY <2>1, WakeStep DEF Next
  <1>3. IInv /\ WakeInv => NoLostWakeup
    <2> SUFFICES ASSUME IInv, WakeInv, ready = <<>>, ~writer, readers = 0, waiters # <<>> PROVE FALSE
      BY DEF NoLostWakeup
    <2>1. writersWaiting > 0 /\ writersWaiting = Cardinality(At("waitWrite"))
      BY DEF WakeInv, FreeLock, IInv, CountersAgree
    <2>2. PICK t \in Task : pc[t] = "waitWrite"
      BY <2>1, FS_EmptySet DEF At
    <2>3. Range(ready) = {}
      BY DEF Range
    <2> QED BY <2>2, <2>3 DEF WakeInv, Queued, FreeLock
  <1> QED
    BY <1>1, <1>2, <1>3, IInvAlways, PTL DEF Spec
===============================================================================

----------------------------- MODULE AsyncRWLock -----------------------------
(***************************************************************************)
(* mcp_server/state.py, class _AsyncRWLock: the per-project lock under     *)
(* which searches (readers) and reindexes (writers) run, at the grain of   *)
(* the event loop.  A task runs from one suspension to the next without    *)
(* being interleaved, so every "async with self._cond" section is one      *)
(* step: the inner asyncio.Lock is always free when a section starts, and  *)
(* only Condition.wait() and the caller's body suspend.                    *)
(*                                                                         *)
(* `ready` is the loop's FIFO of callbacks; `waiters` holds the futures of *)
(* Condition.wait() that nobody has completed yet, oldest first.           *)
(* notify_all() moves the whole of `waiters` behind `ready`; cancelling a  *)
(* task completes its future the same way, and, in the interpreter the     *)
(* project runs on (3.11), wakes nobody else.                              *)
(***************************************************************************)
EXTENDS Naturals, Sequences, SequencesExt, FiniteSets

CONSTANTS Reader,      \* tasks that call read():  searches
          Writer,      \* tasks that call write(): reindexes
          Cancellable  \* tasks whose client may cancel them while they wait

Task == Reader \cup Writer

ASSUME TaskAssumption == IsFiniteSet(Task) /\ Cancellable \subseteq Task

VARIABLES pc,              \* where each task is
          readers,         \* self._readers
          writer,          \* self._writer
          writersWaiting,  \* self._writers_waiting
          waiters,         \* self._cond._waiters with a pending future
          ready,           \* tasks the loop will run, in order
          cancelled        \* tasks with an undelivered CancelledError

vars == <<pc, readers, writer, writersWaiting, waiters, ready, cancelled>>

PC == {"idle", "enterRead", "enterWrite", "waitRead", "waitWrite",
       "reading", "writing"}

Init ==
    /\ pc = [t \in Task |-> "idle"]
    /\ readers = 0 /\ writer = FALSE /\ writersWaiting = 0
    /\ waiters = <<>> /\ ready = <<>> /\ cancelled = {}

Become(t, where) == pc' = [pc EXCEPT ![t] = where]

-----------------------------------------------------------------------------
\* The environment: requests arrive, bodies finish, clients cancel.

CallRead(t) ==
    /\ t \in Reader /\ pc[t] = "idle"
    /\ Become(t, "enterRead")
    /\ ready' = Append(ready, t)
    /\ UNCHANGED <<readers, writer, writersWaiting, waiters, cancelled>>

CallWrite(t) ==
    /\ t \in Writer /\ pc[t] = "idle"
    /\ Become(t, "enterWrite")
    /\ ready' = Append(ready, t)
    /\ UNCHANGED <<readers, writer, writersWaiting, waiters, cancelled>>

\* The body under the lock returns, raises or is cancelled: the finally
\* clause of read() or write() is scheduled in each case.
BodyEnds(t) ==
    /\ pc[t] \in {"reading", "writing"}
    /\ t \notin Range(ready)
    /\ ready' = Append(ready, t)
    /\ UNCHANGED <<pc, readers, writer, writersWaiting, waiters, cancelled>>

\* task.cancel() on a task suspended in Condition.wait(): a pending future is
\* completed and the task scheduled, a notified task is only marked.
CancelPending(t) ==
    /\ t \in Cancellable \ cancelled
    /\ pc[t] \in {"waitRead", "waitWrite"}
    /\ \E i \in 1..Len(waiters) :
          /\ waiters[i] = t
          /\ waiters' = RemoveAt(waiters, i)
    /\ ready' = Append(ready, t)
    /\ cancelled' = cancelled \cup {t}
    /\ UNCHANGED <<pc, readers, writer, writersWaiting>>

CancelNotified(t) ==
    /\ t \in Cancellable \ cancelled
    /\ pc[t] \in {"waitRead", "waitWrite"}
    /\ t \in Range(ready)
    /\ cancelled' = cancelled \cup {t}
    /\ UNCHANGED <<pc, readers, writer, writersWaiting, waiters, ready>>

-----------------------------------------------------------------------------
\* The loop runs the task at the head of `ready` up to its next suspension.

Runs(t) == ready # <<>> /\ t = Head(ready) /\ t \notin cancelled

Park(t, where) ==
    /\ Become(t, where)
    /\ waiters' = Append(waiters, t)
    /\ ready' = Tail(ready)
    /\ UNCHANGED cancelled

Proceed(t, where) ==
    /\ Become(t, where)
    /\ ready' = Tail(ready)
    /\ UNCHANGED <<waiters, cancelled>>

Release(t, wake) ==
    /\ Become(t, "idle")
    /\ ready' = Tail(ready) \o (IF wake THEN waiters ELSE <<>>)
    /\ waiters' = IF wake THEN <<>> ELSE waiters
    /\ UNCHANGED cancelled

ReaderBlocked_NoPreference == writer
ReaderBlocked == writer \/ writersWaiting > 0
WriterBlocked_IgnoresReaders == writer
WriterBlocked == writer \/ readers > 0

ReadParks(t) ==
    /\ Runs(t) /\ pc[t] \in {"enterRead", "waitRead"}
    /\ ReaderBlocked
    /\ Park(t, "waitRead")
    /\ UNCHANGED <<readers, writer, writersWaiting>>

ReadStarts(t) ==
    /\ Runs(t) /\ pc[t] \in {"enterRead", "waitRead"}
    /\ ~ReaderBlocked
    /\ readers' = readers + 1
    /\ Proceed(t, "reading")
    /\ UNCHANGED <<writer, writersWaiting>>

ReadEnds_NeverNotifies(t) ==
    /\ Runs(t) /\ pc[t] = "reading"
    /\ readers' = readers - 1
    /\ Release(t, FALSE)
    /\ UNCHANGED <<writer, writersWaiting>>
ReadEnds(t) ==
    /\ Runs(t) /\ pc[t] = "reading"
    /\ readers' = readers - 1
    /\ Release(t, readers' = 0)
    /\ UNCHANGED <<writer, writersWaiting>>

\* A fresh writer counts itself before it waits; one that was notified and
\* finds the lock taken again is still counted.
WriteParks(t) ==
    /\ Runs(t) /\ pc[t] \in {"enterWrite", "waitWrite"}
    /\ WriterBlocked
    /\ writersWaiting' = writersWaiting + (IF pc[t] = "enterWrite" THEN 1 ELSE 0)
    /\ Park(t, "waitWrite")
    /\ UNCHANGED <<readers, writer>>

WriteStarts_StillCounted(t) ==
    /\ Runs(t) /\ pc[t] \in {"enterWrite", "waitWrite"}
    /\ ~WriterBlocked
    /\ writer' = TRUE
    /\ Proceed(t, "writing")
    /\ UNCHANGED <<readers, writersWaiting>>
WriteStarts(t) ==
    /\ Runs(t) /\ pc[t] \in {"enterWrite", "waitWrite"}
    /\ ~WriterBlocked
    /\ writersWaiting' = writersWaiting - (IF pc[t] = "waitWrite" THEN 1 ELSE 0)
    /\ writer' = TRUE
    /\ Proceed(t, "writing")
    /\ UNCHANGED readers

WriteEnds_NeverNotifies(t) ==
    /\ Runs(t) /\ pc[t] = "writing"
    /\ writer' = FALSE
    /\ Release(t, FALSE)
    /\ UNCHANGED <<readers, writersWaiting>>
WriteEnds(t) ==
    /\ Runs(t) /\ pc[t] = "writing"
    /\ writer' = FALSE
    /\ Release(t, TRUE)
    /\ UNCHANGED <<readers, writersWaiting>>

\* CancelledError leaves Condition.wait(): the writer's finally clause takes
\* back its count, and neither side notifies.
WaitCancelled(t) ==
    /\ ready # <<>> /\ t = Head(ready) /\ t \in cancelled
    /\ writersWaiting' = writersWaiting - (IF pc[t] = "waitWrite" THEN 1 ELSE 0)
    /\ Become(t, "idle")
    /\ ready' = Tail(ready)
    /\ cancelled' = cancelled \ {t}
    /\ UNCHANGED <<readers, writer, waiters>>

Run(t) ==
    \/ ReadParks(t) \/ ReadStarts(t) \/ ReadEnds(t)
    \/ WriteParks(t) \/ WriteStarts(t) \/ WriteEnds(t)
    \/ WaitCancelled(t)

Next == \E t \in Task :
    \/ CallRead(t) \/ CallWrite(t) \/ BodyEnds(t)
    \/ CancelPending(t) \/ CancelNotified(t)
    \/ Run(t)

Spec == Init /\ [][Next]_vars

\* The loop keeps running what is ready, and every body under the lock ends
\* (it awaits a worker thread that does finite work).  Nobody has to call.
FairSpec ==
    /\ Spec
    /\ WF_vars(\E t \in Task : Run(t))
    /\ \A t \in Task : WF_vars(BodyEnds(t))

-----------------------------------------------------------------------------
At(where) == {t \in Task : pc[t] = where}

\* TypeOK: every variable stays in its range.
TypeOK ==
    /\ pc \in [Task -> PC]
    /\ readers \in Nat /\ writer \in BOOLEAN /\ writersWaiting \in Nat
    /\ waiters \in Seq(Task) /\ ready \in Seq(Task)
    /\ cancelled \subseteq Task

\* A reindex never overlaps a search of the project, nor another reindex of
\* it ("both rewrite index files and must not overlap a search").
MutualExclusion ==
    \A t \in At("writing") : At("reading") = {} /\ At("writing") = {t}

\* Two integers and a flag stand for the three sets of tasks they count,
\* whatever the order of arrivals, wake-ups and cancellations: the inductive
\* invariant behind MutualExclusion and the refinement.
CountersAgree ==
    /\ readers = Cardinality(At("reading"))
    /\ writersWaiting = Cardinality(At("waitWrite"))
    /\ Cardinality(At("writing")) = (IF writer THEN 1 ELSE 0)
    /\ writer => readers = 0
    /\ \A t \in cancelled : pc[t] \in {"waitRead", "waitWrite"}

\* No lost wake-up: when the loop has nothing to run and nobody holds the
\* lock, nobody sleeps on its condition.  Otherwise the sleeper stays until
\* an unrelated request happens to release the lock.
NoLostWakeup ==
    (ready = <<>> /\ ~writer /\ readers = 0) => waiters = <<>>

\* Searches never starve a reindex, however many keep arriving (the writer
\* preference of ADR-0008): while one is queued some reindex gets the lock, and
\* once reindexes stop arriving each queued one does.  Among themselves they
\* queue in no order: of three, two that keep coming back can pass the third
\* for ever, since a fresh one tests the lock and not who waits (state.py:71).
SearchesStarveNoReindex ==
    /\ At("waitWrite") # {} ~> writer \/ At("waitWrite") = {}
    /\ <>[](At("enterWrite") = {}) =>
          \A t \in Writer : pc[t] = "waitWrite" ~> pc[t] # "waitWrite"

\* Once reindexes stop arriving, every queued search eventually runs.
ReaderEventuallyRuns ==
    <>[](At("enterWrite") \cup At("waitWrite") = {}) =>
        \A t \in Reader : pc[t] = "waitRead" ~> pc[t] # "waitRead"

\* The lock implements the promise of ReaderWriter, step by step: no reader
\* is admitted past a queued writer, no admission overlaps a writer.
Abstract == INSTANCE ReaderWriter WITH
    reading <- At("reading"), writing <- At("writing"), wanting <- At("waitWrite")
RefinesReaderWriter == Abstract!Spec
=============================================================================

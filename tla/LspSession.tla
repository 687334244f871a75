----------------------------- MODULE LspSession -----------------------------
(***************************************************************************)
(* A session with the language server: _LspClient and LSPResolver._session *)
(* (chunking/relationships/lsp_call_graph.py).  The main thread asks for    *)
(* each chunk's item and then for what that item calls: it writes requests *)
(* to a pipe and waits for their answers.  A reader thread takes answers   *)
(* from another pipe and replies to requests of the server's own, a        *)
(* watchdog kills the server when the whole takes too long.  The server    *)
(* answers late, in any order, or not at all.                              *)
(***************************************************************************)
EXTENDS Integers, Sequences, FiniteSets

CONSTANTS
  Chunks,         \* how many chunks the session asks about
  InCap, OutCap,  \* messages the two pipes hold
  MaxAsked        \* bound: requests the server makes of the client

VARIABLES
  main,      \* the main thread: where it is, the chunk it asks about and, once
             \* answered, its item, the id to use, the edges: of a chunk, and what it calls
  reader,    \* "read", or the reply it is about to write
  lock,      \* _write_lock: "free", "main" or "reader"
  stdin, stdout,
  server,    \* alive, the requests it has read and not answered, how often it asked
  responses, \* answers that nobody has fetched
  eof,
  watchdog   \* "armed", "cancelled" or "fired"

vars == <<main, reader, lock, stdin, stdout, server, responses, eof, watchdog>>

\* A request names what it is about by its id; so does the answer.
Frame(what, id, about) == [what |-> what, id |-> id, about |-> about]
Other(what) == Frame(what, 0, 0)
NoItem == 0

\* The answer to "initialize", whose id is 1, may still be to come.
Init ==
  /\ main = [pc |-> "send", chunk |-> 1, item |-> NoItem, id |-> 2, edges |-> {}]
  /\ reader = "read" /\ lock = "free"
  /\ stdin = <<>> /\ stdout = <<>>
  /\ \E open \in SUBSET {Frame("answer", 1, 0)} : server = [alive |-> TRUE, open |-> open, asked |-> 0]
  /\ responses = {} /\ eof = FALSE
  /\ watchdog = "armed"

\* What main asks is about the chunk or about the item it got for it.
Subject == IF main.item = NoItem THEN main.chunk ELSE main.item

\* The next request has an id of its own.  A session past its deadline asks no more:
\* it is when the watchdog has fired, and may be just before.
Ask(chunk, item, edges) ==
  \E late \in BOOLEAN :
    /\ watchdog = "fired" => late
    /\ main' = [pc |-> IF late \/ chunk > Chunks THEN "close" ELSE "send",
                chunk |-> chunk, item |-> item, id |-> main.id + 1, edges |-> edges]

\* Mutant: the id counts chunks, and what is asked after a time-out reuses it.
AskNext_SameId ==
  \E late \in BOOLEAN :
    /\ watchdog = "fired" => late
    /\ main' = [main EXCEPT !.pc = IF late \/ main.chunk = Chunks THEN "close" ELSE "send",
                            !.chunk = @ + 1, !.item = NoItem]

\* No answer, or one without a result: on to the next chunk.
AskNext == Ask(main.chunk + 1, NoItem, main.edges)

\* An item is asked for its calls; its calls are the chunk's edges.
Take(answer) ==
  IF main.item = NoItem THEN Ask(main.chunk, answer.about, main.edges)
  ELSE Ask(main.chunk + 1, NoItem, main.edges \cup {<<main.chunk, answer.about>>})

-----------------------------------------------------------------------------
(* request() and close() of the main thread.                               *)

MainLocks ==
  /\ main.pc \in {"send", "shutdown"} /\ lock = "free"
  /\ lock' = "main"
  /\ main' = [main EXCEPT !.pc = IF @ = "send" THEN "write" ELSE "writeShutdown"]
  /\ UNCHANGED <<reader, stdin, stdout, server, responses, eof, watchdog>>

\* _write blocks while the pipe is full, and fails when nobody is at its other end.
MainWrites ==
  /\ main.pc = "write" /\ server.alive /\ Len(stdin) < InCap
  /\ stdin' = Append(stdin, Frame("request", main.id, Subject))
  /\ lock' = "free"
  /\ main' = [main EXCEPT !.pc = "wait"]
  /\ UNCHANGED <<reader, stdout, server, responses, eof, watchdog>>

MainWriteFails ==
  /\ main.pc = "write" /\ ~server.alive
  /\ lock' = "free" /\ eof' = TRUE
  /\ AskNext
  /\ UNCHANGED <<reader, stdin, stdout, server, responses, watchdog>>

\* Mutant: the answer that came first is taken.
Fetch_Any ==
  /\ main.pc = "wait"
  /\ \/ \E r \in responses : responses' = responses \ {r} /\ (Take(r) \/ AskNext)
     \/ responses = {} /\ AskNext /\ UNCHANGED responses
  /\ UNCHANGED <<reader, lock, stdin, stdout, server, eof, watchdog>>

\* The answer to this request, or none: the wait timed out or the stream has ended.
Fetch ==
  /\ main.pc = "wait"
  /\ \/ \E r \in responses : r.id = main.id /\ responses' = responses \ {r} /\ (Take(r) \/ AskNext)
     \/ (\A r \in responses : r.id # main.id) /\ AskNext /\ UNCHANGED responses
  /\ UNCHANGED <<reader, lock, stdin, stdout, server, eof, watchdog>>

\* close(): the watchdog is cancelled first; a server that is alive is asked to exit.
Close ==
  /\ main.pc = "close"
  /\ watchdog' = IF watchdog = "armed" THEN "cancelled" ELSE watchdog
  /\ main' = [main EXCEPT !.pc = IF ~eof /\ server.alive THEN "shutdown" ELSE "join"]
  /\ UNCHANGED <<reader, lock, stdin, stdout, server, responses, eof>>

WriteShutdown ==
  /\ main.pc = "writeShutdown"
  /\ \/ server.alive /\ Len(stdin) < InCap /\ stdin' = Append(stdin, Other("exit")) /\ UNCHANGED eof
     \/ ~server.alive /\ eof' = TRUE /\ UNCHANGED stdin
  /\ lock' = "free"
  /\ main' = [main EXCEPT !.pc = "join"]
  /\ UNCHANGED <<reader, stdout, server, responses, watchdog>>

\* The server is waited for, and killed when it does not exit in time.
Join ==
  /\ main.pc = "join"
  /\ server' = [server EXCEPT !.alive = FALSE]
  /\ eof' = TRUE
  /\ main' = [main EXCEPT !.pc = "closed"]
  /\ UNCHANGED <<reader, lock, stdin, stdout, responses, watchdog>>

-----------------------------------------------------------------------------
(* The reader thread.                                                      *)

\* A malformed frame is dropped; a request of the server's needs a reply; an answer
\* is kept under its id, whether somebody still waits for it or not.
ReadFrame ==
  /\ reader = "read" /\ stdout # <<>>
  /\ stdout' = Tail(stdout)
  /\ LET frame == Head(stdout)
     IN  /\ reader' = IF frame.what = "ask" THEN "reply" ELSE "read"
         /\ responses' = IF frame.what = "answer" THEN {r \in responses : r.id # frame.id} \cup {frame}
                         ELSE responses
  /\ UNCHANGED <<main, lock, stdin, server, eof, watchdog>>

ReaderLocks ==
  /\ reader = "reply" /\ lock = "free"
  /\ lock' = "reader"
  /\ reader' = "write"
  /\ UNCHANGED <<main, stdin, stdout, server, responses, eof, watchdog>>

ReaderWrites ==
  /\ reader = "write"
  /\ \/ server.alive /\ Len(stdin) < InCap /\ stdin' = Append(stdin, Other("reply")) /\ UNCHANGED eof
     \/ ~server.alive /\ eof' = TRUE /\ UNCHANGED stdin
  /\ lock' = "free"
  /\ reader' = "read"
  /\ UNCHANGED <<main, stdout, server, responses, watchdog>>

\* The stream has ended, or close() has told it to stop.
ReaderEnds ==
  /\ reader = "read" /\ (main.pc = "closed" \/ watchdog = "fired" \/ (~server.alive /\ stdout = <<>>))
  /\ reader' = "ended" /\ eof' = TRUE
  /\ UNCHANGED <<main, lock, stdin, stdout, server, responses, watchdog>>

\* Mutant: the watchdog wakes whoever waits, and leaves the server to its work.
WatchdogFires_NoKill ==
  /\ watchdog = "armed"
  /\ watchdog' = "fired"
  /\ eof' = TRUE
  /\ UNCHANGED <<main, reader, lock, stdin, stdout, server, responses>>

\* The watchdog kills the server and wakes whoever waits.
WatchdogFires ==
  /\ watchdog = "armed"
  /\ watchdog' = "fired"
  /\ server' = [server EXCEPT !.alive = FALSE]
  /\ eof' = TRUE
  /\ UNCHANGED <<main, reader, lock, stdin, stdout, responses>>

-----------------------------------------------------------------------------
(* The language server.                                                    *)

ServerReads ==
  /\ server.alive /\ stdin # <<>>
  /\ stdin' = Tail(stdin)
  /\ LET frame == Head(stdin)
     IN  server' = [server EXCEPT
           !.open = IF frame.what = "request" THEN @ \cup {[frame EXCEPT !.what = "answer"]} ELSE @,
           !.alive = frame.what # "exit"]
  /\ UNCHANGED <<main, reader, lock, stdout, responses, eof, watchdog>>

ServerWrites ==
  /\ server.alive /\ Len(stdout) < OutCap
  /\ \/ \E answer \in server.open :
          stdout' = Append(stdout, answer) /\ server' = [server EXCEPT !.open = @ \ {answer}]
     \/ /\ server.asked < MaxAsked
        /\ \E what \in {"ask", "garbage"} : stdout' = Append(stdout, Other(what))
        /\ server' = [server EXCEPT !.asked = @ + 1]
  /\ UNCHANGED <<main, reader, lock, stdin, responses, eof, watchdog>>

ServerDies ==
  /\ server.alive
  /\ server' = [server EXCEPT !.alive = FALSE]
  /\ UNCHANGED <<main, reader, lock, stdin, stdout, responses, eof, watchdog>>

Next ==
  \/ MainLocks \/ MainWrites \/ MainWriteFails \/ Fetch \/ Close \/ WriteShutdown \/ Join
  \/ ReadFrame \/ ReaderLocks \/ ReaderWrites \/ ReaderEnds
  \/ WatchdogFires
  \/ ServerReads \/ ServerWrites \/ ServerDies

Spec == Init /\ [][Next]_vars

-----------------------------------------------------------------------------
\* However late, reordered or lost answers are, an edge is of the chunk whose item's
\* calls it is: no answer reaches a question that another id, another request of the
\* same chunk or one given up long ago asked.  And no question waits for ever: as long
\* as main asks, the watchdog is to fire yet, or it has, and then nobody is at the other
\* end of the pipe that main or the reader may be writing to (lsp_call_graph.py:437-467,
\* 421-434, 840-930).
SessionIsSound ==
  /\ \A edge \in main.edges : edge[1] = edge[2]
  /\ main.pc \in {"send", "write", "wait"} => watchdog = "armed" \/ (~server.alive /\ eof)

-----------------------------------------------------------------------------
(* The invariant of the proof (Services_proofs).                            *)

Frames == [what : {"request", "answer", "ask", "garbage", "reply", "exit"}, id : Nat, about : Nat]

\* What was sent has an id in use by now, and if main still waits for it, its subject.
Sent(frame) ==
  frame.what \in {"request", "answer"} =>
    /\ frame.id <= main.id
    /\ frame.id = main.id => main.pc = "wait" /\ frame.about = Subject

Traffic == {frame \in Frames : Sent(frame)}

TypeOK ==
  /\ main \in [pc : {"send", "write", "wait", "close", "shutdown", "writeShutdown", "join", "closed"},
               chunk : Nat \ {0}, item : Nat, id : Nat, edges : SUBSET (Nat \X Nat)]
  /\ reader \in {"read", "reply", "write", "ended"}
  /\ lock \in {"free", "main", "reader"}
  /\ stdin \in Seq(Traffic) /\ stdout \in Seq(Traffic)
  /\ server \in [alive : BOOLEAN, open : SUBSET Traffic, asked : Nat]
  /\ responses \subseteq Traffic
  /\ eof \in BOOLEAN
  /\ watchdog \in {"armed", "cancelled", "fired"}

IInv ==
  /\ TypeOK
  /\ main.item \in {NoItem, main.chunk}
  /\ \A frame \in responses \cup server.open : frame.what = "answer"
  /\ watchdog = "cancelled" => main.pc \in {"shutdown", "writeShutdown", "join", "closed"}
  /\ watchdog = "fired" => ~server.alive /\ eof
  /\ SessionIsSound
=============================================================================

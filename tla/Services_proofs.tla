--------------------------- MODULE Services_proofs ---------------------------
(* Proofs about the components of Services, for every value of their parameters.  *)
(* Each section names the variables as its component does.                        *)
EXTENDS Services, SequencePlaces_proofs

LEMMA StepOfOne ==
  ASSUME [Next]_vars
  PROVE  /\ part' = part
         /\ part = "chunks" => [Embedding!Next]_(Embedding!vars)
         /\ part = "load" => [Loading!Next]_(Loading!vars)
         /\ part = "lsp" => [Session!Next]_(Session!vars)
         /\ part = "projects" => [Store!Next]_(Store!vars)
         /\ part = "queries" => [Querying!Next]_(Querying!vars)
         /\ part = "lexical" => [Lexical!Next]_(Lexical!vars)
<1>1. CASE UNCHANGED vars
  BY <1>1 DEF vars, Embedding!vars, Loading!vars, Session!vars, Store!vars,
                 Querying!vars, Lexical!vars
<1>2. CASE Next
  BY <1>2 DEF Next
<1> QED
  BY <1>1, <1>2

LEMMA StartOfOne ==
  ASSUME Init
  PROVE  /\ part = "chunks" => Embedding!Init
         /\ part = "load" => Loading!Init
         /\ part = "lsp" => Session!Init
         /\ part = "projects" => Store!Init
         /\ part = "queries" => Querying!Init
         /\ part = "lexical" => Lexical!Init
  BY DEF Init

------------------------------------------------------------------------------
(* Operators that the components share.                                        *)

\* Two modules' names for one operator.
LEMMA SameCounts ==
  /\ \A S : Embedding!Cardinality(S) = Cardinality(S)
  /\ \A S : Store!Cardinality(S) = Cardinality(S)
  /\ \A S : Querying!Cardinality(S) = Cardinality(S)
  /\ \A S : Lexical!Cardinality(S) = Cardinality(S)
<1>1. \A S : Embedding!Cardinality(S) = Cardinality(S)
  BY Zenon DEF Embedding!Cardinality, Cardinality
<1>2. \A S : Store!Cardinality(S) = Cardinality(S)
  BY Zenon DEF Store!Cardinality, Cardinality
<1>3. \A S : Querying!Cardinality(S) = Cardinality(S)
  BY Zenon DEF Querying!Cardinality, Cardinality
<1>4. \A S : Lexical!Cardinality(S) = Cardinality(S)
  BY Zenon DEF Lexical!Cardinality, Cardinality
<1> QED
  BY <1>1, <1>2, <1>3, <1>4

LEMMA SameSelections ==
  /\ \A s, P : Embedding!Selected(s, P) = Selected(s, P)
  /\ \A s, P : Querying!Selected(s, P) = Selected(s, P)
  /\ \A s, P : Lexical!Selected(s, P) = Selected(s, P)
<1>1. \A s, P : Embedding!Selected(s, P) = Selected(s, P)
  BY Zenon DEF Embedding!Selected, Selected, Embedding!Cardinality, Cardinality
<1>2. \A s, P : Querying!Selected(s, P) = Selected(s, P)
  BY Zenon DEF Querying!Selected, Selected, Querying!Cardinality, Cardinality
<1>3. \A s, P : Lexical!Selected(s, P) = Selected(s, P)
  BY Zenon DEF Lexical!Selected, Selected, Lexical!Cardinality, Cardinality
<1> QED
  BY <1>1, <1>2, <1>3

------------------------------------------------------------------------------
(* LspSession.                                                                 *)

main == v1
reader == v2
lock == v3
stdin == v4
stdout == v5
server == v6
responses == v7
eof == v8
watchdog == v9
USE DEF main, reader, lock, stdin, stdout, server, responses, eof, watchdog

MainStates == [pc : {"send", "write", "wait", "close", "shutdown", "writeShutdown", "join", "closed"},
               chunk : Nat \ {0}, item : Nat, id : Nat, edges : SUBSET (Nat \X Nat)]

LEMMA SessionInit == Session!Init => Session!IInv
<1> SUFFICES ASSUME Session!Init PROVE Session!IInv
  OBVIOUS
<1>1. main \in MainStates
  BY DEF Session!Init, Session!NoItem, MainStates
<1>2. server.open \subseteq {Session!Frame("answer", 1, 0)} /\ server.alive = TRUE
      /\ server = [alive |-> TRUE, open |-> server.open, asked |-> 0]
  BY DEF Session!Init
<1>3. Session!Frame("answer", 1, 0) \in Session!Traffic
  BY DEF Session!Init, Session!Frame, Session!Traffic, Session!Frames, Session!Sent
<1>4. server \in [alive : BOOLEAN, open : SUBSET Session!Traffic, asked : Nat]
  <2> DEFINE T == Session!Traffic
  <2>1. PICK open \in SUBSET T : server = [alive |-> TRUE, open |-> open, asked |-> 0]
    BY <1>3 DEF Session!Init
  <2> HIDE DEF T
  <2>2. server \in [alive : BOOLEAN, open : SUBSET T, asked : Nat]
    BY <2>1
  <2> QED
    BY <2>2 DEF T
<1>5. Session!TypeOK
  <2>1. responses = {} /\ stdin = <<>> /\ stdout = <<>>
    BY DEF Session!Init
  <2>2. stdin \in Seq(Session!Traffic) /\ stdout \in Seq(Session!Traffic) /\ responses \subseteq Session!Traffic
    BY <2>1
  <2> QED
    BY <1>1, <1>4, <2>2 DEF Session!Init, Session!TypeOK, MainStates
<1>6. \A frame \in responses \cup server.open : frame.what = "answer"
  BY <1>2 DEF Session!Init, Session!Frame
<1> QED
  BY <1>5, <1>6 DEF Session!IInv, Session!Init, Session!SessionIsSound

\* What may be under way grows when a request is sent, given up or answered.
LEMMA SessionTraffic ==
  ASSUME main \in MainStates, main' \in MainStates,
         \/ main'.id = main.id + 1
         \/ main'.id = main.id /\ main.pc # "wait"
  PROVE  Session!Traffic \subseteq Session!Traffic'
<1>1. ASSUME NEW frame \in Session!Traffic
      PROVE  frame \in Session!Traffic'
  <2>1. frame \in Session!Frames /\ Session!Sent(frame)
    BY <1>1 DEF Session!Traffic
  <2>2. frame.id \in Nat /\ main.id \in Nat
    BY <2>1 DEF Session!Frames, MainStates
  <2>3. frame.what \in {"request", "answer"} => frame.id <= main'.id /\ frame.id # main'.id
    BY <2>1, <2>2 DEF Session!Sent
  <2>4. frame.what \in {"request", "answer"} =>
           frame.id <= main'.id /\ (frame.id = main'.id => main'.pc = "wait" /\ frame.about = Session!Subject')
    BY <2>3
  <2>5. Session!Sent(frame)'
    BY <2>4 DEF Session!Sent
  <2>6. Session!Frames' = Session!Frames
    BY DEF Session!Frames
  <2> QED
    BY <2>1, <2>5, <2>6 DEF Session!Traffic
<1> QED
  BY <1>1

\* The pipes, the server and the reader have what they had.
LEMMA SessionKeeps ==
  ASSUME Session!TypeOK, Session!Traffic \subseteq Session!Traffic'
  PROVE  /\ stdin \in Seq(Session!Traffic') /\ stdout \in Seq(Session!Traffic')
         /\ server \in [alive : BOOLEAN, open : SUBSET (Session!Traffic'), asked : Nat]
         /\ responses \subseteq Session!Traffic'
<1> DEFINE T == Session!Traffic
           U == Session!Traffic'
<1>1. /\ stdin \in Seq(T) /\ stdout \in Seq(T) /\ responses \subseteq T /\ T \subseteq U
      /\ server \in [alive : BOOLEAN, open : SUBSET T, asked : Nat]
  BY DEF Session!TypeOK
<1> HIDE DEF T, U
<1>2. stdin \in Seq(U) /\ stdout \in Seq(U)
  BY <1>1
<1>3. responses \subseteq U /\ server \in [alive : BOOLEAN, open : SUBSET U, asked : Nat]
  BY <1>1
<1> QED
  BY <1>2, <1>3 DEF U

\* The next question: one more id, and if it is about an item, about the chunk's own.
LEMMA SessionAsk ==
  ASSUME Session!IInv, NEW chunk \in {main.chunk, main.chunk + 1}, NEW item \in Nat, NEW edges,
         Session!Ask(chunk, item, edges),
         item \in {0, chunk}, edges \in SUBSET (Nat \X Nat), \A e \in edges : e[1] = e[2]
  PROVE  /\ main' \in MainStates /\ main'.id = main.id + 1 /\ main'.pc \in {"send", "close"}
         /\ main'.item \in {0, main'.chunk}
         /\ \A e \in main'.edges : e[1] = e[2]
         /\ watchdog = "fired" => main'.pc = "close"
<1>1. main \in MainStates
  BY DEF Session!IInv, Session!TypeOK, MainStates
<1>2. main.chunk \in Nat \ {0} /\ main.id \in Nat
  BY <1>1 DEF MainStates
<1>3. chunk \in Nat \ {0} /\ main.id + 1 \in Nat
  BY <1>2
<1>4. \E to \in {"send", "close"} :
         /\ main' = [pc |-> to, chunk |-> chunk, item |-> item, id |-> main.id + 1, edges |-> edges]
         /\ watchdog = "fired" => to = "close"
  BY DEF Session!Ask
<1> QED
  BY <1>3, <1>4 DEF MainStates

LEMMA SessionAskNext ==
  ASSUME Session!IInv, Session!AskNext
  PROVE  /\ main' \in MainStates /\ main'.id = main.id + 1 /\ main'.pc \in {"send", "close"}
         /\ main'.item \in {0, main'.chunk}
         /\ \A e \in main'.edges : e[1] = e[2]
         /\ watchdog = "fired" => main'.pc = "close"
<1>1. main.edges \in SUBSET (Nat \X Nat) /\ \A e \in main.edges : e[1] = e[2]
  BY DEF Session!IInv, Session!TypeOK, Session!SessionIsSound
<1> QED
  BY <1>1, SessionAsk DEF Session!AskNext, Session!NoItem

\* An answer to the request that main waits for is about what main asked for.
LEMMA SessionTake ==
  ASSUME Session!IInv, main.pc = "wait", NEW r \in responses, r.id = main.id, Session!Take(r)
  PROVE  /\ main' \in MainStates /\ main'.id = main.id + 1 /\ main'.pc \in {"send", "close"}
         /\ main'.item \in {0, main'.chunk}
         /\ \A e \in main'.edges : e[1] = e[2]
         /\ watchdog = "fired" => main'.pc = "close"
<1>1. /\ main \in MainStates /\ main.item \in {0, main.chunk}
      /\ main.edges \in SUBSET (Nat \X Nat) /\ \A e \in main.edges : e[1] = e[2]
  BY DEF Session!IInv, Session!TypeOK, Session!SessionIsSound, MainStates, Session!NoItem
<1>2. main.chunk \in Nat \ {0}
  BY <1>1 DEF MainStates
<1>3. r.about = main.chunk
  <2>1. r \in Session!Traffic /\ r.what = "answer"
    BY DEF Session!IInv, Session!TypeOK
  <2>2. r.about = Session!Subject
    BY <2>1 DEF Session!Traffic, Session!Sent
  <2> QED
    BY <1>1, <2>2 DEF Session!Subject, Session!NoItem
<1>4. CASE main.item = 0
  <2>1. Session!Ask(main.chunk, main.chunk, main.edges)
    BY <1>3, <1>4 DEF Session!Take, Session!NoItem
  <2> QED
    BY <1>1, <1>2, <2>1, SessionAsk
<1>5. CASE main.item # 0
  <2> DEFINE more == main.edges \cup {<<main.chunk, main.chunk>>}
  <2>1. Session!Ask(main.chunk + 1, 0, more)
    BY <1>3, <1>5 DEF Session!Take, Session!NoItem
  <2>2. more \in SUBSET (Nat \X Nat) /\ \A e \in more : e[1] = e[2]
    BY <1>1, <1>2
  <2> HIDE DEF more
  <2> QED
    BY <1>2, <2>1, <2>2, SessionAsk
<1> QED
  BY <1>4, <1>5

LEMMA SessionNext ==
  ASSUME Session!IInv, [Session!Next]_(Session!vars)
  PROVE  Session!IInv'
<1> DEFINE T == Session!Traffic
<1>1. /\ main \in MainStates
      /\ server \in [alive : BOOLEAN, open : SUBSET T, asked : Nat]
      /\ stdin \in Seq(T) /\ stdout \in Seq(T)
      /\ reader \in {"read", "reply", "write", "ended"} /\ lock \in {"free", "main", "reader"}
      /\ responses \subseteq T /\ eof \in BOOLEAN
      /\ watchdog \in {"armed", "cancelled", "fired"} /\ Session!TypeOK
  BY DEF Session!IInv, Session!TypeOK, MainStates
<1>2. /\ main.item \in {0, main.chunk}
      /\ \A frame \in responses \cup server.open : frame.what = "answer"
      /\ watchdog = "cancelled" => main.pc \in {"shutdown", "writeShutdown", "join", "closed"}
      /\ watchdog = "fired" => ~server.alive /\ eof
      /\ \A e \in main.edges : e[1] = e[2]
  BY DEF Session!IInv, Session!SessionIsSound, Session!NoItem
\* What is left to show of a step: what main is, and what is under way.
<1>3. ASSUME main' \in MainStates, main'.item \in {0, main'.chunk}, \A e \in main'.edges : e[1] = e[2],
             stdin' \in Seq(T'), stdout' \in Seq(T'), responses' \subseteq T',
             server' \in [alive : BOOLEAN, open : SUBSET T', asked : Nat],
             \A frame \in responses' \cup server'.open : frame.what = "answer",
             reader' \in {"read", "reply", "write", "ended"}, lock' \in {"free", "main", "reader"},
             eof' \in BOOLEAN, watchdog' \in {"armed", "cancelled", "fired"},
             watchdog' = "cancelled" => main'.pc \in {"shutdown", "writeShutdown", "join", "closed"},
             watchdog' = "fired" => ~server'.alive /\ eof'
      PROVE  Session!IInv'
  BY <1>3 DEF Session!IInv, Session!TypeOK, Session!SessionIsSound, Session!NoItem, MainStates
<1>4. \A s \in Seq(T) : s # <<>> => Head(s) \in T /\ Tail(s) \in Seq(T)
  OBVIOUS
<1>5. \A what \in {"ask", "garbage", "reply", "exit"} : Session!Other(what) \in T
  BY DEF Session!Other, Session!Frame, Session!Traffic, Session!Frames, Session!Sent
<1>6. ASSUME UNCHANGED main
      PROVE  T' = T
  BY <1>6 DEF Session!Traffic, Session!Frames, Session!Sent, Session!Subject
<1>7. T \subseteq T' => /\ stdin \in Seq(T') /\ stdout \in Seq(T') /\ responses \subseteq T'
                        /\ server \in [alive : BOOLEAN, open : SUBSET T', asked : Nat]
  BY <1>1, SessionKeeps
<1>8. CASE Session!MainLocks \/ Session!Close
  <2>1. main.pc # "wait" /\ main' \in MainStates /\ main'.id = main.id
        /\ main'.item = main.item /\ main'.chunk = main.chunk /\ main'.edges = main.edges
    BY <1>1, <1>8 DEF Session!MainLocks, Session!Close, MainStates
  <2>2. T \subseteq T'
    BY <1>1, <2>1, SessionTraffic
  <2> HIDE DEF T
  <2> QED
    BY <1>1, <1>2, <1>3, <1>7, <1>8, <2>1, <2>2 DEF Session!MainLocks, Session!Close, MainStates
<1>9. CASE Session!MainWrites
  <2> DEFINE frame == Session!Frame("request", main.id, Session!Subject)
  <2>1. main.pc = "write" /\ main' \in MainStates /\ main'.id = main.id /\ main'.pc = "wait"
        /\ main'.item = main.item /\ main'.chunk = main.chunk /\ main'.edges = main.edges
    BY <1>1, <1>9 DEF Session!MainWrites, MainStates
  <2>2. T \subseteq T'
    BY <1>1, <2>1, SessionTraffic
  <2>3. Session!Subject \in Nat /\ Session!Subject' = Session!Subject /\ main.id \in Nat
    BY <1>1, <2>1 DEF Session!Subject, MainStates
  <2>4. frame \in T'
    BY <2>1, <2>3 DEF Session!Traffic, Session!Frames, Session!Sent, Session!Frame
  <2>5. stdin' = Append(stdin, frame)
    BY <1>9 DEF Session!MainWrites
  <2> HIDE DEF T, frame
  <2>6. stdin' \in Seq(T')
    BY <1>7, <2>2, <2>4, <2>5
  <2> QED
    BY <1>1, <1>2, <1>3, <1>7, <1>9, <2>1, <2>2, <2>6 DEF Session!MainWrites
<1>10. CASE Session!MainWriteFails
  <2>1. Session!AskNext
    BY <1>10 DEF Session!MainWriteFails
  <2>2. T \subseteq T'
    BY <1>1, <2>1, SessionAskNext, SessionTraffic
  <2> HIDE DEF T
  <2> QED
    BY <1>1, <1>2, <1>3, <1>7, <1>10, <2>1, <2>2, SessionAskNext DEF Session!MainWriteFails
<1>11. CASE Session!Fetch
  <2>1. /\ main' \in MainStates /\ main'.id = main.id + 1 /\ main'.item \in {0, main'.chunk}
        /\ \A e \in main'.edges : e[1] = e[2]
        /\ responses' \subseteq responses /\ main.pc = "wait"
    BY <1>11, SessionAskNext, SessionTake DEF Session!Fetch
  <2>2. T \subseteq T'
    BY <1>1, <2>1, SessionTraffic
  <2>3. responses' \subseteq T'
    BY <1>7, <2>1, <2>2
  <2> HIDE DEF T
  <2> QED
    BY <1>1, <1>2, <1>3, <1>7, <1>11, <2>1, <2>2, <2>3 DEF Session!Fetch
<1>12. CASE Session!WriteShutdown \/ Session!Join
  <2>1. main.pc # "wait" /\ main' \in MainStates /\ main'.id = main.id /\ main'.pc \in {"join", "closed"}
        /\ main'.item = main.item /\ main'.chunk = main.chunk /\ main'.edges = main.edges
    BY <1>1, <1>12 DEF Session!WriteShutdown, Session!Join, MainStates
  <2>2. T \subseteq T'
    BY <1>1, <2>1, SessionTraffic
  <2>3. Session!Other("exit") \in T'
    BY <1>5, <2>2
  <2>4. stdin' \in {stdin, Append(stdin, Session!Other("exit"))}
    BY <1>12 DEF Session!WriteShutdown, Session!Join
  <2> HIDE DEF T
  <2>5. stdin' \in Seq(T')
    BY <1>7, <2>2, <2>3, <2>4
  <2>6. server' \in [alive : BOOLEAN, open : SUBSET T', asked : Nat] /\ server'.open = server.open
        /\ (~server.alive => ~server'.alive)
    BY <1>1, <1>7, <1>12, <2>2 DEF Session!WriteShutdown, Session!Join
  <2> QED
    BY <1>1, <1>2, <1>3, <1>7, <1>12, <2>1, <2>2, <2>5, <2>6 DEF Session!WriteShutdown, Session!Join
<1>13. CASE Session!ReadFrame
  <2>1. T' = T /\ UNCHANGED <<main, lock, stdin, server, eof, watchdog>>
    BY <1>6, <1>13 DEF Session!ReadFrame
  <2>2. Head(stdout) \in T /\ Tail(stdout) \in Seq(T) /\ stdout' = Tail(stdout)
    BY <1>1, <1>4, <1>13 DEF Session!ReadFrame
  <2>3. responses' \subseteq T /\ \A frame \in responses' : frame.what = "answer"
    BY <1>1, <1>2, <1>13, <2>2 DEF Session!ReadFrame
  <2>4. reader' \in {"read", "reply"}
    BY <1>13 DEF Session!ReadFrame
  <2> HIDE DEF T
  <2> QED
    BY <1>1, <1>2, <1>3, <2>1, <2>2, <2>3, <2>4
<1>14. CASE Session!ReaderLocks \/ Session!ReaderWrites \/ Session!ReaderEnds
  <2>1. T' = T /\ UNCHANGED <<main, stdout, server, responses, watchdog>>
    BY <1>6, <1>14 DEF Session!ReaderLocks, Session!ReaderWrites, Session!ReaderEnds
  <2>2. stdin' \in {stdin, Append(stdin, Session!Other("reply"))} /\ eof' \in BOOLEAN /\ (eof => eof')
    BY <1>1, <1>14 DEF Session!ReaderLocks, Session!ReaderWrites, Session!ReaderEnds
  <2>3. Session!Other("reply") \in T
    BY <1>5
  <2> HIDE DEF T
  <2>4. stdin' \in Seq(T)
    BY <1>1, <2>2, <2>3
  <2>5. reader' \in {"read", "reply", "write", "ended"} /\ lock' \in {"free", "main", "reader"}
    BY <1>1, <1>14 DEF Session!ReaderLocks, Session!ReaderWrites, Session!ReaderEnds
  <2> QED
    BY <1>1, <1>2, <1>3, <2>1, <2>2, <2>4, <2>5
<1>15. CASE Session!WatchdogFires \/ Session!ServerDies
  <2>1. T' = T /\ UNCHANGED <<main, reader, lock, stdin, stdout, responses>>
    BY <1>6, <1>15 DEF Session!WatchdogFires, Session!ServerDies
  <2> HIDE DEF T
  <2>2. server' \in [alive : BOOLEAN, open : SUBSET T, asked : Nat] /\ server'.open = server.open
        /\ ~server'.alive
    BY <1>1, <1>15 DEF Session!WatchdogFires, Session!ServerDies
  <2> QED
    BY <1>1, <1>2, <1>3, <1>15, <2>1, <2>2 DEF Session!WatchdogFires, Session!ServerDies
<1>16. CASE Session!ServerReads
  <2>1. T' = T /\ UNCHANGED <<main, reader, lock, stdout, responses, eof, watchdog>>
    BY <1>6, <1>16 DEF Session!ServerReads
  <2> DEFINE frame == Head(stdin)
             answer == [frame EXCEPT !.what = "answer"]
  <2>2. frame \in T /\ Tail(stdin) \in Seq(T) /\ stdin' = Tail(stdin) /\ server.alive
    BY <1>1, <1>4, <1>16 DEF Session!ServerReads
  <2>3. frame.what = "request" => answer \in T /\ answer.what = "answer"
    BY <2>2 DEF Session!Traffic, Session!Frames, Session!Sent
  <2>4. server' = [server EXCEPT !.open = IF frame.what = "request" THEN server.open \cup {answer} ELSE server.open,
                                 !.alive = frame.what # "exit"]
    BY <1>1, <1>16 DEF Session!ServerReads
  <2> HIDE DEF T, frame, answer
  <2>5. /\ server' \in [alive : BOOLEAN, open : SUBSET T, asked : Nat]
        /\ \A f \in server'.open : f.what = "answer"
    BY <1>1, <1>2, <2>3, <2>4
  <2> QED
    BY <1>1, <1>2, <1>3, <2>1, <2>2, <2>5
<1>17. CASE Session!ServerWrites
  <2>1. T' = T /\ UNCHANGED <<main, reader, lock, stdin, responses, eof, watchdog>>
    BY <1>6, <1>17 DEF Session!ServerWrites
  <2>2. PICK frame \in T : stdout' = Append(stdout, frame)
    BY <1>1, <1>5, <1>17 DEF Session!ServerWrites
  <2>3. \/ \E f \in server.open : server' = [server EXCEPT !.open = @ \ {f}]
        \/ server' = [server EXCEPT !.asked = @ + 1]
    BY <1>17 DEF Session!ServerWrites
  <2> HIDE DEF T
  <2>4. stdout' \in Seq(T)
    BY <1>1, <2>2
  <2>5. /\ server' \in [alive : BOOLEAN, open : SUBSET T, asked : Nat] /\ server'.open \subseteq server.open
        /\ server'.alive = server.alive
    <3>1. CASE \E f \in server.open : server' = [server EXCEPT !.open = @ \ {f}]
      BY <1>1, <3>1
    <3>2. CASE server' = [server EXCEPT !.asked = @ + 1]
      <4>1. server.asked + 1 \in Nat /\ server.alive \in BOOLEAN /\ server.open \in SUBSET T
        BY <1>1
      <4>2. server' = [alive |-> server.alive, open |-> server.open, asked |-> server.asked + 1]
        BY <1>1, <3>2
      <4> QED
        BY <4>1, <4>2
    <3> QED
      BY <2>3, <3>1, <3>2
  <2> QED
    BY <1>1, <1>2, <1>3, <2>1, <2>4, <2>5
<1>18. CASE UNCHANGED Session!vars
  <2>1. T' = T
    BY <1>6, <1>18 DEF Session!vars
  <2> HIDE DEF T
  <2> QED
    BY <1>1, <1>2, <1>3, <1>18, <2>1 DEF Session!vars
<1> QED
  BY <1>8, <1>9, <1>10, <1>11, <1>12, <1>13, <1>14, <1>15, <1>16, <1>17, <1>18 DEF Session!Next

\* For any number of chunks and requests and any pipes: an edge is of the chunk whose
\* item's calls it is, and no question waits for ever.
THEOREM SessionSound == Spec => []SessionIsSound
<1> DEFINE Inv == part = "lsp" => Session!IInv
<1>1. Init => Inv
  BY StartOfOne, SessionInit
<1>2. Inv /\ [Next]_vars => Inv'
  BY StepOfOne, SessionNext
<1>3. Inv => SessionIsSound
  BY DEF SessionIsSound, Session!IInv
<1> QED
  BY <1>1, <1>2, <1>3, PTL DEF Spec

HIDE DEF main, reader, lock, stdin, stdout, server, responses, eof, watchdog

------------------------------------------------------------------------------
(* ModelLoad.                                                                  *)

custom == v1
default == v2
trust == v3
online == v4
deletable == v5
atFirst == v6
pc == v7
valid == v8
source == v9
USE DEF custom, default, trust, online, deletable, atFirst, pc, valid, source

LEMMA LoadingInit == Loading!Init => Loading!IInv
<1> SUFFICES ASSUME Loading!Init PROVE Loading!IInv
  OBVIOUS
<1>1. Loading!TypeOK
  BY DEF Loading!Init, Loading!TypeOK
<1>2. atFirst.custom = custom /\ atFirst.default = default /\ pc = "validate" /\ source = "none"
  BY DEF Loading!Init
<1> QED
  BY <1>1, <1>2 DEF Loading!IInv, Loading!NothingValid, Loading!ChosenIsGood, Loading!LoadsIfItCan

\* A complete place has a config and can be loaded, and one whose download was interrupted
\* is not complete, even once the beginning of the shard is removed.
LEMMA CompletePlaces ==
  ASSUME NEW p \in Loading!Places
  PROVE  /\ Loading!Complete(p) => Loading!HasConfig(p) /\ Loading!Loadable(p)
         /\ Loading!Interrupted(p) => ~Loading!Complete(p) /\ Loading!HasConfig(p)
         /\ [p EXCEPT !.index = "holes"] \in Loading!Places
         /\ ~Loading!Complete([p EXCEPT !.index = "holes"])
         /\ Loading!HasConfig([p EXCEPT !.index = "holes"]) = Loading!HasConfig(p)
         /\ [p EXCEPT !.single = TRUE] \in Loading!Places
         /\ Loading!Complete(p) => Loading!Complete([p EXCEPT !.single = TRUE])
  BY DEF Loading!Places, Loading!Complete, Loading!HasConfig, Loading!Loadable, Loading!Interrupted

LEMMA LoadingTypes ==
  ASSUME Loading!TypeOK, [Loading!Next]_(Loading!vars)
  PROVE  Loading!TypeOK'
<1>1. Loading!Empty \in Loading!Places /\ Loading!Downloaded \in Loading!Places
  BY DEF Loading!Empty, Loading!Downloaded, Loading!Places
<1>2. Loading!Cleaned \in Loading!Places /\ Loading!Linked \in Loading!Places
  BY CompletePlaces DEF Loading!TypeOK, Loading!Cleaned, Loading!Linked
<1>3. Loading!LocalDir \in {"none", "custom", "default"}
  BY DEF Loading!LocalDir
<1>4. \A c : Loading!Valid(c) \in BOOLEAN
  BY DEF Loading!Valid
<1> QED
  BY <1>1, <1>2, <1>3, <1>4 DEF Loading!TypeOK, Loading!Next, Loading!vars, Loading!Validate, Loading!CleanUpDownloads,
     Loading!DeleteCache, Loading!AskHub, Loading!Locate, Loading!Construct, Loading!Fallback

LEMMA LoadingNext ==
  ASSUME Loading!IInv, [Loading!Next]_(Loading!vars)
  PROVE  Loading!IInv'
<1> USE DEF Loading!IInv, Loading!NothingValid, Loading!ChosenIsGood, Loading!LoadsIfItCan
<1>1. Loading!TypeOK'
  BY LoadingTypes
<1>2. /\ custom \in Loading!Places /\ default \in Loading!Places /\ valid \in BOOLEAN
      /\ trust \in BOOLEAN /\ online \in BOOLEAN /\ deletable \in BOOLEAN
      /\ pc \in {"validate", "cleanup", "delete", "hub", "locate", "construct", "fallback", "loaded", "failed"}
      /\ atFirst.custom \in Loading!Places
  BY DEF Loading!TypeOK
<1>a. UNCHANGED <<trust, default, atFirst>> => (Loading!Valid(atFirst.custom))' = Loading!Valid(atFirst.custom)
  BY DEF Loading!Valid, Loading!SplitWith
<1>3. CASE Loading!Validate
  BY <1>1, <1>2, <1>3, <1>a DEF Loading!Validate, Loading!Valid, Loading!SplitWith
<1>4. CASE Loading!CleanUpDownloads
  <2>1. ~Loading!Valid(Loading!Cleaned) \/ Loading!Cleaned = custom
    BY <1>2, <1>4, CompletePlaces DEF Loading!CleanUpDownloads, Loading!Cleaned, Loading!Valid, Loading!SplitWith
  <2> QED
    BY <1>1, <1>2, <1>4, <2>1, <1>a DEF Loading!CleanUpDownloads
<1>5. CASE Loading!DeleteCache
  BY <1>1, <1>2, <1>5, <1>a DEF Loading!DeleteCache, Loading!Valid
<1>6. CASE Loading!AskHub
  BY <1>1, <1>2, <1>6 DEF Loading!AskHub, Loading!Valid
<1>7. CASE Loading!Locate
  <2>1. Loading!Valid(custom) /\ custom = atFirst.custom /\ source' = Loading!LocalDir /\ custom' = Loading!Linked
    BY <1>7 DEF Loading!Locate
  <2>2. custom' = custom \/ custom' = [custom EXCEPT !.single = TRUE]
    BY <2>1 DEF Loading!Linked
  <2>3. Loading!Complete(custom) => Loading!Complete(custom')
    <3>1. Loading!Complete(custom) => Loading!Complete([custom EXCEPT !.single = TRUE])
      BY <1>2, CompletePlaces
    <3> QED
      BY <2>2, <3>1
  <2>4. \/ source' = "default" /\ Loading!Complete(default)
        \/ source' = "custom" /\ (Loading!Complete(custom) \/ Loading!HasConfig(custom))
    BY <2>1 DEF Loading!LocalDir, Loading!Valid, Loading!Split, Loading!SplitWith
  <2> QED
    BY <1>1, <1>2, <1>7, <2>1, <2>3, <2>4 DEF Loading!Locate
<1>8. CASE Loading!Construct
  <2>1. pc' = "fallback" => ~Loading!Complete(atFirst.custom) /\ Loading!HasConfig(atFirst.custom)
    BY <1>2, <1>8, CompletePlaces DEF Loading!Construct
  <2>2. pc' \in {"loaded", "fallback"} /\ UNCHANGED <<default, atFirst>>
    BY <1>2, <1>8 DEF Loading!Construct
  <2> QED
    BY <1>1, <2>1, <2>2
<1>9. CASE Loading!Fallback
  BY <1>1, <1>2, <1>9 DEF Loading!Fallback
<1>10. CASE UNCHANGED Loading!vars
  BY <1>1, <1>10 DEF Loading!vars, Loading!Valid, Loading!SplitWith
<1> QED
  BY <1>3, <1>4, <1>5, <1>6, <1>7, <1>8, <1>9, <1>10 DEF Loading!Next

\* Whatever the two places hold, a load fails only if it must.
THEOREM LoadsIfPossible == Spec => []LoadsIfItCan
<1> DEFINE Inv == part = "load" => Loading!IInv
<1>1. Init => Inv
  BY StartOfOne, LoadingInit
<1>2. Inv /\ [Next]_vars => Inv'
  BY StepOfOne, LoadingNext
<1>3. Inv => LoadsIfItCan
  BY DEF LoadsIfItCan, Loading!IInv
<1> QED
  BY <1>1, <1>2, <1>3, PTL DEF Spec

HIDE DEF custom, default, trust, online, deletable, atFirst, pc, valid, source

------------------------------------------------------------------------------
(* ProjectStore.                                                               *)

model == v1
info == v2
built == v3
snapshots == v4
selection == v5
locked == v7
mem == v8
past == v9
USE DEF model, info, built, snapshots, selection, locked, mem, past

Kinds == Store!Given \cup {NoDir}
Pasts == [asked : [Projects -> Store!Given], failed : SUBSET Projects, raced : SUBSET Projects,
          locks : Nat, switches : Nat]
Mems == [current : Projects \cup {NoProject}, calls : SUBSET Store!Call]

\* The types, and what a stored filter is.
LEMMA StoreTypes ==
  ASSUME Store!TypeOK
  PROVE  /\ model \in Models /\ selection \in Projects \cup {NoProject} /\ locked \subseteq Store!Dirs
         /\ info \in [Store!Dirs -> Kinds] /\ built \in [Store!Dirs -> Kinds]
         /\ snapshots \in [Store!Dirs -> Kinds] /\ mem \in Mems /\ past \in Pasts
         /\ NoDir \notin Store!Given /\ NoFilters \in Store!Given
         /\ \A p \in Projects : <<p, model>> \in Store!Dirs
  BY ProjectsAssumption DEF Store!TypeOK, Kinds, Pasts, Mems, Store!Given, Store!Dirs

LEMMA TypesSuffice ==
  ASSUME (/\ model \in Models /\ selection \in Projects \cup {NoProject} /\ locked \subseteq Store!Dirs
          /\ info \in [Store!Dirs -> Kinds] /\ built \in [Store!Dirs -> Kinds]
          /\ snapshots \in [Store!Dirs -> Kinds] /\ mem \in Mems /\ past \in Pasts)'
  PROVE  Store!TypeOK'
  BY DEF Store!TypeOK, Kinds, Pasts, Mems

LEMMA StoreInit == Store!Init => Store!IInv
<1> SUFFICES ASSUME Store!Init PROVE Store!IInv
  OBVIOUS
<1>1. mem = [current |-> NoProject, calls |-> {}]
  BY DEF Store!Init, Store!Started
<1>2. past = [asked |-> [p \in Projects |-> NoFilters], failed |-> {}, raced |-> {}, locks |-> 0, switches |-> 0]
  BY DEF Store!Init
<1>3. /\ model \in Models /\ selection \in Projects \cup {NoProject} /\ locked \subseteq Store!Dirs
      /\ info = [d \in Store!Dirs |-> NoDir] /\ built = [d \in Store!Dirs |-> NoDir]
      /\ snapshots = [d \in Store!Dirs |-> NoDir]
  BY DEF Store!Init
<1>4. Store!TypeOK
  BY <1>1, <1>2, <1>3 DEF Store!TypeOK, Store!Given
<1> QED
  BY <1>1, <1>2, <1>3, <1>4 DEF Store!IInv, Store!IndexHasDirectory, Store!ForgottenWithDirectory,
     Store!AloneIsAlone, Store!OverlapIsKnown, Store!ReadIsStored, Store!OnlyDirectoryKeeps, Store!OnlyOneKeeps

\* get_project_storage_dir makes a directory that was not there and changes no other.
LEMMA EnsuredKeeps ==
  ASSUME Store!TypeOK, NEW p \in Projects, NEW dirs \in [Store!Dirs -> Kinds], NEW filter \in Store!Given
  PROVE  /\ Store!Ensured(dirs, p, filter) \in [Store!Dirs -> Kinds]
         /\ \A d \in Store!Dirs : dirs[d] # NoDir \/ d # <<p, model>> => Store!Ensured(dirs, p, filter)[d] = dirs[d]
         /\ Store!Ensured(dirs, p, filter)[<<p, model>>] = (IF dirs[<<p, model>>] = NoDir THEN filter ELSE dirs[<<p, model>>])
  BY StoreTypes DEF Store!Ensured, Kinds

\* A project is as it was where its directories, its calls and its past are.
LEMMA UntouchedKeeps ==
  ASSUME Store!IInv, NEW q \in Projects,
         \A d \in Store!DirsOf(q)' : d \in Store!DirsOf(q) /\ info'[d] = info[d] /\ built'[d] = built[d],
         Store!DirsOf(q) \subseteq Store!DirsOf(q)',
         Store!CallsOf(q)' = Store!CallsOf(q),
         past'.asked[q] = past.asked[q],
         q \in past.raced => q \in past'.raced, q \in past.failed => q \in past'.failed
  PROVE  Store!OnlyOneKeeps(q)'
<1>1. Store!DirsOf(q)' = Store!DirsOf(q)
  OBVIOUS
<1>2. (Store!SavedCalls \cap Store!CallsOf(q))' = Store!SavedCalls \cap Store!CallsOf(q)
  <2>1. (Store!SavedCalls \cap Store!CallsOf(q))' = {call \in Store!CallsOf(q)' : call.saved}
    BY DEF Store!SavedCalls, Store!CallsOf
  <2>2. Store!SavedCalls \cap Store!CallsOf(q) = {call \in Store!CallsOf(q) : call.saved}
    BY DEF Store!SavedCalls, Store!CallsOf
  <2> QED
    BY <2>1, <2>2
<1>3. Store!OnlyOneKeeps(q)
  BY DEF Store!IInv, Store!OnlyDirectoryKeeps
<1> SUFFICES ASSUME NEW d \in Store!Dirs, Store!DirsOf(q) = {d}, past'.asked[q] # NoFilters, q \notin past'.raced
             PROVE  /\ info'[d] = past'.asked[q]
                    /\ \A call \in Store!CallsOf(q)' : call.saved => call.given = past'.asked[q]
                    /\ \/ q \in past'.failed
                       \/ (Store!SavedCalls \cap Store!CallsOf(q))' # {}
                       \/ built'[d] \in {NoDir, past'.asked[q]}
  BY <1>1 DEF Store!OnlyOneKeeps
<1> QED
  BY <1>2, <1>3 DEF Store!OnlyOneKeeps

\* Calls that build no index and are no step of index_directory leave the calls under way
\* and, to a project that still has its filters, its directories; or they end all calls.
LEMMA OthersKeepInv ==
  ASSUME Store!IInv,
         \A d \in Store!Dirs :
           \/ built'[d] = NoDir
           \/ built'[d] = built[d] /\ (info[d] # NoDir => info'[d] # NoDir),
         \A p \in Projects :
           \/ past'.asked[p] = NoFilters
           \/ past'.asked[p] = past.asked[p] /\ \A d \in Store!DirsOf(p) : info'[d] = info[d],
         past'.raced = past.raced, past.failed \subseteq past'.failed,
         \/ mem'.calls = mem.calls /\ \A d \in Store!Dirs : info[d] # NoDir => info'[d] = info[d]
         \/ mem'.calls = {} /\ \A call \in mem.calls : call.saved => call.project \in past'.failed
  PROVE  (/\ Store!IndexHasDirectory /\ Store!ForgottenWithDirectory /\ Store!AloneIsAlone
          /\ Store!OverlapIsKnown /\ Store!ReadIsStored /\ Store!OnlyDirectoryKeeps)'
<1>1. Store!IndexHasDirectory'
  BY DEF Store!IInv, Store!IndexHasDirectory
<1>2. ASSUME NEW p \in Projects, past'.asked[p] # NoFilters
      PROVE  /\ past'.asked[p] = past.asked[p] /\ Store!DirsOf(p) # {} /\ Store!DirsOf(p) \subseteq Store!DirsOf(p)'
             /\ \A d \in Store!DirsOf(p) : info'[d] = info[d]
  <2>1. past'.asked[p] = past.asked[p] /\ \A d \in Store!DirsOf(p) : info'[d] = info[d]
    BY <1>2
  <2> QED
    BY <1>2, <2>1 DEF Store!IInv, Store!ForgottenWithDirectory, Store!DirsOf, Store!Known
<1>3. Store!ForgottenWithDirectory'
  BY <1>2 DEF Store!ForgottenWithDirectory
<1>4. (Store!AloneIsAlone /\ Store!OverlapIsKnown)'
  BY DEF Store!IInv, Store!AloneIsAlone, Store!OverlapIsKnown, Store!CallsOf
<1>5. Store!ReadIsStored'
  <2> SUFFICES ASSUME NEW call \in mem'.calls, ~call.saved
               PROVE  /\ call.from \in Store!Dirs /\ call.from[1] = call.project
                      /\ call.alone => info'[call.from] = call.stored
    BY DEF Store!ReadIsStored
  <2>1. call \in mem.calls /\ \A d \in Store!Dirs : info[d] # NoDir => info'[d] = info[d]
    OBVIOUS
  <2>2. call.stored # NoDir
    BY <2>1, StoreTypes DEF Store!IInv, Mems, Store!Call
  <2> QED
    BY <2>1, <2>2 DEF Store!IInv, Store!ReadIsStored
<1>6. Store!OnlyDirectoryKeeps'
  <2> SUFFICES ASSUME NEW p \in Projects, NEW d \in Store!Dirs,
                      Store!DirsOf(p)' = {d}, past'.asked[p] # NoFilters, p \notin past'.raced
               PROVE  /\ info'[d] = past'.asked[p]
                      /\ \A call \in Store!CallsOf(p)' : call.saved => call.given = past'.asked[p]
                      /\ \/ p \in past'.failed
                         \/ (Store!SavedCalls \cap Store!CallsOf(p))' # {}
                         \/ built'[d] \in {NoDir, past'.asked[p]}
    BY DEF Store!OnlyDirectoryKeeps, Store!OnlyOneKeeps
  <2>1. Store!DirsOf(p) = {d} /\ past'.asked[p] = past.asked[p] /\ info'[d] = info[d]
    BY <1>2
  <2>2. /\ info[d] = past.asked[p]
        /\ \A call \in Store!CallsOf(p) : call.saved => call.given = past.asked[p]
        /\ p \in past.failed \/ Store!SavedCalls \cap Store!CallsOf(p) # {} \/ built[d] \in {NoDir, past.asked[p]}
    BY <2>1 DEF Store!IInv, Store!OnlyDirectoryKeeps, Store!OnlyOneKeeps
  <2>3. CASE mem'.calls = mem.calls
    <3>1. Store!CallsOf(p)' = Store!CallsOf(p) /\ Store!SavedCalls' = Store!SavedCalls
      BY <2>3 DEF Store!CallsOf, Store!SavedCalls
    <3> QED
      BY <2>1, <2>2, <3>1
  <2>4. CASE mem'.calls = {} /\ \A call \in mem.calls : call.saved => call.project \in past'.failed
    <3>1. Store!CallsOf(p)' = {}
      BY <2>4 DEF Store!CallsOf
    <3>2. Store!SavedCalls \cap Store!CallsOf(p) # {} => p \in past'.failed
      BY <2>4 DEF Store!CallsOf, Store!SavedCalls
    <3> QED
      BY <2>1, <2>2, <3>1, <3>2
  <2> QED
    BY <2>3, <2>4
<1> QED
  BY <1>1, <1>3, <1>4, <1>5, <1>6

\* Overlapped changes nothing of a call but whether it is alone, and that for p only.
LEMMA OverlappedCalls ==
  ASSUME Store!TypeOK, NEW p \in Projects
  PROVE  /\ Store!Overlapped(p) \subseteq Store!Call
         /\ Store!CallsOf(p) = {} => Store!Overlapped(p) = mem.calls
         /\ \A call \in Store!Overlapped(p) : call.project # p => call \in mem.calls
         /\ \A call \in mem.calls : call.project # p => call \in Store!Overlapped(p)
         /\ \A call \in Store!Overlapped(p) : call.project = p =>
              /\ ~call.alone
              /\ \E was \in mem.calls : was.project = p /\ was.saved = call.saved /\ was.from = call.from
<1> DEFINE After(call) == IF call.project = p THEN [call EXCEPT !.alone = FALSE] ELSE call
<1>1. mem.calls \subseteq Store!Call
  BY StoreTypes DEF Mems
<1>2. Store!Overlapped(p) = {After(call) : call \in mem.calls}
  BY DEF Store!Overlapped
<1>3. ASSUME NEW was \in mem.calls, was.project = p
      PROVE  /\ After(was) \in Store!Call /\ After(was).project = p /\ ~After(was).alone
             /\ After(was).saved = was.saved /\ After(was).from = was.from
  <2>1. was \in Store!Call
    BY <1>1
  <2> QED
    BY <1>3, <2>1 DEF Store!Call
<1>4. \A was \in mem.calls : was.project # p => After(was) = was
  OBVIOUS
<1> HIDE DEF After
<1>5. Store!CallsOf(p) = {} => \A was \in mem.calls : was.project # p
  BY DEF Store!CallsOf
<1> QED
  BY <1>1, <1>2, <1>3, <1>4, <1>5

\* index_directory, up to its reading of the filters.
LEMMA ReadKeepsInv ==
  ASSUME Store!IInv, NEW p \in Projects, NEW given \in Store!Given, NEW full \in BOOLEAN,
         Store!IndexDirectory(p, given, full)
  PROVE  Store!IInv'
<1> DEFINE here == <<p, model>>
           made == IF Store!DirsOf(p) = {} THEN Store!Ensured(info, p, NoFilters) ELSE info
<1>1. PICK by \in IndexCallers, d \in Store!Canonicals(p) :
        mem' = [mem EXCEPT !.calls = Store!Overlapped(p) \cup
                 {[by |-> by, project |-> p, given |-> given, full |-> full, saved |-> FALSE,
                   from |-> d, stored |-> made[d], alone |-> Store!CallsOf(p) = {}]}]
  BY DEF Store!IndexDirectory
<1> DEFINE read == [by |-> by, project |-> p, given |-> given, full |-> full, saved |-> FALSE,
                    from |-> d, stored |-> made[d], alone |-> Store!CallsOf(p) = {}]
<1>2. /\ info' = made /\ UNCHANGED <<model, built, snapshots, selection, locked>>
      /\ past' = [past EXCEPT !.raced = IF Store!CallsOf(p) = {} THEN @ ELSE @ \cup {p}]
  BY DEF Store!IndexDirectory
<1>3. Store!TypeOK
  BY DEF Store!IInv
<1>4. /\ made \in [Store!Dirs -> Kinds]
      /\ \A e \in Store!Dirs : info[e] # NoDir \/ e # here => made[e] = info[e]
      /\ Store!DirsOf(p) = {} => made[here] # NoDir
      /\ Store!DirsOf(p) # {} => made = info
  <2>1. Store!DirsOf(p) = {} => info[here] = NoDir
    BY <1>3, StoreTypes DEF Store!DirsOf, Store!Known
  <2> QED
    BY <1>3, <2>1, StoreTypes, EnsuredKeeps
<1>5. d \in Store!Dirs /\ d[1] = p /\ made[d] \in Store!Given
  <2>1. CASE Store!DirsOf(p) = {}
    BY <1>3, <1>4, <2>1, StoreTypes DEF Store!Canonicals, Kinds
  <2>2. CASE Store!DirsOf(p) # {}
    BY <1>3, <1>4, <2>2, StoreTypes DEF Store!Canonicals, Store!Canonical, Store!DirsOf, Store!Known, Kinds
  <2> QED
    BY <2>1, <2>2
<1> HIDE DEF made
<1>6. /\ read \in Store!Call /\ read.project = p /\ ~read.saved /\ read.from = d /\ read.stored = made[d]
      /\ read.alone <=> Store!CallsOf(p) = {}
  BY <1>5 DEF Store!Call
<1>20. mem' = [mem EXCEPT !.calls = Store!Overlapped(p) \cup {read}]
  BY <1>1
<1> HIDE DEF read
<1>7. mem' \in Mems /\ mem'.calls = Store!Overlapped(p) \cup {read}
  <2>1. Store!Overlapped(p) \cup {read} \subseteq Store!Call /\ mem \in Mems
    BY <1>3, <1>6, StoreTypes, OverlappedCalls
  <2> HIDE DEF made
  <2> QED
    BY <1>20, <2>1 DEF Mems
<1>8. /\ past' \in Pasts /\ past'.asked = past.asked /\ past'.failed = past.failed
      /\ past'.raced = IF Store!CallsOf(p) = {} THEN past.raced ELSE past.raced \cup {p}
  BY <1>2, <1>3, StoreTypes DEF Pasts
<1>9. Store!TypeOK'
  BY <1>2, <1>3, <1>4, <1>7, <1>8, StoreTypes, TypesSuffice
<1>10. Store!IndexHasDirectory'
  BY <1>2, <1>3, <1>4 DEF Store!IInv, Store!IndexHasDirectory
<1>11. \A q \in Projects \ {p} : Store!DirsOf(q)' = Store!DirsOf(q) /\ Store!CallsOf(q)' = Store!CallsOf(q)
  <2>1. ASSUME NEW q \in Projects \ {p} PROVE Store!CallsOf(q)' = Store!CallsOf(q)
    BY <1>3, <1>6, <1>7, OverlappedCalls DEF Store!CallsOf
  <2>2. ASSUME NEW q \in Projects \ {p} PROVE Store!DirsOf(q)' = Store!DirsOf(q)
    BY <1>2, <1>4 DEF Store!DirsOf, Store!Known
  <2> QED
    BY <2>1, <2>2
<1>12. Store!ForgottenWithDirectory'
  BY <1>2, <1>4, <1>8, <1>11 DEF Store!IInv, Store!ForgottenWithDirectory, Store!DirsOf, Store!Known
<1>13. ASSUME NEW call \in mem'.calls
       PROVE  \/ call = read
              \/ /\ call \in mem.calls /\ call.project # p
              \/ /\ call.project = p /\ ~call.alone /\ Store!CallsOf(p) # {}
                 /\ \E was \in mem.calls : was.project = p /\ was.saved = call.saved /\ was.from = call.from
  BY <1>3, <1>7, OverlappedCalls DEF Store!CallsOf
<1>14. Store!CallsOf(p) = {} => Store!CallsOf(p)' = {read}
  BY <1>3, <1>6, <1>7, OverlappedCalls DEF Store!CallsOf
<1>15. mem.calls \subseteq Store!Call
  BY <1>3, StoreTypes DEF Mems
<1>16. Store!AloneIsAlone'
  <2> SUFFICES ASSUME NEW call \in mem'.calls, call.alone
               PROVE  Store!CallsOf(call.project)' = {call}
    BY DEF Store!AloneIsAlone
  <2> QED
    BY <1>6, <1>11, <1>13, <1>14, <1>15 DEF Store!IInv, Store!AloneIsAlone, Store!Call
<1>17. Store!OverlapIsKnown'
  BY <1>6, <1>8, <1>13 DEF Store!IInv, Store!OverlapIsKnown
<1>18. Store!ReadIsStored'
  <2> SUFFICES ASSUME NEW call \in mem'.calls, ~call.saved
               PROVE  /\ call.from \in Store!Dirs /\ call.from[1] = call.project
                      /\ call.alone => info'[call.from] = call.stored
    BY DEF Store!ReadIsStored
  <2>1. CASE call = read
    BY <1>2, <1>5, <1>6, <2>1
  <2>2. CASE call \in mem.calls /\ call.project # p
    <3>1. call.stored # NoDir
      BY <1>3, <1>15, <2>2, StoreTypes DEF Store!Call
    <3> QED
      BY <1>2, <1>4, <2>2, <3>1 DEF Store!IInv, Store!ReadIsStored
  <2>3. CASE call.project = p /\ ~call.alone
             /\ \E was \in mem.calls : was.project = p /\ was.saved = call.saved /\ was.from = call.from
    BY <2>3 DEF Store!IInv, Store!ReadIsStored
  <2> QED
    BY <1>13, <2>1, <2>2, <2>3
<1>19. ASSUME NEW q \in Projects PROVE Store!OnlyOneKeeps(q)'
  <2>1. CASE q # p
    <3>1. \A e \in Store!DirsOf(q) : info'[e] = info[e]
      BY <1>2, <1>4 DEF Store!DirsOf, Store!Known
    <3> QED
      BY <1>2, <1>8, <1>11, <2>1, <3>1, UntouchedKeeps
  <2>2. CASE q = p
    <3> SUFFICES ASSUME NEW e \in Store!Dirs, Store!DirsOf(p)' = {e}, past'.asked[p] # NoFilters, p \notin past'.raced
                 PROVE  /\ info'[e] = past'.asked[p]
                        /\ \A call \in Store!CallsOf(p)' : call.saved => call.given = past'.asked[p]
                        /\ \/ p \in past'.failed
                           \/ (Store!SavedCalls \cap Store!CallsOf(p))' # {}
                           \/ built'[e] \in {NoDir, past'.asked[p]}
      BY <2>2 DEF Store!OnlyOneKeeps
    <3>1. Store!CallsOf(p) = {} /\ p \notin past.raced
      BY <1>8
    <3>2. info' = info
      BY <1>2, <1>4, <1>8 DEF Store!IInv, Store!ForgottenWithDirectory
    <3>3. Store!DirsOf(p) = {e}
      BY <3>2 DEF Store!DirsOf, Store!Known
    <3>4. info[e] = past.asked[p] /\ (p \in past.failed \/ built[e] \in {NoDir, past.asked[p]})
      BY <1>8, <3>1, <3>3 DEF Store!IInv, Store!OnlyDirectoryKeeps, Store!OnlyOneKeeps
    <3> QED
      BY <1>2, <1>6, <1>8, <1>14, <3>1, <3>2, <3>4
  <2> QED
    BY <2>1, <2>2
<1> QED
  BY <1>9, <1>10, <1>12, <1>16, <1>17, <1>18, <1>19 DEF Store!IInv, Store!OnlyDirectoryKeeps

\* What saving leaves: the filters are those that were given or else read, and they are
\* stored if the call's own directory is the one it has read.
LEMMA WhatIsSaved ==
  ASSUME Store!TypeOK, NEW call \in mem.calls, Store!SaveFilters(call)
  PROVE  \E f, filter \in Store!Given, full \in BOOLEAN :
           /\ info' = [info EXCEPT ![<<call.project, model>>] = f]
           /\ filter = Store!Effective(call.given, call.stored)
           /\ mem' = [mem EXCEPT !.current = call.project,
                                 !.calls = (@ \ {call}) \cup
                                   {[call EXCEPT !.saved = TRUE, !.given = filter, !.full = full,
                                                 !.from = NoDir, !.stored = NoFilters]}]
           /\ filter # NoFilters /\ call.from = <<call.project, model>> /\ info[call.from] = call.stored => f = filter
<1> DEFINE p == call.project
           here == <<p, model>>
           filter == Store!Effective(call.given, call.stored)
           exists == info[call.from] # NoDir
           changed == exists /\ filter # call.stored
           ensured == Store!Ensured(info, p, filter)
           kept == IF exists /\ ~changed THEN info ELSE Store!Updated(ensured, p, filter)
           left == Store!Ensured(kept, p, NoFilters)
<1>1. call \in Store!Call
  BY StoreTypes DEF Mems
<1>2. p \in Projects /\ filter \in Store!Given /\ call.full \in BOOLEAN /\ call.stored \in Store!Given
  BY <1>1 DEF Store!Call, Store!Effective
<1>3. ensured \in [Store!Dirs -> Kinds] /\ \E x \in Kinds : ensured = [info EXCEPT ![here] = x]
  <2>1. info \in [Store!Dirs -> Kinds] /\ here \in Store!Dirs /\ filter \in Kinds /\ info[here] \in Kinds
    BY <1>2, StoreTypes DEF Kinds
  <2>2. info = [info EXCEPT ![here] = info[here]] /\ [info EXCEPT ![here] = filter] \in [Store!Dirs -> Kinds]
    BY <2>1
  <2>3. ensured = [info EXCEPT ![here] = filter] \/ ensured = info
    BY DEF Store!Ensured
  <2> HIDE DEF filter, ensured
  <2> QED
    BY <2>1, <2>2, <2>3
<1>4. /\ info' = left
      /\ mem' = [mem EXCEPT !.current = p,
                            !.calls = (@ \ {call}) \cup
                              {[call EXCEPT !.saved = TRUE, !.given = filter, !.full = call.full \/ changed,
                                            !.from = NoDir, !.stored = NoFilters]}]
  BY <1>1 DEF Store!SaveFilters
<1> HIDE DEF filter, ensured
<1>5. /\ kept \in [Store!Dirs -> Kinds] /\ \E x \in Kinds : kept = [info EXCEPT ![here] = x]
      /\ filter # NoFilters /\ call.from = here /\ info[here] = call.stored => kept[here] = filter
  <2>1. CASE exists /\ ~changed
    <3>1. kept = info /\ info = [info EXCEPT ![here] = info[here]] /\ info[here] \in Kinds
      BY <1>2, <2>1, StoreTypes
    <3> QED
      BY <2>1, <3>1, StoreTypes
  <2>2. CASE ~(exists /\ ~changed)
    <3>1. kept = Store!Updated(ensured, p, filter)
      BY <2>2
    <3> QED
      BY <1>2, <1>3, <3>1, StoreTypes DEF Store!Updated, Kinds
  <2> QED
    BY <2>1, <2>2
<1> HIDE DEF kept
<1>6. /\ left[here] \in Store!Given /\ left = [info EXCEPT ![here] = left[here]]
      /\ kept[here] \in Store!Given => left[here] = kept[here]
  BY <1>2, <1>5, StoreTypes DEF Store!Ensured, Kinds
<1> HIDE DEF left
<1>7. (call.full \/ changed) \in BOOLEAN
  BY <1>2
<1> QED
  BY <1>2, <1>4, <1>5, <1>6, <1>7 DEF filter

LEMMA SaveKeepsInv ==
  ASSUME Store!IInv, NEW call \in mem.calls, Store!SaveFilters(call)
  PROVE  Store!IInv'
<1> DEFINE p == call.project
           here == <<p, model>>
<1>1. Store!TypeOK
  BY DEF Store!IInv
<1>2. PICK f \in Store!Given, filter \in Store!Given, full \in BOOLEAN :
        /\ info' = [info EXCEPT ![here] = f]
        /\ filter = Store!Effective(call.given, call.stored)
        /\ mem' = [mem EXCEPT !.current = p,
                              !.calls = (@ \ {call}) \cup
                                {[call EXCEPT !.saved = TRUE, !.given = filter, !.full = full,
                                              !.from = NoDir, !.stored = NoFilters]}]
        /\ filter # NoFilters /\ call.from = here /\ info[call.from] = call.stored => f = filter
  BY <1>1, WhatIsSaved
<1> DEFINE saved == [call EXCEPT !.saved = TRUE, !.given = filter, !.full = full,
                                 !.from = NoDir, !.stored = NoFilters]
<1>3. /\ call \in Store!Call /\ p \in Projects /\ mem.calls \subseteq Store!Call
      /\ call.stored \in Store!Given /\ call.given \in Store!Given /\ call.alone \in BOOLEAN
  BY <1>1, StoreTypes DEF Mems, Store!Call
<1>4. saved \in Store!Call /\ saved.project = p /\ saved.saved /\ saved.given = filter /\ saved.alone = call.alone
  BY <1>1, <1>3, StoreTypes DEF Store!Call
<1>5. /\ ~call.saved /\ UNCHANGED <<model, built, snapshots, selection, locked>>
      /\ past' = [past EXCEPT !.asked[p] = IF call.given = NoFilters THEN @ ELSE call.given,
                              !.raced = IF call.alone /\ call.given # NoFilters THEN @ \ {p} ELSE @]
  BY DEF Store!SaveFilters
<1>6. mem' \in Mems /\ mem'.calls = (mem.calls \ {call}) \cup {saved}
  BY <1>1, <1>2, <1>3, <1>4, StoreTypes DEF Mems
<1> HIDE DEF saved
<1>7. /\ past' \in Pasts /\ past'.failed = past.failed
      /\ past'.asked = [past.asked EXCEPT ![p] = IF call.given = NoFilters THEN @ ELSE call.given]
      /\ past'.raced = IF call.alone /\ call.given # NoFilters THEN past.raced \ {p} ELSE past.raced
  BY <1>1, <1>3, <1>5, StoreTypes DEF Pasts
<1>8. here \in Store!Dirs /\ NoDir \notin Store!Given /\ info \in [Store!Dirs -> Kinds]
      /\ info' \in [Store!Dirs -> Kinds] /\ info'[here] = f
      /\ \A e \in Store!Dirs \ {here} : info'[e] = info[e]
  BY <1>1, <1>2, <1>3, StoreTypes DEF Kinds
<1>9. Store!TypeOK'
  BY <1>1, <1>5, <1>6, <1>7, <1>8, StoreTypes, TypesSuffice
<1>10. Store!IndexHasDirectory'
  BY <1>5, <1>8 DEF Store!IInv, Store!IndexHasDirectory
<1>11. \A q \in Projects \ {p} : Store!DirsOf(q)' = Store!DirsOf(q) /\ Store!CallsOf(q)' = Store!CallsOf(q)
  <2>1. ASSUME NEW q \in Projects \ {p} PROVE Store!CallsOf(q)' = Store!CallsOf(q)
    BY <1>4, <1>6 DEF Store!CallsOf
  <2>2. ASSUME NEW q \in Projects \ {p} PROVE Store!DirsOf(q)' = Store!DirsOf(q)
    BY <1>8 DEF Store!DirsOf, Store!Known
  <2> QED
    BY <2>1, <2>2
<1>12. Store!DirsOf(p)' = Store!DirsOf(p) \cup {here}
  BY <1>8 DEF Store!DirsOf, Store!Known
<1>13. Store!ForgottenWithDirectory'
  <2> SUFFICES ASSUME NEW q \in Projects, Store!DirsOf(q)' = {} PROVE past'.asked[q] = NoFilters
    BY DEF Store!ForgottenWithDirectory
  <2>1. q # p
    BY <1>12
  <2> QED
    BY <1>1, <1>7, <1>11, <2>1, StoreTypes DEF Store!IInv, Store!ForgottenWithDirectory, Pasts
<1>14. call.alone => Store!CallsOf(p) = {call} /\ Store!CallsOf(p)' = {saved}
  <2> SUFFICES ASSUME call.alone PROVE Store!CallsOf(p) = {call} /\ Store!CallsOf(p)' = {saved}
    OBVIOUS
  <2>1. Store!CallsOf(p) = {call}
    BY DEF Store!IInv, Store!AloneIsAlone
  <2> QED
    BY <1>4, <1>6, <2>1 DEF Store!CallsOf
<1>15. \A other \in mem.calls \ {call} : other.alone => other.project # p
  BY DEF Store!IInv, Store!AloneIsAlone, Store!CallsOf
<1>16. Store!AloneIsAlone'
  <2> SUFFICES ASSUME NEW other \in mem'.calls, other.alone
               PROVE  Store!CallsOf(other.project)' = {other}
    BY DEF Store!AloneIsAlone
  <2>1. CASE other = saved
    BY <1>4, <1>14, <2>1
  <2>2. CASE other \in mem.calls \ {call}
    <3>1. other.project \in Projects \ {p}
      BY <1>3, <1>15, <2>2 DEF Store!Call
    <3> QED
      BY <1>11, <2>2, <3>1 DEF Store!IInv, Store!AloneIsAlone
  <2> QED
    BY <1>6, <2>1, <2>2
<1>17. Store!OverlapIsKnown'
  <2> SUFFICES ASSUME NEW other \in mem'.calls, ~other.alone
               PROVE  other.project \in past'.raced
    BY DEF Store!OverlapIsKnown
  <2>1. CASE other = saved
    BY <1>4, <1>7, <2>1 DEF Store!IInv, Store!OverlapIsKnown
  <2>2. CASE other \in mem.calls \ {call}
    <3>1. other.project \in past.raced
      BY <2>2 DEF Store!IInv, Store!OverlapIsKnown
    <3>2. other.project = p => ~call.alone
      BY <1>14, <2>2 DEF Store!CallsOf
    <3> QED
      BY <1>7, <3>1, <3>2
  <2> QED
    BY <1>6, <2>1, <2>2
<1>18. Store!ReadIsStored'
  <2> SUFFICES ASSUME NEW other \in mem'.calls, ~other.saved
               PROVE  /\ other.from \in Store!Dirs /\ other.from[1] = other.project
                      /\ other.alone => info'[other.from] = other.stored
    BY DEF Store!ReadIsStored
  <2>1. other \in mem.calls \ {call}
    BY <1>4, <1>6
  <2>2. /\ other.from \in Store!Dirs /\ other.from[1] = other.project
        /\ other.alone => info[other.from] = other.stored
    BY <2>1 DEF Store!IInv, Store!ReadIsStored
  <2>3. other.alone => other.from # here
    BY <1>15, <2>1, <2>2
  <2> QED
    BY <1>8, <2>2, <2>3
<1>19. ASSUME NEW q \in Projects PROVE Store!OnlyOneKeeps(q)'
  <2>1. CASE q # p
    <3>1. \A e \in Store!DirsOf(q) : info'[e] = info[e]
      BY <1>8, <2>1 DEF Store!DirsOf, Store!Known
    <3>2. past'.asked[q] = past.asked[q] /\ (q \in past.raced => q \in past'.raced)
      BY <1>1, <1>7, <2>1, StoreTypes DEF Pasts
    <3> QED
      BY <1>5, <1>7, <1>11, <2>1, <3>1, <3>2, UntouchedKeeps
  <2>2. CASE q = p
    <3> SUFFICES ASSUME NEW e \in Store!Dirs, Store!DirsOf(p)' = {e}, past'.asked[p] # NoFilters, p \notin past'.raced
                 PROVE  /\ info'[e] = past'.asked[p]
                        /\ \A other \in Store!CallsOf(p)' : other.saved => other.given = past'.asked[p]
                        /\ (Store!SavedCalls \cap Store!CallsOf(p))' # {}
      BY <2>2 DEF Store!OnlyOneKeeps
    <3>1. e = here /\ Store!DirsOf(p) \subseteq {here}
      BY <1>12
    <3>2. call.alone
      BY <1>7 DEF Store!IInv, Store!OverlapIsKnown
    <3>3. call.from \in Store!Dirs /\ call.from[1] = p /\ info[call.from] = call.stored
      BY <1>5, <3>2 DEF Store!IInv, Store!ReadIsStored
    <3>4. call.from = here /\ Store!DirsOf(p) = {here}
      BY <1>3, <1>8, <3>1, <3>3 DEF Store!DirsOf, Store!Known
    <3>5. past'.asked[p] = IF call.given = NoFilters THEN past.asked[p] ELSE call.given
      BY <1>1, <1>3, <1>7, StoreTypes DEF Pasts
    <3>6. filter = past'.asked[p]
      <4>1. CASE call.given = NoFilters
        <5>1. filter = info[here] /\ past'.asked[p] = past.asked[p] /\ p \notin past.raced
          BY <1>2, <1>7, <3>3, <3>4, <3>5, <4>1 DEF Store!Effective
        <5> QED
          BY <1>3, <1>8, <3>4, <5>1 DEF Store!IInv, Store!OnlyDirectoryKeeps, Store!OnlyOneKeeps
      <4>2. CASE call.given # NoFilters
        BY <1>2, <3>5, <4>2 DEF Store!Effective
      <4> QED
        BY <4>1, <4>2
    <3>7. info'[e] = past'.asked[p]
      BY <1>2, <1>8, <3>1, <3>3, <3>4, <3>6
    <3>8. saved \in (Store!SavedCalls \cap Store!CallsOf(p))'
      BY <1>4, <1>6 DEF Store!SavedCalls, Store!CallsOf
    <3> QED
      BY <1>4, <1>14, <3>2, <3>6, <3>7, <3>8
  <2> QED
    BY <2>1, <2>2
<1> QED
  BY <1>9, <1>10, <1>13, <1>16, <1>17, <1>18, <1>19 DEF Store!IInv, Store!OnlyDirectoryKeeps

LEMMA RunKeepsInv ==
  ASSUME Store!IInv, NEW call \in mem.calls, Store!RunIndex(call)
  PROVE  Store!IInv'
<1> DEFINE p == call.project
           here == <<p, model>>
           used == Store!RunFilter(p, call.full, call.given)
<1>1. Store!TypeOK
  BY DEF Store!IInv
<1>2. PICK succeeds \in BOOLEAN :
        /\ built' = IF succeeds THEN [built EXCEPT ![here] = used] ELSE built
        /\ snapshots' = IF succeeds THEN [snapshots EXCEPT ![here] = used] ELSE snapshots
        /\ past' = [past EXCEPT !.failed = IF succeeds THEN @ \ {p} ELSE @ \cup {p}]
  BY DEF Store!RunIndex
<1>3. /\ call.saved /\ info' = Store!Ensured(info, p, NoFilters) /\ mem' = [mem EXCEPT !.calls = @ \ {call}]
      /\ UNCHANGED <<model, selection, locked>>
  BY DEF Store!RunIndex
<1>4. /\ call \in Store!Call /\ p \in Projects /\ mem.calls \subseteq Store!Call /\ call.given \in Store!Given
  BY <1>1, StoreTypes DEF Mems, Store!Call
<1>5. used \in Store!Given /\ (call.given # NoFilters => used = call.given)
  BY <1>1, <1>4, StoreTypes DEF Store!RunFilter, Kinds
<1> HIDE DEF used
<1>6. /\ here \in Store!Dirs /\ NoDir \notin Store!Given /\ info' \in [Store!Dirs -> Kinds] /\ info'[here] # NoDir
      /\ \A e \in Store!Dirs : info[e] # NoDir \/ e # here => info'[e] = info[e]
  BY <1>1, <1>3, <1>4, StoreTypes, EnsuredKeeps
<1>7. built' \in [Store!Dirs -> Kinds] /\ snapshots' \in [Store!Dirs -> Kinds]
      /\ \A e \in Store!Dirs \ {here} : built'[e] = built[e]
  BY <1>1, <1>2, <1>5, StoreTypes DEF Kinds
<1>8. mem' \in Mems /\ mem'.calls = mem.calls \ {call}
  BY <1>1, <1>3, StoreTypes DEF Mems
<1>9. /\ past' \in Pasts /\ past'.asked = past.asked /\ past'.raced = past.raced
      /\ past'.failed = IF succeeds THEN past.failed \ {p} ELSE past.failed \cup {p}
  BY <1>1, <1>2, <1>4, StoreTypes DEF Pasts
<1>10. Store!TypeOK'
  BY <1>1, <1>3, <1>6, <1>7, <1>8, <1>9, StoreTypes, TypesSuffice
<1>11. Store!IndexHasDirectory'
  BY <1>6, <1>7 DEF Store!IInv, Store!IndexHasDirectory
<1>12. \A q \in Projects \ {p} : Store!DirsOf(q)' = Store!DirsOf(q) /\ Store!CallsOf(q)' = Store!CallsOf(q)
  <2>1. ASSUME NEW q \in Projects \ {p} PROVE Store!CallsOf(q)' = Store!CallsOf(q)
    BY <1>8 DEF Store!CallsOf
  <2>2. ASSUME NEW q \in Projects \ {p} PROVE Store!DirsOf(q)' = Store!DirsOf(q)
    BY <1>6 DEF Store!DirsOf, Store!Known
  <2> QED
    BY <2>1, <2>2
<1>13. Store!DirsOf(p)' = Store!DirsOf(p) \cup {here}
  BY <1>4, <1>6 DEF Store!DirsOf, Store!Known
<1>14. Store!ForgottenWithDirectory'
  BY <1>9, <1>12, <1>13 DEF Store!IInv, Store!ForgottenWithDirectory
<1>15. Store!AloneIsAlone' /\ Store!OverlapIsKnown'
  BY <1>8, <1>9 DEF Store!IInv, Store!AloneIsAlone, Store!OverlapIsKnown, Store!CallsOf
<1>16. Store!ReadIsStored'
  <2> SUFFICES ASSUME NEW other \in mem.calls, ~other.saved
               PROVE  /\ other.from \in Store!Dirs /\ other.from[1] = other.project
                      /\ other.alone => info'[other.from] = other.stored
    BY <1>8 DEF Store!ReadIsStored
  <2>1. other.stored # NoDir
    BY <1>4, <1>6 DEF Store!Call
  <2> QED
    BY <1>6, <2>1 DEF Store!IInv, Store!ReadIsStored
<1>17. ASSUME NEW q \in Projects PROVE Store!OnlyOneKeeps(q)'
  <2>1. CASE q # p
    <3>1. \A e \in Store!DirsOf(q) : info'[e] = info[e] /\ built'[e] = built[e]
      BY <1>6, <1>7, <2>1 DEF Store!DirsOf, Store!Known
    <3> QED
      BY <1>9, <1>12, <2>1, <3>1, UntouchedKeeps
  <2>2. CASE q = p
    <3> SUFFICES ASSUME NEW e \in Store!Dirs, Store!DirsOf(p)' = {e}, past'.asked[p] # NoFilters, p \notin past'.raced
                 PROVE  /\ info'[e] = past'.asked[p]
                        /\ Store!CallsOf(p)' = {}
                        /\ p \in past'.failed \/ built'[e] = past'.asked[p]
      BY <2>2 DEF Store!OnlyOneKeeps
    <3>1. e = here /\ Store!DirsOf(p) \subseteq {here}
      BY <1>13
    <3>2. Store!DirsOf(p) = {here}
      BY <1>4, <1>9, <3>1 DEF Store!IInv, Store!ForgottenWithDirectory
    <3>3. Store!CallsOf(p) = {call}
      BY <1>9 DEF Store!IInv, Store!OverlapIsKnown, Store!AloneIsAlone
    <3>4. Store!CallsOf(p)' = {}
      BY <1>8, <3>3 DEF Store!CallsOf
    <3>5. info[here] = past.asked[p] /\ call.given = past.asked[p]
      BY <1>3, <1>4, <1>6, <1>9, <3>2, <3>3 DEF Store!IInv, Store!OnlyDirectoryKeeps, Store!OnlyOneKeeps
    <3>6. info'[here] = past.asked[p]
      BY <1>4, <1>6, <3>5
    <3>7. succeeds => built'[here] = past.asked[p]
      BY <1>1, <1>2, <1>5, <1>6, <1>9, <3>5, StoreTypes
    <3> QED
      BY <1>9, <3>1, <3>4, <3>6, <3>7
  <2> QED
    BY <2>1, <2>2
<1> QED
  BY <1>10, <1>11, <1>14, <1>15, <1>16, <1>17 DEF Store!IInv, Store!OnlyDirectoryKeeps

\* delete_project: a call that is under way is no longer alone.
LEMMA DeleteKeepsInv ==
  ASSUME Store!IInv, NEW p \in Projects, NEW force \in BOOLEAN, Store!DeleteProject(p, force)
  PROVE  Store!IInv'
<1> DEFINE gone == Store!DirsOf(p) \ (Store!DirsOf(p) \cap locked)
<1>1. Store!TypeOK
  BY DEF Store!IInv
<1>2. /\ info' = [d \in Store!Dirs |-> IF d \in gone THEN NoDir ELSE info[d]]
      /\ built' = [d \in Store!Dirs |-> IF d \in gone THEN NoDir ELSE built[d]]
      /\ snapshots' = [d \in Store!Dirs |-> IF d[1] = p THEN NoDir ELSE snapshots[d]]
      /\ mem' = [mem EXCEPT !.current = IF p = @ THEN NoProject ELSE @, !.calls = Store!Overlapped(p)]
      /\ past' = [past EXCEPT !.asked[p] = NoFilters,
                              !.raced = IF Store!CallsOf(p) = {} THEN @ ELSE @ \cup {p}]
      /\ UNCHANGED <<model, selection, locked>>
  BY DEF Store!DeleteProject
<1>3. mem' \in Mems /\ mem'.calls = Store!Overlapped(p)
  BY <1>1, <1>2, StoreTypes, OverlappedCalls DEF Mems
<1>4. /\ past' \in Pasts /\ past'.asked = [past.asked EXCEPT ![p] = NoFilters] /\ past'.failed = past.failed
      /\ past'.raced = IF Store!CallsOf(p) = {} THEN past.raced ELSE past.raced \cup {p}
  BY <1>1, <1>2, StoreTypes DEF Pasts
<1>5. \A d \in gone : d[1] = p
  BY DEF Store!DirsOf
<1> HIDE DEF gone
<1>6. info' \in [Store!Dirs -> Kinds] /\ built' \in [Store!Dirs -> Kinds] /\ snapshots' \in [Store!Dirs -> Kinds]
  BY <1>1, <1>2, StoreTypes DEF Kinds
<1>7. Store!TypeOK'
  BY <1>1, <1>2, <1>3, <1>4, <1>6, StoreTypes, TypesSuffice
<1>8. Store!IndexHasDirectory'
  BY <1>2 DEF Store!IInv, Store!IndexHasDirectory
<1>9. \A q \in Projects \ {p} :
        /\ Store!DirsOf(q)' = Store!DirsOf(q) /\ Store!CallsOf(q)' = Store!CallsOf(q)
        /\ \A d \in Store!DirsOf(q) : info'[d] = info[d] /\ built'[d] = built[d]
  <2>1. ASSUME NEW q \in Projects \ {p} PROVE Store!CallsOf(q)' = Store!CallsOf(q)
    BY <1>1, <1>3, OverlappedCalls DEF Store!CallsOf
  <2>2. ASSUME NEW q \in Projects \ {p}
        PROVE  /\ Store!DirsOf(q)' = Store!DirsOf(q)
               /\ \A d \in Store!DirsOf(q) : info'[d] = info[d] /\ built'[d] = built[d]
    BY <1>2, <1>5 DEF Store!DirsOf, Store!Known
  <2> QED
    BY <2>1, <2>2
<1>10. \A q \in Projects : IF q = p THEN past'.asked[q] = NoFilters ELSE past'.asked[q] = past.asked[q]
  BY <1>1, <1>4, StoreTypes DEF Pasts
<1>11. Store!ForgottenWithDirectory'
  BY <1>9, <1>10 DEF Store!IInv, Store!ForgottenWithDirectory
<1>12. ASSUME NEW call \in mem'.calls
       PROVE  \/ call \in mem.calls /\ call.project \in Projects \ {p}
              \/ /\ call.project = p /\ ~call.alone /\ Store!CallsOf(p) # {}
                 /\ \E was \in mem.calls : was.project = p /\ was.saved = call.saved /\ was.from = call.from
  BY <1>1, <1>3, OverlappedCalls DEF Store!CallsOf, Store!Call
<1>13. Store!AloneIsAlone'
  BY <1>9, <1>12 DEF Store!IInv, Store!AloneIsAlone
<1>14. Store!OverlapIsKnown'
  BY <1>4, <1>12 DEF Store!IInv, Store!OverlapIsKnown
<1>15. Store!ReadIsStored'
  <2> SUFFICES ASSUME NEW call \in mem'.calls, ~call.saved
               PROVE  /\ call.from \in Store!Dirs /\ call.from[1] = call.project
                      /\ call.alone => info'[call.from] = call.stored
    BY DEF Store!ReadIsStored
  <2>1. CASE call \in mem.calls /\ call.project # p
    <3>1. call.from \in Store!Dirs /\ call.from[1] = call.project /\ (call.alone => info[call.from] = call.stored)
      BY <2>1 DEF Store!IInv, Store!ReadIsStored
    <3> QED
      BY <1>2, <1>5, <2>1, <3>1
  <2>2. CASE call.project = p /\ ~call.alone
             /\ \E was \in mem.calls : was.project = p /\ was.saved = call.saved /\ was.from = call.from
    BY <2>2 DEF Store!IInv, Store!ReadIsStored
  <2> QED
    BY <1>12, <2>1, <2>2
<1>16. ASSUME NEW q \in Projects PROVE Store!OnlyOneKeeps(q)'
  <2>1. CASE q # p
    BY <1>4, <1>9, <1>10, <2>1, UntouchedKeeps
  <2>2. CASE q = p
    BY <1>10, <2>2 DEF Store!OnlyOneKeeps
  <2> QED
    BY <2>1, <2>2
<1> QED
  BY <1>7, <1>8, <1>11, <1>13, <1>14, <1>15, <1>16 DEF Store!IInv, Store!OnlyDirectoryKeeps

LEMMA StoreNext ==
  ASSUME Store!IInv, [Store!Next]_(Store!vars)
  PROVE  Store!IInv'
<1> DEFINE Parts == /\ Store!IndexHasDirectory /\ Store!ForgottenWithDirectory /\ Store!AloneIsAlone
                    /\ Store!OverlapIsKnown /\ Store!ReadIsStored /\ Store!OnlyDirectoryKeeps
<1>1. /\ model \in Models /\ selection \in Projects \cup {NoProject} /\ locked \subseteq Store!Dirs
      /\ info \in [Store!Dirs -> Kinds] /\ built \in [Store!Dirs -> Kinds] /\ snapshots \in [Store!Dirs -> Kinds]
      /\ mem \in Mems /\ past \in Pasts /\ Store!TypeOK
  BY StoreTypes DEF Store!IInv
<1>2. NoFilters \in Store!Given /\ Store!Given = Filters \cup {NoFilters} /\ NoDir \in Kinds
  BY DEF Store!Given, Kinds
<1>3. \A p \in Projects : \A d \in Store!DirsOf(p) : d \in Store!Dirs /\ info[d] # NoDir
  BY DEF Store!DirsOf, Store!Known
<1>4. ASSUME NEW p \in Projects, NEW given \in Filters \cup {NoFilters}, NEW full \in BOOLEAN,
             Store!IndexDirectory(p, given, full)
      PROVE  Store!IInv'
  BY <1>2, <1>4, ReadKeepsInv
<1>5. ASSUME NEW call \in mem.calls, Store!SaveFilters(call) \/ Store!RunIndex(call)
      PROVE  Store!IInv'
  BY <1>5, SaveKeepsInv, RunKeepsInv
<1>7. ASSUME NEW p \in Projects, Store!SwitchProject(p)
      PROVE  Store!IInv'
  <2>1. info' = Store!Ensured(info, p, NoFilters) /\ selection' = p /\ mem' = [mem EXCEPT !.current = p]
        /\ UNCHANGED <<model, built, snapshots, locked, past>>
    BY <1>7 DEF Store!SwitchProject
  <2>2. info' \in [Store!Dirs -> Kinds] /\ \A d \in Store!Dirs : info[d] # NoDir => info'[d] = info[d]
    BY <1>1, <1>2, <2>1, EnsuredKeeps
  <2>3. mem' \in Mems /\ mem'.calls = mem.calls
    BY <1>1, <2>1 DEF Mems
  <2>4. Parts'
    BY <1>3, <2>1, <2>2, <2>3, OthersKeepInv
  <2> QED
    BY <1>1, <2>1, <2>2, <2>3, <2>4, TypesSuffice DEF Store!IInv
<1>8. ASSUME NEW m \in Models, Store!SwitchModel(m)
      PROVE  Store!IInv'
  <2>1. model' = m /\ past' = [past EXCEPT !.switches = @ + 1]
        /\ UNCHANGED <<info, built, snapshots, selection, locked, mem>>
    BY <1>8 DEF Store!SwitchModel
  <2>2. past' \in Pasts /\ past'.asked = past.asked /\ past'.failed = past.failed /\ past'.raced = past.raced
    BY <1>1, <2>1 DEF Pasts
  <2>3. Parts'
    BY <2>1, <2>2, OthersKeepInv
  <2> QED
    BY <1>1, <2>1, <2>2, <2>3, TypesSuffice DEF Store!IInv
<1>9. CASE Store!ClearIndex
  <2>1. /\ \A d \in Store!Dirs : built'[d] \in {built[d], NoDir}
        /\ built' \in [Store!Dirs -> Kinds] /\ snapshots' \in [Store!Dirs -> Kinds]
        /\ UNCHANGED <<model, info, selection, locked, mem, past>>
    BY <1>1, <1>2, <1>9 DEF Store!ClearIndex
  <2>2. Parts'
    BY <2>1, OthersKeepInv
  <2> QED
    BY <1>1, <2>1, <2>2, TypesSuffice DEF Store!IInv
<1>10. ASSUME NEW p \in Projects, NEW force \in BOOLEAN, Store!DeleteProject(p, force)
       PROVE  Store!IInv'
  BY <1>10, DeleteKeepsInv
<1>11. CASE Store!Restart
  <2> DEFINE dirs == IF selection = NoProject THEN info ELSE Store!Ensured(info, selection, NoFilters)
  <2>1. PICK removed :
          /\ info' = [d \in Store!Dirs |-> IF d \in removed THEN NoDir ELSE dirs[d]]
          /\ built' = [d \in Store!Dirs |-> IF d \in removed THEN NoDir ELSE built[d]]
          /\ past' = [past EXCEPT !.asked = [p \in Projects |->
                        IF \E d \in removed : d[1] = p THEN NoFilters ELSE @[p]],
                      !.failed = @ \cup {call.project : call \in Store!SavedCalls}]
    BY <1>11 DEF Store!Restart, Store!Process
  <2>2. mem' = [current |-> selection, calls |-> {}] /\ UNCHANGED <<model, snapshots, selection, locked>>
    BY <1>11 DEF Store!Restart, Store!Started
  <2>3. dirs \in [Store!Dirs -> Kinds] /\ \A d \in Store!Dirs : info[d] # NoDir => dirs[d] = info[d]
    BY <1>1, <1>2, EnsuredKeeps
  <2> HIDE DEF dirs
  <2>4. \A call \in Store!SavedCalls : call \in mem.calls /\ call.project \in Projects
    BY <1>1 DEF Store!SavedCalls, Mems, Store!Call
  <2>12. {call.project : call \in Store!SavedCalls} \subseteq Projects
    BY <2>4
  <2>5. /\ past'.asked = [p \in Projects |-> IF \E d \in removed : d[1] = p THEN NoFilters ELSE past.asked[p]]
        /\ past' \in Pasts /\ past'.raced = past.raced
        /\ past'.failed = past.failed \cup {call.project : call \in Store!SavedCalls}
    <3> DEFINE asked == [p \in Projects |-> IF \E d \in removed : d[1] = p THEN NoFilters ELSE past.asked[p]]
               saved == {call.project : call \in Store!SavedCalls}
    <3>1. asked \in [Projects -> Store!Given]
      BY <1>1, <1>2 DEF Pasts
    <3>2. past' = [past EXCEPT !.asked = asked, !.failed = @ \cup saved]
      BY <2>1
    <3> HIDE DEF asked, saved
    <3>3. saved \subseteq Projects
      BY <2>12 DEF saved
    <3>4. past'.asked = asked /\ past' \in Pasts /\ past'.raced = past.raced /\ past'.failed = past.failed \cup saved
      BY <1>1, <3>1, <3>2, <3>3 DEF Pasts
    <3> QED
      BY <3>4 DEF asked, saved
  <2>6. \A d \in Store!Dirs :
          \/ built'[d] = NoDir
          \/ built'[d] = built[d] /\ (info[d] # NoDir => info'[d] # NoDir)
    BY <2>1, <2>3
  <2>7. ASSUME NEW p \in Projects, past'.asked[p] # NoFilters
        PROVE  past'.asked[p] = past.asked[p] /\ \A d \in Store!DirsOf(p) : info'[d] = info[d]
    <3>1. \A d \in Store!DirsOf(p) : d[1] = p
      BY DEF Store!DirsOf
    <3>2. past'.asked[p] = past.asked[p] /\ \A d \in Store!DirsOf(p) : d \notin removed
      BY <2>5, <2>7, <3>1
    <3> QED
      BY <1>3, <2>1, <2>3, <3>2
  <2>8. \A call \in mem.calls : call.saved => call.project \in past'.failed
    BY <2>5 DEF Store!SavedCalls
  <2>9. mem' \in Mems /\ mem'.calls = {}
    BY <1>1, <2>2 DEF Mems
  <2>10. Parts'
    BY <2>5, <2>6, <2>7, <2>8, <2>9, OthersKeepInv
  <2>11. info' \in [Store!Dirs -> Kinds] /\ built' \in [Store!Dirs -> Kinds]
    BY <1>1, <1>2, <2>1, <2>3
  <2> QED
    BY <1>1, <2>2, <2>5, <2>9, <2>10, <2>11, TypesSuffice DEF Store!IInv
<1>12. CASE Store!Lock \/ Store!Unlock
  <2>1. /\ locked' \subseteq Store!Dirs /\ UNCHANGED <<model, info, built, snapshots, selection, mem>>
        /\ past' = past \/ past' = [past EXCEPT !.locks = @ + 1]
    BY <1>1, <1>12 DEF Store!Lock, Store!Unlock, Store!Known
  <2>2. past' \in Pasts /\ past'.asked = past.asked /\ past'.failed = past.failed /\ past'.raced = past.raced
    BY <1>1, <2>1 DEF Pasts
  <2>3. Parts'
    BY <2>1, <2>2, OthersKeepInv
  <2> QED
    BY <1>1, <2>1, <2>2, <2>3, TypesSuffice DEF Store!IInv
<1>13. CASE UNCHANGED Store!vars
  <2>1. UNCHANGED <<model, info, built, snapshots, selection, locked, mem, past>>
    BY <1>13 DEF Store!vars
  <2>2. Parts'
    BY <2>1, OthersKeepInv
  <2> QED
    BY <1>1, <2>1, <2>2, TypesSuffice DEF Store!IInv
<1> QED
  BY <1>4, <1>5, <1>7, <1>8, <1>9, <1>10, <1>11, <1>12, <1>13 DEF Store!Next

\* A project has as many directories as models, at most.
LEMMA OnlyDirectory ==
  ASSUME NEW p \in Projects, Cardinality(Store!DirsOf(p)) = 1
  PROVE  \E d \in Store!Dirs : Store!DirsOf(p) = {d}
<1> DEFINE second == [d \in Store!DirsOf(p) |-> d[2]]
<1>1. second \in Injection(Store!DirsOf(p), Models)
  BY DEF Store!DirsOf, Store!Known, Store!Dirs, Injection, IsInjective
<1>2. IsFiniteSet(Store!DirsOf(p))
  BY <1>1, FS_Injection, ProjectsAssumption
<1>3. Store!DirsOf(p) \subseteq Store!Dirs
  BY DEF Store!DirsOf, Store!Known
<1> QED
  BY <1>2, <1>3, FS_Singleton

\* For any projects, models, filters and calls under way, the filters that a user gave last
\* for a project with one directory are those of every index and of every later call,
\* unless calls for it have overlapped.
THEOREM FiltersKept == Spec => []FiltersAreKept
<1> DEFINE Inv == part = "projects" => Store!IInv
<1>1. Init => Inv
  BY StartOfOne, StoreInit
<1>2. Inv /\ [Next]_vars => Inv'
  BY StepOfOne, StoreNext
<1>3. Inv => FiltersAreKept
  <2> SUFFICES ASSUME Store!IInv
               PROVE  Store!FiltersAreKept
    BY DEF FiltersAreKept
  <2> SUFFICES ASSUME NEW p \in Projects, Cardinality(Store!DirsOf(p)) = 1,
                      past.asked[p] # NoFilters, p \notin past.raced
               PROVE  /\ info[<<p, model>>] # NoDir => info[<<p, model>>] = past.asked[p]
                      /\ p \in past.failed \/ Store!SavedCalls \cap Store!CallsOf(p) # {}
                           \/ built[<<p, model>>] \in {NoDir, past.asked[p]}
    BY SameCounts DEF Store!FiltersAreKept, Store!KeptFor
  <2>1. PICK d \in Store!Dirs : Store!DirsOf(p) = {d}
    BY OnlyDirectory
  <2>2. <<p, model>> \in Store!Dirs
    BY DEF Store!IInv, Store!TypeOK, Store!Dirs
  <2>3. info[<<p, model>>] # NoDir => <<p, model>> = d
    BY <2>1, <2>2 DEF Store!DirsOf, Store!Known
  <2> QED
    BY <2>1, <2>2, <2>3 DEF Store!IInv, Store!OnlyDirectoryKeeps, Store!OnlyOneKeeps, Store!IndexHasDirectory
<1> QED
  BY <1>1, <1>2, <1>3, PTL DEF Spec

HIDE DEF model, info, built, snapshots, selection, locked, mem, past

------------------------------------------------------------------------------
(* ChunkEmbedding.                                                              *)

file == v1
wanted == v2
loaded == v3
sources == v4
imports == v5
disk == v6
run == v7
USE DEF file, wanted, loaded, sources, imports, disk, run

LEMMA Maximum == \A a, b \in Int : Embedding!Max({a, b}) \in {a, b} /\ Embedding!Max({a, b}) >= a
                                   /\ Embedding!Max({a, b}) >= b
<1> SUFFICES ASSUME NEW a \in Int, NEW b \in Int
             PROVE  LET m == Embedding!Max({a, b}) IN m \in {a, b} /\ m >= a /\ m >= b
  OBVIOUS
<1>1. \E x \in {a, b} : \A y \in {a, b} : x >= y
  <2>1. CASE a >= b
    BY <2>1
  <2>2. CASE ~(a >= b)
    BY <2>2
  <2> QED
    BY <2>1, <2>2
<1> QED
  BY <1>1 DEF Embedding!Max

LEMMA Minimum == \A a, b \in Int : Embedding!Min({a, b}) \in {a, b} /\ Embedding!Min({a, b}) <= a
                                   /\ Embedding!Min({a, b}) <= b
<1> SUFFICES ASSUME NEW a \in Int, NEW b \in Int
             PROVE  LET m == Embedding!Min({a, b}) IN m \in {a, b} /\ m <= a /\ m <= b
  OBVIOUS
<1>1. \E x \in {a, b} : \A y \in {a, b} : x <= y
  <2>1. CASE a <= b
    BY <2>1
  <2>2. CASE ~(a <= b)
    BY <2>2
  <2> QED
    BY <2>1, <2>2
<1> QED
  BY <1>1 DEF Embedding!Min

\* What is selected from a sequence of the cache.
LEMMA EntriesSelected ==
  ASSUME NEW P \in SUBSET Nat, IsFiniteSet(P), NEW s, NEW T, \A i \in P : s[i] \in T
  PROVE  IsListOf(Embedding!Selected(s, P), s, P, T)
<1>1. Embedding!Selected(s, P) = Selected(s, P)
  BY SameSelections
<1>2. IsListOf(Selected(s, P), s, P, T)
  BY SelectedIs
<1> QED
  BY <1>1, <1>2

\* Selected places are those places.
LEMMA SelectedPlaces ==
  ASSUME NEW D \in SUBSET Nat, NEW P \in SUBSET D, IsFiniteSet(P)
  PROVE  LET m == Embedding!Selected([i \in D |-> i], P)
         IN  /\ m \in Seq(Nat) /\ Embedding!Injective(m) /\ {m[n] : n \in DOMAIN m} = P
<1> DEFINE id == [i \in D |-> i]
           m == Embedding!Selected(id, P)
<1>1. \A i \in P : id[i] = i /\ id[i] \in P
  OBVIOUS
<1>2. P \in SUBSET Nat
  OBVIOUS
<1> HIDE DEF id
<1>3. /\ m \in Seq(P) /\ Len(m) = Cardinality(P)
      /\ \E at \in Bijection(1 .. Cardinality(P), P) : \A n \in 1 .. Cardinality(P) : m[n] = id[at[n]]
  BY <1>1, <1>2, EntriesSelected DEF IsListOf
<1> HIDE DEF m
<1>4. PICK at \in Bijection(1 .. Cardinality(P), P) : \A n \in 1 .. Cardinality(P) : m[n] = id[at[n]]
  BY <1>3
<1>5. /\ at \in [1 .. Cardinality(P) -> P] /\ \A i \in P : \E n \in 1 .. Cardinality(P) : at[n] = i
      /\ \A n, k \in 1 .. Cardinality(P) : at[n] = at[k] => n = k
  BY <1>4 DEF Bijection, Injection, Surjection, IsInjective
<1>6. \A n \in 1 .. Cardinality(P) : m[n] = at[n]
  BY <1>1, <1>4, <1>5
<1>7. DOMAIN m = 1 .. Cardinality(P)
  BY <1>3
<1>8. m \in Seq(Nat)
  <2>1. \A n \in 1 .. Len(m) : m[n] \in P
    BY <1>3
  <2>2. \A n \in 1 .. Len(m) : m[n] \in Nat
    BY <1>2, <2>1
  <2>3. Len(m) \in Nat /\ m = [n \in 1 .. Len(m) |-> m[n]]
    BY <1>3
  <2> QED
    BY <2>2, <2>3
<1>9. {m[n] : n \in DOMAIN m} = P
  <2>1. \A n \in DOMAIN m : m[n] \in P
    BY <1>5, <1>6, <1>7
  <2>2. \A i \in P : \E n \in DOMAIN m : m[n] = i
    BY <1>5, <1>6, <1>7
  <2> QED
    BY <2>1, <2>2
<1>10. Embedding!Injective(m)
  BY <1>5, <1>6, <1>7 DEF Embedding!Injective
<1> QED
  BY <1>8, <1>9, <1>10 DEF m, id

LEMMA KeysOfIs ==
  ASSUME NEW s, NEW i \in DOMAIN s
  PROVE  s[i].key \in Embedding!KeysOf(s)
BY DEF Embedding!KeysOf

\* Touching entries changes their order, and nothing else.
LEMMA TouchedIs ==
  ASSUME NEW entries \in Seq(Embedding!Entry), NEW items \in Seq(Embedding!Entry)
  PROVE  /\ Embedding!Touched(entries, items) \in Seq(Embedding!Entry)
         /\ Embedding!KeysOf(Embedding!Touched(entries, items)) =
              Embedding!KeysOf(entries) \cup Embedding!KeysOf(items)
         /\ \A i \in DOMAIN Embedding!Touched(entries, items) :
              \/ \E j \in DOMAIN entries : Embedding!Touched(entries, items)[i] = entries[j]
              \/ \E j \in DOMAIN items : Embedding!Touched(entries, items)[i] = items[j]
<1> DEFINE P == {i \in DOMAIN entries : entries[i].key \notin Embedding!KeysOf(items)}
           kept == Embedding!Selected(entries, P)
           all == kept \o items
<1>1. P \in SUBSET Nat /\ IsFiniteSet(P) /\ \A i \in P : entries[i] \in Embedding!Entry
  <2>1. IsFiniteSet(1 .. Len(entries)) /\ P \in SUBSET (1 .. Len(entries))
    BY FS_Interval
  <2>2. IsFiniteSet(P)
    <3> HIDE DEF P
    <3> QED
      BY <2>1, FS_Subset
  <2> QED
    BY <2>1, <2>2
<1>2. /\ kept \in Seq(Embedding!Entry)
      /\ \E at \in Bijection(1 .. Cardinality(P), P) :
           \A n \in 1 .. Cardinality(P) : kept[n] = entries[at[n]]
      /\ Len(kept) = Cardinality(P)
  <2> HIDE DEF P
  <2> QED
    BY <1>1, EntriesSelected DEF IsListOf
<1>3. Embedding!Touched(entries, items) = all
  BY DEF Embedding!Touched
<1>4. PICK at \in Bijection(1 .. Len(kept), P) : \A n \in 1 .. Len(kept) : kept[n] = entries[at[n]]
  BY <1>2
<1> HIDE DEF kept, P
<1>5. /\ at \in [1 .. Len(kept) -> P] /\ \A i \in P : \E n \in 1 .. Len(kept) : at[n] = i
      /\ DOMAIN kept = 1 .. Len(kept) /\ Len(kept) \in Nat
  BY <1>2, <1>4 DEF Bijection, Injection, Surjection
<1>6. /\ all \in Seq(Embedding!Entry) /\ DOMAIN all = 1 .. (Len(kept) + Len(items))
      /\ \A i \in DOMAIN kept : i \in DOMAIN all /\ all[i] = kept[i]
      /\ \A i \in DOMAIN items : Len(kept) + i \in DOMAIN all /\ all[Len(kept) + i] = items[i]
      /\ \A i \in DOMAIN all : \/ i \in DOMAIN kept /\ all[i] = kept[i]
                               \/ \E j \in DOMAIN items : all[i] = items[j]
  <2>1. all \in Seq(Embedding!Entry) /\ DOMAIN all = 1 .. (Len(kept) + Len(items))
    BY <1>2
  <2>2. \A i \in DOMAIN kept : i \in DOMAIN all /\ all[i] = kept[i]
    BY <1>2
  <2>3. \A i \in DOMAIN items : Len(kept) + i \in DOMAIN all /\ all[Len(kept) + i] = items[i]
    BY <1>2
  <2>4. ASSUME NEW i \in DOMAIN all, i \notin DOMAIN kept
        PROVE  i - Len(kept) \in DOMAIN items /\ i = Len(kept) + (i - Len(kept))
    BY <1>2, <2>1, <2>4
  <2> QED
    BY <2>1, <2>2, <2>3, <2>4
<1> HIDE DEF all
<1>7. \A i \in DOMAIN all :
        \/ \E j \in P : all[i] = entries[j]
        \/ \E j \in DOMAIN items : all[i] = items[j]
  BY <1>4, <1>5, <1>6
<1>8. P \subseteq DOMAIN entries
  BY DEF P
<1>9. ASSUME NEW k \in Embedding!KeysOf(entries), k \notin Embedding!KeysOf(items)
      PROVE  k \in Embedding!KeysOf(all)
  <2>1. PICK j \in DOMAIN entries : entries[j].key = k
    BY <1>9 DEF Embedding!KeysOf
  <2>2. j \in P
    BY <1>9, <2>1 DEF P
  <2>3. \E n \in DOMAIN all : all[n] = entries[j]
    BY <1>4, <1>5, <1>6, <2>2
  <2> QED
    BY <2>1, <2>3 DEF Embedding!KeysOf
<1>10. Embedding!KeysOf(items) \subseteq Embedding!KeysOf(all)
  BY <1>6 DEF Embedding!KeysOf
<1>11. Embedding!KeysOf(all) \subseteq Embedding!KeysOf(entries) \cup Embedding!KeysOf(items)
  BY <1>7, <1>8 DEF Embedding!KeysOf
<1> QED
  BY <1>3, <1>6, <1>7, <1>8, <1>9, <1>10, <1>11

\* What is evicted is not live, and not more than the excess.
LEMMA EvictIs ==
  ASSUME NEW entries \in Seq(Embedding!Entry), NEW live, NEW full, Embedding!Cap(live, full) \in Int
  PROVE  /\ Embedding!Evict(entries, live, full) \in Seq(Embedding!Entry)
         /\ Embedding!KeysOf(entries) \cap live \subseteq Embedding!KeysOf(Embedding!Evict(entries, live, full))
         /\ \A i \in DOMAIN Embedding!Evict(entries, live, full) :
              \E j \in DOMAIN entries : Embedding!Evict(entries, live, full)[i] = entries[j]
         /\ \/ Embedding!KeysOf(entries) \subseteq Embedding!KeysOf(Embedding!Evict(entries, live, full))
            \/ Len(Embedding!Evict(entries, live, full)) >= Embedding!Cap(live, full)
<1> DEFINE excess == Len(entries) - Embedding!Cap(live, full)
           Stale(i) == {j \in 1 .. i : entries[j].key \notin live}
           Stay(i) == entries[i].key \in live \/ Embedding!Cardinality(Stale(i)) > excess
           P == {i \in DOMAIN entries : Stay(i)}
           R == {i \in DOMAIN entries : ~Stay(i)}
           kept == Embedding!Selected(entries, P)
<1>1. Embedding!Evict(entries, live, full) = kept
  BY DEF Embedding!Evict
<1>2. /\ Len(entries) \in Nat /\ DOMAIN entries = 1 .. Len(entries) /\ excess \in Int
      /\ IsFiniteSet(DOMAIN entries) /\ Cardinality(DOMAIN entries) = Len(entries)
  BY Places
<1>3. /\ P \in SUBSET Nat /\ P \subseteq DOMAIN entries /\ R = DOMAIN entries \ P
      /\ \A i \in P : entries[i] \in Embedding!Entry
  BY <1>2
<1>0. IsFiniteSet(P) /\ IsFiniteSet(R) /\ R \subseteq DOMAIN entries
  <2> HIDE DEF P
  <2> QED
    BY <1>2, <1>3, FS_Subset
<1>4. /\ kept \in Seq(Embedding!Entry) /\ Len(kept) = Cardinality(P) /\ Cardinality(P) \in Nat
      /\ \E at \in Bijection(1 .. Cardinality(P), P) :
           \A n \in 1 .. Cardinality(P) : kept[n] = entries[at[n]]
  <2> HIDE DEF P
  <2> QED
    BY <1>0, <1>3, EntriesSelected DEF IsListOf
<1>5. PICK at \in Bijection(1 .. Len(kept), P) : \A n \in 1 .. Len(kept) : kept[n] = entries[at[n]]
  BY <1>4
<1>6. \A i \in DOMAIN entries : i \in R => entries[i].key \notin live /\ Cardinality(Stale(i)) <= excess
  <2> TAKE i \in DOMAIN entries
  <2> HAVE i \in R
  <2>1. entries[i].key \notin live /\ ~(Cardinality(Stale(i)) > excess)
    BY SameCounts
  <2>2. Cardinality(Stale(i)) \in Nat
    <3>1. IsFiniteSet(1 .. i) /\ Stale(i) \in SUBSET (1 .. i)
      BY <1>2, FS_Interval
    <3> HIDE DEF Stale
    <3> QED
      BY <3>1, FS_Subset, FS_CardinalityType
  <2> HIDE DEF Stale, excess
  <2> QED
    BY <1>2, <2>1, <2>2
<1>7. \A i \in DOMAIN entries : entries[i].key \in live => i \in P
  OBVIOUS
<1> HIDE DEF kept, P, R
<1>8. /\ at \in [1 .. Len(kept) -> P] /\ \A i \in P : \E n \in 1 .. Len(kept) : at[n] = i
      /\ DOMAIN kept = 1 .. Len(kept) /\ Len(kept) \in Nat
  BY <1>4, <1>5 DEF Bijection, Injection, Surjection
<1>9. \A i \in P : \E n \in DOMAIN kept : kept[n] = entries[i]
  BY <1>5, <1>8
<1>10. Embedding!KeysOf(entries) \cap live \subseteq Embedding!KeysOf(kept)
  BY <1>3, <1>7, <1>9 DEF Embedding!KeysOf
<1>11. CASE R = {}
  <2>1. P = DOMAIN entries
    BY <1>3, <1>11
  <2>2. Embedding!KeysOf(entries) \subseteq Embedding!KeysOf(kept)
    BY <1>9, <2>1 DEF Embedding!KeysOf
  <2> QED
    BY <1>1, <1>3, <1>4, <1>5, <1>8, <1>10, <2>2
<1>12. CASE R # {}
  <2>1. IsFiniteSet(R) /\ R \subseteq DOMAIN entries
    BY <1>0
  <2>2. PICK m \in R : \A i \in R : i <= m
    <3> DEFINE up == [i \in R |-> Cardinality({j \in R : j <= i})]
    <3>1. R \in SUBSET Nat
      BY <1>2, <2>1
    <3>2. up \in Bijection(R, 1 .. Cardinality(R)) /\ Cardinality(R) \in Nat
      BY <2>1, <3>1, Ranks
    <3>3. Cardinality(R) \in 1 .. Cardinality(R)
      BY <1>12, <2>1, <3>2, FS_EmptySet
    <3>4. PICK m \in R : up[m] = Cardinality(R)
      BY <3>2, <3>3 DEF Bijection, Surjection
    <3>5. {j \in R : j <= m} = R
      BY <2>1, <3>4, FS_Subset
    <3> QED
      BY <3>5
  <2>3. R \subseteq Stale(m) /\ IsFiniteSet(Stale(m))
    <3>1. R \subseteq Stale(m)
      <4> SUFFICES ASSUME NEW j \in R PROVE j \in Stale(m)
        BY Zenon
      <4>1. j \in 1 .. m
        BY <1>2, <2>1, <2>2
      <4>2. entries[j].key \notin live
        BY <1>6, <2>1
      <4> QED
        BY <4>1, <4>2
    <3>2. IsFiniteSet(1 .. m) /\ Stale(m) \in SUBSET (1 .. m)
      BY <1>2, <2>1, FS_Interval
    <3> HIDE DEF Stale
    <3> QED
      BY <3>1, <3>2, FS_Subset
  <2>4. Cardinality(R) <= excess
    <3>1. Cardinality(R) <= Cardinality(Stale(m)) /\ Cardinality(Stale(m)) <= excess
      BY <1>6, <2>1, <2>2, <2>3, FS_Subset
    <3>2. Cardinality(R) \in Nat /\ Cardinality(Stale(m)) \in Nat
      BY <2>1, <2>3, FS_CardinalityType
    <3> HIDE DEF Stale, excess
    <3> QED
      BY <1>2, <3>1, <3>2
  <2>5. Cardinality(P) = Len(entries) - Cardinality(R) /\ Cardinality(R) \in Nat
    <3> DEFINE D == DOMAIN entries
    <3>1. P = D \ R /\ D \cap R = R /\ IsFiniteSet(D) /\ Cardinality(D) = Len(entries)
      BY <1>2, <1>3, <2>1
    <3> HIDE DEF D
    <3>2. Cardinality(D \ R) = Cardinality(D) - Cardinality(D \cap R)
      BY <2>1, <3>1, FS_Difference
    <3> QED
      BY <2>1, <3>1, <3>2, FS_CardinalityType
  <2>6. Len(kept) >= Embedding!Cap(live, full)
    BY <1>2, <1>4, <2>4, <2>5
  <2> QED
    BY <1>1, <1>3, <1>4, <1>5, <1>8, <1>10, <2>6
<1> QED
  BY <1>11, <1>12

LEMMA SetToSeqIs ==
  ASSUME NEW S, IsFiniteSet(S)
  PROVE  /\ Embedding!SetToSeq(S) \in Seq(S) /\ Embedding!Injective(Embedding!SetToSeq(S))
<1> DEFINE total == Embedding!Cardinality(S)
<1>1. total = Cardinality(S) /\ total \in Nat
  BY SameCounts, FS_CardinalityType
<1>2. \E f \in [1 .. total -> S] : \A a, b \in DOMAIN f : f[a] = f[b] => a = b
  BY <1>1, FS_CardinalityType DEF ExistsBijection, Bijection, Injection, IsInjective
<1>3. /\ Embedding!SetToSeq(S) \in [1 .. total -> S]
      /\ \A a, b \in DOMAIN Embedding!SetToSeq(S) :
           Embedding!SetToSeq(S)[a] = Embedding!SetToSeq(S)[b] => a = b
  BY <1>2 DEF Embedding!SetToSeq, Embedding!IsInjective
<1> HIDE DEF total
<1> QED
  BY <1>1, <1>3 DEF Embedding!Injective

LEMMA EmbeddingInit == Embedding!Init => Embedding!IInv /\ Embedding!ModelAsWanted /\ Embedding!VectorsSoFar
<1> SUFFICES ASSUME Embedding!Init
             PROVE  Embedding!IInv /\ Embedding!ModelAsWanted /\ Embedding!VectorsSoFar
  OBVIOUS
<1>1. Embedding!Idle \in Embedding!Run
  BY DEF Embedding!Idle, Embedding!Run, Embedding!Provenances
<1>2. Embedding!Unread \in Embedding!Imports /\ Embedding!Unread.mtime = -1
  BY DEF Embedding!Unread, Embedding!Imports, Embedding!Halves
<1>3. [mtime |-> 0, head |-> 0, text |-> 0] \in [mtime : Nat, head : Embedding!Halves, text : Embedding!Halves]
  BY DEF Embedding!Halves
<1>4. file \in [SourceFiles -> [mtime : Nat, head : Embedding!Halves, text : Embedding!Halves]]
  BY <1>3 DEF Embedding!Init
<1>5. /\ wanted \in Numerics /\ loaded = "none" /\ run = Embedding!Idle
      /\ sources \in [SourceFiles -> Embedding!Imports] /\ imports \in [SourceFiles -> Embedding!Imports]
  BY <1>2 DEF Embedding!Init
<1>6. disk \in [ok : BOOLEAN, num : Embedding!Provenances, entries : Seq(Embedding!Entry)] /\ disk.entries = <<>>
  BY DEF Embedding!Init, Embedding!Provenances
<1>7. Embedding!TypeOK
  BY <1>1, <1>4, <1>5, <1>6 DEF Embedding!TypeOK
<1>8. Embedding!Remembered(sources) /\ Embedding!Remembered(imports)
  BY <1>2 DEF Embedding!Init, Embedding!Remembered
<1>9. run.pc = "idle" /\ run.contents = <<>> /\ run.want = <<>> /\ run.entries = <<>>
  BY <1>5 DEF Embedding!Idle
<1>10. Embedding!RunShape /\ Embedding!EntriesStay
  BY <1>6, <1>9 DEF Embedding!RunShape, Embedding!EntriesStay, Embedding!Injective
<1>11. Embedding!ModelAsWanted /\ Embedding!VectorsSoFar
  BY <1>5, <1>6, <1>9, ChunksAssumption DEF Embedding!ModelAsWanted, Embedding!VectorsSoFar, Embedding!SoundEntries
<1> QED
  BY <1>7, <1>8, <1>10, <1>11 DEF Embedding!IInv

\* What is remembered of a file once it has been read is what it has.
LEMMA Reading ==
  ASSUME Embedding!TypeOK, Embedding!Remembered(sources), Embedding!Remembered(imports), NEW f \in SourceFiles
  PROVE  /\ Embedding!Source(f) \in Embedding!Imports /\ Embedding!ImportContext(f) \in Embedding!Imports
         /\ Embedding!Source(f).mtime = file[f].mtime /\ Embedding!Source(f).head = file[f].head
         /\ Embedding!ImportContext(f).mtime = file[f].mtime
         /\ Embedding!ImportContext(f).head = file[f].head
<1>1. /\ file[f].mtime \in Nat /\ file[f].head \in Embedding!Halves
      /\ sources[f] \in Embedding!Imports /\ imports[f] \in Embedding!Imports
  BY DEF Embedding!TypeOK
<1>2. /\ Embedding!Source(f) \in Embedding!Imports
      /\ Embedding!Source(f).mtime = file[f].mtime /\ Embedding!Source(f).head = file[f].head
  BY <1>1 DEF Embedding!Source, Embedding!Remembered, Embedding!Imports
<1> QED
  BY <1>1, <1>2 DEF Embedding!ImportContext, Embedding!Remembered

LEMMA BeginKeeps ==
  ASSUME Embedding!IInv, NEW files \in SUBSET SourceFiles, Embedding!Begin(files)
  PROVE  /\ Embedding!IInv'
         /\ Embedding!ModelAsWanted => Embedding!ModelAsWanted'
         /\ Embedding!VectorsSoFar => Embedding!VectorsSoFar'
<1> DEFINE fs == Embedding!SetToSeq(files)
           prov == Embedding!Provenance
           es == Embedding!LoadedEntries(prov)
           made == [i \in DOMAIN fs |-> Embedding!Assemble(fs[i], file[fs[i]].text)]
           asked == [i \in DOMAIN fs |-> Embedding!Content(fs[i], file[fs[i]].text, file[fs[i]].head)]
<1>1. Embedding!TypeOK /\ Embedding!Remembered(sources) /\ Embedding!Remembered(imports)
      /\ disk.entries \in Seq(Embedding!Entry)
  BY DEF Embedding!IInv, Embedding!TypeOK
<1>2. fs \in Seq(SourceFiles) /\ Embedding!Injective(fs) /\ \A i \in DOMAIN fs : fs[i] \in SourceFiles
  <2>1. IsFiniteSet(files)
    BY ChunksAssumption, FS_Subset
  <2>2. Embedding!SetToSeq(files) \in Seq(files)
    BY <2>1, SetToSeqIs
  <2> QED
    BY <2>1, <2>2, SetToSeqIs
<1>3. prov \in Embedding!Provenances /\ prov # "none"
      /\ prov = IF loaded = "gone" THEN "unavailable" ELSE wanted
  BY <1>1, ChunksAssumption DEF Embedding!Provenance, Embedding!TypeOK, Embedding!Provenances
<1>4. /\ es \in Seq(Embedding!Entry) /\ (es = disk.entries \/ es = <<>>)
      /\ disk.ok /\ disk.num = prov => es = disk.entries
      /\ es # <<>> => disk.num = prov
  BY <1>1 DEF Embedding!LoadedEntries
<1>5. /\ run' = [pc |-> "partition", full |-> (files = SourceFiles), num |-> prov, on |-> TRUE, entries |-> es,
                 chunks |-> fs, want |-> asked, contents |-> made, out |-> <<>>, pending |-> <<>>,
                 order |-> <<>>, results |-> <<>>, size |-> 1]
      /\ sources' = [f \in SourceFiles |-> IF f \in files THEN Embedding!Source(f) ELSE sources[f]]
      /\ imports' = [f \in SourceFiles |-> IF f \in files THEN Embedding!ImportContext(f) ELSE imports[f]]
      /\ UNCHANGED <<file, wanted, loaded, disk>>
  BY DEF Embedding!Begin, Embedding!Idle
<1> HIDE DEF prov, es, fs
<1>6. \A i \in DOMAIN fs : made[i] = asked[i] /\ asked[i] = <<fs[i], file[fs[i]].text, file[fs[i]].head>>
                           /\ asked[i] \in Embedding!Keys
  <2> TAKE i \in DOMAIN fs
  <2>1. Embedding!ImportContext(fs[i]).head = file[fs[i]].head
    BY <1>1, <1>2, Reading
  <2>2. file[fs[i]].head \in Embedding!Halves /\ file[fs[i]].text \in Embedding!Halves
    BY <1>1, <1>2 DEF Embedding!TypeOK
  <2> QED
    BY <1>2, <2>1, <2>2 DEF Embedding!Assemble, Embedding!Content, Embedding!Keys
<1>7. made = asked /\ Embedding!Injective(made) /\ made \in Seq(Embedding!Keys)
  <2>1. made = asked
    BY <1>6
  <2>2. \A i, j \in DOMAIN made : made[i] = made[j] => i = j
    BY <1>2, <1>6 DEF Embedding!Injective
  <2>3. made \in Seq(Embedding!Keys)
    <3>1. DOMAIN fs = 1 .. Len(fs) /\ Len(fs) \in Nat
      BY <1>2
    <3>2. asked \in [1 .. Len(fs) -> Embedding!Keys]
      BY <1>6, <3>1
    <3> QED
      BY <2>1, <3>1, <3>2
  <2> QED
    BY <2>1, <2>2, <2>3 DEF Embedding!Injective
<1> HIDE DEF made, asked
<1>8. run' \in Embedding!Run
  BY <1>2, <1>3, <1>4, <1>5, <1>7 DEF Embedding!Run
<1>9. sources' \in [SourceFiles -> Embedding!Imports] /\ imports' \in [SourceFiles -> Embedding!Imports]
  BY <1>1, <1>5, Reading DEF Embedding!TypeOK
<1>10. Embedding!TypeOK'
  BY <1>1, <1>5, <1>8, <1>9 DEF Embedding!TypeOK
<1>11. Embedding!Remembered(sources)' /\ Embedding!Remembered(imports)'
  <2>1. \A f \in SourceFiles : file[f].mtime \in Nat
    BY <1>1 DEF Embedding!TypeOK
  <2> QED
    BY <1>1, <1>5, <2>1, Reading DEF Embedding!Remembered
<1>12. run'.pc = "partition" /\ run'.contents = made /\ run'.want = asked /\ run'.entries = es /\ run'.num = prov
       /\ run'.results = <<>>
  BY <1>5
<1>13. Embedding!RunShape'
  BY <1>7, <1>12 DEF Embedding!RunShape, Embedding!Injective
<1>14. Embedding!EntriesStay'
  <2>1. disk.ok \/ disk.entries = <<>>
    BY DEF Embedding!IInv, Embedding!EntriesStay
  <2> QED
    BY <1>4, <1>5, <1>12, <2>1 DEF Embedding!EntriesStay, Embedding!KeysOf
<1>15. Embedding!ModelAsWanted => Embedding!ModelAsWanted'
  BY <1>3, <1>5, <1>12 DEF Embedding!ModelAsWanted
<1>16. Embedding!VectorsSoFar => Embedding!VectorsSoFar'
  BY <1>4, <1>5, <1>12 DEF Embedding!VectorsSoFar, Embedding!SoundEntries
<1> QED
  BY <1>10, <1>11, <1>13, <1>14, <1>15, <1>16 DEF Embedding!IInv

\* What a hit is answered with is in the cache.
LEMMA CachedIs ==
  ASSUME NEW entries, NEW k \in Embedding!KeysOf(entries)
  PROVE  \E i \in DOMAIN entries : Embedding!Cached(entries, k) = entries[i] /\ entries[i].key = k
<1>1. \E e \in Embedding!ToSet(entries) : e.key = k
  BY DEF Embedding!KeysOf, Embedding!ToSet
<1>2. Embedding!Cached(entries, k) \in Embedding!ToSet(entries) /\ Embedding!Cached(entries, k).key = k
  BY <1>1 DEF Embedding!Cached
<1> QED
  BY <1>2 DEF Embedding!ToSet

LEMMA PartitionKeeps ==
  ASSUME Embedding!IInv, Embedding!Partition
  PROVE  /\ Embedding!IInv'
         /\ Embedding!ModelAsWanted => Embedding!ModelAsWanted'
         /\ Embedding!VectorsSoFar => Embedding!VectorsSoFar'
<1> DEFINE places == DOMAIN run.contents
           hits == {i \in places : run.contents[i] \in Embedding!KeysOf(run.entries)}
           missed == Embedding!Selected([i \in places |-> i], places \ hits)
           found == [i \in places |-> IF i \in hits THEN Embedding!Cached(run.entries, run.contents[i])
                                      ELSE Embedding!Nothing]
           used == Embedding!Selected(found, hits)
           es == Embedding!Touched(run.entries, used)
           answers == [i \in places |-> IF i \in hits THEN found[i].vec ELSE Embedding!Nothing]
<1>1. /\ run \in Embedding!Run /\ run.pc = "partition" /\ run.contents \in Seq(Embedding!Keys)
      /\ run.entries \in Seq(Embedding!Entry)
      /\ Embedding!TypeOK /\ Embedding!RunShape /\ Embedding!EntriesStay
  BY DEF Embedding!IInv, Embedding!TypeOK, Embedding!Run, Embedding!Partition
<1>2. /\ run' = [run EXCEPT !.pc = IF missed = <<>> THEN "returned" ELSE "prepare",
                            !.entries = es, !.pending = missed, !.out = answers]
      /\ UNCHANGED <<file, wanted, loaded, sources, imports, disk>>
  BY DEF Embedding!Partition
<1>3. places = 1 .. Len(run.contents) /\ places \in SUBSET Nat /\ IsFiniteSet(places) /\ Len(run.contents) \in Nat
  BY <1>1, Places
<1>4. /\ hits \in SUBSET Nat /\ IsFiniteSet(hits)
      /\ places \ hits \in SUBSET Nat /\ IsFiniteSet(places \ hits) /\ hits \subseteq places
  <2>1. hits \in SUBSET places
    OBVIOUS
  <2> HIDE DEF hits, places
  <2> QED
    BY <1>3, <2>1, FS_Subset
<1>5. \A i \in hits : \E j \in DOMAIN run.entries : found[i] = run.entries[j] /\ found[i].key = run.contents[i]
  BY CachedIs
<1> HIDE DEF found
<1>6. \A i \in hits : found[i] \in Embedding!Entry
  BY <1>1, <1>5
<1>7. /\ used \in Seq(Embedding!Entry)
      /\ \E at \in Bijection(1 .. Cardinality(hits), hits) :
           \A n \in 1 .. Cardinality(hits) : used[n] = found[at[n]]
      /\ Len(used) = Cardinality(hits) /\ Cardinality(hits) \in Nat
  <2>1. hits \in SUBSET Nat /\ IsFiniteSet(hits) /\ \A i \in hits : found[i] \in Embedding!Entry
    BY <1>4, <1>6
  <2>2. used = Embedding!Selected(found, hits)
    OBVIOUS
  <2> HIDE DEF used, hits, places
  <2>3. IsListOf(Embedding!Selected(found, hits), found, hits, Embedding!Entry)
    BY <2>1, EntriesSelected
  <2> QED
    BY <2>2, <2>3 DEF IsListOf
<1>8. \A n \in DOMAIN used : \E i \in hits : used[n] = found[i]
  <2> HIDE DEF used, hits
  <2> QED
    BY <1>7 DEF Bijection, Injection
<1>9. /\ es \in Seq(Embedding!Entry)
      /\ Embedding!KeysOf(run.entries) \subseteq Embedding!KeysOf(es)
      /\ \A i \in DOMAIN es : \E j \in DOMAIN run.entries : es[i] = run.entries[j]
  <2> HIDE DEF used, hits
  <2>1. /\ es \in Seq(Embedding!Entry)
        /\ Embedding!KeysOf(es) = Embedding!KeysOf(run.entries) \cup Embedding!KeysOf(used)
        /\ \A i \in DOMAIN es : \/ \E j \in DOMAIN run.entries : es[i] = run.entries[j]
                                \/ \E j \in DOMAIN used : es[i] = used[j]
    BY <1>1, <1>7, TouchedIs
  <2> QED
    BY <1>5, <1>8, <2>1
<1>10. /\ missed \in Seq(Nat) /\ Embedding!Injective(missed)
       /\ {missed[n] : n \in DOMAIN missed} = places \ hits
  <2> DEFINE P == places \ hits
  <2>1. P \in SUBSET places
    OBVIOUS
  <2> HIDE DEF hits, places
  <2> QED
    BY <1>3, <1>4, <2>1, SelectedPlaces
<1>11. answers \in Seq(Embedding!Vecs \cup {Embedding!Nothing}) /\ Len(answers) = Len(run.contents)
  <2>1. \A i \in hits : found[i].vec \in Embedding!Vecs
    BY <1>6 DEF Embedding!Entry
  <2> HIDE DEF hits
  <2>2. answers \in [1 .. Len(run.contents) -> Embedding!Vecs \cup {Embedding!Nothing}]
    BY <1>3, <2>1
  <2> QED
    BY <1>3, <2>2
<1>12. \A i \in hits : answers[i] = found[i].vec
  BY <1>4
<1>13. \A i \in places : i \in hits <=> run.contents[i] \in Embedding!KeysOf(run.entries)
  OBVIOUS
<1>14. missed = <<>> => places \ hits = {}
  BY <1>10
<1> HIDE DEF missed, used, es, answers, hits
<1>15. run' \in Embedding!Run
  <2>1. run' = [pc |-> IF missed = <<>> THEN "returned" ELSE "prepare", full |-> run.full, num |-> run.num,
                on |-> run.on, entries |-> es, chunks |-> run.chunks, want |-> run.want,
                contents |-> run.contents, out |-> answers, pending |-> missed, order |-> run.order,
                results |-> run.results, size |-> run.size]
    BY <1>1, <1>2 DEF Embedding!Run
  <2> QED
    BY <1>1, <1>9, <1>10, <1>11, <2>1 DEF Embedding!Run
<1>16. /\ run'.pc = IF missed = <<>> THEN "returned" ELSE "prepare"
       /\ run'.num = run.num /\ run'.on = run.on /\ run'.full = run.full /\ run'.entries = es /\ run'.pending = missed
       /\ run'.out = answers /\ run'.contents = run.contents /\ run'.want = run.want
       /\ run'.results = run.results
  BY <1>1, <1>2 DEF Embedding!Run
<1>17. Embedding!TypeOK'
  BY <1>1, <1>2, <1>15 DEF Embedding!TypeOK
<1>18. Embedding!Remembered(sources)' /\ Embedding!Remembered(imports)'
  BY <1>2 DEF Embedding!IInv, Embedding!Remembered
<1>19. Embedding!Pending' = places \ hits
  BY <1>10, <1>16 DEF Embedding!Pending
<1>20. Embedding!RunShape'
  BY <1>1, <1>10, <1>11, <1>16, <1>19 DEF Embedding!RunShape, Embedding!Injective
<1>21. Embedding!EntriesStay'
  <2>1. \A i \in places : i \in Embedding!Pending' \/ run'.contents[i] \in Embedding!KeysOf(run'.entries)
    BY <1>9, <1>13, <1>16, <1>19
  <2>2. disk.num = run.num => Embedding!KeysOf(disk.entries) \subseteq Embedding!KeysOf(es)
    BY <1>1, <1>9 DEF Embedding!EntriesStay
  <2>3. Embedding!KeysOf(disk.entries)' = Embedding!KeysOf(disk.entries)
        /\ Embedding!KeysOf(run.entries)' = Embedding!KeysOf(es)
    BY <1>2, <1>16 DEF Embedding!KeysOf
  <2> QED
    BY <1>1, <1>2, <1>16, <2>1, <2>2, <2>3 DEF Embedding!EntriesStay
<1>22. Embedding!ModelAsWanted => Embedding!ModelAsWanted'
  BY <1>1, <1>2, <1>16 DEF Embedding!ModelAsWanted
<1>23. ASSUME Embedding!VectorsSoFar PROVE Embedding!VectorsSoFar'
  <2>1. /\ \A i \in DOMAIN run.entries : run.entries[i].vec = Embedding!Vec(run.entries[i].key, run.num)
        /\ \A i \in DOMAIN disk.entries : disk.entries[i].vec = Embedding!Vec(disk.entries[i].key, disk.num)
    BY <1>23 DEF Embedding!VectorsSoFar, Embedding!SoundEntries
  <2>2. \A i \in DOMAIN es : es[i].vec = Embedding!Vec(es[i].key, run.num)
    BY <1>9, <2>1
  <2>3. \A i \in hits : answers[i] = Embedding!Vec(run.contents[i], run.num)
    BY <1>5, <1>12, <2>1
  <2>4. DOMAIN answers = places
    BY <1>3, <1>11
  <2>5. missed = <<>> => answers = [i \in places |-> Embedding!Vec(run.contents[i], run.num)]
    <3>1. answers = [i \in DOMAIN answers |-> answers[i]]
      BY <1>11
    <3> QED
      BY <1>14, <2>3, <2>4, <3>1
  <2>6. Embedding!SoundEntries(run.entries, run.num)' /\ Embedding!SoundEntries(disk.entries, disk.num)'
    BY <1>2, <1>16, <2>1, <2>2 DEF Embedding!SoundEntries, Embedding!Vec
  <2>7. \A i \in places : i \in Embedding!Pending' \/ answers[i] = Embedding!Vec(run.contents[i], run.num)
    BY <1>19, <2>3
  <2> QED
    BY <1>16, <2>5, <2>6, <2>7 DEF Embedding!VectorsSoFar, Embedding!Vec
<1> QED
  BY <1>17, <1>18, <1>20, <1>21, <1>22, <1>23 DEF Embedding!IInv

\* A run that is over, or none, keeps no promise but those of the file.
LEMMA IdleKeeps ==
  ASSUME Embedding!IInv, run' = Embedding!Idle, UNCHANGED disk
  PROVE  /\ run' \in Embedding!Run /\ Embedding!RunShape' /\ Embedding!EntriesStay' /\ run'.pc = "idle"
         /\ Embedding!VectorsSoFar => Embedding!VectorsSoFar'
<1>1. Embedding!Idle \in Embedding!Run
  BY DEF Embedding!Idle, Embedding!Run, Embedding!Provenances
<1>2. /\ run'.pc = "idle" /\ run'.contents = <<>> /\ run'.want = <<>> /\ run'.entries = <<>>
  BY DEF Embedding!Idle
<1>3. Embedding!RunShape'
  BY <1>2 DEF Embedding!RunShape, Embedding!Injective
<1>4. Embedding!EntriesStay'
  BY <1>2 DEF Embedding!EntriesStay, Embedding!IInv
<1>5. Embedding!VectorsSoFar => Embedding!VectorsSoFar'
  BY <1>2 DEF Embedding!VectorsSoFar, Embedding!SoundEntries, Embedding!Vec
<1> QED
  BY <1>1, <1>2, <1>3, <1>4, <1>5

LEMMA SameRunKeeps ==
  ASSUME Embedding!IInv, UNCHANGED <<run, disk>>
  PROVE  /\ run' \in Embedding!Run /\ Embedding!RunShape' /\ Embedding!EntriesStay'
         /\ Embedding!VectorsSoFar => Embedding!VectorsSoFar'
<1>1. Embedding!Pending' = Embedding!Pending /\ Embedding!LiveKeys' = Embedding!LiveKeys
      /\ Embedding!KeysOf(run.entries)' = Embedding!KeysOf(run.entries)
      /\ Embedding!KeysOf(disk.entries)' = Embedding!KeysOf(disk.entries)
  BY DEF Embedding!Pending, Embedding!LiveKeys, Embedding!KeysOf
<1>2. Embedding!RunShape'
  BY <1>1 DEF Embedding!IInv, Embedding!RunShape, Embedding!Injective
<1>3. Embedding!EntriesStay'
  BY <1>1 DEF Embedding!IInv, Embedding!EntriesStay
<1>4. Embedding!VectorsSoFar => Embedding!VectorsSoFar'
  BY <1>1 DEF Embedding!VectorsSoFar, Embedding!SoundEntries, Embedding!Vec
<1> QED
  BY <1>2, <1>3, <1>4 DEF Embedding!IInv, Embedding!TypeOK

LEMMA CacheReadFailsKeeps ==
  ASSUME Embedding!IInv, Embedding!CacheReadFails
  PROVE  /\ Embedding!IInv'
         /\ Embedding!ModelAsWanted => Embedding!ModelAsWanted'
         /\ Embedding!VectorsSoFar => Embedding!VectorsSoFar'
<1> DEFINE id == [i \in DOMAIN run.contents |-> i]
           none == [i \in DOMAIN run.contents |-> Embedding!Nothing]
<1>1. /\ run \in Embedding!Run /\ run.pc = "partition" /\ run.contents \in Seq(Embedding!Keys)
      /\ Embedding!TypeOK /\ Embedding!RunShape /\ Embedding!EntriesStay
      /\ UNCHANGED <<file, wanted, loaded, sources, imports, disk>>
  BY DEF Embedding!IInv, Embedding!TypeOK, Embedding!Run, Embedding!CacheReadFails
<1>2. run' = [run EXCEPT !.pc = "prepare", !.on = FALSE, !.pending = id, !.out = none]
  BY DEF Embedding!CacheReadFails
<1>3. /\ id \in Seq(Nat) /\ none \in Seq(Embedding!Vecs \cup {Embedding!Nothing})
      /\ DOMAIN id = DOMAIN run.contents /\ Len(none) = Len(run.contents)
      /\ \A i \in DOMAIN run.contents : id[i] = i
  <2>1. DOMAIN run.contents = 1 .. Len(run.contents) /\ Len(run.contents) \in Nat
    BY <1>1
  <2> QED
    BY <2>1
<1> HIDE DEF id, none
<1>4. run' \in Embedding!Run
  <2>1. run' = [pc |-> "prepare", full |-> run.full, num |-> run.num, on |-> FALSE, entries |-> run.entries,
                chunks |-> run.chunks, want |-> run.want, contents |-> run.contents, out |-> none,
                pending |-> id, order |-> run.order, results |-> run.results, size |-> run.size]
    BY <1>1, <1>2 DEF Embedding!Run
  <2> QED
    BY <1>1, <1>3, <2>1 DEF Embedding!Run
<1>5. /\ run'.pc = "prepare" /\ run'.num = run.num /\ run'.on = FALSE /\ run'.entries = run.entries
      /\ run'.pending = id /\ run'.out = none /\ run'.contents = run.contents /\ run'.want = run.want
      /\ run'.results = run.results
  BY <1>1, <1>2 DEF Embedding!Run
<1>6. Embedding!Pending' = DOMAIN run.contents
  BY <1>3, <1>5 DEF Embedding!Pending
<1>7. Embedding!TypeOK' /\ Embedding!Remembered(sources)' /\ Embedding!Remembered(imports)'
  BY <1>1, <1>4 DEF Embedding!IInv, Embedding!TypeOK, Embedding!Remembered
<1>8. Embedding!RunShape'
  BY <1>1, <1>3, <1>5, <1>6 DEF Embedding!RunShape, Embedding!Injective
<1>9. Embedding!EntriesStay'
  <2>1. Embedding!KeysOf(run.entries)' = Embedding!KeysOf(run.entries)
        /\ Embedding!KeysOf(disk.entries)' = Embedding!KeysOf(disk.entries)
    BY <1>1, <1>5 DEF Embedding!KeysOf
  <2> QED
    BY <1>1, <1>5, <2>1 DEF Embedding!EntriesStay
<1>10. Embedding!ModelAsWanted => Embedding!ModelAsWanted'
  BY <1>1, <1>5 DEF Embedding!ModelAsWanted
<1>11. Embedding!VectorsSoFar => Embedding!VectorsSoFar'
  BY <1>1, <1>5, <1>6 DEF Embedding!VectorsSoFar, Embedding!SoundEntries, Embedding!Vec
<1> QED
  BY <1>7, <1>8, <1>9, <1>10, <1>11 DEF Embedding!IInv

LEMMA PrepareKeeps ==
  ASSUME Embedding!IInv, Embedding!Prepare
  PROVE  /\ Embedding!IInv'
         /\ Embedding!ModelAsWanted => Embedding!ModelAsWanted'
         /\ Embedding!VectorsSoFar => Embedding!VectorsSoFar'
<1>1. /\ run \in Embedding!Run /\ run.pc = "prepare" /\ run.pending \in Seq(Nat)
      /\ Embedding!TypeOK /\ Embedding!RunShape /\ Embedding!EntriesStay
      /\ UNCHANGED <<file, wanted, sources, imports, disk>>
  BY DEF Embedding!IInv, Embedding!TypeOK, Embedding!Run, Embedding!Prepare
<1>2. Embedding!Remembered(sources)' /\ Embedding!Remembered(imports)'
  BY <1>1 DEF Embedding!IInv, Embedding!Remembered
<1>3. CASE loaded = "gone"
  <2>1. run' = Embedding!Idle /\ UNCHANGED loaded
    BY <1>3 DEF Embedding!Prepare, Embedding!Fails
  <2>2. Embedding!TypeOK'
    BY <1>1, <2>1, IdleKeeps DEF Embedding!TypeOK
  <2>3. Embedding!ModelAsWanted => Embedding!ModelAsWanted'
    BY <1>1, <2>1, IdleKeeps DEF Embedding!ModelAsWanted
  <2> QED
    BY <1>1, <1>2, <2>1, <2>2, <2>3, IdleKeeps DEF Embedding!IInv
<1>4. CASE loaded # "gone"
  <2>1. PICK size \in BatchSizes, order \in Embedding!SetToSeqs(DOMAIN run.pending) :
          run' = [run EXCEPT !.pc = "batch", !.size = size, !.order = order]
    BY <1>4 DEF Embedding!Prepare
  <2>2. loaded' = Embedding!LoadModel /\ loaded' \in Numerics
        /\ (Embedding!ModelAsWanted => loaded' = wanted)
    BY <1>1, <1>4 DEF Embedding!Prepare, Embedding!LoadModel, Embedding!ModelAsWanted, Embedding!TypeOK
  <2> DEFINE total == Len(run.pending)
             D == DOMAIN run.pending
  <2>3. D = 1 .. total /\ total \in Nat /\ IsFiniteSet(D) /\ Embedding!Cardinality(D) = total /\ Cardinality(D) = total
    BY <1>1, Places, SameCounts
  <2>4. order \in [1 .. total -> D] /\ \A i, j \in 1 .. total : i # j => order[i] # order[j]
    BY <2>3 DEF Embedding!SetToSeqs
  <2>5. order \in Injection(D, D)
    BY <2>3, <2>4 DEF Injection, IsInjective
  <2>6. order \in Surjection(D, D)
    <3> HIDE DEF D
    <3> QED
      BY <2>3, <2>5, FS_Injection
  <2>7. order \in Seq(Nat) /\ Len(order) = total /\ Embedding!Injective(order) /\ {order[s] : s \in DOMAIN order} = D
    <3>1. order \in Seq(Nat) /\ Len(order) = total
      BY <2>3, <2>4
    <3>2. \A i \in D : \E s \in DOMAIN order : order[s] = i
      BY <2>3, <2>4, <2>6 DEF Surjection
    <3> HIDE DEF D, total
    <3> QED
      BY <2>3, <2>4, <3>1, <3>2 DEF Embedding!Injective
  <2>8. size \in Nat \ {0}
    BY ChunksAssumption
  <2>9. run' \in Embedding!Run
    <3>1. run' = [pc |-> "batch", full |-> run.full, num |-> run.num, on |-> run.on, entries |-> run.entries,
                  chunks |-> run.chunks, want |-> run.want, contents |-> run.contents, out |-> run.out,
                  pending |-> run.pending, order |-> order, results |-> run.results, size |-> size]
      BY <1>1, <2>1 DEF Embedding!Run
    <3> QED
      BY <1>1, <2>7, <2>8, <3>1 DEF Embedding!Run
  <2>10. /\ run'.pc = "batch" /\ run'.num = run.num /\ run'.on = run.on /\ run'.entries = run.entries
         /\ run'.pending = run.pending /\ run'.out = run.out /\ run'.contents = run.contents
         /\ run'.want = run.want /\ run'.order = order /\ run'.results = run.results
    BY <1>1, <2>1 DEF Embedding!Run
  <2>11. Embedding!Pending' = Embedding!Pending
    BY <2>10 DEF Embedding!Pending
  <2>12. Embedding!TypeOK'
    BY <1>1, <2>2, <2>9 DEF Embedding!TypeOK
  <2>13. run.results = <<>>
    BY <1>1 DEF Embedding!RunShape
  <2>14. Embedding!RunShape'
    BY <1>1, <2>7, <2>10, <2>11, <2>13 DEF Embedding!RunShape, Embedding!Injective
  <2>15. Embedding!EntriesStay'
    <3>1. Embedding!KeysOf(run.entries)' = Embedding!KeysOf(run.entries)
          /\ Embedding!KeysOf(disk.entries)' = Embedding!KeysOf(disk.entries)
      BY <1>1, <2>10 DEF Embedding!KeysOf
    <3> QED
      BY <1>1, <2>10, <2>11, <3>1 DEF Embedding!EntriesStay
  <2>16. Embedding!ModelAsWanted => Embedding!ModelAsWanted'
    BY <1>1, <1>4, <2>2, <2>10, ChunksAssumption DEF Embedding!ModelAsWanted
  <2>17. Embedding!VectorsSoFar => Embedding!VectorsSoFar'
    BY <1>1, <2>10, <2>11, <2>13 DEF Embedding!VectorsSoFar, Embedding!SoundEntries, Embedding!Vec
  <2> QED
    BY <1>2, <2>12, <2>14, <2>15, <2>16, <2>17 DEF Embedding!IInv
<1> QED
  BY <1>3, <1>4

\* A batch is the next few of the pending chunks, and at least one.
LEMMA BatchIs ==
  ASSUME run \in Embedding!Run, Len(run.results) < Len(run.order)
  PROVE  /\ Embedding!Batch \in Seq(Nat) /\ Len(Embedding!Batch) \in 1 .. (Len(run.order) - Len(run.results))
         /\ \A j \in 1 .. Len(Embedding!Batch) : Embedding!Batch[j] = run.order[Len(run.results) + j]
<1> DEFINE i == Len(run.results)
           n == Len(run.order)
           m == Embedding!Min({i + run.size, n})
<1>1. /\ run.order \in Seq(Nat) /\ run.results \in Seq(Embedding!Vecs) /\ run.size \in Nat \ {0}
      /\ i \in Nat /\ n \in Nat /\ i < n
  BY DEF Embedding!Run
<1>2. m \in {i + run.size, n} /\ m <= i + run.size /\ m <= n
  <2> HIDE DEF i, n
  <2>1. i + run.size \in Int /\ n \in Int
    BY <1>1
  <2> QED
    BY <2>1, Minimum
<1>3. m \in Nat /\ i < m /\ m <= n
  <2> HIDE DEF i, n, m
  <2> QED
    BY <1>1, <1>2
<1>4. Embedding!Batch = SubSeq(run.order, i + 1, m)
  BY DEF Embedding!Batch
<1> HIDE DEF m, i, n
<1>5. \A j \in (i + 1) .. m : j \in 1 .. Len(run.order) /\ run.order[j] \in Nat
  BY <1>1, <1>3 DEF n
<1>6. /\ SubSeq(run.order, i + 1, m) \in Seq(Nat)
      /\ Len(SubSeq(run.order, i + 1, m)) = IF i + 1 <= m THEN m - (i + 1) + 1 ELSE 0
      /\ \A j \in 1 .. (m - (i + 1) + 1) : SubSeq(run.order, i + 1, m)[j] = run.order[(i + 1) + j - 1]
  <2>1. i + 1 \in Int /\ m \in Int
    BY <1>1, <1>3
  <2> QED
    BY <1>5, <2>1, SubSeqProperties
<1>7. /\ m - (i + 1) + 1 = m - i /\ i + 1 <= m /\ m - i \in 1 .. (n - i)
      /\ \A j \in Int : (i + 1) + j - 1 = i + j
  BY <1>1, <1>3
<1>8. Embedding!Batch \in Seq(Nat) /\ Len(Embedding!Batch) = m - i
  BY <1>4, <1>6, <1>7
<1>9. \A j \in 1 .. (m - i) : Embedding!Batch[j] = run.order[i + j]
  <2> TAKE j \in 1 .. (m - i)
  <2>1. j \in 1 .. (m - (i + 1) + 1) /\ (i + 1) + j - 1 = i + j
    BY <1>7
  <2>2. SubSeq(run.order, i + 1, m)[j] = run.order[(i + 1) + j - 1]
    BY <1>6, <2>1
  <2> QED
    BY <1>4, <2>1, <2>2
<1> QED
  BY <1>7, <1>8, <1>9 DEF n, i

LEMMA EncodeKeeps ==
  ASSUME Embedding!IInv, Embedding!EncodeBatch
  PROVE  /\ Embedding!IInv'
         /\ Embedding!ModelAsWanted => Embedding!ModelAsWanted'
         /\ Embedding!ModelAsWanted /\ Embedding!VectorsSoFar => Embedding!VectorsSoFar'
         /\ Embedding!BatchesProgress
<1>1. /\ run \in Embedding!Run /\ run.pc = "batch" /\ Len(run.results) < Len(run.order)
      /\ run.order \in Seq(Nat) /\ run.results \in Seq(Embedding!Vecs)
      /\ Embedding!TypeOK /\ Embedding!RunShape /\ Embedding!EntriesStay
      /\ UNCHANGED <<file, wanted, loaded, sources, imports, disk>>
  BY DEF Embedding!IInv, Embedding!TypeOK, Embedding!Run, Embedding!EncodeBatch
<1>2. Embedding!Remembered(sources)' /\ Embedding!Remembered(imports)'
  BY <1>1 DEF Embedding!IInv, Embedding!Remembered
<1>3. CASE loaded = "gone"
  <2>1. run' = Embedding!Idle
    BY <1>3 DEF Embedding!EncodeBatch, Embedding!Fails
  <2>2. Embedding!TypeOK'
    BY <1>1, <2>1, IdleKeeps DEF Embedding!TypeOK
  <2>3. Embedding!ModelAsWanted => Embedding!ModelAsWanted'
    BY <1>1, <2>1, IdleKeeps DEF Embedding!ModelAsWanted
  <2> QED
    BY <1>1, <1>2, <2>1, <2>2, <2>3, IdleKeeps DEF Embedding!IInv, Embedding!BatchesProgress
<1>4. CASE loaded # "gone"
  <2> DEFINE new == [j \in DOMAIN Embedding!Batch |->
                       Embedding!Vec(run.contents[run.pending[Embedding!Batch[j]]], loaded)]
             results == run.results \o new
             At(s) == run.contents[run.pending[run.order[s]]]
             i == Len(run.results)
             b == Len(Embedding!Batch)
  <2>1. run' = [run EXCEPT !.results = results]
    BY <1>4 DEF Embedding!EncodeBatch
  <2>2. /\ b \in 1 .. (Len(run.order) - i) /\ DOMAIN Embedding!Batch = 1 .. b /\ i \in Nat /\ Len(run.order) \in Nat
        /\ \A j \in 1 .. b : Embedding!Batch[j] = run.order[i + j]
    BY <1>1, BatchIs
  <2>3. \A s \in DOMAIN run.order : At(s) \in Embedding!Keys
    <3>1. /\ Embedding!Pending \subseteq DOMAIN run.contents /\ run.contents \in Seq(Embedding!Keys)
          /\ {run.order[s] : s \in DOMAIN run.order} = DOMAIN run.pending
      BY <1>1 DEF Embedding!RunShape, Embedding!Run
    <3> TAKE s \in DOMAIN run.order
    <3>2. run.order[s] \in DOMAIN run.pending
      BY <3>1
    <3>3. run.pending[run.order[s]] \in DOMAIN run.contents
      BY <3>1, <3>2 DEF Embedding!Pending
    <3> QED
      BY <3>1, <3>3
  <2>4. \A j \in 1 .. b : i + j \in DOMAIN run.order /\ new[j] = Embedding!Vec(At(i + j), loaded)
    <3>1. \A j \in 1 .. b : i + j \in DOMAIN run.order
      BY <1>1, <2>2
    <3> QED
      BY <2>2, <3>1
  <2>5. loaded \in Numerics \cup {"none"}
    BY <1>1, <1>4 DEF Embedding!TypeOK
  <2>6. new \in Seq(Embedding!Vecs) /\ Len(new) = b
    <3>1. DOMAIN new = 1 .. b /\ b \in Nat
      BY <2>2
    <3>2. \A j \in 1 .. b : new[j] \in Embedding!Vecs
      <4> TAKE j \in 1 .. b
      <4>1. new[j] = <<At(i + j), loaded>> /\ At(i + j) \in Embedding!Keys
        BY <2>3, <2>4 DEF Embedding!Vec
      <4> HIDE DEF new, At
      <4> QED
        BY <2>5, <4>1 DEF Embedding!Vecs
    <3>3. new = [j \in 1 .. b |-> new[j]]
      BY <2>2
    <3> HIDE DEF new
    <3>4. new \in [1 .. b -> Embedding!Vecs]
      BY <3>2, <3>3
    <3> QED
      BY <3>1, <3>4
  <2> HIDE DEF new, At, b
  <2>7. /\ results \in Seq(Embedding!Vecs) /\ Len(results) = i + b
        /\ \A s \in 1 .. i : results[s] = run.results[s]
        /\ \A j \in 1 .. b : results[i + j] = new[j]
    <3>1. /\ run.results \in Seq(Embedding!Vecs) /\ new \in Seq(Embedding!Vecs) /\ Len(new) = b
          /\ Len(run.results) = i
      BY <1>1, <2>6
    <3>2. \A S : \A first, second \in Seq(S) :
            /\ first \o second \in Seq(S) /\ Len(first \o second) = Len(first) + Len(second)
            /\ \A n \in 1 .. Len(first) : (first \o second)[n] = first[n]
            /\ \A n \in 1 .. Len(second) : (first \o second)[Len(first) + n] = second[n]
      BY Joined DEF IsJoined
    <3> DEFINE before == run.results
    <3>3. results = before \o new /\ before \in Seq(Embedding!Vecs)
      BY <3>1
    <3> HIDE DEF i, results, before
    <3>4. before \o new \in Seq(Embedding!Vecs) /\ Len(before \o new) = Len(before) + Len(new)
      BY <3>1, <3>2, <3>3
    <3>5. \A s \in 1 .. Len(before) : (before \o new)[s] = before[s]
      BY <3>1, <3>2, <3>3
    <3>6. \A j \in 1 .. Len(new) : (before \o new)[Len(before) + j] = new[j]
      BY <3>1, <3>2, <3>3
    <3> QED
      BY <3>1, <3>3, <3>4, <3>5, <3>6 DEF before
  <2>8. \A s \in 1 .. (i + b) : s \in 1 .. i \/ (s - i \in 1 .. b /\ s = i + (s - i))
    BY <2>2
  <2> HIDE DEF results
  <2>9. /\ run' \in Embedding!Run
    <3>1. run' = [pc |-> run.pc, full |-> run.full, num |-> run.num, on |-> run.on, entries |-> run.entries,
                  chunks |-> run.chunks, want |-> run.want, contents |-> run.contents, out |-> run.out,
                  pending |-> run.pending, order |-> run.order, results |-> results, size |-> run.size]
      BY <1>1, <2>1 DEF Embedding!Run
    <3> QED
      BY <1>1, <2>7, <3>1 DEF Embedding!Run
  <2>10. /\ run'.pc = "batch" /\ run'.num = run.num /\ run'.on = run.on /\ run'.entries = run.entries
         /\ run'.pending = run.pending /\ run'.out = run.out /\ run'.contents = run.contents
         /\ run'.want = run.want /\ run'.order = run.order /\ run'.results = results
    BY <1>1, <2>1 DEF Embedding!Run
  <2>11. Embedding!Pending' = Embedding!Pending
    BY <2>10 DEF Embedding!Pending
  <2>12. Embedding!TypeOK'
    BY <1>1, <2>9 DEF Embedding!TypeOK
  <2>13. Len(results) <= Len(run.order) /\ Len(results) > Len(run.results)
    <3> DEFINE total == Len(run.order)
    <3>1. Len(results) = i + b /\ i = Len(run.results) /\ b \in 1 .. (total - i) /\ i \in Nat /\ total \in Nat
      BY <2>2, <2>7
    <3> HIDE DEF i, b, total, results
    <3>2. i + b <= total /\ i + b > i
      BY <3>1
    <3> QED
      BY <3>1, <3>2 DEF total
  <2>14. Embedding!RunShape'
    BY <1>1, <2>10, <2>11, <2>13 DEF Embedding!RunShape, Embedding!Injective
  <2>15. Embedding!EntriesStay'
    <3>1. Embedding!KeysOf(run.entries)' = Embedding!KeysOf(run.entries)
          /\ Embedding!KeysOf(disk.entries)' = Embedding!KeysOf(disk.entries)
      BY <1>1, <2>10 DEF Embedding!KeysOf
    <3> QED
      BY <1>1, <2>10, <2>11, <3>1 DEF Embedding!EntriesStay
  <2>16. Embedding!ModelAsWanted => Embedding!ModelAsWanted'
    BY <1>1, <2>10 DEF Embedding!ModelAsWanted
  <2>17. ASSUME Embedding!ModelAsWanted, Embedding!VectorsSoFar PROVE Embedding!VectorsSoFar'
    <3>1. loaded = run.num
      BY <1>1, <1>4, <2>5, <2>17 DEF Embedding!ModelAsWanted
    <3>2. \A s \in 1 .. (i + b) : results[s] = Embedding!Vec(At(s), run.num)
      <4>1. \A s \in 1 .. i : run.results[s] = Embedding!Vec(At(s), run.num)
        BY <1>1, <2>17 DEF Embedding!VectorsSoFar, At
      <4>2. \A j \in 1 .. b : results[i + j] = Embedding!Vec(At(i + j), run.num)
        BY <2>4, <2>7, <3>1
      <4> QED
        BY <2>7, <2>8, <4>1, <4>2
    <3>3. \A s \in DOMAIN run'.results :
            run'.results[s] = Embedding!Vec(run'.contents[run'.pending[run'.order[s]]], run'.num)
      BY <2>7, <2>10, <3>2 DEF At
    <3> QED
      BY <1>1, <2>10, <2>11, <2>17, <3>3 DEF Embedding!VectorsSoFar, Embedding!SoundEntries, Embedding!Vec
  <2>18. Embedding!BatchesProgress
    BY <2>10, <2>13 DEF Embedding!BatchesProgress
  <2> QED
    BY <1>2, <2>12, <2>14, <2>15, <2>16, <2>17, <2>18 DEF Embedding!IInv
<1> QED
  BY <1>3, <1>4

LEMMA OutOfMemoryKeeps ==
  ASSUME Embedding!IInv, Embedding!OutOfMemory
  PROVE  /\ Embedding!IInv'
         /\ Embedding!ModelAsWanted => Embedding!ModelAsWanted'
         /\ Embedding!VectorsSoFar => Embedding!VectorsSoFar'
         /\ Embedding!BatchesProgress
<1>1. /\ run \in Embedding!Run /\ run.pc = "batch" /\ run.size \in Nat \ {0}
      /\ Embedding!TypeOK /\ Embedding!RunShape /\ Embedding!EntriesStay
      /\ UNCHANGED <<file, wanted, loaded, sources, imports, disk>>
  BY DEF Embedding!IInv, Embedding!TypeOK, Embedding!Run, Embedding!OutOfMemory
<1>2. Embedding!Remembered(sources)' /\ Embedding!Remembered(imports)'
  BY <1>1 DEF Embedding!IInv, Embedding!Remembered
<1>3. CASE ~(run.size > 1)
  <2>1. run' = Embedding!Idle
    BY <1>3 DEF Embedding!OutOfMemory, Embedding!Fails
  <2>2. Embedding!TypeOK'
    BY <1>1, <2>1, IdleKeeps DEF Embedding!TypeOK
  <2>3. Embedding!ModelAsWanted => Embedding!ModelAsWanted'
    BY <1>1, <2>1, IdleKeeps DEF Embedding!ModelAsWanted
  <2> QED
    BY <1>1, <1>2, <2>1, <2>2, <2>3, IdleKeeps DEF Embedding!IInv, Embedding!BatchesProgress
<1>4. CASE run.size > 1
  <2> DEFINE half == run.size \div 2
  <2>1. run' = [run EXCEPT !.size = half] /\ half \in Nat \ {0} /\ half < run.size
    BY <1>1, <1>4 DEF Embedding!OutOfMemory
  <2> HIDE DEF half
  <2>2. run' \in Embedding!Run
    <3>1. run' = [pc |-> run.pc, full |-> run.full, num |-> run.num, on |-> run.on, entries |-> run.entries,
                  chunks |-> run.chunks, want |-> run.want, contents |-> run.contents, out |-> run.out,
                  pending |-> run.pending, order |-> run.order, results |-> run.results, size |-> half]
      BY <1>1, <2>1 DEF Embedding!Run
    <3> QED
      BY <1>1, <2>1, <3>1 DEF Embedding!Run
  <2>3. /\ run'.pc = "batch" /\ run'.num = run.num /\ run'.on = run.on /\ run'.entries = run.entries
        /\ run'.pending = run.pending /\ run'.out = run.out /\ run'.contents = run.contents
        /\ run'.want = run.want /\ run'.order = run.order /\ run'.results = run.results /\ run'.size = half
    BY <1>1, <2>1 DEF Embedding!Run
  <2>4. Embedding!Pending' = Embedding!Pending
    BY <2>3 DEF Embedding!Pending
  <2>5. Embedding!TypeOK'
    BY <1>1, <2>2 DEF Embedding!TypeOK
  <2>6. Embedding!RunShape'
    BY <1>1, <2>3, <2>4 DEF Embedding!RunShape, Embedding!Injective
  <2>7. Embedding!EntriesStay'
    <3>1. Embedding!KeysOf(run.entries)' = Embedding!KeysOf(run.entries)
          /\ Embedding!KeysOf(disk.entries)' = Embedding!KeysOf(disk.entries)
      BY <1>1, <2>3 DEF Embedding!KeysOf
    <3> QED
      BY <1>1, <2>3, <2>4, <3>1 DEF Embedding!EntriesStay
  <2>8. Embedding!ModelAsWanted => Embedding!ModelAsWanted'
    BY <1>1, <2>3 DEF Embedding!ModelAsWanted
  <2>9. Embedding!VectorsSoFar => Embedding!VectorsSoFar'
    BY <1>1, <2>3, <2>4 DEF Embedding!VectorsSoFar, Embedding!SoundEntries, Embedding!Vec
  <2>10. Embedding!BatchesProgress
    BY <2>1, <2>3 DEF Embedding!BatchesProgress
  <2> QED
    BY <1>2, <2>5, <2>6, <2>7, <2>8, <2>9, <2>10 DEF Embedding!IInv
<1> QED
  BY <1>3, <1>4

\* The cap is a number, and no less than the byte ceiling for a partial run.
LEMMA CapIs ==
  ASSUME NEW live, Embedding!Cardinality(live) \in Nat, NEW full \in BOOLEAN
  PROVE  /\ Embedding!Cap(live, full) \in Int
         /\ MaxEntries = 0 /\ ~full => Embedding!Cap(live, full) >= ByteLimit
<1> DEFINE c == Embedding!Cardinality(live)
           bytes == Embedding!Max({ByteLimit, c})
           auto == Embedding!Max({MinEntries, 2 * c})
<1>1. /\ MaxEntries \in Nat /\ MinEntries \in Nat /\ ByteLimit \in Nat /\ c \in Nat
  BY ChunksAssumption
<1>2. Embedding!Cap(live, full) = IF MaxEntries > 0 THEN MaxEntries
                                  ELSE IF full THEN Embedding!Min({auto, bytes}) ELSE bytes
  BY DEF Embedding!Cap
<1> HIDE DEF c
<1>3. bytes \in Int /\ bytes >= ByteLimit /\ auto \in Int
  <2>1. ByteLimit \in Int /\ c \in Int /\ MinEntries \in Int /\ 2 * c \in Int
    BY <1>1
  <2>2. /\ bytes \in {ByteLimit, c} /\ bytes >= ByteLimit
        /\ auto \in {MinEntries, 2 * c}
    BY <2>1, Maximum
  <2> HIDE DEF bytes, auto
  <2> QED
    BY <2>1, <2>2
<1> HIDE DEF bytes, auto
<1>4. Embedding!Min({auto, bytes}) \in Int
  BY <1>3, Minimum
<1> QED
  BY <1>1, <1>2, <1>3, <1>4

LEMMA LiveKeysAreFinite ==
  ASSUME NEW T, run.contents \in Seq(T)
  PROVE  Embedding!Cardinality(Embedding!LiveKeys) \in Nat
<1>1. IsFiniteSet(DOMAIN run.contents)
  BY Places
<1>2. run.contents \in Surjection(DOMAIN run.contents, Embedding!LiveKeys)
  BY DEF Surjection, Embedding!LiveKeys
<1> QED
  BY <1>1, <1>2, FS_Surjection, FS_CardinalityType, SameCounts

\* In the order of the pending chunks again, each result is that of its chunk.
LEMMA UnpermutedIs ==
  ASSUME run \in Embedding!Run, Embedding!RunShape, run.pc = "batch", Len(run.results) = Len(run.order),
         NEW p \in DOMAIN run.pending
  PROVE  /\ \E s \in DOMAIN run.results : /\ s \in DOMAIN run.order /\ run.order[s] = p
                                          /\ Embedding!Unpermuted[p] = run.results[s]
         /\ Embedding!Unpermuted[p] \in Embedding!Vecs
         /\ run.pending[p] \in DOMAIN run.contents /\ run.contents[run.pending[p]] \in Embedding!Keys
<1>1. /\ run.results \in Seq(Embedding!Vecs) /\ run.order \in Seq(Nat) /\ run.contents \in Seq(Embedding!Keys)
      /\ Embedding!Pending \subseteq DOMAIN run.contents
      /\ {run.order[s] : s \in DOMAIN run.order} = DOMAIN run.pending
  BY DEF Embedding!RunShape, Embedding!Run
<1>2. DOMAIN run.order = DOMAIN run.results
  BY <1>1
<1>3. \E s \in DOMAIN run.order : run.order[s] = p
  BY <1>1
<1>4. \E s \in DOMAIN run.order : run.order[s] = p /\ Embedding!Unpermuted[p] = run.results[s]
  BY <1>3 DEF Embedding!Unpermuted
<1>5. run.pending[p] \in DOMAIN run.contents
  BY <1>1 DEF Embedding!Pending
<1> QED
  BY <1>1, <1>2, <1>4, <1>5

LEMMA FinishKeeps ==
  ASSUME Embedding!IInv, Embedding!Finish
  PROVE  /\ Embedding!IInv'
         /\ Embedding!ModelAsWanted => Embedding!ModelAsWanted'
         /\ Embedding!VectorsSoFar => Embedding!VectorsSoFar'
<1> DEFINE items == [p \in DOMAIN run.pending |->
                       [key |-> run.contents[run.pending[p]], vec |-> Embedding!Unpermuted[p]]]
           written == Embedding!Touched(run.entries, items)
           live == Embedding!LiveKeys
           es == Embedding!Evict(written, live, run.full)
           places == DOMAIN run.contents
           out == Embedding!Scattered
           entries == IF run.on THEN es ELSE run.entries
           to == IF run.on THEN "save" ELSE "returned"
<1>1. /\ run \in Embedding!Run /\ run.pc = "batch" /\ Len(run.results) = Len(run.order)
      /\ run.contents \in Seq(Embedding!Keys) /\ run.entries \in Seq(Embedding!Entry) /\ run.pending \in Seq(Nat)
      /\ run.out \in Seq(Embedding!Vecs \cup {Embedding!Nothing}) /\ run.full \in BOOLEAN
      /\ Embedding!TypeOK /\ Embedding!RunShape /\ Embedding!EntriesStay
      /\ UNCHANGED <<file, wanted, loaded, sources, imports, disk>>
  BY DEF Embedding!IInv, Embedding!TypeOK, Embedding!Run, Embedding!Finish
<1>2. run' = [run EXCEPT !.pc = to, !.out = out, !.entries = entries]
  BY <1>1 DEF Embedding!Finish, Embedding!Written, Embedding!Run
<1>3. items \in Seq(Embedding!Entry)
  <2>1. DOMAIN run.pending = 1 .. Len(run.pending) /\ Len(run.pending) \in Nat
    BY <1>1
  <2>2. \A p \in DOMAIN run.pending : items[p] \in Embedding!Entry
    BY <1>1, UnpermutedIs DEF Embedding!Entry
  <2>3. items = [p \in 1 .. Len(run.pending) |-> items[p]]
    BY <2>1
  <2> HIDE DEF items
  <2>4. items \in [1 .. Len(run.pending) -> Embedding!Entry]
    BY <2>1, <2>2, <2>3
  <2> QED
    BY <2>1, <2>4
<1>4. \A p \in DOMAIN run.pending : p \in DOMAIN items /\ items[p].key = run.contents[run.pending[p]]
                                    /\ items[p].vec = Embedding!Unpermuted[p]
  OBVIOUS
<1>5. DOMAIN items = DOMAIN run.pending
  OBVIOUS
<1> HIDE DEF items
<1>6. /\ written \in Seq(Embedding!Entry)
      /\ Embedding!KeysOf(written) = Embedding!KeysOf(run.entries) \cup Embedding!KeysOf(items)
      /\ \A i \in DOMAIN written : \/ \E j \in DOMAIN run.entries : written[i] = run.entries[j]
                                   \/ \E j \in DOMAIN items : written[i] = items[j]
  BY <1>1, <1>3, TouchedIs
<1> HIDE DEF written
<1>7. Embedding!Cap(live, run.full) \in Int
      /\ (MaxEntries = 0 /\ ~run.full => Embedding!Cap(live, run.full) >= ByteLimit)
  BY <1>1, CapIs, LiveKeysAreFinite
<1>8. /\ es \in Seq(Embedding!Entry)
      /\ Embedding!KeysOf(written) \cap live \subseteq Embedding!KeysOf(es)
      /\ \A i \in DOMAIN es : \E j \in DOMAIN written : es[i] = written[j]
      /\ \/ Embedding!KeysOf(written) \subseteq Embedding!KeysOf(es)
         \/ Len(es) >= Embedding!Cap(live, run.full)
  BY <1>6, <1>7, EvictIs
<1> HIDE DEF es
<1>9. /\ DOMAIN out = places
      /\ \A i \in places : \/ \E p \in DOMAIN run.pending : run.pending[p] = i /\ out[i] = Embedding!Unpermuted[p]
                           \/ i \notin Embedding!Pending /\ out[i] = run.out[i]
  <2>1. DOMAIN run.out = places
    BY <1>1 DEF Embedding!RunShape
  <2> QED
    BY <2>1 DEF Embedding!Scattered, Embedding!Pending
<1>10. out \in Seq(Embedding!Vecs \cup {Embedding!Nothing})
  <2>1. places = 1 .. Len(run.contents) /\ Len(run.contents) \in Nat /\ DOMAIN run.out = places
    BY <1>1 DEF Embedding!RunShape
  <2>2. \A i \in places : out[i] \in Embedding!Vecs \cup {Embedding!Nothing}
    BY <1>1, <1>9, <2>1, UnpermutedIs
  <2>3. out = [i \in DOMAIN out |-> out[i]]
    BY DEF Embedding!Scattered
  <2> HIDE DEF out
  <2>4. out \in [1 .. Len(run.contents) -> Embedding!Vecs \cup {Embedding!Nothing}]
    BY <1>9, <2>1, <2>2, <2>3
  <2> QED
    BY <2>1, <2>4
<1>11. out = [i \in places |-> out[i]]
  BY <1>9 DEF Embedding!Scattered
<1> HIDE DEF out
<1>12. entries \in Seq(Embedding!Entry)
  BY <1>1, <1>8
<1>13. run' \in Embedding!Run
  <2>1. run' = [pc |-> to, full |-> run.full, num |-> run.num, on |-> run.on, entries |-> entries,
                chunks |-> run.chunks, want |-> run.want, contents |-> run.contents, out |-> out,
                pending |-> run.pending, order |-> run.order, results |-> run.results, size |-> run.size]
    BY <1>1, <1>2 DEF Embedding!Run
  <2>2. to \in {"save", "returned"}
    OBVIOUS
  <2> HIDE DEF entries, to
  <2> QED
    BY <1>1, <1>10, <1>12, <2>1, <2>2 DEF Embedding!Run
<1>14. /\ run'.pc = to /\ run'.num = run.num /\ run'.full = run.full /\ run'.entries = entries
       /\ run'.out = out /\ run'.contents = run.contents /\ run'.want = run.want
  BY <1>1, <1>2 DEF Embedding!Run
<1>15. Embedding!TypeOK' /\ Embedding!Remembered(sources)' /\ Embedding!Remembered(imports)'
  BY <1>1, <1>13 DEF Embedding!IInv, Embedding!TypeOK, Embedding!Remembered
<1>16. Embedding!RunShape'
  BY <1>1, <1>14 DEF Embedding!RunShape, Embedding!Injective
<1>17. Embedding!EntriesStay'
  <2>1. CASE ~run.on
    BY <1>1, <1>14, <2>1 DEF Embedding!EntriesStay
  <2>2. CASE run.on
    <3>1. live \subseteq Embedding!KeysOf(written)
      <4>1. \A i \in places : run.contents[i] \in Embedding!KeysOf(written)
        <5> TAKE i \in places
        <5>1. CASE i \in Embedding!Pending
          <6>1. PICK p \in DOMAIN run.pending : run.pending[p] = i
            BY <5>1 DEF Embedding!Pending
          <6>2. run.contents[i] \in Embedding!KeysOf(items)
            BY <1>4, <6>1 DEF Embedding!KeysOf
          <6> QED
            BY <1>6, <6>2
        <5>2. CASE i \notin Embedding!Pending
          BY <1>1, <1>6, <2>2, <5>2 DEF Embedding!EntriesStay
        <5> QED
          BY <5>1, <5>2
      <4> QED
        BY <4>1 DEF Embedding!LiveKeys
    <3>2. live \subseteq Embedding!KeysOf(es)
      BY <1>8, <3>1
    <3>3. MaxEntries = 0 /\ ~run.full /\ disk.num = run.num =>
            \/ Embedding!KeysOf(disk.entries) \subseteq Embedding!KeysOf(es)
            \/ Len(es) >= ByteLimit
      <4>1. disk.num = run.num => Embedding!KeysOf(disk.entries) \subseteq Embedding!KeysOf(written)
        BY <1>1, <1>6 DEF Embedding!EntriesStay
      <4>2. Len(es) \in Nat /\ ByteLimit \in Nat
        BY <1>8, ChunksAssumption
      <4> HIDE DEF live
      <4> QED
        BY <1>7, <1>8, <4>1, <4>2
    <3>4. Embedding!LiveKeys' = live /\ Embedding!KeysOf(run.entries)' = Embedding!KeysOf(es)
          /\ Embedding!KeysOf(disk.entries)' = Embedding!KeysOf(disk.entries)
      BY <1>1, <1>14, <2>2 DEF Embedding!KeysOf, Embedding!LiveKeys
    <3> HIDE DEF live
    <3> QED
      BY <1>1, <1>14, <2>2, <3>2, <3>3, <3>4 DEF Embedding!EntriesStay
  <2> QED
    BY <2>1, <2>2
<1>18. Embedding!ModelAsWanted => Embedding!ModelAsWanted'
  BY <1>1, <1>14 DEF Embedding!ModelAsWanted
<1>19. ASSUME Embedding!VectorsSoFar PROVE Embedding!VectorsSoFar'
  <2>1. \A p \in DOMAIN run.pending :
          Embedding!Unpermuted[p] = Embedding!Vec(run.contents[run.pending[p]], run.num)
    <3> TAKE p \in DOMAIN run.pending
    <3>1. PICK s \in DOMAIN run.results : run.order[s] = p /\ Embedding!Unpermuted[p] = run.results[s]
      BY <1>1, UnpermutedIs
    <3> QED
      BY <1>1, <1>19, <3>1 DEF Embedding!VectorsSoFar
  <2>2. \A i \in DOMAIN run.entries : run.entries[i].vec = Embedding!Vec(run.entries[i].key, run.num)
    BY <1>19 DEF Embedding!VectorsSoFar, Embedding!SoundEntries
  <2>3. \A i \in DOMAIN items : items[i].vec = Embedding!Vec(items[i].key, run.num)
    BY <1>4, <1>5, <2>1
  <2>4. \A i \in DOMAIN es : es[i].vec = Embedding!Vec(es[i].key, run.num)
    BY <1>6, <1>8, <2>2, <2>3
  <2>5. \A i \in places : out[i] = Embedding!Vec(run.contents[i], run.num)
    BY <1>1, <1>9, <1>19, <2>1 DEF Embedding!VectorsSoFar
  <2>6. out = [i \in places |-> Embedding!Vec(run.contents[i], run.num)]
    BY <1>11, <2>5
  <2>7. Embedding!SoundEntries(run.entries, run.num)' /\ Embedding!SoundEntries(disk.entries, disk.num)'
    <3>1. Embedding!SoundEntries(disk.entries, disk.num)'
      BY <1>1, <1>19 DEF Embedding!VectorsSoFar, Embedding!SoundEntries, Embedding!Vec
    <3>2. \A i \in DOMAIN entries : entries[i].vec = Embedding!Vec(entries[i].key, run.num)
      BY <2>2, <2>4
    <3> HIDE DEF entries
    <3> QED
      BY <1>14, <3>1, <3>2 DEF Embedding!SoundEntries, Embedding!Vec
  <2> QED
    BY <1>14, <2>6, <2>7 DEF Embedding!VectorsSoFar, Embedding!Vec
<1> QED
  BY <1>15, <1>16, <1>17, <1>18, <1>19 DEF Embedding!IInv

LEMMA SavingKeeps ==
  ASSUME Embedding!IInv, Embedding!Save \/ Embedding!SaveFails
  PROVE  /\ Embedding!IInv'
         /\ Embedding!ModelAsWanted => Embedding!ModelAsWanted'
         /\ Embedding!VectorsSoFar => Embedding!VectorsSoFar'
         /\ Embedding!SaveKeeps
<1>1. /\ run \in Embedding!Run /\ run.pc = "save" /\ run.entries \in Seq(Embedding!Entry)
      /\ run.num \in Embedding!Provenances
      /\ Embedding!TypeOK /\ Embedding!RunShape /\ Embedding!EntriesStay
      /\ UNCHANGED <<file, wanted, loaded, sources, imports>>
      /\ run' = [run EXCEPT !.pc = "returned"]
  BY DEF Embedding!IInv, Embedding!TypeOK, Embedding!Run, Embedding!Save, Embedding!SaveFails
<1>2. disk' = disk \/ disk' = [ok |-> TRUE, num |-> run.num, entries |-> run.entries]
  BY DEF Embedding!Save, Embedding!SaveFails
<1>3. run' \in Embedding!Run
  <2>1. run' = [pc |-> "returned", full |-> run.full, num |-> run.num, on |-> run.on, entries |-> run.entries,
                chunks |-> run.chunks, want |-> run.want, contents |-> run.contents, out |-> run.out,
                pending |-> run.pending, order |-> run.order, results |-> run.results, size |-> run.size]
    BY <1>1 DEF Embedding!Run
  <2> QED
    BY <1>1, <2>1 DEF Embedding!Run
<1>4. /\ run'.pc = "returned" /\ run'.num = run.num /\ run'.full = run.full /\ run'.entries = run.entries
      /\ run'.out = run.out /\ run'.contents = run.contents /\ run'.want = run.want
  BY <1>1 DEF Embedding!Run
<1>5. Embedding!TypeOK'
  <2>1. disk' \in [ok : BOOLEAN, num : Embedding!Provenances, entries : Seq(Embedding!Entry)]
    <3>1. disk \in [ok : BOOLEAN, num : Embedding!Provenances, entries : Seq(Embedding!Entry)]
      BY <1>1 DEF Embedding!TypeOK
    <3>2. [ok |-> TRUE, num |-> run.num, entries |-> run.entries]
            \in [ok : BOOLEAN, num : Embedding!Provenances, entries : Seq(Embedding!Entry)]
      BY <1>1
    <3> QED
      BY Zenon, <1>2, <3>1, <3>2
  <2> QED
    BY <1>1, <1>3, <2>1 DEF Embedding!TypeOK
<1>6. Embedding!Remembered(sources)' /\ Embedding!Remembered(imports)'
  BY <1>1 DEF Embedding!IInv, Embedding!Remembered
<1>7. Embedding!RunShape'
  BY <1>1, <1>4 DEF Embedding!RunShape, Embedding!Injective
<1>8. Embedding!EntriesStay'
  BY <1>1, <1>2, <1>4 DEF Embedding!EntriesStay
<1>9. Embedding!ModelAsWanted => Embedding!ModelAsWanted'
  BY <1>1, <1>4 DEF Embedding!ModelAsWanted
<1>10. Embedding!VectorsSoFar => Embedding!VectorsSoFar'
  BY <1>1, <1>2, <1>4 DEF Embedding!VectorsSoFar, Embedding!SoundEntries, Embedding!Vec
<1>11. Embedding!SaveKeeps
  BY <1>1, <1>2 DEF Embedding!EntriesStay, Embedding!SaveKeeps, Embedding!KeysOf
<1> QED
  BY <1>5, <1>6, <1>7, <1>8, <1>9, <1>10, <1>11 DEF Embedding!IInv

\* The environment, and what ends a run before its time.
LEMMA AroundKeeps ==
  ASSUME Embedding!IInv,
         \/ Embedding!BatchFails \/ Embedding!Crash \/ Embedding!FreshEmbedder \/ Embedding!Cleanup
         \/ Embedding!Reconfigure \/ (\E f \in SourceFiles : Embedding!Edit(f)) \/ UNCHANGED Embedding!vars
  PROVE  /\ Embedding!IInv' /\ (run' = run \/ run'.pc = "idle") /\ UNCHANGED disk
         /\ ~LiveReconfig /\ Embedding!ModelAsWanted => Embedding!ModelAsWanted'
         /\ Embedding!VectorsSoFar => Embedding!VectorsSoFar'
<1> DEFINE unread == [f \in SourceFiles |-> Embedding!Unread]
<1>1. /\ Embedding!TypeOK /\ Embedding!Remembered(sources) /\ Embedding!Remembered(imports)
      /\ run.pc \in {"idle", "partition", "prepare", "batch", "save", "returned"}
  BY DEF Embedding!IInv, Embedding!TypeOK, Embedding!Run
<1>2. /\ UNCHANGED disk /\ (run' = run \/ run' = Embedding!Idle)
      /\ wanted' \in Numerics /\ loaded' \in Numerics \cup {"none", "gone"}
  BY <1>1 DEF Embedding!BatchFails, Embedding!Fails, Embedding!Crash, Embedding!FreshEmbedder, Embedding!Cleanup,
              Embedding!Reconfigure, Embedding!Edit, Embedding!vars, Embedding!TypeOK
<1>3. /\ run' \in Embedding!Run /\ Embedding!RunShape' /\ Embedding!EntriesStay'
      /\ run' = run \/ run'.pc = "idle"
      /\ Embedding!VectorsSoFar => Embedding!VectorsSoFar'
  BY <1>2, IdleKeeps, SameRunKeeps
<1>4. /\ file' \in [SourceFiles -> [mtime : Nat, head : Embedding!Halves, text : Embedding!Halves]]
      /\ sources' \in [SourceFiles -> Embedding!Imports] /\ imports' \in [SourceFiles -> Embedding!Imports]
      /\ Embedding!Remembered(sources)' /\ Embedding!Remembered(imports)'
  <2>1. CASE \E f \in SourceFiles : Embedding!Edit(f)
    <3>1. PICK f \in SourceFiles, head \in Embedding!Halves, text \in Embedding!Halves :
            file' = [file EXCEPT ![f] = [mtime |-> @.mtime + 1, head |-> head, text |-> text]]
      BY <2>1 DEF Embedding!Edit
    <3>2. UNCHANGED <<sources, imports>>
      BY <2>1 DEF Embedding!Edit
    <3>3. /\ \A g \in SourceFiles : file[g].mtime \in Nat /\ sources[g].mtime \in Int /\ imports[g].mtime \in Int
          /\ file \in [SourceFiles -> [mtime : Nat, head : Embedding!Halves, text : Embedding!Halves]]
      BY <1>1 DEF Embedding!TypeOK, Embedding!Imports
    <3>4. file' \in [SourceFiles -> [mtime : Nat, head : Embedding!Halves, text : Embedding!Halves]]
      BY <3>1, <3>3
    <3>5. \A g \in SourceFiles : file'[g] = file[g] \/ file'[g].mtime = file[g].mtime + 1
      BY <3>1, <3>3
    <3>6. Embedding!Remembered(sources)' /\ Embedding!Remembered(imports)'
      BY <1>1, <3>2, <3>3, <3>5 DEF Embedding!Remembered
    <3> QED
      BY <1>1, <3>2, <3>4, <3>6 DEF Embedding!TypeOK
  <2>2. CASE UNCHANGED <<file, sources, imports>>
    BY <1>1, <2>2 DEF Embedding!Remembered, Embedding!TypeOK
  <2>3. CASE UNCHANGED file /\ sources' = unread /\ imports' = unread
    <3>1. Embedding!Unread \in Embedding!Imports /\ Embedding!Unread.mtime = -1
      BY DEF Embedding!Unread, Embedding!Imports, Embedding!Halves
    <3>2. \A g \in SourceFiles : file[g].mtime \in Nat
      BY <1>1 DEF Embedding!TypeOK
    <3> QED
      BY <1>1, <2>3, <3>1, <3>2 DEF Embedding!Remembered, Embedding!TypeOK
  <2> QED
    BY <2>1, <2>2, <2>3 DEF Embedding!BatchFails, Embedding!Crash, Embedding!FreshEmbedder, Embedding!Cleanup,
              Embedding!Reconfigure, Embedding!vars
<1>5. Embedding!IInv'
  BY <1>1, <1>2, <1>3, <1>4 DEF Embedding!IInv, Embedding!TypeOK
<1>6. ASSUME ~LiveReconfig, Embedding!ModelAsWanted PROVE Embedding!ModelAsWanted'
  <2>1. CASE Embedding!BatchFails \/ (\E f \in SourceFiles : Embedding!Edit(f)) \/ UNCHANGED Embedding!vars
    <3>1. UNCHANGED <<wanted, loaded>>
      BY <2>1 DEF Embedding!BatchFails, Embedding!Edit, Embedding!vars
    <3> QED
      BY <1>3, <1>6, <3>1 DEF Embedding!ModelAsWanted
  <2>2. CASE Embedding!Reconfigure
    <3>1. /\ loaded \in {"none", "gone"} /\ run.pc \in {"idle", "returned"}
          /\ UNCHANGED <<loaded, run>>
      BY <1>6, <2>2 DEF Embedding!Reconfigure
    <3> QED
      BY <3>1, ChunksAssumption DEF Embedding!ModelAsWanted
  <2>3. CASE Embedding!Cleanup
    <3>1. loaded \in Numerics /\ loaded' = "gone" /\ UNCHANGED <<wanted, run>>
      BY <2>3 DEF Embedding!Cleanup
    <3> QED
      BY <1>6, <3>1, ChunksAssumption DEF Embedding!ModelAsWanted
  <2>4. CASE Embedding!FreshEmbedder \/ Embedding!Crash
    <3>1. loaded' = "none" /\ run' = Embedding!Idle
      BY <2>4 DEF Embedding!FreshEmbedder, Embedding!Crash
    <3>2. run'.pc = "idle"
      BY <3>1 DEF Embedding!Idle
    <3> QED
      BY <3>1, <3>2, ChunksAssumption DEF Embedding!ModelAsWanted
  <2> QED
    BY <2>1, <2>2, <2>3, <2>4
<1> QED
  BY <1>2, <1>3, <1>5, <1>6

LEMMA EmbeddingNext ==
  ASSUME Embedding!IInv, [Embedding!Next]_(Embedding!vars)
  PROVE  /\ Embedding!IInv'
         /\ ~LiveReconfig /\ Embedding!ModelAsWanted /\ Embedding!VectorsSoFar =>
              Embedding!ModelAsWanted' /\ Embedding!VectorsSoFar'
         /\ Embedding!SaveKeeps /\ Embedding!BatchesProgress
<1>1. ASSUME NEW files \in SUBSET SourceFiles, Embedding!Begin(files)
      PROVE  disk' = disk /\ run.pc # "batch"
  BY <1>1 DEF Embedding!Begin
<1>2. CASE Embedding!Partition \/ Embedding!CacheReadFails \/ Embedding!Prepare
  <2>1. disk' = disk /\ run.pc # "batch"
    BY <1>2 DEF Embedding!Partition, Embedding!CacheReadFails, Embedding!Prepare
  <2> QED
    BY <1>2, <2>1, PartitionKeeps, CacheReadFailsKeeps, PrepareKeeps DEF Embedding!SaveKeeps, Embedding!BatchesProgress
<1>3. CASE Embedding!EncodeBatch \/ Embedding!OutOfMemory
  <2>1. disk' = disk
    BY <1>3 DEF Embedding!EncodeBatch, Embedding!OutOfMemory
  <2> QED
    BY <1>3, <2>1, EncodeKeeps, OutOfMemoryKeeps DEF Embedding!SaveKeeps
<1>4. CASE Embedding!Finish
  <2>1. disk' = disk /\ run'.pc # "batch"
    BY <1>4 DEF Embedding!Finish, Embedding!IInv, Embedding!TypeOK, Embedding!Run
  <2> QED
    BY <1>4, <2>1, FinishKeeps DEF Embedding!SaveKeeps, Embedding!BatchesProgress
<1>5. CASE Embedding!Save \/ Embedding!SaveFails
  <2>1. run.pc # "batch"
    BY <1>5 DEF Embedding!Save, Embedding!SaveFails
  <2> QED
    BY <1>5, <2>1, SavingKeeps DEF Embedding!BatchesProgress
<1>6. CASE \/ Embedding!BatchFails \/ Embedding!Crash \/ Embedding!FreshEmbedder \/ Embedding!Cleanup
           \/ Embedding!Reconfigure \/ (\E f \in SourceFiles : Embedding!Edit(f)) \/ UNCHANGED Embedding!vars
  BY <1>6, AroundKeeps DEF Embedding!SaveKeeps, Embedding!BatchesProgress
<1>7. CASE \E files \in SUBSET SourceFiles \ {{}} : Embedding!Begin(files)
  BY <1>1, <1>7, BeginKeeps DEF Embedding!SaveKeeps, Embedding!BatchesProgress
<1> QED
  BY <1>2, <1>3, <1>4, <1>5, <1>6, <1>7 DEF Embedding!Next

\* For any files, batch sizes and caps, however often memory runs out, each attempt of a
\* run is smaller than the last one or has more results; and what is saved has whatever the
\* run has used, and after a partial run whatever was in the file, up to its ceiling.
THEOREM BatchesEnd == Spec => BatchesProgress
<1> DEFINE Inv == part = "chunks" => Embedding!IInv
<1>1. Init => Inv
  BY StartOfOne, EmbeddingInit
<1>2. Inv /\ [Next]_vars => Inv' /\ (part = "chunks" => Embedding!BatchesProgress)
  BY StepOfOne, EmbeddingNext
<1> QED
  BY <1>1, <1>2, PTL DEF Spec, BatchesProgress

THEOREM SavedIsKept == Spec => SaveKeeps
<1> DEFINE Inv == part = "chunks" => Embedding!IInv
<1>1. Init => Inv
  BY StartOfOne, EmbeddingInit
<1>2. Inv /\ [Next]_vars => Inv' /\ (part = "chunks" => Embedding!SaveKeeps)
  BY StepOfOne, EmbeddingNext
<1> QED
  BY <1>1, <1>2, PTL DEF Spec, SaveKeeps

\* Unless the configured precision changes under a loaded model, every vector that a run
\* returns is that of its own chunk with the imports its file has, and so is every vector
\* in the file of the cache.
THEOREM VectorsSound == ASSUME ~LiveReconfig PROVE Spec => []VectorsAreTheChunks
<1> DEFINE Inv == part = "chunks" => Embedding!IInv /\ Embedding!ModelAsWanted /\ Embedding!VectorsSoFar
<1>1. Init => Inv
  BY StartOfOne, EmbeddingInit
<1>2. Inv /\ [Next]_vars => Inv'
  BY StepOfOne, EmbeddingNext
<1>3. Inv => VectorsAreTheChunks
  BY DEF VectorsAreTheChunks, Embedding!VectorsAreTheChunks, Embedding!IInv, Embedding!RunShape,
         Embedding!VectorsSoFar, Embedding!SoundEntries
<1> QED
  BY <1>1, <1>2, <1>3, PTL DEF Spec

HIDE DEF file, wanted, loaded, sources, imports, disk, run

------------------------------------------------------------------------------
(* QueryEmbedding.                                                             *)

cache == v1
embedder == v2
call == v3
USE DEF cache, embedder, call

\* What is left of the cache without a query.
LEMMA OthersSound ==
  ASSUME NEW es, Querying!CacheSound(es), NEW q
  PROVE  /\ Querying!CacheSound(Querying!Others(es, q))
         /\ \A i \in DOMAIN Querying!Others(es, q) : Querying!Others(es, q)[i].query # q
         /\ (\E i \in DOMAIN es : es[i].query = q) => Len(Querying!Others(es, q)) < Len(es)
<1> DEFINE T == [query : QueryTexts, vec : Seq(QueryTexts), old : BOOLEAN]
           P == {i \in DOMAIN es : es[i].query # q}
           left == Querying!Others(es, q)
<1>1. /\ es \in Seq(T) /\ Len(es) <= QueryCacheSize
      /\ \A i \in DOMAIN es : es[i].vec = Querying!Vec(es[i].query)
      /\ \A i, j \in DOMAIN es : es[i].query = es[j].query => i = j
  BY DEF Querying!CacheSound
<1> HIDE DEF T
<1>2. /\ DOMAIN es = 1 .. Len(es) /\ Len(es) \in Nat /\ DOMAIN es \in SUBSET Nat
      /\ IsFiniteSet(DOMAIN es) /\ Cardinality(DOMAIN es) = Len(es)
  BY <1>1, Places
<1>3. P \in SUBSET Nat /\ IsFiniteSet(P) /\ Cardinality(P) <= Len(es) /\ Cardinality(P) \in Nat
  <2>1. P \in SUBSET DOMAIN es
    OBVIOUS
  <2> HIDE DEF P
  <2> QED
    BY <1>2, <2>1, FS_Subset, FS_CardinalityType
<1>4. \A i \in P : es[i] \in T /\ i \in DOMAIN es /\ es[i].query # q
  BY <1>1
<1>5. IsListOf(Selected(es, P), es, P, T)
  <2> HIDE DEF P
  <2> QED
    BY <1>3, <1>4, SelectedIs
<1>6. left = Selected(es, P)
  BY SameSelections DEF Querying!Others
<1> HIDE DEF left
<1>7. /\ left \in Seq(T) /\ Len(left) = Cardinality(P)
      /\ \E at \in Bijection(1 .. Cardinality(P), P) : \A n \in 1 .. Cardinality(P) : left[n] = es[at[n]]
  BY <1>5, <1>6 DEF IsListOf
<1>8. PICK at \in Bijection(1 .. Cardinality(P), P) : \A n \in 1 .. Cardinality(P) : left[n] = es[at[n]]
  BY <1>7
<1>9. /\ \A n \in 1 .. Cardinality(P) : at[n] \in P
      /\ \A n, k \in 1 .. Cardinality(P) : at[n] = at[k] => n = k
  <2> HIDE DEF P
  <2> QED
    BY <1>8 DEF Bijection, Injection, IsInjective
<1>10. DOMAIN left = 1 .. Cardinality(P)
  BY <1>7
<1>11. \A n \in DOMAIN left : left[n] = es[at[n]] /\ at[n] \in DOMAIN es /\ left[n].query # q
  BY <1>4, <1>8, <1>9, <1>10
<1>12. \A n, k \in DOMAIN left : left[n].query = left[k].query => n = k
  BY <1>1, <1>9, <1>10, <1>11
<1>13. (\E i \in DOMAIN es : es[i].query = q) => Len(left) < Len(es)
  <2> SUFFICES ASSUME NEW i \in DOMAIN es, es[i].query = q PROVE Len(left) < Len(es)
    OBVIOUS
  <2>1. P # DOMAIN es /\ P \in SUBSET DOMAIN es
    OBVIOUS
  <2> HIDE DEF P
  <2>2. Cardinality(P) # Cardinality(DOMAIN es)
    BY <1>2, <2>1, FS_Subset
  <2> QED
    BY <1>2, <1>3, <1>7, <2>2
<1>14. Querying!CacheSound(left)
  <2>1. left \in Seq([query : QueryTexts, vec : Seq(QueryTexts), old : BOOLEAN])
    BY <1>7 DEF T
  <2>2. \A n \in DOMAIN left : left[n].vec = Querying!Vec(left[n].query)
    BY <1>1, <1>11
  <2>3. Len(left) <= QueryCacheSize
    BY <1>1, <1>2, <1>3, <1>7, QueriesAssumption
  <2> QED
    BY <1>12, <2>1, <2>2, <2>3 DEF Querying!CacheSound
<1> QED
  BY <1>11, <1>13, <1>14 DEF left

LEMMA AddedSound ==
  ASSUME NEW es, Querying!CacheSound(es), Len(es) < QueryCacheSize,
         NEW e \in [query : QueryTexts, vec : Seq(QueryTexts), old : BOOLEAN],
         e.vec = Querying!Vec(e.query), \A i \in DOMAIN es : es[i].query # e.query
  PROVE  Querying!CacheSound(Append(es, e))
<1> DEFINE T == [query : QueryTexts, vec : Seq(QueryTexts), old : BOOLEAN]
           more == Append(es, e)
<1>1. /\ es \in Seq(T) /\ Len(es) <= QueryCacheSize /\ e \in T
      /\ \A i \in DOMAIN es : es[i].vec = Querying!Vec(es[i].query)
      /\ \A i, j \in DOMAIN es : es[i].query = es[j].query => i = j
  BY DEF Querying!CacheSound
<1> HIDE DEF T
<1>2. /\ more \in Seq(T) /\ Len(more) = Len(es) + 1 /\ Len(es) \in Nat /\ DOMAIN more = 1 .. (Len(es) + 1)
      /\ more[Len(es) + 1] = e /\ \A i \in 1 .. Len(es) : i \in DOMAIN es /\ more[i] = es[i]
  BY <1>1
<1> HIDE DEF more
<1>3. \A i \in DOMAIN more : (i \in DOMAIN es /\ more[i] = es[i]) \/ (i = Len(es) + 1 /\ more[i] = e)
  <2> TAKE i \in DOMAIN more
  <2>1. i \in 1 .. Len(es) \/ i = Len(es) + 1
    BY <1>2
  <2> QED
    BY <1>2, <2>1
<1>4. \A i \in DOMAIN more : more[i].vec = Querying!Vec(more[i].query)
  BY <1>1, <1>3
<1>5. \A i, j \in DOMAIN more : more[i].query = more[j].query => i = j
  BY <1>1, <1>3
<1>6. Len(more) <= QueryCacheSize
  BY <1>2, QueriesAssumption
<1> QED
  BY <1>2, <1>4, <1>5, <1>6 DEF Querying!CacheSound, more, T

LEMMA LastSound ==
  ASSUME NEW es, Querying!CacheSound(es), NEW a \in Nat \ {0}, a <= Len(es) + 1
  PROVE  /\ Querying!CacheSound(SubSeq(es, a, Len(es))) /\ Len(SubSeq(es, a, Len(es))) = Len(es) - a + 1
         /\ \A i \in DOMAIN SubSeq(es, a, Len(es)) : \E j \in DOMAIN es : SubSeq(es, a, Len(es))[i] = es[j]
<1> DEFINE T == [query : QueryTexts, vec : Seq(QueryTexts), old : BOOLEAN]
           some == SubSeq(es, a, Len(es))
<1>1. /\ es \in Seq(T) /\ Len(es) <= QueryCacheSize
      /\ \A i \in DOMAIN es : es[i].vec = Querying!Vec(es[i].query)
      /\ \A i, j \in DOMAIN es : es[i].query = es[j].query => i = j
  BY DEF Querying!CacheSound
<1> HIDE DEF T
<1>2. Len(es) \in Nat /\ DOMAIN es = 1 .. Len(es) /\ \A i \in 1 .. Len(es) : es[i] \in T
  BY <1>1
<1>3. Len(es) - a + 1 \in Nat /\ \A i \in 1 .. (Len(es) - a + 1) : i + a - 1 \in 1 .. Len(es)
  BY <1>2
<1>4. some = [i \in 1 .. (Len(es) - a + 1) |-> es[i + a - 1]]
  BY <1>2, <1>3
<1> HIDE DEF some
<1>5. /\ some \in Seq(T) /\ Len(some) = Len(es) - a + 1 /\ DOMAIN some = 1 .. (Len(es) - a + 1)
      /\ \A i \in DOMAIN some : i + a - 1 \in DOMAIN es /\ some[i] = es[i + a - 1]
  BY <1>2, <1>3, <1>4
<1>6. \A i \in DOMAIN some : some[i].vec = Querying!Vec(some[i].query)
  BY <1>1, <1>5
<1>7. \A i, j \in DOMAIN some : some[i].query = some[j].query => i = j
  <2> SUFFICES ASSUME NEW i \in DOMAIN some, NEW j \in DOMAIN some, some[i].query = some[j].query
               PROVE  i = j
    OBVIOUS
  <2>1. i + a - 1 = j + a - 1
    BY <1>1, <1>5
  <2> QED
    BY <1>3, <1>5, <2>1
<1>8. Len(some) <= QueryCacheSize
  BY <1>1, <1>2, <1>5, QueriesAssumption
<1> QED
  BY <1>5, <1>6, <1>7, <1>8 DEF Querying!CacheSound, T, some

LEMMA GetSound ==
  ASSUME NEW es, Querying!CacheSound(es), NEW q
  PROVE  /\ Querying!CacheSound(Querying!Get(es, q).entries)
         /\ Querying!Get(es, q).vec \in {Querying!Unknown, Querying!Vec(q)}
<1> DEFINE here == {i \in DOMAIN es : es[i].query = q}
           e == es[CHOOSE i \in here : TRUE]
           left == Querying!Others(es, q)
<1>1. CASE here = {}
  BY <1>1 DEF Querying!Get
<1>2. CASE here # {}
  <2>1. (CHOOSE i \in here : TRUE) \in here
    BY <1>2
  <2>2. PICK i \in DOMAIN es : es[i].query = q /\ e = es[i]
    BY <2>1
  <2> HIDE DEF here, e, left
  <2>3. /\ Querying!CacheSound(left) /\ \A n \in DOMAIN left : left[n].query # q
        /\ Len(left) < Len(es)
    BY <2>2, OthersSound DEF left
  <2>4. e \in [query : QueryTexts, vec : Seq(QueryTexts), old : BOOLEAN] /\ e.vec = Querying!Vec(e.query)
        /\ Len(es) <= QueryCacheSize /\ Len(es) \in Nat /\ e.query = q
    <3>1. /\ es \in Seq([query : QueryTexts, vec : Seq(QueryTexts), old : BOOLEAN])
          /\ Len(es) <= QueryCacheSize /\ es[i].vec = Querying!Vec(es[i].query)
      BY <2>2 DEF Querying!CacheSound
    <3>2. es[i] \in [query : QueryTexts, vec : Seq(QueryTexts), old : BOOLEAN] /\ Len(es) \in Nat
      BY <2>2, <3>1, Elements, Zenon
    <3> QED
      BY <2>2, <3>1, <3>2, Zenon
  <2>5. Len(left) < QueryCacheSize
    <3>1. Len(left) \in Nat
      BY <2>3 DEF Querying!CacheSound
    <3> QED
      BY <2>3, <2>4, <3>1, QueriesAssumption
  <2>6. Querying!CacheSound(Append(left, e))
    BY <2>3, <2>4, <2>5, AddedSound
  <2>7. Querying!Get(es, q) = IF e.old THEN [entries |-> left, vec |-> Querying!Unknown]
                              ELSE [entries |-> Append(left, e), vec |-> e.vec]
    BY <1>2 DEF Querying!Get, here, e, left
  <2> QED
    BY <2>3, <2>4, <2>6, <2>7
<1> QED
  BY <1>1, <1>2

LEMMA PutSound ==
  ASSUME NEW es, Querying!CacheSound(es), NEW q \in QueryTexts
  PROVE  Querying!CacheSound(Querying!Put(es, q, Querying!Vec(q)))
<1> DEFINE left == Querying!Others(es, q)
           start == Len(left) - QueryCacheSize + 2
           kept == IF Len(left) < QueryCacheSize THEN left ELSE SubSeq(left, start, Len(left))
           e == [query |-> q, vec |-> Querying!Vec(q), old |-> FALSE]
<1>1. CASE QueryCacheSize = 0
  BY <1>1 DEF Querying!Put
<1>2. CASE QueryCacheSize # 0
  <2>1. Querying!Put(es, q, Querying!Vec(q)) = Append(kept, e)
    BY <1>2 DEF Querying!Put
  <2>2. e \in [query : QueryTexts, vec : Seq(QueryTexts), old : BOOLEAN] /\ e.vec = Querying!Vec(e.query)
        /\ e.query = q
    BY DEF Querying!Vec
  <2>3. Querying!CacheSound(left) /\ \A n \in DOMAIN left : left[n].query # q
    BY OthersSound
  <2> HIDE DEF left, e
  <2>4. Len(left) \in Nat /\ Len(left) <= QueryCacheSize /\ QueryCacheSize \in Nat
    BY <2>3, QueriesAssumption DEF Querying!CacheSound
  <2>5. /\ Querying!CacheSound(kept) /\ Len(kept) < QueryCacheSize
        /\ \A i \in DOMAIN kept : \E j \in DOMAIN left : kept[i] = left[j]
    <3>1. CASE Len(left) < QueryCacheSize
      BY <2>3, <3>1
    <3>2. CASE ~(Len(left) < QueryCacheSize)
      <4>1. start \in Nat \ {0} /\ start <= Len(left) + 1 /\ Len(left) - start + 1 < QueryCacheSize
        BY <1>2, <2>4, <3>2
      <4> HIDE DEF start
      <4>2. kept = SubSeq(left, start, Len(left))
        BY <3>2
      <4> HIDE DEF kept
      <4> QED
        BY <2>3, <4>1, <4>2, LastSound
    <3> QED
      BY <3>1, <3>2
  <2> HIDE DEF kept
  <2>6. \A i \in DOMAIN kept : kept[i].query # e.query
    BY <2>2, <2>3, <2>5
  <2> QED
    BY <2>1, <2>2, <2>5, <2>6, AddedSound
<1> QED
  BY <1>1, <1>2

\* The places that are open, and which of them is the first.
LEMMA OpenPlaces ==
  ASSUME NEW c, Querying!CallSound(c)
  PROVE  /\ DOMAIN c.asked = 1 .. Len(c.asked) /\ Len(c.asked) \in Nat /\ DOMAIN c.asked \in SUBSET Nat
         /\ IsFiniteSet(DOMAIN c.asked)
         /\ Querying!Open(c) \in SUBSET DOMAIN c.asked /\ IsFiniteSet(Querying!Open(c))
         /\ Querying!Missing(c) = Selected([i \in DOMAIN c.asked |-> i], Querying!Open(c))
         /\ Len(Querying!Missing(c)) = Cardinality(Querying!Open(c))
         /\ DOMAIN Querying!Missing(c) = 1 .. Cardinality(Querying!Open(c))
         /\ Cardinality(Querying!Open(c)) \in Nat
         /\ \A j \in DOMAIN Querying!Missing(c) : Querying!Missing(c)[j] \in Querying!Open(c)
<1> DEFINE D == DOMAIN c.asked
           P == Querying!Open(c)
           id == [i \in D |-> i]
           m == Querying!Missing(c)
<1>1. c.asked \in Seq(QueryTexts)
  BY DEF Querying!CallSound
<1>2. D = 1 .. Len(c.asked) /\ Len(c.asked) \in Nat /\ D \in SUBSET Nat /\ IsFiniteSet(D)
  BY <1>1, Places
<1>3. P \in SUBSET D /\ IsFiniteSet(P) /\ P \in SUBSET Nat
  <2>1. P \in SUBSET D
    BY DEF Querying!Open
  <2> HIDE DEF P, D
  <2> QED
    BY <1>2, <2>1, FS_Subset
<1>4. m = Selected(id, P)
  BY SameSelections DEF Querying!Missing
<1> HIDE DEF P, D
<1>5. \A i \in P : id[i] \in P
  BY <1>3
<1>6. IsListOf(Selected(id, P), id, P, P)
  <2> HIDE DEF id
  <2> QED
    BY <1>3, <1>5, SelectedIs
<1> HIDE DEF m
<1>7. Cardinality(P) \in Nat /\ m \in Seq(P) /\ Len(m) = Cardinality(P)
  BY <1>4, <1>6 DEF IsListOf
<1>8. DOMAIN m = 1 .. Cardinality(P) /\ \A j \in DOMAIN m : m[j] \in P
  BY <1>7
<1> QED
  BY <1>2, <1>3, <1>4, <1>7, <1>8 DEF m, P, D

LEMMA EncodedSound ==
  ASSUME NEW c, Querying!CallSound(c), c.pc = "encode"
  PROVE  Querying!CallSound([c EXCEPT !.pc = "store",
           !.raw = [j \in DOMAIN Querying!Uncached(c) |-> Querying!Vec(Querying!Uncached(c)[j])]])
<1> DEFINE d == [c EXCEPT !.pc = "store",
                  !.raw = [j \in DOMAIN Querying!Uncached(c) |-> Querying!Vec(Querying!Uncached(c)[j])]]
           m == Querying!Missing(c)
           raw == [j \in DOMAIN Querying!Uncached(c) |-> Querying!Vec(Querying!Uncached(c)[j])]
           total == Cardinality(Querying!Open(c))
<1>1. /\ DOMAIN m = 1 .. total /\ Len(m) = total /\ total \in Nat /\ Querying!Open(c) \in SUBSET DOMAIN c.asked
      /\ \A j \in DOMAIN m : m[j] \in DOMAIN c.asked
  BY OpenPlaces
<1>2. raw = [j \in 1 .. total |-> <<c.asked[m[j]]>>]
  BY <1>1 DEF Querying!Uncached, Querying!Vec
<1> HIDE DEF total
<1>3. /\ c.asked \in Seq(QueryTexts) /\ c.got \in Seq(Seq(QueryTexts)) /\ Len(c.got) = Len(c.asked)
      /\ \A i \in DOMAIN c.got : c.got[i] \in {Querying!Unknown, Querying!Vec(c.asked[i])}
  BY DEF Querying!CallSound
<1>4. d = [pc |-> "store", asked |-> c.asked, got |-> c.got, raw |-> raw]
  <2> DEFINE new == [j \in DOMAIN Querying!Uncached(c) |-> Querying!Vec(Querying!Uncached(c)[j])]
  <2>1. c \in [pc : {"rest", "lookup", "encode", "store", "answered"},
               asked : Seq(QueryTexts), got : Seq(Seq(QueryTexts)), raw : Seq(Seq(QueryTexts))]
    BY DEF Querying!CallSound
  <2>2. d = [c EXCEPT !.pc = "store", !.raw = new] /\ raw = new
    OBVIOUS
  <2> HIDE DEF new, d, raw
  <2> QED
    BY <2>1, <2>2
<1> HIDE DEF m, raw, d
<1>0. d.pc = "store" /\ d.asked = c.asked /\ d.got = c.got /\ d.raw = raw
  BY <1>4
<1>5. raw \in Seq(Seq(QueryTexts)) /\ Len(raw) = total
  <2>1. \A j \in 1 .. total : c.asked[m[j]] \in QueryTexts
    BY <1>1, <1>3, Elements, Zenon
  <2>2. \A j \in 1 .. total : <<c.asked[m[j]]>> \in Seq(QueryTexts)
    BY <2>1
  <2>3. raw \in [1 .. total -> Seq(QueryTexts)]
    BY <1>2, <2>2
  <2> QED
    BY <1>1, <2>3
<1>6. Querying!Open(d) = Querying!Open(c) /\ Querying!Missing(d) = m
  BY <1>0, Zenon DEF Querying!Open, Querying!Missing, m
<1>7. \A j \in DOMAIN m : d.raw[Len(d.raw) - Len(m) + j] = Querying!Vec(d.asked[m[j]])
  <2> TAKE j \in DOMAIN m
  <2>1. Len(raw) - Len(m) + j = j /\ raw[j] = <<c.asked[m[j]]>>
    BY <1>1, <1>2, <1>5
  <2> QED
    BY <1>0, <2>1, Zenon DEF Querying!Vec
<1>8. Len(m) <= Len(d.raw)
  BY <1>0, <1>1, <1>5
<1>9. d \in [pc : {"rest", "lookup", "encode", "store", "answered"},
             asked : Seq(QueryTexts), got : Seq(Seq(QueryTexts)), raw : Seq(Seq(QueryTexts))]
  BY <1>3, <1>4, <1>5
<1> QED
  BY <1>0, <1>3, <1>6, <1>7, <1>8, <1>9 DEF Querying!CallSound, d

LEMMA StoredSound ==
  ASSUME NEW c, Querying!CallSound(c), c.pc = "store",
         NEW i, i = Querying!Missing(c)[1],
         NEW vec, vec = c.raw[Len(c.raw) - Len(Querying!Missing(c)) + 1]
  PROVE  /\ Querying!CallSound([c EXCEPT !.got[i] = vec,
                       !.pc = IF Len(Querying!Missing(c)) = 1 THEN "answered" ELSE "store"])
         /\ c.asked[i] \in QueryTexts /\ vec = Querying!Vec(c.asked[i])
<1> DEFINE d == [c EXCEPT !.got[i] = vec,
                          !.pc = IF Len(Querying!Missing(c)) = 1 THEN "answered" ELSE "store"]
           m == Querying!Missing(c)
           P == Querying!Open(c)
           total == Cardinality(P)
           rest == Querying!Missing(d)
           got == [c.got EXCEPT ![i] = vec]
           D == DOMAIN c.asked
<1>1. /\ c.asked \in Seq(QueryTexts) /\ c.got \in Seq(Seq(QueryTexts)) /\ c.raw \in Seq(Seq(QueryTexts))
      /\ Len(c.got) = Len(c.asked)
      /\ \A n \in DOMAIN c.got : c.got[n] \in {Querying!Unknown, Querying!Vec(c.asked[n])}
      /\ P # {} /\ Len(m) <= Len(c.raw)
      /\ \A j \in DOMAIN m : c.raw[Len(c.raw) - Len(m) + j] = Querying!Vec(c.asked[m[j]])
  BY DEF Querying!CallSound
<1>2. /\ DOMAIN m = 1 .. total /\ Len(m) = total /\ total \in Nat /\ P \in SUBSET D /\ IsFiniteSet(P)
      /\ \A j \in DOMAIN m : m[j] \in P
      /\ D \in SUBSET Nat /\ m = Selected([n \in D |-> n], P)
  BY OpenPlaces
<1>3. d = [pc |-> IF Len(m) = 1 THEN "answered" ELSE "store", asked |-> c.asked, got |-> got, raw |-> c.raw]
  <2> DEFINE after == IF Len(m) = 1 THEN "answered" ELSE "store"
  <2>1. c \in [pc : {"rest", "lookup", "encode", "store", "answered"},
               asked : Seq(QueryTexts), got : Seq(Seq(QueryTexts)), raw : Seq(Seq(QueryTexts))]
    BY DEF Querying!CallSound
  <2>2. d = [c EXCEPT !.got[i] = vec, !.pc = after]
    BY DEF m
  <2> HIDE DEF after, d
  <2>3. d = [pc |-> after, asked |-> c.asked, got |-> got, raw |-> c.raw]
    BY <2>1, <2>2
  <2> QED
    BY <2>3 DEF after
<1> HIDE DEF d
<1>0. /\ d.got = got /\ d.asked = c.asked /\ d.raw = c.raw /\ d.pc \in {"answered", "store"}
      /\ Len(m) = 1 <=> d.pc = "answered"
  BY <1>3
<1>4. Querying!Open(d) = {n \in D : got[n] = Querying!Unknown}
  BY <1>0 DEF Querying!Open
<1>5. P = {n \in D : c.got[n] = Querying!Unknown}
  BY DEF Querying!Open
<1> HIDE DEF P, rest, m
<1>6. total # 0 /\ 1 \in DOMAIN m /\ i \in P /\ i \in D
  <2>1. total # 0
    BY <1>1, <1>2, FS_EmptySet
  <2> HIDE DEF D, total
  <2>2. 1 \in DOMAIN m
    BY <1>2, <2>1
  <2> QED
    BY <1>2, <2>1, <2>2 DEF m
<1> HIDE DEF total
<1>7. vec = Querying!Vec(c.asked[i]) /\ c.asked[i] \in QueryTexts
  <2>1. vec = Querying!Vec(c.asked[m[1]])
    BY <1>1, <1>6 DEF m
  <2> QED
    BY <1>1, <1>6, <2>1 DEF m
<1>8. vec \in Seq(QueryTexts) /\ vec # Querying!Unknown
  BY <1>7 DEF Querying!Vec, Querying!Unknown
<1>9. /\ got \in Seq(Seq(QueryTexts)) /\ Len(got) = Len(c.got) /\ DOMAIN got = D /\ DOMAIN c.got = D
      /\ got[i] = vec /\ \A n \in D : n # i => got[n] = c.got[n]
  <2>1. DOMAIN c.got = D
    BY <1>1
  <2>2. got \in [D -> Seq(QueryTexts)] /\ DOMAIN c.got = 1 .. Len(c.got) /\ Len(c.got) \in Nat
    <3>1. \A n \in D : c.got[n] \in Seq(QueryTexts)
      BY <1>1, <2>1, Elements, Zenon
    <3>2. DOMAIN c.got = 1 .. Len(c.got) /\ Len(c.got) \in Nat
      BY <1>1, Elements, Zenon
    <3> HIDE DEF D
    <3>3. got = [n \in D |-> IF n = i THEN vec ELSE c.got[n]]
      BY <2>1
    <3> HIDE DEF got
    <3> QED
      BY <1>8, <3>1, <3>2, <3>3
  <2>3. got \in Seq(Seq(QueryTexts)) /\ Len(got) = Len(c.got)
    <3> HIDE DEF got, D
    <3> QED
      BY <2>1, <2>2
  <2>4. got[i] = vec /\ \A n \in D : n # i => got[n] = c.got[n]
    BY <1>6, <2>1
  <2> HIDE DEF got, D
  <2> QED
    BY <2>1, <2>2, <2>3, <2>4
<1> HIDE DEF D, got
<1>10. Querying!Open(d) = P \ {i}
  BY <1>4, <1>5, <1>8, <1>9
<1>11. i = m[1] /\ rest = Selected([n \in D |-> n], P \ {m[1]})
  <2> QED
    BY <1>0, <1>10, SameSelections DEF Querying!Missing, rest, m, D
<1>12. /\ Cardinality(P \ {m[1]}) = total - 1 /\ DOMAIN rest = 1 .. (total - 1)
       /\ \A n \in 1 .. (total - 1) : rest[n] = m[n + 1]
  <2>1. D \in SUBSET Nat /\ P \in SUBSET D /\ IsFiniteSet(P) /\ P # {}
    BY <1>1, <1>2
  <2>2. m = Selected([n \in D |-> n], P) /\ rest = Selected([n \in D |-> n], P \ {m[1]})
    BY <1>2, <1>11
  <2>3. IsRestOf(rest, m, P)
    BY <2>1, <2>2, SelectedRest, Zenon
  <2> QED
    BY <2>3 DEF total, IsRestOf
<1>13. Len(rest) = total - 1
  BY <1>2, <1>6, <1>12
<1>14. \A n \in DOMAIN got : got[n] \in {Querying!Unknown, Querying!Vec(c.asked[n])}
  BY <1>1, <1>7, <1>9
<1>15. Len(m) = 1 => Querying!Open(d) = {}
  <2>1. IsFiniteSet(P \ {m[1]})
    BY <1>2, FS_Subset
  <2>2. Len(m) = 1 => Cardinality(P \ {m[1]}) = 0
    BY <1>2, <1>12
  <2> QED
    BY <1>10, <1>11, <2>1, <2>2, FS_EmptySet
<1>16. Len(m) # 1 => Querying!Open(d) # {}
  <2>1. total - 1 \in Nat \ {0} <=> Len(m) # 1
    BY <1>2, <1>6
  <2> QED
    BY <1>10, <1>11, <1>12, <2>1, FS_EmptySet
<1>17. \A j \in DOMAIN rest : c.raw[Len(c.raw) - Len(rest) + j] = Querying!Vec(c.asked[rest[j]])
  <2> TAKE j \in DOMAIN rest
  <2>1. j \in 1 .. (total - 1) /\ total \in Nat /\ Len(c.raw) \in Nat /\ rest[j] = m[j + 1]
    <3>1. Len(c.raw) \in Nat
      BY <1>1, Elements, Zenon
    <3> QED
      BY <1>2, <1>12, <3>1
  <2>2. j + 1 \in DOMAIN m /\ Len(c.raw) - Len(rest) + j = Len(c.raw) - Len(m) + (j + 1)
    <3>1. j + 1 \in DOMAIN m
      BY <1>2, <2>1
    <3>2. Len(m) = total /\ Len(rest) = total - 1 /\ j \in Int
      BY <1>2, <1>13, <2>1
    <3>3. \A a, b, x \in Int : a - (b - 1) + x = a - b + (x + 1)
      OBVIOUS
    <3>4. Len(c.raw) \in Int /\ total \in Int
      BY <2>1
    <3> QED
      BY <3>1, <3>2, <3>3, <3>4
  <2> QED
    BY <1>1, <2>1, <2>2
<1>18. Len(rest) <= Len(c.raw)
  BY <1>1, <1>2, <1>13
<1>19. d \in [pc : {"rest", "lookup", "encode", "store", "answered"},
              asked : Seq(QueryTexts), got : Seq(Seq(QueryTexts)), raw : Seq(Seq(QueryTexts))]
  BY <1>1, <1>3, <1>9
<1>20. Querying!CallSound(d)
  <2>2. Len(d.got) = Len(d.asked) /\ \A n \in DOMAIN d.got : d.got[n] \in {Querying!Unknown, Querying!Vec(d.asked[n])}
    BY <1>0, <1>1, <1>9, <1>14
  <2>3. d.pc = "store" =>
         /\ Querying!Open(d) # {} /\ Len(rest) <= Len(d.raw)
         /\ \A j \in DOMAIN rest : d.raw[Len(d.raw) - Len(rest) + j] = Querying!Vec(d.asked[rest[j]])
    BY <1>0, <1>16, <1>17, <1>18
  <2>4. d.pc = "answered" => Querying!Open(d) = {}
    BY <1>0, <1>15
  <2> QED
    BY <1>0, <1>19, <2>2, <2>3, <2>4 DEF Querying!CallSound, rest
<1> QED
  BY <1>7, <1>20 DEF d

LEMMA LookedUpSound ==
  ASSUME NEW c, Querying!CallSound(c), c.pc = "lookup",
         NEW vec \in {Querying!Unknown, Querying!Vec(c.asked[Len(c.got) + 1])},
         NEW got, got = Append(c.got, vec)
  PROVE  Querying!CallSound([c EXCEPT !.got = got,
           !.pc = IF ~(Len(got) = Len(c.asked)) THEN "lookup"
                  ELSE IF \E i \in DOMAIN got : got[i] = Querying!Unknown THEN "encode" ELSE "answered"])
<1> DEFINE after == IF ~(Len(got) = Len(c.asked)) THEN "lookup"
                 ELSE IF \E i \in DOMAIN got : got[i] = Querying!Unknown THEN "encode" ELSE "answered"
           d == [c EXCEPT !.got = got, !.pc = after]
<1>1. /\ c \in [pc : {"rest", "lookup", "encode", "store", "answered"},
                asked : Seq(QueryTexts), got : Seq(Seq(QueryTexts)), raw : Seq(Seq(QueryTexts))]
      /\ \A i \in DOMAIN c.got : c.got[i] \in {Querying!Unknown, Querying!Vec(c.asked[i])}
      /\ Len(c.got) < Len(c.asked)
  BY DEF Querying!CallSound
<1>2. /\ after \in {"lookup", "encode", "answered"}
      /\ after = "lookup" <=> Len(got) # Len(c.asked)
      /\ after = "encode" => \E i \in DOMAIN got : got[i] = Querying!Unknown
      /\ after = "answered" => \A i \in DOMAIN got : got[i] # Querying!Unknown
  OBVIOUS
<1>3. d = [c EXCEPT !.got = got, !.pc = after]
  OBVIOUS
<1> HIDE DEF after, d
<1>4. d = [pc |-> after, asked |-> c.asked, got |-> got, raw |-> c.raw]
  BY <1>1, <1>3
<1>5. d.pc = after /\ d.asked = c.asked /\ d.got = got /\ d.raw = c.raw
  BY <1>4
<1>6. /\ c.asked \in Seq(QueryTexts) /\ c.got \in Seq(Seq(QueryTexts)) /\ c.raw \in Seq(Seq(QueryTexts))
      /\ Len(c.got) \in Nat /\ Len(c.asked) \in Nat /\ DOMAIN c.got = 1 .. Len(c.got)
      /\ DOMAIN c.asked = 1 .. Len(c.asked)
  BY <1>1, Elements
<1>7. vec \in Seq(QueryTexts)
  <2>1. Len(c.got) + 1 \in DOMAIN c.asked
    BY <1>1, <1>6
  <2>2. c.asked[Len(c.got) + 1] \in QueryTexts
    BY <1>6, <2>1, Elements, Zenon
  <2>3. <<>> \in Seq(QueryTexts) /\ <<c.asked[Len(c.got) + 1]>> \in Seq(QueryTexts)
    BY <2>2
  <2> QED
    BY <2>3, Zenon DEF Querying!Unknown, Querying!Vec
<1>8. /\ got \in Seq(Seq(QueryTexts)) /\ Len(got) = Len(c.got) + 1 /\ DOMAIN got = 1 .. (Len(c.got) + 1)
      /\ got[Len(c.got) + 1] = vec /\ \A i \in 1 .. Len(c.got) : got[i] = c.got[i]
  BY <1>6, <1>7
<1>9. \A i \in DOMAIN got : got[i] \in {Querying!Unknown, Querying!Vec(c.asked[i])}
  <2> TAKE i \in DOMAIN got
  <2>1. i \in DOMAIN c.got \/ i = Len(c.got) + 1
    BY <1>6, <1>8
  <2> QED
    BY <1>1, <1>6, <1>8, <2>1
<1>10. d \in [pc : {"rest", "lookup", "encode", "store", "answered"},
              asked : Seq(QueryTexts), got : Seq(Seq(QueryTexts)), raw : Seq(Seq(QueryTexts))]
  BY <1>2, <1>4, <1>6, <1>8
<1>11. d.pc = "lookup" => Len(d.got) < Len(d.asked)
  BY <1>1, <1>2, <1>5, <1>6, <1>8
<1>12. d.pc \in {"encode", "answered"} => Len(d.got) = Len(d.asked) /\ DOMAIN d.got = DOMAIN d.asked
  BY <1>2, <1>5, <1>6, <1>8
<1>13. d.pc = "encode" => Querying!Open(d) # {}
  BY <1>2, <1>5, <1>12 DEF Querying!Open
<1>14. d.pc = "answered" => Querying!Open(d) = {}
  BY <1>2, <1>5, <1>12 DEF Querying!Open
<1>15. Querying!CallSound(d)
  BY <1>2, <1>5, <1>9, <1>10, <1>11, <1>12, <1>13, <1>14 DEF Querying!CallSound
<1> QED
  BY <1>15 DEF d, after

LEMMA NewSound ==
  ASSUME NEW asked \in Seq(QueryTexts), NEW after \in {"rest", "lookup"}, after = "lookup" => asked # <<>>
  PROVE  Querying!CallSound([pc |-> after, asked |-> asked, got |-> <<>>, raw |-> <<>>])
<1> DEFINE d == [pc |-> after, asked |-> asked, got |-> <<>>, raw |-> <<>>]
<1>1. d.pc = after /\ d.asked = asked /\ d.got = <<>> /\ d.raw = <<>>
  OBVIOUS
<1>2. d \in [pc : {"rest", "lookup", "encode", "store", "answered"},
             asked : Seq(QueryTexts), got : Seq(Seq(QueryTexts)), raw : Seq(Seq(QueryTexts))]
  OBVIOUS
<1> HIDE DEF d
<1>3. after = "lookup" => Len(d.got) < Len(d.asked)
  BY <1>1
<1>4. DOMAIN d.got = {}
  BY <1>1
<1>5. Querying!CallSound(d)
  BY <1>1, <1>2, <1>3, <1>4 DEF Querying!CallSound
<1> QED
  BY <1>5 DEF d

LEMMA RestingSound == Querying!CallSound(Querying!Resting)
<1>1. <<>> \in Seq(QueryTexts) /\ "rest" # "lookup"
  OBVIOUS
<1> QED
  BY <1>1, NewSound DEF Querying!Resting

LEMMA NoEntriesSound == Querying!CacheSound(<<>>)
  BY QueriesAssumption DEF Querying!CacheSound

LEMMA QueriesInit == Querying!Init => Querying!IInv
<1> SUFFICES ASSUME Querying!Init PROVE Querying!IInv
  OBVIOUS
<1>1. call = [t \in QueryThreads |-> call[t]] /\ \A t \in QueryThreads : Querying!CallSound(call[t])
  BY RestingSound DEF Querying!Init
<1> QED
  BY <1>1, NoEntriesSound DEF Querying!IInv, Querying!Init

\* A step of one call, and what it leaves in the cache.
LEMMA CallKeeps ==
  ASSUME Querying!IInv, NEW t \in QueryThreads, NEW d, Querying!CallSound(d),
         call' = [call EXCEPT ![t] = d], Querying!CacheSound(cache')
  PROVE  Querying!IInv'
<1>1. call \in [QueryThreads -> {call[u] : u \in QueryThreads}] /\ \A u \in QueryThreads : Querying!CallSound(call[u])
  BY DEF Querying!IInv
<1>2. call' = [u \in QueryThreads |-> call'[u]] /\ \A u \in QueryThreads : call'[u] = IF u = t THEN d ELSE call[u]
  BY <1>1
<1>3. \A u \in QueryThreads : Querying!CallSound(call'[u])
  BY <1>1, <1>2
<1> QED
  BY <1>2, <1>3 DEF Querying!IInv

LEMMA QueriesNext == Querying!IInv /\ [Querying!Next]_(Querying!vars) => Querying!IInv'
<1> SUFFICES ASSUME Querying!IInv, [Querying!Next]_(Querying!vars) PROVE Querying!IInv'
  OBVIOUS
<1>0. Querying!CacheSound(cache) /\ call = [t \in QueryThreads |-> call[t]] /\ \A t \in QueryThreads : Querying!CallSound(call[t])
  BY DEF Querying!IInv
<1>1. ASSUME NEW t \in QueryThreads, NEW asked \in QueryBatches, Querying!Ask(t, asked)
      PROVE  Querying!IInv'
  <2>1. Querying!CallSound([pc |-> "lookup", asked |-> asked, got |-> <<>>, raw |-> <<>>])
    BY NewSound, QueriesAssumption
  <2> QED
    BY <1>0, <1>1, <2>1, CallKeeps DEF Querying!Ask
<1>2. ASSUME NEW t \in QueryThreads, Querying!LookUp(t)
      PROVE  Querying!IInv'
  <2> DEFINE c == call[t]
             q == c.asked[Len(c.got) + 1]
             found == Querying!Get(cache, q)
             got == Append(c.got, found.vec)
             d == [c EXCEPT !.got = got,
                     !.pc = IF ~(Len(got) = Len(c.asked)) THEN "lookup"
                            ELSE IF \E i \in DOMAIN got : got[i] = Querying!Unknown THEN "encode" ELSE "answered"]
  <2>1. Querying!CallSound(c) /\ c.pc = "lookup"
    BY <1>0, <1>2 DEF Querying!LookUp
  <2>2. Querying!CacheSound(found.entries) /\ found.vec \in {Querying!Unknown, Querying!Vec(q)}
    <3> HIDE DEF q
    <3> QED
      BY <1>0, GetSound
  <2>3. cache' = found.entries /\ call' = [call EXCEPT ![t] = d]
    BY <1>2 DEF Querying!LookUp
  <2> HIDE DEF c, found
  <2>4. Querying!CallSound(d)
    BY <2>1, <2>2, LookedUpSound
  <2> HIDE DEF d
  <2> QED
    BY <2>2, <2>3, <2>4, CallKeeps
<1>3. ASSUME NEW t \in QueryThreads, Querying!Encode(t)
      PROVE  Querying!IInv'
  <2>1. Querying!CallSound(call[t]) /\ call[t].pc = "encode" /\ cache' = cache
    BY <1>0, <1>3 DEF Querying!Encode
  <2>2. Querying!CallSound(Querying!Resting)
    BY RestingSound
  <2>3. CASE call' = [call EXCEPT ![t] = Querying!Resting]
    BY <1>0, <2>1, <2>2, <2>3, CallKeeps
  <2>4. CASE call' = [call EXCEPT ![t].pc = "store",
                        ![t].raw = [j \in DOMAIN Querying!Uncached(call[t]) |->
                                      Querying!Vec(Querying!Uncached(call[t])[j])]]
    <3> DEFINE d == [call[t] EXCEPT !.pc = "store",
                       !.raw = [j \in DOMAIN Querying!Uncached(call[t]) |->
                                  Querying!Vec(Querying!Uncached(call[t])[j])]]
    <3>1. call' = [call EXCEPT ![t] = d]
      BY <1>0, <2>4
    <3>2. Querying!CallSound(d)
      BY <2>1, EncodedSound
    <3> HIDE DEF d
    <3> QED
      BY <1>0, <2>1, <3>1, <3>2, CallKeeps
  <2> QED
    BY <1>3, <2>3, <2>4 DEF Querying!Encode
<1>4. ASSUME NEW t \in QueryThreads, Querying!Store(t)
      PROVE  Querying!IInv'
  <2> DEFINE c == call[t]
             i == Querying!Missing(c)[1]
             vec == c.raw[Len(c.raw) - Len(Querying!Missing(c)) + 1]
             d == [c EXCEPT !.got[i] = vec,
                     !.pc = IF Len(Querying!Missing(c)) = 1 THEN "answered" ELSE "store"]
  <2>1. Querying!CallSound(c) /\ c.pc = "store"
    BY <1>0, <1>4 DEF Querying!Store
  <2>2. cache' = Querying!Put(cache, c.asked[i], vec) /\ call' = [call EXCEPT ![t] = d]
    BY <1>0, <1>4 DEF Querying!Store
  <2> HIDE DEF c
  <2>3. Querying!CallSound(d) /\ c.asked[i] \in QueryTexts /\ vec = Querying!Vec(c.asked[i])
    BY <2>1, StoredSound
  <2> HIDE DEF d, vec, i
  <2>4. Querying!CacheSound(cache')
    BY <1>0, <2>2, <2>3, PutSound
  <2> QED
    BY <2>2, <2>3, <2>4, CallKeeps
<1>5. ASSUME NEW t \in QueryThreads, Querying!Return(t)
      PROVE  Querying!IInv'
  <2>1. Querying!CallSound(Querying!Resting)
    BY RestingSound
  <2> QED
    BY <1>0, <1>5, <2>1, CallKeeps DEF Querying!Return
<1>6. CASE Querying!AgesOut
  <2>1. PICK i \in DOMAIN cache : cache' = [cache EXCEPT ![i].old = TRUE]
    BY <1>6 DEF Querying!AgesOut
  <2> DEFINE T == [query : QueryTexts, vec : Seq(QueryTexts), old : BOOLEAN]
  <2>2. /\ cache \in Seq(T) /\ Len(cache) <= QueryCacheSize
        /\ \A n \in DOMAIN cache : cache[n].vec = Querying!Vec(cache[n].query)
        /\ \A n, k \in DOMAIN cache : cache[n].query = cache[k].query => n = k
    BY <1>0 DEF Querying!CacheSound
  <2> DEFINE e == [cache[i] EXCEPT !.old = TRUE]
  <2>3. DOMAIN cache' = DOMAIN cache /\ Len(cache') = Len(cache) /\ cache' \in Seq(T)
    <3>1. /\ Len(cache) \in Nat /\ DOMAIN cache = 1 .. Len(cache)
          /\ \A n \in DOMAIN cache : cache[n] \in T
      BY <2>2, Elements, Zenon
    <3>2. cache[i] \in [query : QueryTexts, vec : Seq(QueryTexts), old : BOOLEAN]
      BY <3>1
    <3>3. e \in T
      BY <3>2
    <3>4. cache' = [cache EXCEPT ![i] = e]
      BY <2>1
    <3> HIDE DEF T, e
    <3> QED
      BY <2>2, <3>1, <3>3, <3>4
  <2>4. \A n \in DOMAIN cache : cache'[n].query = cache[n].query /\ cache'[n].vec = cache[n].vec
    BY <2>1, <2>2
  <2>5. Querying!CacheSound(cache')
    BY <2>2, <2>3, <2>4 DEF Querying!CacheSound
  <2>6. call' = call
    BY <1>6 DEF Querying!AgesOut
  <2> QED
    BY <1>0, <2>5, <2>6 DEF Querying!IInv
<1>7. CASE Querying!Cleanup \/ Querying!FreshEmbedder
  BY <1>0, <1>7, NoEntriesSound DEF Querying!IInv, Querying!Cleanup, Querying!FreshEmbedder
<1>8. CASE UNCHANGED Querying!vars
  BY <1>0, <1>8 DEF Querying!IInv, Querying!vars
<1> QED
  BY <1>1, <1>2, <1>3, <1>4, <1>5, <1>6, <1>7, <1>8 DEF Querying!Next

LEMMA QueriesSafe == Querying!IInv => Querying!QueriesAnswered
<1> SUFFICES ASSUME Querying!IInv PROVE Querying!QueriesAnswered
  OBVIOUS
<1>1. ASSUME NEW t \in QueryThreads, call[t].pc = "answered"
      PROVE  call[t].got = [i \in DOMAIN call[t].asked |-> Querying!Vec(call[t].asked[i])]
  <2> DEFINE c == call[t]
  <2>1. /\ c.asked \in Seq(QueryTexts) /\ c.got \in Seq(Seq(QueryTexts)) /\ Len(c.got) = Len(c.asked)
        /\ \A i \in DOMAIN c.got : c.got[i] \in {Querying!Unknown, Querying!Vec(c.asked[i])}
        /\ Querying!Open(c) = {}
    BY <1>1 DEF Querying!IInv, Querying!CallSound
  <2> HIDE DEF c
  <2>2. DOMAIN c.got = DOMAIN c.asked /\ c.got = [i \in DOMAIN c.got |-> c.got[i]]
    BY <2>1
  <2>3. \A i \in DOMAIN c.asked : c.got[i] = Querying!Vec(c.asked[i])
    BY <2>1, <2>2 DEF Querying!Open
  <2>4. c.got = [i \in DOMAIN c.asked |-> Querying!Vec(c.asked[i])]
    BY <2>2, <2>3
  <2> QED
    BY <2>4 DEF c
<1>2. /\ cache \in Seq([query : QueryTexts, vec : Seq(QueryTexts), old : BOOLEAN])
      /\ \A i, j \in DOMAIN cache : cache[i].query = cache[j].query => i = j
      /\ Len(cache) <= QueryCacheSize
  BY DEF Querying!IInv, Querying!CacheSound
<1>3. Querying!Cardinality(Querying!Keys) = Len(cache)
  <2> DEFINE D == DOMAIN cache
             total == Querying!Keys
             f == [i \in D |-> cache[i].query]
  <2>1. IsFiniteSet(D) /\ Cardinality(D) = Len(cache)
    BY <1>2, Places
  <2>2. f \in Bijection(D, total)
    BY <1>2 DEF Bijection, Injection, Surjection, IsInjective, Querying!Keys
  <2> HIDE DEF f, total, D
  <2>3. Cardinality(total) = Cardinality(D)
    BY <2>1, <2>2, FS_Bijection DEF ExistsBijection
  <2> QED
    BY <2>1, <2>3, SameCounts DEF total
<1> QED
  BY <1>1, <1>2, <1>3 DEF Querying!QueriesAnswered

(* Whatever the threads, the queries that are asked for together and the size of *)
(* the cache, and however calls, clearing and expiry come between each other,    *)
(* every query is answered with its own embedding at its own place, and the      *)
(* cache holds one entry for a query and no more than its size.                  *)
THEOREM OwnVectors == Spec => []QueriesAnswered
<1> DEFINE Inv == part = "queries" => Querying!IInv
<1>1. Init => Inv
  BY StartOfOne, QueriesInit
<1>2. Inv /\ [Next]_vars => Inv'
  BY StepOfOne, QueriesNext
<1>3. Inv => QueriesAnswered
  BY QueriesSafe DEF QueriesAnswered
<1> QED
  BY <1>1, <1>2, <1>3, PTL DEF Spec

HIDE DEF cache, embedder, call

------------------------------------------------------------------------------
(* LexicalIndex.                                                               *)

tokenizer == v1
index == v2
files == v3
stage == v4
torn == v5
mixed == v6
USE DEF tokenizer, index, files, stage, torn, mixed

\* Removing chunks leaves the rest in parallel.
IsReduced(a, b, ids, docs, left) ==
  \A n \in DOMAIN a : \E i \in left : a[n] = ids[i] /\ b[n] = docs[i]

LEMMA RemovedParallel ==
  ASSUME NEW ids, NEW docs, NEW tokens, Lexical!Parallel(ids, docs, tokens), NEW left \in SUBSET DOMAIN ids
  PROVE  /\ Lexical!Parallel(Lexical!Selected(ids, left), Lexical!Selected(docs, left), Lexical!Selected(tokens, left))
         /\ IsReduced(Lexical!Selected(ids, left), Lexical!Selected(docs, left), ids, docs, left)
         /\ left = {} => Lexical!Selected(docs, left) = <<>>
<1>1. /\ ids \in Seq(Lexical!Indexed) /\ docs \in Seq(Lexical!Documents) /\ tokens \in Seq(Lexical!Tokens)
      /\ Len(docs) = Len(ids) /\ Len(tokens) = Len(ids)
      /\ \A i \in DOMAIN ids : /\ Lexical!Parts(NamesOf[ids[i]]) \subseteq docs[i]
                               /\ \E v \in Tokenizers : tokens[i] = Lexical!Process(v, docs[i])
  BY DEF Lexical!Parallel
<1>2. /\ DOMAIN ids \in SUBSET Nat /\ IsFiniteSet(DOMAIN ids) /\ left \in SUBSET DOMAIN ids
      /\ DOMAIN docs = DOMAIN ids /\ DOMAIN tokens = DOMAIN ids
  BY <1>1, Places
<1>3. left \in SUBSET Nat /\ IsFiniteSet(left)
  BY <1>2, FS_Subset
<1> DEFINE a == Selected(ids, left)
           b == Selected(docs, left)
           c == Selected(tokens, left)
           total == Cardinality(left)
<1>4. Lexical!Selected(ids, left) = a /\ Lexical!Selected(docs, left) = b /\ Lexical!Selected(tokens, left) = c
  BY SameSelections
<1>5. \A i \in left : ids[i] \in Lexical!Indexed /\ docs[i] \in Lexical!Documents /\ tokens[i] \in Lexical!Tokens
  BY <1>1, <1>2
<1>6. /\ IsListOf(a, ids, left, Lexical!Indexed) /\ IsListOf(b, docs, left, Lexical!Documents)
      /\ IsListOf(c, tokens, left, Lexical!Tokens)
  BY <1>3, <1>5, SelectedIs
<1>7. \A n \in 1 .. total : \E i \in left : a[n] = ids[i] /\ b[n] = docs[i] /\ c[n] = tokens[i]
  <2>1. InStep(left, ids, docs, tokens)
    BY <1>3, SelectedTogether
  <2> QED
    BY <2>1 DEF InStep
<1> HIDE DEF a, b, c, total
<1>8. /\ a \in Seq(Lexical!Indexed) /\ b \in Seq(Lexical!Documents) /\ c \in Seq(Lexical!Tokens)
      /\ Len(a) = total /\ Len(b) = total /\ Len(c) = total /\ DOMAIN a = 1 .. total /\ total \in Nat
  <2>1. /\ a \in Seq(Lexical!Indexed) /\ b \in Seq(Lexical!Documents) /\ c \in Seq(Lexical!Tokens)
        /\ Len(a) = total /\ Len(b) = total /\ Len(c) = total
    BY <1>6 DEF IsListOf, total
  <2> QED
    BY <2>1
<1>9. \A n \in DOMAIN a : /\ Lexical!Parts(NamesOf[a[n]]) \subseteq b[n]
                          /\ \E v \in Tokenizers : c[n] = Lexical!Process(v, b[n])
  <2> TAKE n \in DOMAIN a
  <2>1. PICK i \in left : a[n] = ids[i] /\ b[n] = docs[i] /\ c[n] = tokens[i]
    BY <1>7, <1>8
  <2>2. i \in DOMAIN ids
    BY <1>2
  <2> QED
    BY <1>1, <2>1, <2>2
<1>10. Lexical!Parallel(a, b, c)
  BY <1>8, <1>9 DEF Lexical!Parallel
<1>11. left = {} => b = <<>>
  <2>1. left = {} => total = 0
    BY FS_EmptySet DEF total
  <2> QED
    BY <1>8, <2>1
<1> QED
  BY <1>4, <1>7, <1>8, <1>10, <1>11 DEF IsReduced

\* The documents and the tokens that the chunks of a file add.
AddedDocs(cs, content) == [i \in DOMAIN cs |-> Lexical!Augmented(cs[i], content)]
AddedTokens(cs, content) == [i \in DOMAIN cs |-> Lexical!Process(tokenizer, AddedDocs(cs, content)[i])]

\* Each place has what was there, or a chunk of the file and its document.
IsExtended(a, b, ids, docs, cs, content) ==
  \A i \in DOMAIN a :
    \/ i \in DOMAIN ids /\ a[i] = ids[i] /\ b[i] = docs[i]
    \/ \E k \in DOMAIN cs : a[i] = cs[k] /\ b[i] = Lexical!Augmented(cs[k], content)

LEMMA AddedParallel ==
  ASSUME NEW ids, NEW docs, NEW tokens, Lexical!Parallel(ids, docs, tokens),
         NEW changed \in DOMAIN ChunkLists, NEW content \in FileTexts[changed], tokenizer \in Tokenizers,
         NEW added, added = ChunkLists[changed]
  PROVE  /\ Lexical!Parallel(ids \o added, docs \o AddedDocs(added, content), tokens \o AddedTokens(added, content))
         /\ IsExtended(ids \o added, docs \o AddedDocs(added, content), ids, docs, added, content)
<1> DEFINE cs == ChunkLists[changed]
           ds == AddedDocs(cs, content)
           ts == AddedTokens(cs, content)
           total == Len(cs)
           L == Len(ids)
           a == ids \o cs
           b == docs \o ds
           c == tokens \o ts
<1>1. /\ ids \in Seq(Lexical!Indexed) /\ docs \in Seq(Lexical!Documents) /\ tokens \in Seq(Lexical!Tokens)
      /\ Len(docs) = L /\ Len(tokens) = L
      /\ \A i \in DOMAIN ids : /\ Lexical!Parts(NamesOf[ids[i]]) \subseteq docs[i]
                               /\ \E v \in Tokenizers : tokens[i] = Lexical!Process(v, docs[i])
  BY DEF Lexical!Parallel
<1>2. L \in Nat /\ DOMAIN ids = 1 .. L
  BY <1>1
<1>3. total \in Nat /\ DOMAIN cs = 1 .. total /\ cs \in Seq({cs[i] : i \in DOMAIN cs})
  <2>1. cs \in Seq({cs[i] : i \in DOMAIN cs})
    BY LexicalAssumption
  <2> HIDE DEF cs
  <2> QED
    BY <2>1
<1>4. \A i \in DOMAIN cs : cs[i] \in Lexical!Indexed /\ ds[i] \in Lexical!Documents /\ ts[i] \in Lexical!Tokens
  <2> TAKE i \in DOMAIN cs
  <2>1. cs[i] \in Lexical!Indexed
    BY DEF Lexical!Indexed, Lexical!ToSet
  <2>2. content \in UNION {FileTexts[f] : f \in DOMAIN ChunkLists}
    OBVIOUS
  <2>3. ds[i] = Lexical!Augmented(cs[i], content) /\ ts[i] = Lexical!Process(tokenizer, ds[i])
    BY DEF AddedDocs, AddedTokens
  <2>4. ds[i] \in Lexical!Documents
    BY <2>1, <2>2, <2>3 DEF Lexical!Documents
  <2>5. ts[i] \in Lexical!Tokens
    BY <2>3, <2>4 DEF Lexical!Tokens
  <2> QED
    BY <2>1, <2>4, <2>5
<1>5. /\ cs \in Seq(Lexical!Indexed) /\ ds \in Seq(Lexical!Documents) /\ ts \in Seq(Lexical!Tokens)
      /\ Len(ds) = total /\ Len(ts) = total /\ DOMAIN ds = 1 .. total
  <2>1. cs = [i \in 1 .. total |-> cs[i]]
    BY <1>3
  <2>2. ds = [i \in 1 .. total |-> ds[i]] /\ ts = [i \in 1 .. total |-> ts[i]]
    BY <1>3 DEF AddedDocs, AddedTokens
  <2>3. cs \in [1 .. total -> Lexical!Indexed] /\ ds \in [1 .. total -> Lexical!Documents] /\ ts \in [1 .. total -> Lexical!Tokens]
    BY <1>3, <1>4, <2>1, <2>2, Zenon
  <2> HIDE DEF total
  <2> QED
    BY <1>3, <2>3
<1>6. \A k \in 1 .. total : ds[k] = Lexical!Augmented(cs[k], content) /\ ts[k] = Lexical!Process(tokenizer, ds[k])
  BY <1>3 DEF AddedDocs, AddedTokens
<1>7. \A k \in 1 .. total : Lexical!Parts(NamesOf[cs[k]]) \subseteq ds[k]
  BY <1>6 DEF Lexical!Augmented
<1> HIDE DEF cs, ds, ts
<1>8. /\ a \in Seq(Lexical!Indexed) /\ Len(a) = L + total
      /\ \A i \in 1 .. L : a[i] = ids[i]
      /\ \A k \in 1 .. total : a[L + k] = cs[k]
  <2>1. IsJoined(a, ids, cs, Lexical!Indexed)
    BY <1>1, <1>5, Joined
  <2> QED
    BY <2>1 DEF IsJoined
<1>9. /\ b \in Seq(Lexical!Documents) /\ Len(b) = L + total
      /\ \A i \in 1 .. L : b[i] = docs[i]
      /\ \A k \in 1 .. total : b[L + k] = ds[k]
  <2>1. IsJoined(b, docs, ds, Lexical!Documents)
    BY <1>1, <1>5, Joined
  <2> QED
    BY <1>1, <1>5, <2>1 DEF IsJoined
<1>10. /\ c \in Seq(Lexical!Tokens) /\ Len(c) = L + total
       /\ \A i \in 1 .. L : c[i] = tokens[i]
       /\ \A k \in 1 .. total : c[L + k] = ts[k]
  <2>1. IsJoined(c, tokens, ts, Lexical!Tokens)
    BY <1>1, <1>5, Joined
  <2> QED
    BY <1>1, <1>5, <2>1 DEF IsJoined
<1> HIDE DEF a, b, c, total, L
<1>11. \A i \in DOMAIN a : i \in 1 .. L \/ \E k \in 1 .. total : i = L + k
  <2> TAKE i \in DOMAIN a
  <2>1. i \in 1 .. (L + total)
    BY <1>8
  <2>2. ~(i \in 1 .. L) => i - L \in 1 .. total /\ i = L + (i - L)
    BY <1>2, <1>3, <2>1
  <2> QED
    BY <2>2
<1>12. \A i \in DOMAIN a : /\ Lexical!Parts(NamesOf[a[i]]) \subseteq b[i]
                           /\ \E v \in Tokenizers : c[i] = Lexical!Process(v, b[i])
  <2> TAKE i \in DOMAIN a
  <2>1. CASE i \in 1 .. L
    BY <1>1, <1>2, <1>8, <1>9, <1>10, <2>1
  <2>2. CASE \E k \in 1 .. total : i = L + k
    <3>1. PICK k \in 1 .. total : i = L + k
      BY <2>2
    <3>2. a[i] = cs[k] /\ b[i] = ds[k] /\ c[i] = ts[k]
      BY <1>8, <1>9, <1>10, <3>1
    <3> QED
      BY <1>6, <1>7, <3>2
  <2> QED
    BY <1>11, <2>1, <2>2
<1>13. Lexical!Parallel(a, b, c)
  BY <1>8, <1>9, <1>10, <1>12 DEF Lexical!Parallel
<1>14. \A i \in DOMAIN a : \/ i \in DOMAIN ids /\ a[i] = ids[i] /\ b[i] = docs[i]
                           \/ \E k \in DOMAIN cs : a[i] = cs[k] /\ b[i] = Lexical!Augmented(cs[k], content)
  <2> TAKE i \in DOMAIN a
  <2>1. CASE i \in 1 .. L
    BY <1>2, <1>8, <1>9, <2>1
  <2>2. CASE \E k \in 1 .. total : i = L + k
    <3>1. PICK k \in 1 .. total : i = L + k
      BY <2>2
    <3>2. a[i] = cs[k] /\ b[i] = ds[k] /\ k \in DOMAIN cs
      BY <1>3, <1>8, <1>9, <3>1
    <3> QED
      BY <1>6, <3>2
  <2> QED
    BY <1>11, <2>1, <2>2
<1> QED
  BY <1>13, <1>14 DEF a, b, c, cs, ds, ts, IsExtended
\* An index without documents is in order.
LEMMA EmptyIndex ==
  /\ Lexical!Parallel(<<>>, <<>>, <<>>)
  /\ \A apart, okapi, meta : Lexical!Agreed(apart, <<>>, <<>>, <<>>, okapi, meta)
<1>1. \A S : <<>> \in Seq(S) /\ Len(<<>>) = 0 /\ DOMAIN <<>> = {}
  OBVIOUS
<1>2. Lexical!Parallel(<<>>, <<>>, <<>>)
  BY <1>1 DEF Lexical!Parallel
<1>3. \A apart, okapi, meta : Lexical!Agreed(apart, <<>>, <<>>, <<>>, okapi, meta)
  BY <1>1 DEF Lexical!Agreed
<1> QED
  BY <1>2, <1>3

\* What Fresh and NoFiles are for the invariant.
LEMMA FreshIndex ==
  /\ Lexical!Fresh = [okapi |-> <<>>, docs |-> <<>>, ids |-> <<>>, tokens |-> <<>>, meta |-> <<>>]
  /\ Lexical!NoFiles = [index |-> Lexical!NoFile, docs |-> Lexical!NoFile, meta |-> Lexical!NoFile]
  /\ Lexical!NoFile.is = "none" /\ Lexical!Half.is = "half"
  /\ \A what : Lexical!Whole(what).is = "whole" /\ Lexical!Whole(what).what = what
  BY DEF Lexical!Fresh, Lexical!NoIndex, Lexical!NoFiles, Lexical!NoFile, Lexical!Half, Lexical!Whole

LEMMA LexicalInit ==
  ASSUME Lexical!Init
  PROVE  Lexical!IInv
<1>1. /\ tokenizer \in Tokenizers /\ index = Lexical!Fresh /\ files = Lexical!NoFiles
      /\ stage = "idle" /\ torn = "nothing" /\ mixed = "nothing"
  BY DEF Lexical!Init
<1> HIDE DEF tokenizer, index, files, stage, torn, mixed
<1>2. /\ index = [okapi |-> <<>>, docs |-> <<>>, ids |-> <<>>, tokens |-> <<>>, meta |-> <<>>]
      /\ files = [index |-> Lexical!NoFile, docs |-> Lexical!NoFile, meta |-> Lexical!NoFile]
      /\ Lexical!NoFile.is = "none"
  BY <1>1, FreshIndex
<1>3. Lexical!TypeOK
  BY <1>1, <1>2 DEF Lexical!TypeOK, tokenizer, index, files, stage, torn, mixed
<1>4. Lexical!InMemory
  BY <1>2, EmptyIndex DEF Lexical!InMemory, index, mixed
<1>5. Lexical!OnDisk
  BY <1>2 DEF Lexical!OnDisk, files
<1>6. Lexical!Saving
  BY <1>1 DEF Lexical!Saving, stage
<1> QED
  BY <1>3, <1>4, <1>5, <1>6 DEF Lexical!IInv

\* What a step leaves alone.
LEMMA LexicalKept ==
  ASSUME Lexical!IInv
  PROVE  /\ UNCHANGED <<files, torn>> => Lexical!OnDisk'
         /\ UNCHANGED <<index, mixed>> => Lexical!InMemory'
         /\ stage' \notin {"docs", "meta"} => Lexical!Saving'
         /\ /\ tokenizer' \in Tokenizers /\ {torn', mixed'} \subseteq {"nothing", "metadata", "all"}
            /\ stage' \in {"idle", "index", "docs", "meta", "down", "stuck"}
            /\ index' = [okapi |-> index'.okapi, docs |-> index'.docs, ids |-> index'.ids,
                         tokens |-> index'.tokens, meta |-> index'.meta]
            /\ files' = [index |-> files'.index, docs |-> files'.docs, meta |-> files'.meta]
            => Lexical!TypeOK'
         /\ index' = Lexical!Fresh => Lexical!InMemory'
<1>1. UNCHANGED <<files, torn>> => Lexical!OnDisk'
  BY DEF Lexical!IInv, Lexical!OnDisk
<1>2. UNCHANGED <<index, mixed>> => Lexical!InMemory'
  BY DEF Lexical!IInv, Lexical!InMemory
<1>3. stage' \notin {"docs", "meta"} => Lexical!Saving'
  BY DEF Lexical!Saving
<1>4. /\ tokenizer' \in Tokenizers /\ {torn', mixed'} \subseteq {"nothing", "metadata", "all"}
      /\ stage' \in {"idle", "index", "docs", "meta", "down", "stuck"}
      /\ index' = [okapi |-> index'.okapi, docs |-> index'.docs, ids |-> index'.ids,
                   tokens |-> index'.tokens, meta |-> index'.meta]
      /\ files' = [index |-> files'.index, docs |-> files'.docs, meta |-> files'.meta]
      => Lexical!TypeOK'
  BY DEF Lexical!TypeOK
<1>5. index' = Lexical!Fresh => Lexical!InMemory'
  <2> HAVE index' = Lexical!Fresh
  <2>1. index' = [okapi |-> <<>>, docs |-> <<>>, ids |-> <<>>, tokens |-> <<>>, meta |-> <<>>]
    BY FreshIndex
  <2> HIDE DEF index
  <2>2. /\ index'.okapi = <<>> /\ index'.docs = <<>> /\ index'.ids = <<>> /\ index'.tokens = <<>>
    BY <2>1
  <2>3. Lexical!Parallel(index'.ids, index'.docs, index'.tokens)
    BY <2>2, EmptyIndex
  <2>4. Lexical!Agreed(mixed', index'.ids, index'.docs, index'.tokens, index'.okapi, index'.meta)
    BY <2>2, EmptyIndex
  <2> QED
    BY <2>3, <2>4 DEF Lexical!InMemory, index
<1> QED
  BY <1>1, <1>2, <1>3, <1>4, <1>5

LEMMA LexicalIndexes ==
  ASSUME Lexical!IInv,
         NEW changed \in DOMAIN ChunkLists, NEW content \in FileTexts[changed],
         Lexical!IndexDocuments(changed, content)
  PROVE  Lexical!IInv'
<1> DEFINE cs == ChunkLists[changed]
           ds == AddedDocs(cs, content)
           ts == AddedTokens(cs, content)
           added == Lexical!ToSet(cs)
           ids == index.ids
           docs == index.docs
           tokens == index.tokens
           meta == index.meta
           now == [x \in DOMAIN meta \cup added |-> IF x \in added THEN content ELSE meta[x]]
<1>1. /\ stage = "idle" /\ added \cap Lexical!ToSet(ids) = {}
      /\ index' = Lexical!Extended(index, cs, content)
      /\ mixed' = Lexical!Rebuilt
      /\ UNCHANGED <<tokenizer, files, stage, torn>>
  BY DEF Lexical!IndexDocuments, Lexical!Idle
<1>2. index' = [okapi |-> tokens \o ts, docs |-> docs \o ds, ids |-> ids \o cs, tokens |-> tokens \o ts,
                meta |-> now]
  BY <1>1, Zenon DEF Lexical!Extended, AddedDocs, AddedTokens
<1>3. /\ tokenizer \in Tokenizers /\ {torn, mixed} \subseteq {"nothing", "metadata", "all"}
      /\ Lexical!Parallel(ids, docs, tokens)
      /\ Lexical!Agreed(mixed, ids, docs, tokens, index.okapi, meta)
      /\ files = [index |-> files.index, docs |-> files.docs, meta |-> files.meta]
  BY DEF Lexical!IInv, Lexical!TypeOK, Lexical!InMemory
<1>4. \A i \in DOMAIN ids : ids[i] \notin added
  BY <1>1, Zenon DEF Lexical!ToSet
<1>5. \A k \in DOMAIN cs : cs[k] \in added
  BY Zenon DEF Lexical!ToSet
<1>6. mixed' \in {"nothing", "metadata"} /\ (mixed' = "nothing" => mixed = "nothing")
  BY <1>1 DEF Lexical!Rebuilt
<1> DEFINE a == ids \o cs
           b == docs \o ds
           c == tokens \o ts
<1>7. /\ Lexical!Parallel(a, b, c)
      /\ \A i \in DOMAIN a : \/ i \in DOMAIN ids /\ a[i] = ids[i] /\ b[i] = docs[i]
                             \/ \E k \in DOMAIN cs : /\ a[i] = cs[k]
                                                     /\ b[i] = Lexical!Augmented(cs[k], content)
  <2>1. Lexical!Parallel(a, b, c) /\ IsExtended(a, b, ids, docs, cs, content)
    BY <1>3, AddedParallel
  <2> HIDE DEF a, b, c, ids, docs, cs
  <2> QED
    BY <2>1 DEF IsExtended
<1>8. mixed = "nothing" => \A i \in DOMAIN ids : ids[i] \in DOMAIN meta /\ docs[i] = Lexical!Augmented(ids[i], meta[ids[i]])
  BY <1>3 DEF Lexical!Agreed
<1>9. /\ index'.okapi = c /\ index'.docs = b /\ index'.ids = a /\ index'.tokens = c /\ index'.meta = now
      /\ index' = [okapi |-> index'.okapi, docs |-> index'.docs, ids |-> index'.ids,
                   tokens |-> index'.tokens, meta |-> index'.meta]
  <2> HIDE DEF a, b, c, now
  <2>1. index' = [okapi |-> c, docs |-> b, ids |-> a, tokens |-> c, meta |-> now]
    BY <1>2 DEF a, b, c
  <2> HIDE DEF index
  <2> QED
    BY <2>1
<1>10. \A x : x \in added => x \in DOMAIN now /\ now[x] = content
  OBVIOUS
<1>11. \A x : x \in DOMAIN meta /\ x \notin added => x \in DOMAIN now /\ now[x] = meta[x]
  OBVIOUS
<1> HIDE DEF a, b, c, cs, ds, ts, added, ids, docs, tokens, meta, now
<1>12. mixed' = "nothing" => \A i \in DOMAIN a : a[i] \in DOMAIN now /\ b[i] = Lexical!Augmented(a[i], now[a[i]])
  <2> HAVE mixed' = "nothing"
  <2> TAKE i \in DOMAIN a
  <2>1. CASE i \in DOMAIN ids /\ a[i] = ids[i] /\ b[i] = docs[i]
    BY <1>4, <1>6, <1>8, <1>11, <2>1
  <2>2. CASE \E k \in DOMAIN cs : a[i] = cs[k] /\ b[i] = Lexical!Augmented(cs[k], content)
    BY <1>5, <1>10, <2>2
  <2> QED
    BY <1>7, <2>1, <2>2
<1>13. Lexical!Agreed(mixed', a, b, c, c, now)
  BY <1>12 DEF Lexical!Agreed
<1>14. Lexical!InMemory'
  BY <1>7, <1>9, <1>13 DEF Lexical!InMemory
<1>15. Lexical!TypeOK'
  BY <1>1, <1>3, <1>6, <1>9, LexicalKept
<1> QED
  BY <1>1, <1>14, <1>15, LexicalKept DEF Lexical!IInv

LEMMA LexicalRemoves ==
  ASSUME Lexical!IInv, NEW fs, Lexical!RemoveFiles(fs)
  PROVE  Lexical!IInv'
<1> DEFINE chunks == UNION {Lexical!ToSet(ChunkLists[f]) : f \in fs}
           ids == index.ids
           docs == index.docs
           tokens == index.tokens
           meta == index.meta
           left == {i \in DOMAIN ids : ids[i] \notin chunks}
           a == Lexical!Selected(ids, left)
           b == Lexical!Selected(docs, left)
           c == Lexical!Selected(tokens, left)
           okapi == IF left = {} THEN Lexical!NoIndex ELSE c
           now == [x \in DOMAIN meta \ chunks |-> meta[x]]
<1>1. /\ stage = "idle" /\ index' = Lexical!Without(index, chunks)
      /\ mixed' = Lexical!Rebuilt
      /\ UNCHANGED <<tokenizer, files, stage, torn>>
  BY DEF Lexical!RemoveFiles, Lexical!Idle
<1>2. index' = [okapi |-> okapi, docs |-> b, ids |-> a, tokens |-> c, meta |-> now]
  BY <1>1, Zenon DEF Lexical!Without
<1>3. /\ tokenizer \in Tokenizers /\ {torn, mixed} \subseteq {"nothing", "metadata", "all"}
      /\ Lexical!Parallel(ids, docs, tokens)
      /\ Lexical!Agreed(mixed, ids, docs, tokens, index.okapi, meta)
      /\ files = [index |-> files.index, docs |-> files.docs, meta |-> files.meta]
  BY DEF Lexical!IInv, Lexical!TypeOK, Lexical!InMemory
<1>4. mixed' \in {"nothing", "metadata"} /\ (mixed' = "nothing" => mixed = "nothing")
  BY <1>1 DEF Lexical!Rebuilt
<1>5. /\ Lexical!Parallel(a, b, c)
      /\ \A n \in DOMAIN a : \E i \in left : a[n] = ids[i] /\ b[n] = docs[i]
      /\ left = {} => b = <<>>
  <2>1. Lexical!Parallel(a, b, c) /\ IsReduced(a, b, ids, docs, left) /\ (left = {} => b = <<>>)
    <3>1. left \in SUBSET DOMAIN ids
      OBVIOUS
    <3> HIDE DEF left
    <3> QED
      BY <1>3, <3>1, RemovedParallel
  <2> HIDE DEF a, b, c, ids, docs, left
  <2> QED
    BY <2>1 DEF IsReduced
<1>6. mixed = "nothing" => \A i \in DOMAIN ids : ids[i] \in DOMAIN meta /\ docs[i] = Lexical!Augmented(ids[i], meta[ids[i]])
  BY <1>3 DEF Lexical!Agreed
<1>7. /\ index'.okapi = okapi /\ index'.docs = b /\ index'.ids = a /\ index'.tokens = c /\ index'.meta = now
      /\ index' = [okapi |-> index'.okapi, docs |-> index'.docs, ids |-> index'.ids,
                   tokens |-> index'.tokens, meta |-> index'.meta]
  <2> HIDE DEF a, b, c, now, okapi
  <2>1. index' = [okapi |-> okapi, docs |-> b, ids |-> a, tokens |-> c, meta |-> now]
    BY <1>2
  <2> HIDE DEF index
  <2> QED
    BY <2>1
<1>8. \A x : x \in DOMAIN meta /\ x \notin chunks => x \in DOMAIN now /\ now[x] = meta[x]
  OBVIOUS
<1>9. \A i \in left : i \in DOMAIN ids /\ ids[i] \notin chunks
  OBVIOUS
<1>10. b = <<>> \/ okapi = c
  BY <1>5
<1> HIDE DEF a, b, c, ids, docs, tokens, meta, now, okapi, left, chunks
<1>11. mixed' = "nothing" => \A n \in DOMAIN a : a[n] \in DOMAIN now /\ b[n] = Lexical!Augmented(a[n], now[a[n]])
  <2> HAVE mixed' = "nothing"
  <2> TAKE n \in DOMAIN a
  <2>1. PICK i \in left : a[n] = ids[i] /\ b[n] = docs[i]
    BY <1>5
  <2> QED
    BY <1>4, <1>6, <1>8, <1>9, <2>1
<1>12. Lexical!Agreed(mixed', a, b, c, okapi, now)
  BY <1>10, <1>11 DEF Lexical!Agreed
<1>13. Lexical!InMemory'
  BY <1>5, <1>7, <1>12 DEF Lexical!InMemory
<1>14. Lexical!TypeOK'
  BY <1>1, <1>3, <1>4, <1>7, LexicalKept
<1> QED
  BY <1>1, <1>13, <1>14, LexicalKept DEF Lexical!IInv
\* Each file is written by itself; only the last one puts the three in agreement.
LEMMA LexicalWrites ==
  ASSUME Lexical!IInv, Lexical!WriteFile
  PROVE  Lexical!IInv'
<1>1. /\ stage \in {"index", "docs", "meta"}
      /\ files' = [files EXCEPT ![stage] = Lexical!Written(stage)]
      /\ torn' = IF stage = "meta" THEN mixed ELSE "all"
      /\ stage' = Lexical!NextOf[stage]
      /\ UNCHANGED <<tokenizer, index, mixed>>
  BY DEF Lexical!WriteFile, Lexical!NextOf
<1>2. stage' = IF stage = "index" THEN "docs" ELSE IF stage = "docs" THEN "meta" ELSE "idle"
  BY <1>1 DEF Lexical!NextOf
<1>3. /\ tokenizer \in Tokenizers /\ {torn, mixed} \subseteq {"nothing", "metadata", "all"}
      /\ index = [okapi |-> index.okapi, docs |-> index.docs, ids |-> index.ids,
                  tokens |-> index.tokens, meta |-> index.meta]
      /\ files = [index |-> files.index, docs |-> files.docs, meta |-> files.meta]
      /\ Lexical!Parallel(index.ids, index.docs, index.tokens)
      /\ Lexical!Agreed(mixed, index.ids, index.docs, index.tokens, index.okapi, index.meta)
  BY DEF Lexical!IInv, Lexical!TypeOK, Lexical!InMemory
<1>4. /\ files' = [index |-> files'.index, docs |-> files'.docs, meta |-> files'.meta]
      /\ files'.index = (IF stage = "index" THEN Lexical!Written("index") ELSE files.index)
      /\ files'.docs = (IF stage = "docs" THEN Lexical!Written("docs") ELSE files.docs)
      /\ files'.meta = (IF stage = "meta" THEN Lexical!Written("meta") ELSE files.meta)
  <2> HIDE DEF files, stage
  <2>1. files' = [index |-> IF stage = "index" THEN Lexical!Written("index") ELSE files.index,
                  docs |-> IF stage = "docs" THEN Lexical!Written("docs") ELSE files.docs,
                  meta |-> IF stage = "meta" THEN Lexical!Written("meta") ELSE files.meta]
    BY <1>1, <1>3
  <2> QED
    BY <2>1
<1>5. Lexical!TypeOK'
  BY <1>1, <1>2, <1>3, <1>4, LexicalKept
<1>6. Lexical!InMemory'
  BY <1>1, LexicalKept
<1>7. /\ stage \in {"docs", "meta"} => index.okapi = Lexical!NoIndex \/ files.index = Lexical!Whole(index.okapi)
      /\ stage = "meta" => files.docs = Lexical!Written("docs")
      /\ Lexical!OnDisk
  BY DEF Lexical!IInv, Lexical!Saving
<1>8. Lexical!Written("docs").is = "whole" /\ Lexical!Written("docs").what =
        [documents |-> index.docs, doc_ids |-> index.ids, tokenized_docs |-> index.tokens]
  BY DEF Lexical!Written, Lexical!Whole
<1>9. Lexical!Written("docs")' = Lexical!Written("docs")
  BY <1>1 DEF Lexical!Written
<1>10. index.okapi = Lexical!NoIndex \/ Lexical!Written("index") = Lexical!Whole(index.okapi)
  BY DEF Lexical!Written
<1>11. Lexical!Written("meta").is = "whole" /\ Lexical!Written("meta").what.doc_metadata = index.meta
  BY DEF Lexical!Written, Lexical!Whole
<1>12. Lexical!Whole(index.okapi).what = index.okapi
  BY FreshIndex
<1> HIDE DEF tokenizer, index, files, stage, torn, mixed
<1>13. Lexical!Saving'
  <2>1. CASE stage = "index"
    BY <1>1, <1>2, <1>4, <1>10, <2>1 DEF Lexical!Saving, tokenizer, index, files, stage, torn, mixed
  <2>2. CASE stage = "docs"
    <3>1. index.okapi = Lexical!NoIndex \/ files'.index = Lexical!Whole(index.okapi)
      BY <1>4, <1>7, <2>2
    <3>2. stage' = "meta" /\ files'.docs = Lexical!Written("docs")'
      BY <1>2, <1>4, <1>9, <2>2
    <3> QED
      BY <1>1, <3>1, <3>2 DEF Lexical!Saving, index, files, stage
  <2>3. CASE stage = "meta"
    <3>1. stage' = "idle"
      BY <1>2, <2>3
    <3> QED
      BY <3>1, LexicalKept DEF stage
  <2> QED
    BY <1>1, <2>1, <2>2, <2>3
<1> DEFINE d == files'.docs.what
<1>14. Lexical!OnDisk'
  <2>1. SUFFICES ASSUME files'.docs.is = "whole"
                 PROVE  /\ Lexical!Parallel(d.doc_ids, d.documents, d.tokenized_docs)
                        /\ files'.index.is = "whole" /\ files'.meta.is = "whole" =>
                             Lexical!Agreed(torn', d.doc_ids, d.documents, d.tokenized_docs, files'.index.what,
                                            files'.meta.what.doc_metadata)
    BY DEF Lexical!OnDisk, files, torn
  <2>2. CASE stage = "meta"
    <3>1. /\ d.doc_ids = index.ids /\ d.documents = index.docs /\ d.tokenized_docs = index.tokens
      BY <1>4, <1>7, <1>8, <2>2
    <3>2. torn' = mixed /\ files'.meta.what.doc_metadata = index.meta
      BY <1>1, <1>4, <1>11, <2>2
    <3>3. mixed # "all" => index.docs = <<>> \/ files'.index.what = index.tokens
      <4> HAVE mixed # "all"
      <4>1. index.docs = <<>> \/ index.okapi = index.tokens
        BY <1>3 DEF Lexical!Agreed
      <4>2. CASE index.okapi = Lexical!NoIndex
        <5>1. index.docs \in Seq(Lexical!Documents) /\ Len(index.docs) = Len(index.ids) /\ Len(index.tokens) = Len(index.ids)
          BY <1>3 DEF Lexical!Parallel
        <5>2. index.okapi = index.tokens => index.docs = <<>>
          BY <4>2, <5>1 DEF Lexical!NoIndex
        <5> QED
          BY <4>1, <5>2
      <4>3. CASE files.index = Lexical!Whole(index.okapi)
        BY <1>4, <1>12, <2>2, <4>1, <4>3
      <4> QED
        BY <1>7, <2>2, <4>2, <4>3
    <3>4. Lexical!Agreed(mixed, index.ids, index.docs, index.tokens, files'.index.what, index.meta)
      BY <1>3, <3>3 DEF Lexical!Agreed
    <3> QED
      BY <1>3, <3>1, <3>2, <3>4
  <2>3. CASE stage = "docs"
    <3>1. /\ d.doc_ids = index.ids /\ d.documents = index.docs /\ d.tokenized_docs = index.tokens
      BY <1>4, <1>8, <2>3
    <3>2. torn' = "all"
      BY <1>1, <2>3
    <3> QED
      BY <1>3, <3>1, <3>2 DEF Lexical!Agreed
  <2>4. CASE stage = "index"
    <3>1. files'.docs = files.docs /\ torn' = "all"
      BY <1>1, <1>4, <2>4
    <3>2. Lexical!Parallel(d.doc_ids, d.documents, d.tokenized_docs)
      BY <1>7, <2>1, <3>1 DEF Lexical!OnDisk, files
    <3> QED
      BY <3>1, <3>2 DEF Lexical!Agreed
  <2> QED
    BY <1>1, <2>2, <2>3, <2>4
<1> QED
  BY <1>5, <1>6, <1>13, <1>14 DEF Lexical!IInv

\* A file that is cut off is not read.
LEMMA LexicalCutOff ==
  ASSUME Lexical!IInv, stage \in {"index", "docs", "meta"},
         files' = [files EXCEPT ![stage] = Lexical!Half], torn' = "all"
  PROVE  /\ Lexical!OnDisk'
         /\ files' = [index |-> files'.index, docs |-> files'.docs, meta |-> files'.meta]
<1>1. files = [index |-> files.index, docs |-> files.docs, meta |-> files.meta] /\ Lexical!OnDisk
  BY DEF Lexical!IInv, Lexical!TypeOK
<1>2. Lexical!Half.is = "half"
  BY FreshIndex
<1> HIDE DEF files, stage, torn
<1>3. files' = [index |-> IF stage = "index" THEN Lexical!Half ELSE files.index,
                docs |-> IF stage = "docs" THEN Lexical!Half ELSE files.docs,
                meta |-> IF stage = "meta" THEN Lexical!Half ELSE files.meta]
  BY <1>1
<1>4. /\ files' = [index |-> files'.index, docs |-> files'.docs, meta |-> files'.meta]
      /\ files'.docs = (IF stage = "docs" THEN Lexical!Half ELSE files.docs)
  BY <1>3
<1> DEFINE d == files'.docs.what
<1>5. Lexical!OnDisk'
  <2>1. SUFFICES ASSUME files'.docs.is = "whole"
                 PROVE  /\ Lexical!Parallel(d.doc_ids, d.documents, d.tokenized_docs)
                        /\ files'.index.is = "whole" /\ files'.meta.is = "whole" =>
                             Lexical!Agreed("all", d.doc_ids, d.documents, d.tokenized_docs, files'.index.what,
                                            files'.meta.what.doc_metadata)
    BY DEF Lexical!OnDisk, files, torn
  <2>2. files'.docs = files.docs
    BY <1>2, <1>4, <2>1
  <2>3. Lexical!Parallel(d.doc_ids, d.documents, d.tokenized_docs)
    BY <1>1, <2>1, <2>2 DEF Lexical!OnDisk, files
  <2> QED
    BY <2>3 DEF Lexical!Agreed
<1> QED
  BY <1>4, <1>5

\* The other steps of a save, and the ends of the process.
LEMMA LexicalStops ==
  ASSUME Lexical!IInv,
         \/ Lexical!Clear \/ Lexical!BeginSave \/ Lexical!SaveFails \/ Lexical!Crash \/ Lexical!Stop
  PROVE  Lexical!IInv'
<1>1. /\ tokenizer \in Tokenizers /\ {torn, mixed} \subseteq {"nothing", "metadata", "all"}
      /\ index = [okapi |-> index.okapi, docs |-> index.docs, ids |-> index.ids,
                  tokens |-> index.tokens, meta |-> index.meta]
      /\ files = [index |-> files.index, docs |-> files.docs, meta |-> files.meta]
  BY DEF Lexical!IInv, Lexical!TypeOK
<1>2. \A i : i = Lexical!Fresh => i = [okapi |-> i.okapi, docs |-> i.docs, ids |-> i.ids, tokens |-> i.tokens, meta |-> i.meta]
  BY DEF Lexical!Fresh
<1>3. CASE Lexical!Clear
  <2>1. /\ index' = Lexical!Fresh /\ files' = Lexical!NoFiles /\ torn' = "nothing" /\ mixed' = "nothing"
        /\ stage = "idle" /\ stage' = stage /\ tokenizer' = tokenizer
    BY <1>3 DEF Lexical!Clear, Lexical!Idle
  <2>2. files' = [index |-> files'.index, docs |-> files'.docs, meta |-> files'.meta] /\ files'.docs.is = "none"
    <3> HIDE DEF files
    <3>1. files' = [index |-> Lexical!NoFile, docs |-> Lexical!NoFile, meta |-> Lexical!NoFile] /\ Lexical!NoFile.is = "none"
      BY <2>1, FreshIndex
    <3> QED
      BY <3>1
  <2>3. Lexical!OnDisk'
    BY <2>2 DEF Lexical!OnDisk
  <2>4. Lexical!TypeOK'
    BY <1>1, <1>2, <2>1, <2>2, LexicalKept
  <2> QED
    BY <2>1, <2>3, <2>4, LexicalKept DEF Lexical!IInv
<1>4. CASE Lexical!BeginSave
  <2>1. stage' = "index" /\ UNCHANGED <<tokenizer, index, files, torn, mixed>>
    BY <1>4 DEF Lexical!BeginSave
  <2>2. Lexical!TypeOK'
    BY <1>1, <2>1, LexicalKept
  <2> QED
    BY <2>1, <2>2, LexicalKept DEF Lexical!IInv
<1>5. CASE Lexical!SaveFails
  <2>1. /\ stage \in {"index", "docs", "meta"} /\ files' = [files EXCEPT ![stage] = Lexical!Half]
        /\ torn' = "all" /\ stage' = "idle" /\ UNCHANGED <<tokenizer, index, mixed>>
    BY <1>5 DEF Lexical!SaveFails, Lexical!NextOf
  <2>2. Lexical!OnDisk' /\ files' = [index |-> files'.index, docs |-> files'.docs, meta |-> files'.meta]
    BY <2>1, LexicalCutOff
  <2>3. Lexical!TypeOK'
    BY <1>1, <2>1, <2>2, LexicalKept
  <2> QED
    BY <2>1, <2>2, <2>3, LexicalKept DEF Lexical!IInv
<1>6. CASE Lexical!Crash
  <2>1. /\ \/ files' = files /\ torn' = torn
           \/ stage \in {"index", "docs", "meta"} /\ files' = [files EXCEPT ![stage] = Lexical!Half] /\ torn' = "all"
        /\ stage' = "down" /\ index' = Lexical!Fresh /\ mixed' = "nothing" /\ tokenizer' = tokenizer
    BY <1>6 DEF Lexical!Crash, Lexical!NextOf
  <2>2. Lexical!OnDisk' /\ files' = [index |-> files'.index, docs |-> files'.docs, meta |-> files'.meta]
    BY <1>1, <2>1, LexicalCutOff, LexicalKept
  <2>3. Lexical!TypeOK'
    BY <1>1, <1>2, <2>1, <2>2, LexicalKept
  <2> QED
    BY <2>1, <2>2, <2>3, LexicalKept DEF Lexical!IInv
<1>7. CASE Lexical!Stop
  <2>1. stage' = "down" /\ index' = Lexical!Fresh /\ mixed' = "nothing" /\ UNCHANGED <<tokenizer, files, torn>>
    BY <1>7 DEF Lexical!Stop
  <2>2. Lexical!TypeOK'
    BY <1>1, <1>2, <2>1, LexicalKept
  <2> QED
    BY <2>1, <2>2, LexicalKept DEF Lexical!IInv
<1> QED
  BY <1>3, <1>4, <1>5, <1>6, <1>7

\* A start reads what the files say, or nothing.
LEMMA LexicalLoads ==
  ASSUME Lexical!IInv, NEW variant \in Tokenizers, Lexical!Load(variant)
  PROVE  Lexical!IInv'
<1>1. /\ stage = "down" /\ tokenizer' = variant /\ UNCHANGED <<files, torn>>
      /\ \/ stage' = "stuck" /\ UNCHANGED <<index, mixed>>
         \/ stage' = "idle" /\ index' = Lexical!Loaded /\ mixed' = torn
  BY DEF Lexical!Load
<1>2. /\ {torn, mixed} \subseteq {"nothing", "metadata", "all"}
      /\ index = [okapi |-> index.okapi, docs |-> index.docs, ids |-> index.ids,
                  tokens |-> index.tokens, meta |-> index.meta]
      /\ files = [index |-> files.index, docs |-> files.docs, meta |-> files.meta]
      /\ Lexical!OnDisk
  BY DEF Lexical!IInv, Lexical!TypeOK
<1>3. Lexical!OnDisk' /\ Lexical!Saving'
  BY <1>1, LexicalKept
<1>4. CASE stage' = "stuck" /\ UNCHANGED <<index, mixed>>
  <2>1. Lexical!TypeOK'
    BY <1>1, <1>2, <1>4, LexicalKept
  <2> QED
    BY <1>3, <1>4, <2>1, LexicalKept DEF Lexical!IInv
<1>5. CASE stage' = "idle" /\ index' = Lexical!Loaded /\ mixed' = torn
  <2>1. CASE index' = Lexical!Fresh
    <3>1. index' = [okapi |-> index'.okapi, docs |-> index'.docs, ids |-> index'.ids,
                    tokens |-> index'.tokens, meta |-> index'.meta]
      BY <2>1 DEF Lexical!Fresh
    <3>2. Lexical!TypeOK'
      BY <1>1, <1>2, <1>5, <3>1, LexicalKept
    <3> QED
      BY <1>3, <2>1, <3>2, LexicalKept DEF Lexical!IInv
  <2>2. CASE /\ \A f \in DOMAIN files : files[f].is = "whole"
             /\ index' = [okapi |-> files.index.what, docs |-> files.docs.what.documents,
                          ids |-> files.docs.what.doc_ids, tokens |-> files.docs.what.tokenized_docs,
                          meta |-> files.meta.what.doc_metadata]
    <3> DEFINE d == files.docs.what
    <3> HIDE DEF index
    <3>1. /\ index'.okapi = files.index.what /\ index'.docs = d.documents /\ index'.ids = d.doc_ids
          /\ index'.tokens = d.tokenized_docs /\ index'.meta = files.meta.what.doc_metadata
          /\ index' = [okapi |-> index'.okapi, docs |-> index'.docs, ids |-> index'.ids,
                       tokens |-> index'.tokens, meta |-> index'.meta]
      BY <2>2
    <3>2. files.docs.is = "whole" /\ files.index.is = "whole" /\ files.meta.is = "whole"
      <4> HIDE DEF files
      <4>1. DOMAIN files = {"index", "docs", "meta"}
        BY <1>2
      <4> QED
        BY <2>2, <4>1
    <3>3. /\ Lexical!Parallel(d.doc_ids, d.documents, d.tokenized_docs)
          /\ Lexical!Agreed(torn, d.doc_ids, d.documents, d.tokenized_docs, files.index.what,
                            files.meta.what.doc_metadata)
      BY <1>2, <3>2 DEF Lexical!OnDisk
    <3>4. Lexical!InMemory'
      BY <1>5, <3>1, <3>3 DEF Lexical!InMemory, index
    <3>5. Lexical!TypeOK'
      BY <1>1, <1>2, <1>5, <3>1, LexicalKept DEF index
    <3> QED
      BY <1>3, <3>4, <3>5 DEF Lexical!IInv
  <2> QED
    BY <1>5, <2>1, <2>2 DEF Lexical!Loaded
<1> QED
  BY <1>1, <1>4, <1>5

LEMMA LexicalDeleted ==
  ASSUME Lexical!IInv, Lexical!Deleted
  PROVE  Lexical!IInv'
<1>1. /\ files' = Lexical!NoFiles /\ torn' = "nothing" /\ stage' = "down"
      /\ UNCHANGED <<tokenizer, index, mixed>>
  BY DEF Lexical!Deleted
<1>2. /\ tokenizer \in Tokenizers /\ {torn, mixed} \subseteq {"nothing", "metadata", "all"}
      /\ index = [okapi |-> index.okapi, docs |-> index.docs, ids |-> index.ids,
                  tokens |-> index.tokens, meta |-> index.meta]
  BY DEF Lexical!IInv, Lexical!TypeOK
<1>3. files' = [index |-> files'.index, docs |-> files'.docs, meta |-> files'.meta] /\ files'.docs.is = "none"
  <2> HIDE DEF files
  <2>1. files' = [index |-> Lexical!NoFile, docs |-> Lexical!NoFile, meta |-> Lexical!NoFile] /\ Lexical!NoFile.is = "none"
    BY <1>1, FreshIndex
  <2> QED
    BY <2>1
<1>4. Lexical!OnDisk'
  BY <1>3 DEF Lexical!OnDisk
<1>5. Lexical!TypeOK'
  BY <1>1, <1>2, <1>3, LexicalKept
<1> QED
  BY <1>1, <1>4, <1>5, LexicalKept DEF Lexical!IInv

LEMMA LexicalNext ==
  ASSUME Lexical!IInv, [Lexical!Next]_(Lexical!vars)
  PROVE  Lexical!IInv'
<1>1. CASE UNCHANGED Lexical!vars
  <2>1. UNCHANGED <<tokenizer, index, files, stage, torn, mixed>>
    BY <1>1 DEF Lexical!vars
  <2>2. Lexical!Saving'
    BY <2>1 DEF Lexical!IInv, Lexical!Saving, Lexical!Written
  <2>3. Lexical!TypeOK'
    BY <2>1 DEF Lexical!IInv, Lexical!TypeOK
  <2> QED
    BY <2>1, <2>2, <2>3, LexicalKept DEF Lexical!IInv
<1>2. CASE Lexical!Next
  BY <1>2, LexicalIndexes, LexicalRemoves, LexicalWrites, LexicalStops, LexicalLoads, LexicalDeleted
     DEF Lexical!Next
<1> QED
  BY <1>1, <1>2
\* A token is the stem of a word of its text, or made of words of it.
TokenOf(t, text) ==
  \/ \E x \in Lexical!Words(text) : Lexical!ToSet(t) = {Stem[x]}
  \/ Lexical!ToSet(t) \subseteq Lexical!Words(text)

LEMMA TokensAreWords ==
  \A v, text : \A t \in Lexical!Process(v, text) : TokenOf(t, text)
<1> TAKE v, text
<1> TAKE t \in Lexical!Process(v, text)
<1>1. \A x : Lexical!ToSet(<<x>>) = {x}
  BY DEF Lexical!ToSet
<1>2. CASE \E x \in Lexical!Words(text) : t = <<Stem[x]>>
  BY <1>1, <1>2 DEF TokenOf
<1>3. CASE t \in text
  <2>1. Lexical!ToSet(t) \subseteq Lexical!Words(text)
    BY <1>3, Zenon DEF Lexical!Words
  <2> QED
    BY <2>1 DEF TokenOf
<1>4. CASE \E x \in Lexical!Words(text) : t = <<x>>
  <2>1. PICK x \in Lexical!Words(text) : t = <<x>>
    BY <1>4
  <2>2. Lexical!ToSet(t) = {x}
    BY <1>1, <2>1
  <2> QED
    BY <2>2 DEF TokenOf
<1>5. \/ \E x \in Lexical!Words(text) : t = <<Stem[x]>>
      \/ t \in text
      \/ \E x \in Lexical!Words(text) : t = <<x>>
  <2>1. CASE v = "legacy"
    <3>1. t \in Lexical!Legacy(text)
      BY <2>1 DEF Lexical!Process
    <3> QED
      BY <3>1, Zenon DEF Lexical!Legacy
  <2>2. CASE v # "legacy"
    <3>1. t \in Lexical!Identifiers(text, v = "additive")
      BY <2>2 DEF Lexical!Process
    <3>2. t \in text \/ t \in Lexical!Parts(text)
      BY <3>1, Zenon DEF Lexical!Identifiers
    <3> QED
      BY <3>2, Zenon DEF Lexical!Parts
  <2> QED
    BY <2>1, <2>2
<1> QED
  BY <1>2, <1>3, <1>4, <1>5

\* What is asked for leaves no token without a word.
LEMMA AskedHasWords ==
  \A query \in LexicalAsked : \A v : \A t \in Lexical!Process(v, query) : Lexical!ToSet(t) # {}
<1> TAKE query \in LexicalAsked
<1> TAKE v
<1> TAKE t \in Lexical!Process(v, query)
<1>1. \A x : Lexical!ToSet(<<x>>) # {}
  BY DEF Lexical!ToSet
<1>2. \/ \E x : t = <<x>>
      \/ t \in query
  <2>1. CASE v = "legacy"
    <3>1. t \in Lexical!Legacy(query)
      BY <2>1 DEF Lexical!Process
    <3> QED
      BY <3>1, Zenon DEF Lexical!Legacy
  <2>2. CASE v # "legacy"
    <3>1. t \in Lexical!Identifiers(query, v = "additive")
      BY <2>2 DEF Lexical!Process
    <3>2. t \in query \/ t \in Lexical!Parts(query)
      BY <3>1, Zenon DEF Lexical!Identifiers
    <3> QED
      BY <3>2, Zenon DEF Lexical!Parts
  <2> QED
    BY <2>1, <2>2
<1>3. t \in query => Lexical!ToSet(t) # {}
  BY LexicalAssumption, Zenon DEF Lexical!ToSet
<1> QED
  BY <1>1, <1>2, <1>3

\* A word in either form.
Mentions(text, word) ==
  word \in {Stem[w] : w \in Lexical!Words(text)} \cup Lexical!Words(text)

\* Texts with a token in common have a word in common, whoever made the tokens.
LEMMA CommonWord ==
  ASSUME NEW query \in LexicalAsked, NEW v, NEW doc, NEW w,
         NEW t \in Lexical!Process(w, doc), t \in Lexical!Process(v, query)
  PROVE  \E x \in Lexical!Words(query) : Mentions(doc, x) \/ Mentions(doc, Stem[x])
<1>1. TokenOf(t, doc) /\ TokenOf(t, query)
  BY TokensAreWords
<1>2. Lexical!ToSet(t) # {}
  BY AskedHasWords
<1> DEFINE T == Lexical!ToSet(t)
           D == Lexical!Words(doc)
           Q == Lexical!Words(query)
<1> HIDE DEF T, D, Q
<1>3. /\ \/ \E x \in D : T = {Stem[x]}
         \/ T \subseteq D
      /\ \/ \E x \in Q : T = {Stem[x]}
         \/ T \subseteq Q
  BY <1>1 DEF TokenOf, T, D, Q
<1>4. \A word : word \in T => word \in {Stem[x] : x \in D} \cup D
  BY <1>3
<1>5. PICK word \in T : TRUE
  BY <1>2 DEF T
<1>6. \E x \in Q : word = x \/ word = Stem[x]
  BY <1>3, <1>5
<1> QED
  BY <1>4, <1>5, <1>6 DEF Mentions, D, Q

\* ... and with the same tokenizer, an identifier that is not stopped is a token of both.
LEMMA CommonToken ==
  ASSUME NEW n, ~Lexical!Stopped(n), NEW doc, NEW query, n \in doc, n \in query
  PROVE  Lexical!Process(tokenizer, doc) \cap Lexical!Process(tokenizer, query) # {}
<1> HIDE DEF tokenizer
<1>1. CASE tokenizer = "legacy"
  <2>1. PICK x \in Lexical!ToSet(n) : x \notin StopWords
    BY <1>1 DEF Lexical!Stopped, tokenizer
  <2>2. x \in Lexical!Words(doc) \ StopWords /\ x \in Lexical!Words(query) \ StopWords
    BY <2>1, Zenon DEF Lexical!Words
  <2>3. <<Stem[x]>> \in Lexical!Legacy(doc) /\ <<Stem[x]>> \in Lexical!Legacy(query)
    BY <2>2, Zenon DEF Lexical!Legacy
  <2> QED
    BY <1>1, <2>3 DEF Lexical!Process
<1>2. CASE tokenizer # "legacy"
  <2>1. n \notin {<<w>> : w \in StopWords}
    BY <1>2 DEF Lexical!Stopped, tokenizer
  <2>2. \A additive : n \in Lexical!Identifiers(doc, additive) /\ n \in Lexical!Identifiers(query, additive)
    BY <2>1, Zenon DEF Lexical!Identifiers
  <2> QED
    BY <1>2, <2>2 DEF Lexical!Process
<1> QED
  BY <1>1, <1>2

\* Where the index is that of the tokens, and these of the documents, hits are sound.
LEMMA LexicalHits ==
  ASSUME \A corpus, i, tokens : LexicalScore(corpus, i, tokens) \in Int,
         Lexical!IInv, mixed # "all", NEW query \in LexicalAsked, NEW k,
         NEW hits \in Lexical!Search(query, k)
  PROVE  Lexical!SoundHits(query, k, hits)
<1> DEFINE ids == index.ids
           docs == index.docs
           tokens == index.tokens
           asked == Lexical!Process(tokenizer, query)
           R(i) == Lexical!Scored(tokens, i, asked)
<1>1. /\ Lexical!Parallel(ids, docs, tokens)
      /\ Lexical!Agreed(mixed, ids, docs, tokens, index.okapi, index.meta)
  BY DEF Lexical!IInv, Lexical!InMemory
<1>2. /\ docs \in Seq(Lexical!Documents) /\ DOMAIN docs = DOMAIN ids /\ DOMAIN tokens = DOMAIN ids
      /\ \A i \in DOMAIN ids : \E v \in Tokenizers : tokens[i] = Lexical!Process(v, docs[i])
  <2>1. /\ ids \in Seq(Lexical!Indexed) /\ docs \in Seq(Lexical!Documents) /\ tokens \in Seq(Lexical!Tokens)
        /\ Len(docs) = Len(ids) /\ Len(tokens) = Len(ids)
        /\ \A i \in DOMAIN ids : \E v \in Tokenizers : tokens[i] = Lexical!Process(v, docs[i])
    BY <1>1 DEF Lexical!Parallel
  <2>2. DOMAIN docs = DOMAIN ids /\ DOMAIN tokens = DOMAIN ids
    BY <2>1, Elements
  <2> QED
    BY <2>1, <2>2
<1>3. docs = <<>> \/ index.okapi = tokens
  BY <1>1 DEF Lexical!Agreed
<1>4. mixed = "nothing" => \A i \in DOMAIN ids : docs[i] = Lexical!Augmented(ids[i], index.meta[ids[i]])
  BY <1>1 DEF Lexical!Agreed
<1>5. docs = <<>> => DOMAIN ids = {}
  BY <1>2
<1>6. \A i : R(i) \in Int /\ (R(i) >= LeastScore => tokens[i] \cap asked # {})
  BY LexicalAssumption DEF Lexical!Scored
<1>7. \/ hits = {} /\ (docs = <<>> \/ asked = {})
      \/ /\ docs # <<>>
         /\ \E top \in SUBSET DOMAIN tokens :
              /\ hits = {i \in top : R(i) >= LeastScore}
              /\ Cardinality(top) = k \/ top = DOMAIN tokens
              /\ \A i \in top, j \in DOMAIN tokens \ top : R(i) >= R(j)
  BY <1>3, SameCounts DEF Lexical!Search, Lexical!Best
<1> HIDE DEF R
<1>8. \A i : asked = {} => R(i) = 0
  BY DEF R, Lexical!Scored
<1>9. hits \subseteq DOMAIN ids /\ \A i \in hits : R(i) >= LeastScore
  BY <1>2, <1>7
<1>10. ASSUME NEW i \in hits
       PROVE  \E w \in Lexical!Words(query) : Lexical!HasWord(i, w) \/ Lexical!HasWord(i, Stem[w])
  <2>1. PICK v \in Tokenizers : tokens[i] = Lexical!Process(v, docs[i])
    BY <1>2, <1>9
  <2>2. PICK t \in Lexical!Process(v, docs[i]) : t \in Lexical!Process(tokenizer, query)
    BY <1>6, <1>9, <2>1
  <2>3. \E x \in Lexical!Words(query) : Mentions(docs[i], x) \/ Mentions(docs[i], Stem[x])
    BY <2>2, CommonWord
  <2> QED
    BY <2>3, Zenon DEF Mentions, Lexical!HasWord
<1>11. ASSUME NEW i \in DOMAIN ids \ hits
       PROVE  \/ R(i) < LeastScore
              \/ Lexical!Cardinality(hits) = k /\ \A j \in hits : R(j) >= R(i)
  <2>1. LeastScore \in Nat \ {0} /\ R(i) \in Int
    BY <1>6, LexicalAssumption
  <2>2. CASE hits = {} /\ (docs = <<>> \/ asked = {})
    BY <1>5, <1>8, <2>1, <2>2
  <2>3. CASE \E top \in SUBSET DOMAIN tokens :
              /\ hits = {j \in top : R(j) >= LeastScore}
              /\ Cardinality(top) = k \/ top = DOMAIN tokens
              /\ \A l \in top, j \in DOMAIN tokens \ top : R(l) >= R(j)
    <3>1. PICK top \in SUBSET DOMAIN tokens :
              /\ hits = {j \in top : R(j) >= LeastScore}
              /\ Cardinality(top) = k \/ top = DOMAIN tokens
              /\ \A l \in top, j \in DOMAIN tokens \ top : R(l) >= R(j)
      BY <2>3
    <3>2. CASE i \in top
      BY <2>1, <3>1, <3>2
    <3>3. CASE i \notin top
      <4>1. Cardinality(top) = k /\ \A l \in top : R(l) >= R(i)
        BY <1>2, <3>1, <3>3
      <4>2. CASE R(i) < LeastScore
        BY <4>2
      <4>3. CASE ~(R(i) < LeastScore)
        <5>1. \A l \in top : R(l) >= LeastScore
          BY <1>6, <2>1, <4>1, <4>3
        <5>2. hits = top
          BY <3>1, <5>1
        <5> QED
          BY <4>1, <5>2, SameCounts
      <4> QED
        BY <4>2, <4>3
    <3> QED
      BY <3>2, <3>3
  <2> QED
    BY <1>7, <2>2, <2>3
<1> QED
  BY <1>2, <1>4, <1>9, <1>10, <1>11, Zenon DEF Lexical!SoundHits, R

LEMMA LexicalSafe ==
  ASSUME \A corpus, i, tokens : LexicalScore(corpus, i, tokens) \in Int, Lexical!IInv
  PROVE  Lexical!HitsAreTheDocuments
<1> SUFFICES ASSUME mixed # "all", NEW query \in LexicalAsked
             PROVE  /\ \A k \in LexicalSizes : \A hits \in Lexical!Search(query, k) :
                         Lexical!SoundHits(query, k, hits)
                    /\ \A i \in DOMAIN index.ids : Lexical!SharesTokens(query, i)
  BY DEF Lexical!HitsAreTheDocuments
<1>1. \A k \in LexicalSizes : \A hits \in Lexical!Search(query, k) : Lexical!SoundHits(query, k, hits)
  BY LexicalHits
<1>2. \A i \in DOMAIN index.ids : Lexical!Parts(NamesOf[index.ids[i]]) \subseteq index.docs[i]
  BY DEF Lexical!IInv, Lexical!InMemory, Lexical!Parallel
<1>3. ASSUME NEW i \in DOMAIN index.ids
      PROVE  Lexical!SharesTokens(query, i)
  <2> SUFFICES ASSUME index.tokens[i] = Lexical!Process(tokenizer, index.docs[i]),
                      NEW n \in query \cap (index.docs[i] \cup Lexical!Parts(NamesOf[index.ids[i]])),
                      ~Lexical!Stopped(n)
               PROVE  index.tokens[i] \cap Lexical!Process(tokenizer, query) # {}
    BY DEF Lexical!SharesTokens
  <2>1. n \in index.docs[i] /\ n \in query
    BY <1>2, <1>3
  <2> QED
    BY <2>1, CommonToken
<1> QED
  BY <1>1, <1>3

(* Whatever the chunks, their texts and the tokenizers are, whatever score the     *)
(* library gives to documents that share a token with the query, and however       *)
(* adding, removing, saving, its failures, crashes and starts follow each other:   *)
(* unless what is in memory was read from the files of an interrupted save, a      *)
(* search leaves out a document with the least score only for k others that have   *)
(* no less, each hit is at the place of its chunk and metadata and has a word of    *)
(* the query, and the tokens that are scored are those of the documents.           *)
THEOREM HitsFound ==
  ASSUME \A corpus, i, tokens : LexicalScore(corpus, i, tokens) \in Int
  PROVE  Spec => []HitsAreTheDocuments
<1> DEFINE Inv == part = "lexical" => Lexical!IInv
<1>1. Init => Inv
  BY StartOfOne, LexicalInit
<1>2. Inv /\ [Next]_vars => Inv'
  BY StepOfOne, LexicalNext
<1>3. Inv => HitsAreTheDocuments
  BY LexicalSafe DEF HitsAreTheDocuments
<1> QED
  BY <1>1, <1>2, <1>3, PTL DEF Spec

HIDE DEF tokenizer, index, files, stage, torn, mixed
==============================================================================

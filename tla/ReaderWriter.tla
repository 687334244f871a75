---------------------------- MODULE ReaderWriter ----------------------------
(***************************************************************************)
(* What _AsyncRWLock promises (the docstring of mcp_server/state.py and    *)
(* ADR-0008), with no queue, counter or event loop: searches share, a      *)
(* reindex is alone, and once a reindex has asked for the lock no further  *)
(* search is let in before it.                                             *)
(***************************************************************************)
CONSTANT Task

VARIABLES reading,    \* tasks inside a read() block
          writing,    \* tasks inside a write() block
          wanting     \* tasks suspended in write(), not yet admitted

vars == <<reading, writing, wanting>>

Init == reading = {} /\ writing = {} /\ wanting = {}

AdmitReader(t) ==
    /\ t \notin reading
    /\ writing = {} /\ wanting = {}
    /\ reading' = reading \cup {t}
    /\ UNCHANGED <<writing, wanting>>

EndRead(t) ==
    /\ t \in reading
    /\ reading' = reading \ {t}
    /\ UNCHANGED <<writing, wanting>>

AskToWrite(t) ==
    /\ t \notin wanting
    /\ reading # {} \/ writing # {}
    /\ wanting' = wanting \cup {t}
    /\ UNCHANGED <<reading, writing>>

AdmitWriter(t) ==
    /\ reading = {} /\ writing = {}
    /\ writing' = {t}
    /\ wanting' = wanting \ {t}
    /\ UNCHANGED reading

EndWrite(t) ==
    /\ t \in writing
    /\ writing' = {}
    /\ UNCHANGED <<reading, wanting>>

GiveUp(t) ==
    /\ t \in wanting
    /\ wanting' = wanting \ {t}
    /\ UNCHANGED <<reading, writing>>

Next == \E t \in Task :
    \/ AdmitReader(t) \/ EndRead(t)
    \/ AskToWrite(t) \/ AdmitWriter(t) \/ EndWrite(t) \/ GiveUp(t)

Spec == Init /\ [][Next]_vars
=============================================================================

---------------------------- MODULE MCAsyncRWLock ----------------------------
(***************************************************************************)
(* Small instances of AsyncRWLock for TLC.  Tasks are model values.        *)
(***************************************************************************)
EXTENDS AsyncRWLock

CONSTANTS r1, r2, w1, w2, w3

OneReader == {r1}
TwoReaders == {r1, r2}
TwoWriters == {w1, w2}
ThreeWriters == {w1, w2, w3}
=============================================================================

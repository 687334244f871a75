\* One search and two reindexes whose client may cancel them.
CONSTANTS
    r1 = r1
    r2 = r2
    w1 = w1
    w2 = w2
    w3 = w3
    Reader <- OneReader
    Writer <- TwoWriters
    Cancellable <- TwoWriters
SPECIFICATION Spec
INVARIANT NoLostWakeup

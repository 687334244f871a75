\* Two searches, which may be cancelled, against three reindexes, which are not.
CONSTANTS
    r1 = r1
    r2 = r2
    w1 = w1
    w2 = w2
    w3 = w3
    Reader <- TwoReaders
    Writer <- ThreeWriters
    Cancellable <- TwoReaders
SPECIFICATION FairSpec
INVARIANTS
    MutualExclusion
    CountersAgree
    NoLostWakeup
PROPERTIES
    RefinesReaderWriter
    SearchesStarveNoReindex
    ReaderEventuallyRuns

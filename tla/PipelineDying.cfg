\* Steps fail and the process dies, twice in all; then the index catches up.
CONSTANTS
    a = a
    b = b
    NoSnapshot = NoSnapshot
    File <- TwoFiles
    HasIncludes = FALSE
    Faults <- FailingOrDying
    MaxVersion = 3
    MaxFaults = 2
SPECIFICATION FairSpec
INVARIANTS
    NothingLost
PROPERTIES
    NoSilentAdvance
    RecoveryIsBounded
    CatchesUp

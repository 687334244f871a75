\* One failed write of an index file, or one crash before it.
CONSTANTS
    a = a
    b = b
    NoSnapshot = NoSnapshot
    File <- TwoFiles
    HasIncludes = FALSE
    Faults <- SavingInterrupted
    MaxVersion = 2
    MaxFaults = 1
SPECIFICATION Spec
INVARIANTS
    NothingLost

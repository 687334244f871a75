\* Faults of every kind, three of them.
CONSTANTS
    a = a
    b = b
    NoSnapshot = NoSnapshot
    File <- TwoFiles
    HasIncludes = TRUE
    Faults <- AllButHalfClears
    MaxVersion = 3
    MaxFaults = 3
SPECIFICATION Spec
INVARIANTS
    SuccessIsConsistent
SYMMETRY Symmetric

CONSTANTS
    File = {a, b}
    n = n
    m = m
    Names = {n, m}
    Lines = {1, 2}
    NoName = NoName
    NoFile = NoFile
    NoGraph = NoGraph
    Bodies <- MCBodies
    MaxEdits = 1
    MaxFaults = 0
SPECIFICATION Spec
SYMMETRY Symm
INVARIANT NoCallerMissed
CHECK_DEADLOCK FALSE

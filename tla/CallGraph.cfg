CONSTANTS
    File = {a, b, c}
    n = n
    m = m
    Names = {n, m}
    Lines = {1, 2}
    NoName = NoName
    NoFile = NoFile
    NoGraph = NoGraph
    Bodies <- MCBodies
    MaxEdits = 1
    MaxFaults = 1
SPECIFICATION Spec
SYMMETRY Symm
INVARIANTS InSync GraphIsSound RestartIsHarmless
PROPERTY FullRunFindsCallers
CHECK_DEADLOCK FALSE

SPECIFICATION Spec
CONSTANTS
  Tasks = {t1, t2, t3}
  A = A
  B = B
  Projects = {A, B}
  Home = Home
  None = None
  MaxEdits = 1
  MaxEdited = 1
  Requests <- EveryRequest
SYMMETRY Symm
VIEW View
CONSTRAINT MixedCalls
INVARIANT ConsistentReads
INVARIANT NobodyStuck

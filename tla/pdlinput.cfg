SPECIFICATION Spec
CONSTANTS
  Jobs = {j1, j2, j3}
  Pids = {p1, p2}
  User = user
  None = none
SYMMETRY Symmetry
INVARIANTS
  UndisturbedReadsItsOwn
  ReturnedLeavesNothing
PROPERTIES
  UndisturbedTouchesItsOwn

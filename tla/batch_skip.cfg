SPECIFICATION Spec
CONSTANTS
  t1 = t1
  t2 = t2
  t3 = t3
  s1 = s1
  s2 = s2
  s3 = s3
  Idle = Idle
  Tapes <- MCTapes
  Segments <- MCSegments
  TapesOf <- MCTapesOf
  OnDisk <- MCOnDisk
  Slots = {p1, p2}
  MaxInvocations = 2
INVARIANTS
  SkippedIsWhole
CHECK_DEADLOCK FALSE

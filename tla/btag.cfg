SPECIFICATION Spec
CONSTANTS
  Shapes <- MCShapes
  MaxEvents = 4
  MaxTracks = 2
  NaN = nan
CHECK_DEADLOCK FALSE
INVARIANTS
  NothingStaleIsEmitted
  CheckFindsTheUnresolved
  HemispheresHoldTheirBest
  SecondariesHaveTheirTracks

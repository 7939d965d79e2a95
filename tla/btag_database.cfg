SPECIFICATION Spec
CONSTANTS
  Shapes <- MCShapes
  MaxEvents = 3
  MaxTracks = 2
  NaN = nan
CHECK_DEADLOCK FALSE
INVARIANTS
  MissingDatabaseIsRefused

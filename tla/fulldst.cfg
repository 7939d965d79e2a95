SPECIFICATION Spec
CONSTANTS
  Events <- MCEvents
  Tolerance = 2
  Gaps = {1, 5}
  Drifts = {0, 1, 2}
  FewDrifts = {0, 1}
INVARIANTS
  TypeOK
  MatchesAreOwn
  ProvenanceTells
  TracksGainTheirOwn
  RowsAreComplete
  ClonesKeepRelations

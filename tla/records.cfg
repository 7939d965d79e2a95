SPECIFICATION LoopsSpec
CONSTANTS
  Events <- MCEvents
  MTRACK = 2
  Unset = unset
  Banks <- MCBanks
  Foreign <- MCForeign
INVARIANTS
  PlacedByTheFamily
  EndsWhereItDecays
  MadeByTheirParent
  RecordsLieInTheBank
  IntactRecordsAreRead

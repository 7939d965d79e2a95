SPECIFICATION Spec
CONSTANTS
  k0 = k0
  k1 = k1
  k2 = k2
  k3 = k3
  m1 = m1
  m2 = m2
  c1 = c1
  None = None
  Keys <- MCKeys
  SetupKeys <- MCSetupKeys
  Modules <- MCModules
  Collections <- MCCollections
  Tape <- MCTape
  Configs <- MCConfigs
  MaxRecords = 3
  MaxJobs = 2
INVARIANTS
  OneFramePerEvent
  OwnFrame
  NothingLost
  FooterAgreesWithExit
  CensusCoversWritten
PROPERTIES
  FailureIsFinal
  StoppedJobEnds
  ImplementsJob
CHECK_DEADLOCK FALSE

SPECIFICATION Spec
CONSTANTS
  k0 = k0
  k1 = k1
  k2 = k2
  k3 = k3
  m1 = m1
  m2 = m2
  c1 = c1
  None = None
  Keys <- MCKeys
  SetupKeys <- MCSetupKeys
  Modules <- MCModules
  Collections <- MCCollections
  Tape <- SetupTape
  Configs <- OneConfig
  MaxRecords = 3
  MaxJobs = 1
INVARIANTS
  OutputIsThePhysics
CHECK_DEADLOCK FALSE

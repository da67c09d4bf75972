CONSTANTS
  g = g
  m1 = m1
  m2 = m2
  m3 = m3
  n1 = n1
  n2 = n2
  k1 = k1
  rm1 = rm1
  rm3 = rm3
  rn1 = rn1
  rn2 = rn2
  Event <- MCEvent
  Genesis = g
  MergeEvent <- MCMergeEvent
  WitnessEvents <- MCWitnessEvents
  Parent <- MCParent
  TreeParent <- MCTreeParent
  Basis <- MCBasis
  MaxFailures = 2
SPECIFICATION FairSpec
INVARIANTS
  TypeOK
  OneBlock
  WritesTrueBlock
  MemoryMatchesStorage
PROPERTIES
  EventuallyWritten
CHECK_DEADLOCK FALSE

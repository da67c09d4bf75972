CONSTANTS
  w = w
  x = x
  w1 = w1
  w2 = w2
  w3 = w3
  rw3 = rw3
  s1 = s1
  rs1 = rs1
  x1 = x1
  k1 = k1
  Event <- MCEvent
  MergeEvent <- MCMergeEvent
  Parent <- MCParent
  Creator <- MCCreator
  Generation <- MCGeneration
  Basis <- MCBasis
  Required <- MCRequired
  BlockOf <- MCBlockOf
  LastBlock = 2
  Server = srv
  Client = cli
  Elsewhere = {w1, w2, w3}
  MaxEvents = 2
  MaxSessions = 2
SPECIFICATION FairSpec
INVARIANTS
  TypeOK
  BatchAcceptable
  NothingSkipped
PROPERTIES
  EventuallyReceived
CHECK_DEADLOCK FALSE

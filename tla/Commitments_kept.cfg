SPECIFICATION Spec
CONSTANTS
  l = l
  A = A
  B = B
  a1 = a1
  a2 = a2
  b1 = b1
  none = none
  Event <- MCEvent
  Peer <- MCPeer
  Local = l
  Creator <- MCCreator
  Before <- MCBefore
  Basis <- MCBasis
  None = none
  WitnessSets <- MCWitnessSets
  ByOthers <- MCByOthers
  Lookback = 1
  MaxHeight = 2
  MaxMerges = 3
  MaxSessions = 2
INVARIANTS
  TypeOK
  CommittedIsStored
  AcceptableLater
  MergedWasCommitted
  HeldBackIsAway
  CommitmentIsRecorded
  HistoryAsRestored
CHECK_DEADLOCK FALSE

CONSTANTS
  w1 = w1
  w2 = w2
  w3 = w3
  w4 = w4
  Generations = 8
  SlowGenerations = 1
  Branch <- MCBranch
  Witness <- MCBranch
  Creator <- MCCreator
  F = 1
  Contributor = {}
  Unruly = {}
  BaseHeight <- MCBaseHeight
  GenLimit <- MCGenLimit
  Lag = 1
SPECIFICATION Spec
SYMMETRY Alike
INVARIANTS
  TypeOK
  DecidedByMoreThanF
  DecisionLocks
PROPERTIES
  ChoosesOnce
CHECK_DEADLOCK FALSE

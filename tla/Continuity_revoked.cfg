CONSTANTS
  w1 = w1
  w2 = w2
  w3 = w3
  w4 = w4
  w4fork = w4fork
  Scenarios = {"forks"}
  PromptGenerations = 6
  PlanGenerations = 4
  ForkGenerations = 4
  Planned = 9
  Branch <- MCBranch
  Witness <- MCWitness
  Creator <- MCCreator
  F = 1
  Contributor <- MCContributor
  Unruly <- MCFork
  BaseHeight <- MCBaseHeight
  GenLimit <- MCGenLimit
  Lag = 1
SPECIFICATION MCSpec
INVARIANTS
  RevocationLasts
CHECK_DEADLOCK FALSE

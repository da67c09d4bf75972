SPECIFICATION Spec
CONSTANTS
  P = P
  Q = Q
  r = r
  s = s
  f0 = f0
  f1 = f1
  f2 = f2
  f3 = f3
  g1 = g1
  g2 = g2
  g3 = g3
  p1 = p1
  q1 = q1
  p2 = p2
  none = none
  Node = {P, Q}
  Event <- MCEvent
  Creator <- MCCreator
  Tree <- MCTree
  Parent <- MCParent
  Basis <- MCBasis
  None = none
  Decides <- MCDecides
  MaxBatch = 2
  MaxSessions = 1
INVARIANTS
  AgreeOnReplayers
CHECK_DEADLOCK FALSE

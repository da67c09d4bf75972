CONSTANTS
  op1 = op1
  op2 = op2
  op3 = op3
  r1 = r1
  r2 = r2
  p1 = p1
  p2 = p2
  NoOperation = NoOperation
  NoProcess = NoProcess
  Operation <- MCOperation
  Basis <- MCBasis
  Request <- MCRequest
  Submits <- MCSubmits
  Process = {p1, p2}
  Serves <- MCServes
  WorkProcess = p2
  MaxOperations = 2
  MaxQueueSize = 2
  MaxSubmissions = 4
  MaxFailures = 1
SPECIFICATION FairSpec
INVARIANTS
  TypeOK
  AcceptedOnce
  AtMostOneEvent
  EventsInOrder
  QueuedHaveDocuments
  QueueOverrun
  AccountedFor
PROPERTIES
  PassesThrough
  EventuallyInEvent
CHECK_DEADLOCK FALSE

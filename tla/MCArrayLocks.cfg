CONSTANTS
  a1 = a1
  a2 = a2
  q1 = q1
  q2 = q2
  i1 = i1
  i2 = i2
  Arrays = {a1, a2}
  Queries = {q1, q2}
  Instances = {i1, i2}
  Coordinator <- MCCoordinator
  ArrayName <- MCArrayName
  MaxRequests = 2
  RequestModes <- MCModes
SPECIFICATION FairSpec
INVARIANTS WriterExclusion HeldLocksNotBusy AskedIsLocked
PROPERTIES EveryoneFinishes LocksDrain
CHECK_DEADLOCK FALSE

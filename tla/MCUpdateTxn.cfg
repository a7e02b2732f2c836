CONSTANTS
  a1 = a1
  q1 = q1
  q2 = q2
  i1 = i1
  i2 = i2
  Arrays = {a1}
  Queries = {q1, q2}
  Instances = {i1, i2}
  Coordinator <- MCCoordinator
  Target <- MCTarget
  Deferred = {q1}
  MaxCrashes = 1
  MaxMishaps = 1
SPECIFICATION FairSpec
INVARIANTS CommittedDurable ChunksCovered VersionsConsecutive UndoAsserts
PROPERTIES LocksDrain
CHECK_DEADLOCK FALSE

CONSTANTS
  q1 = q1
  q2 = q2
  NoThread = NoThread
  Queries = {q1, q2}
  ChunksOf <- OneWriter
  SendLimit = 1
  ReceiveHint = 1
  SoftLimit = 1
  NumInst = 2
  MaxControl = 1
  MaxFaults = 1
  ConnectionsBreak = TRUE
SPECIFICATION Spec
INVARIANTS SyncedIsStored WindowRespected NoLostSignal AssertsHold

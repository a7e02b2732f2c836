CONSTANTS
  a = a
  b = b
  x1 = x1
  x2 = x2
  x3 = x3
  x4 = x4
  NoQueue = NoQueue
  Queues = {a, b}
  Items = {x1, x2}
  MaxOutstanding <- Serial
  MaxSize <- Tight
  Route <- OneWay
  Reservable = {a}
  MaxCalls = 1
  MaxRecords = 3
SPECIFICATION FairSpec
INVARIANT NoLostSpawn
PROPERTY EveryItemRuns
CHECK_DEADLOCK FALSE

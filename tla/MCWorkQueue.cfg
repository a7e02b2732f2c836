CONSTANTS
  a = a
  b = b
  x1 = x1
  x2 = x2
  x3 = x3
  x4 = x4
  NoQueue = NoQueue
  Queues = {a, b}
  Items = {x1, x2, x3, x4}
  MaxOutstanding <- MCMaxOutstanding
  MaxSize <- MCMaxSize
  Route <- BackAndForth
  Reservable = {b}
  MaxCalls = 2
  MaxRecords = 3
SPECIFICATION Spec
INVARIANTS AssertsHold KeepsOrder
SYMMETRY ItemSymmetry
CHECK_DEADLOCK FALSE

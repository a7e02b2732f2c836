CONSTANTS
  a1 = a1
  a2 = a2
  c1 = c1
  c2 = c2
  Arrays = {a1, a2}
  Coords = {c1}
  LogLimit = 1
  MaxId = 3
  Followed = {"header"}
  NoChunk = NoChunk
  NoRow = NoRow
SPECIFICATION Spec
INVARIANT FindsChunks
SYMMETRY Symmetry
CHECK_DEADLOCK FALSE

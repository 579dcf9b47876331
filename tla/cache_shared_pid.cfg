SPECIFICATION Spec
CONSTANTS
  w1 = w1
  w2 = w2
  p1 = p1
  p2 = p2
  None = None
  Hole = Hole
  Workers = {w1, w2}
  Settings <- MC_Threads
  Keys = {k}
  Payloads = {d1, d2}
  Slots = {0, 1, 2, 3}
  MaxCalls = 4
SYMMETRY Symmetry
VIEW View
CHECK_DEADLOCK FALSE
INVARIANTS
  BlobsWhole

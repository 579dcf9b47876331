SPECIFICATION Spec
CONSTANTS
  p1 = p1
  p2 = p2
  p3 = p3
  p4 = p4
  HALT = HALT
  None = None
  Pcs = {p1, p2, p3, p4}
  Entry = p1
  MaxSteps = 5
  Programs <- JccApart
  Slots = 2
  CAP = 2
  Hashes <- AllHashes
  Maps = {m1, m2, m3}
CHECK_DEADLOCK FALSE
PROPERTIES
  RunsGuest

SPECIFICATION Spec
CONSTANTS
  t1 = t1
  t2 = t2
  t3 = t3
  t4 = t4
  x = x
  y = y
  z = z
  Start = Start
  Threads = {t1, t2, t3, t4}
  Addrs = {x, y, z}
  Cases <- Ordinary
CHECK_DEADLOCK FALSE
INVARIANTS
  TSOConsistent
  SequentiallyConsistent

SPECIFICATION Spec
CONSTANTS
  Threads = {t1, t2, t3}
  Cpus = {c1, c2}
  Off = Off
  Pinned = {t1, t2}
  Closers = {t1, t2}
SYMMETRY Symmetry
CHECK_DEADLOCK FALSE
INVARIANTS
  TypeOK
  GuestRunsOrdered
  LeaksOnlyMidDisable
  NotifierLifetime
  IneligibleStaysWeak
PROPERTIES
  ImplementsGrants

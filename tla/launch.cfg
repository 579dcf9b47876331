SPECIFICATION LaunchSpec
CONSTANTS
  t1 = t1
  t2 = t2
  Threads = {t1, t2}
  Names <- MCNames
  Directories <- MCDirectories
  Beginnings <- MCBeginnings
  Behind <- MCBehind
  Requests <- MCRequests
  TextCap = 9
  UintMod = 40
  Undecided = Undecided
  Nothing = Nothing
CHECK_DEADLOCK FALSE
INVARIANTS
  TypeOK
  FailsClosed
  OrderingExported
PROPERTIES
  ChoosesBest

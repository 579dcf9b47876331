SPECIFICATION Spec
CONSTANTS
  Radix = 4
  ImmMax = 7
  Slot = 2
  Cap = 5
  MaxBlock = 4
  Jobs <- MC_Jobs
  Starts <- MC_Starts
CHECK_DEADLOCK FALSE
INVARIANTS
  InBounds
  ReturnCodes
  RunsBlock
  Linkable
  KeyFixesCode
  ReadBack

SPECIFICATION Spec
CONSTANTS
  Configs <- AllConfigs
  Iters = 2
CHECK_DEADLOCK FALSE
INVARIANTS
  RoundsApart
  NoFalseWitness
PROPERTIES
  Finishes

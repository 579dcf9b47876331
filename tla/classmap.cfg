SPECIFICATION Spec
CONSTANTS
  ma = ma
  mb = mb
  None = None
  Modules = {ma, mb}
  Tags = {1}
  Space = 8
  Blocks <- SmallBlocks
  Proven <- ProvenHere
  Foreign <- SmallForeign
  MaxPuts = 2
INVARIANTS
  TypeOK
  LookupExact
  RelaxJustified
PROPERTIES
  LookupEnds

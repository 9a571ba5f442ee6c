CONSTANTS
  TypeInputs <- MC_TypeInputs
  NameInputs <- MC_NameInputs
INIT Init
NEXT Next
INVARIANTS
  TypeOK
  UnsupportedNeverIndexed
  IndexCondNecessary
  StrategyInBounds
  ExpandTypeKnown

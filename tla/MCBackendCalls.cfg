SPECIFICATION Spec
CONSTANTS
  Chains <- MCChains
  MaxPieces = 2
INVARIANTS WholeAnswer StreamFlagHonoured ErrorsAsAssumed
PROPERTIES ChainEnds
CHECK_DEADLOCK FALSE

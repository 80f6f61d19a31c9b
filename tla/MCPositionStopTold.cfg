SPECIFICATION Spec
CONSTANTS
  Kinds <- MCKinds
  Minted = 3
  MaxPrincipal = 1
INVARIANT StopTold
CHECK_DEADLOCK FALSE

SPECIFICATION Spec
CONSTANTS
  Kinds <- MCKinds
  Minted = 3
  MaxPrincipal = 1
INVARIANTS
  OwnOnly
  RecordTrue
PROPERTIES
  HoldsStand
CHECK_DEADLOCK FALSE

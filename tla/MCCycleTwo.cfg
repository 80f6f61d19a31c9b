SPECIFICATION Spec
CONSTANTS
  Procs = {w, s}
  Slots = {1}
  Manual = {m}
  Kinds = {"swap"}
  None = None
  Once = FALSE
  Owner = TRUE
  LateCatch = FALSE
SYMMETRY Symmetry
INVARIANTS
  
  MoneyTrue
PROPERTIES
  SignsReserved
  
CHECK_DEADLOCK FALSE

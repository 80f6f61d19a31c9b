SPECIFICATION FairSpec
CONSTANTS
  Procs = {w, s}
  Slots = {1}
  Manual = {}
  Kinds = {"approve", "swap"}
  None = None
  Once = TRUE
  Owner = FALSE
  LateCatch = TRUE
PROPERTIES
  Closes
  MovesOn
CHECK_DEADLOCK FALSE

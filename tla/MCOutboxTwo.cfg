SPECIFICATION Spec
CONSTANTS
  Procs = {w, s}
  Plans = {l1}
  Tx = {t1, t2}
  None = None
  Signers = {"leased", "locked"}
  Kinds = {"other"}
  Faults = TRUE
  Lag = 0
  Foreign = 0
  Nonces = {0, 1, 2}
SYMMETRY Symmetry
INVARIANTS
  ReceiptsDecide
PROPERTIES
  SettledFinal
  

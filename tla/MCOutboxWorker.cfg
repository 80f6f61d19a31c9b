SPECIFICATION Spec
CONSTANTS
  Procs = {w}
  Plans = {l1}
  Tx = {t1, t2}
  None = None
  Signers = {"leased", "bare"}
  Kinds = {"swap", "other"}
  Faults = TRUE
  Lag = 1
  Foreign = 1
  Nonces = {0, 1, 2, 3}
SYMMETRY Symmetry
INVARIANTS
  OneUnsettled
  NoNonceRace
PROPERTIES
  Promise

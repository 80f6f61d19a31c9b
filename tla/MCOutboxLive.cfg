SPECIFICATION FairSpec
CONSTANTS
  Procs = {w}
  Plans = {l1}
  Tx = {t1}
  None = None
  Signers = {"leased"}
  Kinds = {"swap", "other"}
  Faults = TRUE
  Lag = 0
  Foreign = 1
  Nonces = {0, 1, 2}
PROPERTIES
  Settles

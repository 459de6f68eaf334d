SPECIFICATION Spec
CONSTANTS
  Reader = {}
  Versions = {1, 2, 3, 4}
  Frames = 2
  PerPage = 1
  MaxPages = 4
  MaxTxn = 2
  Discards = TRUE
  AllocErrors = FALSE
  MaxMetaErrors = 1
  SlowEvictions = FALSE
INVARIANTS
  FreelistSound 
VIEW View

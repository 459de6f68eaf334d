SPECIFICATION Spec
CONSTANTS
  Reader = {r1, r2}
  Versions = {1, 2, 3, 4, 5, 6}
  Frames = 2
  PerPage = 2
  MaxPages = 4
  MaxTxn = 3
  Discards = TRUE
  AllocErrors = TRUE
  MaxMetaErrors = 0
  SlowEvictions = FALSE
INVARIANTS IInv
  TypeOK SnapshotIntact RecoveryIntact FreelistSound
VIEW View
SYMMETRY Symmetry

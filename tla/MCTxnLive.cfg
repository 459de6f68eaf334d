SPECIFICATION LiveSpec
CONSTANTS
  Reader = {r1}
  Versions = {1, 2, 3, 4, 5, 6}
  Frames = 2
  PerPage = 1
  MaxPages = 4
  MaxTxn = 2
  Discards = FALSE
  AllocErrors = TRUE
  MaxMetaErrors = 0
  SlowEvictions = FALSE
PROPERTY CommitEnds

SPECIFICATION CalmSpec
CONSTANTS
  Reader = {r1}
  Versions = {1, 2, 3, 4, 5, 6, 7, 8}
  Frames = 2
  PerPage = 2
  MaxPages = 6
  MaxTxn = 3
  Discards = FALSE
  AllocErrors = FALSE
  MaxMetaErrors = 0
  SlowEvictions = TRUE
INVARIANTS
  HeadIsOldest ChunksInBounds
PROPERTY NoPageLost
VIEW ListView

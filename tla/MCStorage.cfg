SPECIFICATION Spec
CONSTANTS
  PageSize = 2
  initFileSize = 2
  maxGrowth = 4
  pwritevMaxIOV = 2
  MaxPages = 14
  MaxRun = 5
  SectorWrites = FALSE
INVARIANTS PagesInFile RunInPlace

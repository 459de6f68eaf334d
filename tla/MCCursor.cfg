CONSTANTS
  PageSize = 80
  minCellsPerPage = 2
  K = 6
  middle = middle
  large = large
  Value = {middle, large}
  Nil = Nil
  Key <- MCKey
  KeyLen <- MCKeyLen
  ValueLen <- MCValueLen
  Puts <- MCPuts
  Modes <- MCModes
  Luck <- MCLuck
  CursorLuck <- MCLuck
  FillFactor = {0, 10, 65}
  MaxOps = 1
  Hazards = {}
SPECIFICATION CursorSpec
VIEW View
INVARIANTS TreeIsMap   CursorRight CursorPins 

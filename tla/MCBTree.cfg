CONSTANTS
  PageSize = 80
  minCellsPerPage = 2
  K = 6
  small = small
  middle = middle
  large = large
  Value = {small, middle, large}
  Nil = Nil
  smallLen = 2
  middleLen = 16
  largeLen = 80
  LuckBound = 8
  Key <- MCKey
  KeyLen <- MCKeyLen
  ValueLen <- MCValueLen
  Puts <- MCPuts
  Modes <- MCModes
  Luck <- MCLuck
SPECIFICATION Spec
VIEW View
INVARIANTS TypeOK TreeIsMap  PagesExact BaseIntact PinsReturned 

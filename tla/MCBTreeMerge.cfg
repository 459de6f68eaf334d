CONSTANTS
  PageSize = 4096
  minCellsPerPage = 4
  K = 6
  small = small
  middle = middle
  large = large
  Value = {small, middle, large}
  Nil = Nil
  smallLen = 10
  middleLen = 1000
  largeLen = 2000
  LuckBound = 0
  Key <- MCKey
  KeyLen <- MCKeyLen
  ValueLen <- MCValueLen
  Puts <- MCPuts
  Modes <- MCModes
  Luck <- MCLuck
SPECIFICATION Spec
VIEW View
INVARIANTS NoPanic

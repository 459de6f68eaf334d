SPECIFICATION Spec
CONSTANTS
  Reader = {r1}
  Writer = w
  Page = {0, 1, 2}
  NFrames = 2
  maxUsageCount = 1
  MaxTaken = 2
  IOErrors = TRUE
  FlushUndisturbed = TRUE
SYMMETRY Symmetry
VIEW View
INVARIANTS TypeOK PinnedIsLatest Mapping Ownership FileSound 

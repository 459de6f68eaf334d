SPECIFICATION Spec
CONSTANTS
  Reader = {r1}
  Writer = w
  Page = {0, 1, 2}
  NFrames = 2
  maxUsageCount = 1
  MaxTaken = 2
  IOErrors = FALSE
  FlushUndisturbed = FALSE
SYMMETRY Symmetry
INVARIANT FileSound

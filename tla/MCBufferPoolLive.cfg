SPECIFICATION LiveSpec
CONSTANTS
  Reader = {r1, r2}
  Writer = w
  Page = {0, 1}
  NFrames = 1
  maxUsageCount = 1
  MaxTaken = 2
  IOErrors = TRUE
  FlushUndisturbed = TRUE
PROPERTY CallsReturn

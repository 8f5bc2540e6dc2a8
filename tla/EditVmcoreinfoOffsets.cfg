SPECIFICATION RepairFairSpec
CONSTANTS
  NewLens = {0, 3}
  ALIGN = 2
  NHDR = 2
  Files <- MCFiles
  Dumps = {}
  Byte = {"|"}
  Texts = {}
  HOST = "LSB"
  MaxRuns = 0
  SEP = 2
  BS = 3
  PIPE = 2
INVARIANT AllOffsetsAdjusted
CHECK_DEADLOCK FALSE

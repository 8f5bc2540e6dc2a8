SPECIFICATION FairSpec
CONSTANTS
  Files <- MCFiles
  NewIds <- MCNewIds
  MAX_BUILDID_SIZE = 512
  UINT16 = 65536
PROPERTY OversizeIsSkipped

SPECIFICATION RepairFairSpec
CONSTANTS
  NewLens = {0, 1, 3, 4}
  ALIGN = 2
  NHDR = 2
  Files <- MCFiles
  Dumps <- MCDumps
  Byte = {"OSRELEASE=", "PAGESIZE=", "SYMBOL(", "x", "|"}
  Texts <- MCTexts
  HOST = "LSB"
  MaxRuns = 2
  SEP = 2
  BS = 3
  PIPE = 2
INVARIANTS
  NewNoteReadable
  SegmentsKeepData
  TailSafe
  BlocksExact
  RunsHealTable
  Repaired
PROPERTIES
  Terminates
  HuntEnds
CHECK_DEADLOCK FALSE

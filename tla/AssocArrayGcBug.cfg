SPECIFICATION ReproSpec
CONSTANTS
  FAN_OUT = 3
  Trees <- MCTrees
  MinLeaves = 4
  MaxLeaves = 4
INVARIANT NoMetaFolded
CHECK_DEADLOCK FALSE

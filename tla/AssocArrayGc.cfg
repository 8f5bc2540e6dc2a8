SPECIFICATION ReproFairSpec
CONSTANTS
  FAN_OUT = 3
  Trees <- MCTrees
  MinLeaves = 4
  MaxLeaves = 4
INVARIANTS
  KeptExactlyOnce
  NothingLostNothingDangling
  LinksAndCounts
  WalksInStep
  Compact
  OtherAssertionsHold
  RebuildsArray
PROPERTY Terminates
CHECK_DEADLOCK FALSE

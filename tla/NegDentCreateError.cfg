SPECIFICATION FairSpec
CONSTANTS
  Ops = {"stat"}
  Loops = {TRUE}
  Threads = {2}
  Counts = {2}
  ULONG = 3
  Failures = {"open", "op"}
PROPERTY ErrorCancelsThreads
CHECK_DEADLOCK FALSE

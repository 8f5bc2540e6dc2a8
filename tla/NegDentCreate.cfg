SPECIFICATION Spec
CONSTANTS
  Ops <- AllOps
  Loops = {FALSE}
  Threads <- ManyThreads
  Counts = {0, 2, 3}
  ULONG = 5
  Failures = {"pthread_create", "open", "op"}
INVARIANTS
  TypeOK
  SuccessMeansDone
  NoHalfDoneName
  ProgressHonest
CHECK_DEADLOCK FALSE

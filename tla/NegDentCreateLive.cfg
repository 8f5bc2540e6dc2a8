SPECIFICATION FairSpec
CONSTANTS
  Ops = {"stat", "create"}
  Loops = {TRUE, FALSE}
  Threads = {0, 2}
  Counts = {1, 2}
  ULONG = 3
  Failures = {"pthread_create", "op"}
PROPERTIES
  Terminates
  InterruptStops
  ErrorStops
CHECK_DEADLOCK FALSE

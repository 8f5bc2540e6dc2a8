SPECIFICATION Spec
CONSTANTS
  t1 = t1
  t2 = t2
  Task <- MCTask
  NoTask = NoTask
  Junk = Junk
  Byte = {1, 2}
  PAGE_SIZE = 2
  MAXSIZE = 3
  MaxAmt = 3
  MaxFaults = 1
SYMMETRY Symmetry
INVARIANT ReadReturnsWritten
CHECK_DEADLOCK FALSE

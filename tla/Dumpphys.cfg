SPECIFICATION FairSpec
CONSTANTS
  PAGE = 4
  MARK = 2
  Outputs <- MCOutputs
  Dumps <- MCDumps
INVARIANTS
  OutputExact
  NoneMeansNone
PROPERTY Terminates
CHECK_DEADLOCK FALSE

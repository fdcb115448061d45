SPECIFICATION FairSpec
CONSTANTS
  NULL = NULL
  Cmd = {c1, c2}
  Sync = {c1}
  NumPrio = 2
PROPERTY StopReturns
CHECK_DEADLOCK FALSE

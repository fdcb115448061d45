SPECIFICATION FairSpec
CONSTANTS
  NULL = NULL
  Cmd = {c1, c2, c3}
  Sync = {c1, c2}
  NumPrio = 2
INVARIANTS
  TypeOK
  PendingCounted
  CompletesOnce
  CommandAlive
  BypassedAtMostOnce
  StopDrains
PROPERTIES
  ExecuteBlockedReturns
  TopPriorityServed
CHECK_DEADLOCK FALSE

SPECIFICATION FairSpec
CONSTANTS
  NULL = NULL
  Block = {b1, b2, b3}
  Slot = {s1}
  Msg = {m1, m2, a1}
  BMsg = {m1, m2}
  Timed = {a1}
  ClbActions = {"FREE"}
  Faults = {"fatal", "recovery", "cleanup"}
  SMP = FALSE
INVARIANTS
  WorkConserving
  CleanupWaits
PROPERTIES
  BlockedReturns
  AsyncAnswered
  CleanupCompletes
CHECK_DEADLOCK FALSE

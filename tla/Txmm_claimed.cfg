SPECIFICATION Spec
CONSTANTS
  NULL = NULL
  Block = {b1, b2}
  Slot = {s1}
  Msg = {m1, a1}
  BMsg = {m1}
  Timed = {}
  ClbActions = {"FREE"}
  Faults = {}
  SMP = TRUE
INVARIANT ClaimedBlockOwned
CHECK_DEADLOCK FALSE

SPECIFICATION RodHistorySpec
CONSTANTS
  RodLimit = 8
  RodSlots = 3
  RodWin = {3, 4}
  PktMax = 18
INVARIANT RodStatements

SPECIFICATION WdsHistorySpec
CONSTANTS
  Addr = {p}
  MaxPeers = 1
  EventMax = 2
  TaskMax = 1
  EntryMax = 2
INVARIANT WdsStatements

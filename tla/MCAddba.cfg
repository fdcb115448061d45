SPECIFICATION BaHistorySpec
CONSTANTS
  TxTid = {t1}
  RxTid = {t1}
  AggrMax = 1
  ReordMax = 1
  MaxRetransmissions = 2
  MaxRejects = 2
  StatusMax = 1
  ReviveMax = 1
  OthersMax = 1
  BaFaults = {}
INVARIANT BaAssertions

SPECIFICATION BuffersSpec
CONSTANTS
  NULL = NULL
  Block = {b1, b2, b3}
  Slot = {s1, s2}
  Msg = {m1, m2, a1, a2}
  BMsg = {m1, m2}
  Timed = {a1}
  ClbActions = {"FREE", "SEND", "KEEP"}
  Faults = {"fatal", "recovery"}
  SMP = FALSE
  TxTid = {t1}
  RxTid = {t1}
  AggrMax = 1
  ReordMax = 1
  MaxRetransmissions = 1
  MaxRejects = 2
  StatusMax = 1
  ReviveMax = 1
  OthersMax = 1
  BaFaults = {}
  RodLimit = 8
  RodSlots = 4
  RodWin = {1, 2, 4}
  PktMax = 18
  Addr = {p}
  MaxPeers = 1
  EventMax = 2
  TaskMax = 1
  EntryMax = 2
  ScanBands = 2
  BssBands = {2}
  ChunkMax = 2
INVARIANTS
  BuffersTypeOK
  TypeOK
  BlocksCoherent
  SlotsAccounted
  OkConfirmedWhileActive
  BaReferences
  BaReorderingMatchesState
  BaNegotiation
  RodInOrder
  RodSlotsExact
  WdsStaReferenced
  WdsNeverStuck
  ScanOneContinuation
  ScanLeavesNothing
PROPERTY NoOvertaking

SPECIFICATION DataPathSpec
CONSTANTS
  Vap = {m, s1}
  MasterVap = m
  FastNum = 1
  FullNum = 1
  CompleteRcvry = FALSE
  RcFaults = {"forced_none"}
  SqVap = {a}
  SqMaster = a
  SqSta = {s}
  StaVap <- StaVapMC
  NAc = 1
  NBds = 2
  TxLimit = 2
  PmLimit = 1
  UapsdLimit = 1
  SqLimits <- LimitsMC
  SqExtra = {b}
  QMax = 1
  NullMax = 1
  SqRecovers = TRUE
  SqSmp = FALSE
  NULL = NULL
  Block = {b1, b2, b3}
INVARIANTS
  DataPathTypeOK
  RcvryAlone
  RcvryLeftReady
  RcvryRestores
  SqCounted
  SqNoneForgotten
  TypeOK
  RingCoherent
PROPERTIES
  RcvryEnds
  RcvryRevives
  SqFlowResumes
  FifoSpec

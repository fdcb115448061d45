SPECIFICATION SqSpec
CONSTANTS
  SqVap = {a, b}
  SqMaster = a
  SqSta = {}
  StaVap <- StaVapMC
  NAc = 1
  NBds = 2
  TxLimit = 2
  PmLimit = 1
  UapsdLimit = 1
  SqLimits <- LimitsMC
  SqExtra = {}
  QMax = 1
  NullMax = 0
  SqRecovers = FALSE
  SqSmp = FALSE
PROPERTY SqFlowResumes

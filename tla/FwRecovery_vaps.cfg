SPECIFICATION RcvrySpec
CONSTANTS
  Vap = {m, s1, s2}
  MasterVap = m
  FastNum = 1
  FullNum = 1
  CompleteRcvry = FALSE
  RcFaults = {}
PROPERTY RcvryEnds
CHECK_DEADLOCK FALSE

SPECIFICATION ScanSpec
CONSTANTS
  ScanBands = 2
  BssBands = {1, 2}
  ChunkMax = 1
PROPERTY ScanStatements
CHECK_DEADLOCK FALSE

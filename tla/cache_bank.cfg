SPECIFICATION Spec
CONSTANTS
  Tags = {1, 2, 3}
  Sectors = {0, 1}
  Bytes = {1, 2}
  Harts = {1, 2}
  PassSize = 1
  Latency = 2
  PipeDepth = 2
  Depth = 2
  MaxReqs = 3
  Configs <- MCConfigs
  NoTag = NoTag
INVARIANTS LoadsSeeOrderUnlessOvertaken SlotsReserved OneFillPerChain  QuietValue
PROPERTIES ForeignBytesKept EverythingSettles
CHECK_DEADLOCK FALSE

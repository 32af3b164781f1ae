SPECIFICATION Spec
CONSTANTS
  Tags = {1}
  Sectors = {0}
  Bytes = {1}
  Harts = {1, 2}
  PassSize = 1
  Latency = 2
  PipeDepth = 2
  Depth = 2
  MaxReqs = 4
  Configs <- WriteThroughConfigs
  NoTag = NoTag
INVARIANT LoadsSeeProgramOrder
CHECK_DEADLOCK FALSE

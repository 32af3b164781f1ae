SPECIFICATION Spec
CONSTANTS
  Tags = {1}
  Sectors = {0}
  Bytes = {1}
  Harts = {1}
  PassSize = 1
  Latency = 2
  PipeDepth = 2
  Depth = 2
  MaxReqs = 1
  Configs <- StoreConfigs
  NoTag = NoTag
INVARIANT FlushReachesRam
CHECK_DEADLOCK FALSE

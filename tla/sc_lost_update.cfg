SPECIFICATION Spec
CONSTANTS
  Tags = {1}
  Sectors = {0}
  Bytes = {1}
  Harts = {1, 2}
  PassSize = 1
  Latency = 2
  PipeDepth = 2
  Depth = 2
  MaxReqs = 3
  Configs <- LlcStoreConfigs
  NoTag = NoTag
INVARIANT ScIsAtomic
CHECK_DEADLOCK FALSE

SPECIFICATION Spec
CONSTANTS
  Tags = {1, 2, 3}
  Sectors = {0}
  Bytes = {1}
  Harts = {1}
  PassSize = 1
  Latency = 2
  PipeDepth = 2
  Depth = 2
  MaxReqs = 5
  Configs <- EvictConfigs
  NoTag = NoTag
INVARIANTS MissFindsSlot
CHECK_DEADLOCK FALSE

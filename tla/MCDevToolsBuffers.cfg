CONSTANTS
  Capacity = 67108864
  Word = 1073741824
  Plan <- DevToolsPlan
  PageSizes = {65001}
  EngineSizes = {32000, 120007}
  Null = Null
SPECIFICATION Spec
INVARIANTS
  EveryBufferPlaced

CONSTANTS
  id = id
  class = class
  v = v
  w = w
  MaxNode = 6
  Names = {id, class}
  Values = {v, w}
  QueueCapacity = 40
  None = None
  Labels <- MCLabels
  Room = 1
SPECIFICATION DiffSpec
INVARIANTS
  DiffConverges
  OldTreeLinked
  QuietWhenEqual
  PatchesReplay
CHECK_DEADLOCK FALSE

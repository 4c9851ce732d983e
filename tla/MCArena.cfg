CONSTANTS
  Capacity = 40
  Word = 64
  Sizes = {0, 1, 8, 13, 16}
SPECIFICATION Spec
INVARIANTS
  BlocksApart
  BlocksAligned
PROPERTIES
  RefusedStaysRefused

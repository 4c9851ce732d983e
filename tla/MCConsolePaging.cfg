CONSTANTS
  Capacity = 2
  IdModulus = 5
  Kinds <- MCKinds
  Texts = {"t", "u"}
  MaxLogged = 6
  MaxDepth = 2
  Blank = Blank
  Levels = {2}
  Queries = {"t"}
  Hits <- MCHits
  Limits = {1, 2}
SPECIFICATION PagingSpec
INVARIANTS
  IdsConsecutive
  NestingContinuous
  PageIsSlice
  PagesInOrder
PROPERTIES
  RingIsLog

CONSTANTS
  Ids <- MCIds
  Shallow <- MCShallow
  Edges <- MCEdges
  Orders <- MCOrders
  Feeds <- MCFeeds
  MaxEdges = 6
  EdgesFrom = 3
  Unreached = 999
  IterationCap = 20
  SizeWord = 29
  None = None
SPECIFICATION HeapSpec
INVARIANTS
  DominatorsExact
  RetainedExact
  AnyFeedBounded
CHECK_DEADLOCK FALSE

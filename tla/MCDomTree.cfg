CONSTANTS
  div = div
  span = span
  card = card
  active = active
  MaxNode = 4
  Names <- MCNames
  Values <- MCValues
  Tag <- MCTag
  Selectors <- MCSelectors
  MaxParts = 3
  Maxes = {2}
  QueueCapacity = 0
  None = None
SPECIFICATION Spec
INVARIANTS
  ListsLinked
  ChildrenCounted
  SearchesExact
PROPERTIES
  PointersAreTree

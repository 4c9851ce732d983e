CONSTANTS
  a = a
  b = b
  p = p
  longA = longA
  longB = longB
  Labels <- MCLabels
  Stored <- MCStored
  Times = {0, 1, 3}
  MaxTimers = 3
  None = None
  RequestIds = {1, 3}
  MaxRequests = 3
  MapCapacity = 2
  Moments = {0, 1, 2}
  Sizes = {3}
  SizeModulus = 4
  Headers = {h}
  MaxTold = 2
  Versions = {1, 2}
  Statuses = {r, s}
  EventNames = {e}
  MaxWorkers = 3
  MaxWorkerEvents = 1
  MaxItems = 4
  ItemLevels = {1, 4}
  Messages = {"ax", "b"}
  Searches <- MCSearches
  Scrolls = {0, 1, 2, 3, 5, 8, 12}
  Viewports = {1, 3, 5}
  RowHeights = {1, 3}
  Overscans = {0, 1, 2}
  AllPaths = {"", "/", "/a", "/a/b"}
  Root = "/"
  Empty = ""
  ContentLength <- MCContentLength
  MaxFiles = 4
  NoContent = NoContent
  Durations = {0, 17, 51}
  Shifts = {0, 1}
  MaxFrames = 3
  RecentFrames = 2
  MaxReported = 4
  EventKinds = {k}
  Processes = {1, 2}
  Threads = {1}
  ArgNames = {x}
  MaxEvents = 1
  MaxArgs = 1
  MaxThreads = 1
  Boxes <- MCBoxes
  MaxNodes = 4
  MaxArea = 25
  Points <- MCPoints
SPECIFICATION PanelSpec
INVARIANTS
  ThroughputExact
  FilteredSinceFilter
  WindowShowsViewport
  FramesSummed
  HitInnermost
PROPERTIES
  TableIsMap
  RequestsAreNewest
  WorkersAreNewest
  FilesAreMap

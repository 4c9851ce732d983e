CONSTANTS
  Local = local  Session = session
  Keys = {}
  Values = {short, long}
  Names = {n1}
  Domains = {}
  Urls = {u1, u2}
  Length <- OneEach
  Quotas = {4}
  MaxItems = 3
  MaxMade = 2
  None = None
SPECIFICATION HistorySpec
PROPERTIES EvictsOldestFirst
CHECK_DEADLOCK FALSE

CONSTANTS
  k1 = k1  k2 = k2  short = short  long = long  n1 = n1  d1 = d1
  u1 = u1  u2 = u2 
  Local = local  Session = session
  Keys = {k1, k2}
  Values = {short, long}
  Names = {n1}
  Domains = {d1}
  Urls = {u1, u2}
  Length <- MCLength
  Quotas = {4, 7}
  MaxItems = 3
  MaxMade = 3
  None = None
SYMMETRY Alike
SPECIFICATION Spec
PROPERTIES StorageIsMaps EvictsJustEnough
CHECK_DEADLOCK FALSE

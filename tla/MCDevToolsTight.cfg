CONSTANTS
  Capacity = 84
  Word = 256
  Plan <- TightPlan
  PageSizes = {1, 13}
  EngineSizes = {8, 10}
  Null = Null
SPECIFICATION Spec
INVARIANTS
  ResetRestoresLayout
  PageApartFromEngines

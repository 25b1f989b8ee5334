SPECIFICATION FairSpec
CONSTANTS
  N = 2
  Finalizers <- FirstOnly
  Initializers = {}
  Terminators = {}
  Outcomes <- LastGivesUp
  PrepareOutcomes = {"ok"}
  HasConditions = TRUE
  HasSpread = FALSE
  ReadOnly = FALSE
  Initializer = ""
  Terminator = ""
  Cached = TRUE
  Foreign = {"x"}
  Claims0 = {}
  HalfDelay = 1
  MaxTime = 0
  MaxEdits = 1
  MaxFaults = 2
PROPERTIES Quiesces DeletionCompletes
CHECK_DEADLOCK FALSE

SPECIFICATION FairSpec
CONSTANTS
  N = 1
  Finalizers <- NoFin1
  Initializers = {}
  Terminators = {}
  Outcomes <- LastGivesUp
  PrepareOutcomes = {"ok"}
  HasConditions = FALSE
  HasSpread = TRUE
  ReadOnly = FALSE
  Initializer = ""
  Terminator = ""
  Cached = TRUE
  Foreign = {}
  Claims0 = {}
  HalfDelay = 2
  MaxTime = 2
  MaxEdits = 1
  MaxFaults = 0
PROPERTIES Quiesces
CHECK_DEADLOCK FALSE

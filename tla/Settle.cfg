SPECIFICATION FairSpec
CONSTANTS
  N = 1
  Finalizers <- NoFin1
  Initializers = {}
  Terminators = {}
  Outcomes <- Recovering
  PrepareOutcomes = {"ok"}
  HasConditions = FALSE
  HasSpread = TRUE
  ReadOnly = FALSE
  Initializer = "i"
  Terminator = ""
  Cached = TRUE
  Foreign = {}
  Claims0 = {"i"}
  HalfDelay = 2
  MaxTime = 2
  MaxEdits = 1
  MaxFaults = 1
PROPERTIES Converges Initializes Quiesces
CHECK_DEADLOCK FALSE

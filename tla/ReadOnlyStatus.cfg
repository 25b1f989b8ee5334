SPECIFICATION Spec
CONSTANTS
  N = 1
  Finalizers <- NoFin1
  Initializers = {}
  Terminators = {}
  Outcomes <- AllEnds
  PrepareOutcomes = {"ok"}
  HasConditions = FALSE
  HasSpread = FALSE
  ReadOnly = TRUE
  Initializer = "i"
  Terminator = ""
  Cached = TRUE
  Foreign = {}
  Claims0 = {"i"}
  HalfDelay = 1
  MaxTime = 0
  MaxEdits = 1
  MaxFaults = 2
PROPERTIES ReadOnlyKeepsStatus
CHECK_DEADLOCK FALSE

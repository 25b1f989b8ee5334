SPECIFICATION Spec
CONSTANTS
  N = 1
  Finalizers <- NoFin1
  Initializers = {}
  Terminators = {}
  Outcomes <- Recovering
  PrepareOutcomes = {"ok"}
  HasConditions = FALSE
  HasSpread = TRUE
  ReadOnly = FALSE
  Initializer = ""
  Terminator = ""
  Cached = TRUE
  Foreign = {}
  Claims0 = {}
  HalfDelay = 1
  MaxTime = 0
  MaxEdits = 1
  MaxFaults = 2
PROPERTIES LabelGoneOnSuccess
CHECK_DEADLOCK FALSE

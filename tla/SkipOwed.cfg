SPECIFICATION Spec
CONSTANTS
  N = 1
  Finalizers <- NoFin1
  Initializers = {}
  Terminators = {}
  Outcomes <- Recovering
  PrepareOutcomes = {"ok"}
  HasConditions = FALSE
  HasSpread = TRUE
  ReadOnly = FALSE
  Initializer = ""
  Terminator = ""
  Cached = FALSE
  Foreign = {}
  Claims0 = {}
  HalfDelay = 1
  MaxTime = 0
  MaxEdits = 1
  MaxFaults = 1
INVARIANTS SkipOnlyWhenComplete
CHECK_DEADLOCK FALSE

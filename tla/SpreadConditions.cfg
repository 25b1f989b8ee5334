SPECIFICATION Spec
CONSTANTS
  N = 2
  Finalizers <- NoFin2
  Initializers = {1}
  Terminators = {}
  Outcomes <- AllEnds
  PrepareOutcomes = {"ok", "retry", "final"}
  HasConditions = TRUE
  HasSpread = TRUE
  ReadOnly = FALSE
  Initializer = "i"
  Terminator = ""
  Cached = TRUE
  Foreign = {}
  Claims0 = {"i"}
  HalfDelay = 1
  MaxTime = 1
  MaxEdits = 1
  MaxFaults = 1
INVARIANTS TypeOK ObservedMeansProcessed ReadyIsHonest InitializerHeld
CHECK_DEADLOCK FALSE

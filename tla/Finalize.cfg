SPECIFICATION Spec
CONSTANTS
  N = 3
  Finalizers <- OwnFin3
  Initializers = {}
  Terminators = {3}
  Outcomes <- AllEnds
  PrepareOutcomes = {"ok", "retry", "final"}
  HasConditions = FALSE
  HasSpread = FALSE
  ReadOnly = FALSE
  Initializer = ""
  Terminator = "t"
  Cached = TRUE
  Foreign = {"x"}
  Claims0 = {"t"}
  HalfDelay = 1
  MaxTime = 0
  MaxEdits = 1
  MaxFaults = 2
INVARIANTS CoveredUnlessFlipped RequeueHonoured TerminatorHeld
PROPERTY HonoursContract
CHECK_DEADLOCK FALSE

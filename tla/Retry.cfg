SPECIFICATION FairSpec
CONSTANTS
  Callers = {"a", "b", "c"}
  Fields = {"spec", "status"}
  StatusFields = {"status"}
  Target <- SpecAndStatus
  Live = {"b"}
  Steps = 5
  MaxEdits = 1
INVARIANTS TypeOK ConflictsHaveRivals
PROPERTIES ImplementsAtomic Returns
CHECK_DEADLOCK FALSE

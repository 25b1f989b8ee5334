\* Batches of two tuples by two callers, over ids that expire and go stale.
CONSTANTS
  Callers = {"p", "q"}
  Tuples = {"a", "b"}
  Jobs <- MCJobs
  MaxChanges = 2
  MaxFaults = 1
SPECIFICATION Spec
CHECK_DEADLOCK FALSE
INVARIANTS TypeOK Ensured FailuresExplained
PROPERTY Converges

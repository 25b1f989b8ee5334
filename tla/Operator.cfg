SPECIFICATION FairOperator
CONSTANTS
  Items = {"a"}
  StaticDelay = 1
  StaticWindow = 2
  InitialBackoff = 2
  MaxBackoff = 5
  RequeueAfter = 2
  Timeout = 2
  WorkTime = 1
  Cases <- SomeCases
  Labels = {"", "dev"}
INVARIANTS OperatorTypeOK ChangesQueued StoppedInTime
PROPERTIES NeverShrinks KeepsBackingOff SignalHeeded TakenOver HandedOver
CHECK_DEADLOCK FALSE

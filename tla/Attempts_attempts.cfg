SPECIFICATION Spec
CONSTANTS
  Results = {"tests fail"}
  MaxUnchanged = 2
  ViewLimit = 2
  Pace = 0
  MaxTicks = 4
  MaxFaults = 2
INVARIANTS
  JudgedByALaterTick
  StuckImplementerStopped
  ViewAgreesWithLedger
CHECK_DEADLOCK FALSE

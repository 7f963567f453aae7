SPECIFICATION Spec
CONSTANTS
  Workers = {w1, w2}
  NoWorker = NoWorker
  Digests = {d1}
  NoDigest = NoDigest
  Observations <- MCObservations
  ElapsedTimes = {0}
  Budget <- MCBudget
  HeldSteps = {}
  FirstStatuses = {"UNREGISTERED"}
  Commands = {"start","abandon"}
  LeaseTerm = 2
  Beat = 1
  MaxRenewals = 2
  MaxMissed = 1
  Timely = TRUE
  Bounded = TRUE
  Steady = {}
  Explored <- MCActOrDone
  MaxRounds = 2
SYMMETRY MCSymmetry
INVARIANTS
  TypeOK
  OneReconcilePerGoal
  BudgetHeld
  OnlyOwnRunStarting
PROPERTIES
  SettledRunIsFinal
  LogSpec

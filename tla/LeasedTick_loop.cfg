SPECIFICATION Spec
CONSTANTS
  Workers = {w1, w2}
  NoWorker = NoWorker
  Digests = {d1, d2}
  NoDigest = NoDigest
  Observations <- MCObservations
  ElapsedTimes = {0}
  Budget <- MCLoopBudget
  HeldSteps = {}
  FirstStatuses = {"ACTIVE"}
  Commands = {}
  LeaseTerm = 2
  Beat = 1
  MaxRenewals = 0
  MaxMissed = 0
  Timely = TRUE
  Bounded = TRUE
  Steady = {}
  Explored <- MCLoopExplored
  MaxRounds = 3
SYMMETRY MCLoopSymmetry
INVARIANTS
  NoActOnUnchanged
  FewActsAfterReconciles
PROPERTIES
  NoRunAfterFailures
CHECK_DEADLOCK FALSE

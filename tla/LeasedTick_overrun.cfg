SPECIFICATION Spec
CONSTANTS
  Workers = {w1, w2}
  NoWorker = NoWorker
  Digests = {d1}
  NoDigest = NoDigest
  Observations <- MCObservations
  ElapsedTimes = {0}
  Budget <- MCOneRun
  HeldSteps = {"push_branch_declared_manual"}
  FirstStatuses = {"UNREGISTERED"}
  Commands = {"get"}
  LeaseTerm = 2
  Beat = 1
  MaxRenewals = 3
  MaxMissed = 2
  Timely = TRUE
  Bounded = FALSE
  Steady = {}
  Explored <- MCExplored
  MaxRounds = 1
SYMMETRY MCSymmetry
PROPERTIES
  SnapshotUnderLease
  OnlyReclaimIsCorrected
CHECK_DEADLOCK FALSE

SPECIFICATION FairSpec
CONSTANTS
  Workers = {w1, w2}
  NoWorker = NoWorker
  Digests = {d1}
  NoDigest = NoDigest
  Observations <- MCObservations
  ElapsedTimes = {0}
  Budget <- MCOneRun
  HeldSteps = {}
  FirstStatuses = {"ACTIVE"}
  Commands = {}
  LeaseTerm = 2
  Beat = 1
  MaxRenewals = 1
  MaxMissed = 0
  Timely = TRUE
  Bounded = FALSE
  Steady = {w2}
  Explored <- MCActOnly
  MaxRounds = 1
PROPERTIES
  LeasePassesOn
  OrphanSettled
CHECK_DEADLOCK FALSE

SPECIFICATION Spec
CONSTANTS
  Workers = {w1, w2}
  NoWorker = NoWorker
  Digests = {d1}
  NoDigest = NoDigest
  Observations <- MCObservations
  ElapsedTimes = {0}
  Budget <- MCOneRun
  HeldSteps = {}
  FirstStatuses = {"ACTIVE"}
  Commands = {"abandon"}
  LeaseTerm = 2
  Beat = 1
  MaxRenewals = 1
  MaxMissed = 0
  Timely = TRUE
  Bounded = TRUE
  Steady = {}
  Explored <- MCExplored
  MaxRounds = 1
SYMMETRY MCSymmetry
PROPERTIES
  TerminalIsFinal
CHECK_DEADLOCK FALSE

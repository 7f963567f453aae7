SPECIFICATION Spec
CONSTANTS
  Versions <- MCVersions
  Base = 0
  Protected = {2}
  CriteriaSets <- MCCriteriaSets
  Tended <- MCTended
  PortErrors = {"port_failed"}
  Absent = Absent
INVARIANTS
  ConclusionOfItsHead
  CommandPassedNow
  ReviewOfThisHead
  NoReviewOfUnreadCommits
  NoWorkLeftBehind
  ProtectedNeverPushed
CHECK_DEADLOCK FALSE

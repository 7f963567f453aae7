SPECIFICATION MCSpec
CONSTANTS
  Workflows = {test, gate}
  Excluded = {gate}
  PageSize = 2
  MaxRuns = 3
  Users = {author, member, passer}
  Author = author
  Permitted = {author, member}
  MaxReviews = 3
  MaxComments = 1
  Unknown = Unknown
  Contents = {c0, c1}
  RunIds = {r1, r2}
  Parts = {"rows"}
  NoRow = NoRow
  Moved = Moved
  Absent = Absent
  Launched = {"review", "investigate"}
  MaxTicks = 1
  MaxForeign = 2
SYMMETRY Symmetry
INVARIANTS
  ZeroIsGreen
  ApprovalIsGenuine
  NoFalseAlarm
  NothingSlipsThrough
CHECK_DEADLOCK FALSE

SPECIFICATION FairSpec
CONSTANTS
  Observed = {o1}
  NoDigest = NoDigest
  Decided <- MCDecided
  Policies <- MCPolicies
  Reports = {TRUE, FALSE}
  Issues = {}
  Overlapping = FALSE
  MaxCommits = 2
  MaxPRs = 2
  MaxWaiting = 1
INVARIANTS
  OnePullRequest
  CompleteHasPullRequest
  StopTold
PROPERTIES
  BranchSpec
  PullRequestFound
  CommittedWorkArrives

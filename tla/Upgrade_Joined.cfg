SPECIFICATION UpgradeSpec
CONSTANTS
  Requests = {q1, q2}
  Clones = {c1, c2}
  BranchNumbers = {1}
  None = None
  User = User
  MaxUserBranches = 0
INVARIANT ReportedPullsStay
CHECK_DEADLOCK FALSE

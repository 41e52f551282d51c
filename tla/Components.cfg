SPECIFICATION MCSpec
CONSTANTS
  NPaths = 1
  Readers = {1, 2}
  Sizes = {1, 2}
  MaxFiles = 2
  MaxFileBytes = 2
  MaxTotalBytes = 3
  MaxDiskChanges = 2
  Installs = {1, 2}
  FirstTexts <- MCFirstTexts
  MaxHookEdits = 1
  q1 = q1
  q2 = q2
  c1 = c1
  c2 = c2
  Requests = {q1, q2}
  Clones = {c1, c2}
  BranchNumbers = {1, 2}
  None = none
  User = user
  MaxUserBranches = 1
  Dirs = {"root", "lib", "nested", "deep", "dist"}
  Root = "root"
  ParentDir <- MCParentDir
  IgnoredDirs = {"dist"}
  MaxMoves = 4
  Names = {"a", "b", "w", "W"}
  Lockfiles <- MCLockfiles
  Workspaces <- MCWorkspaces
  Logs <- MCLogs
  NoFile = nofile
  Severities = {"high", "low"}
  Gates = {"none", "high", "low", "severe"}
  Dependencies <- MCDependencies
  MaxInputs = 2
INVARIANTS
  BudgetKept UsageExact ReadsOneVersion InstalledHookRuns NothingStranded
  PullsKeepTheirBranches NewTreesWatched EdgesAreNodes DocumentsAgree
  AddedLinesExact ExitTellsTruth
PROPERTIES NoReadAfterAbort UserTextKept
CHECK_DEADLOCK FALSE

SPECIFICATION FairWatchSpec
CONSTANTS
  File = {f1}
  Ignored = {}
  MaxChanges = 1
PROPERTIES LatestChangeAnalyzed
CHECK_DEADLOCK FALSE

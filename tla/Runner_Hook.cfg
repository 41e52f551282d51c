SPECIFICATION MCSpec
CONSTANTS
  N = 3
  Isolated = {2}
  Concurrency = 2
  NPaths = 2
  Readers = {1, 2}
  GitIgnore = 2
  Sizes = {1, 2}
  MaxFiles = 2
  MaxFileBytes = 2
  MaxTotalBytes = 3
  MaxDiskChanges = 1
  Oids = {1, 2}
INVARIANTS
  SlotsAccounted OutlivesOnlyFlagged EveryAnalyzerReported
  BlobsExact NoChildOutlives VerdictHonest OthersFindingsDoNotBlock
PROPERTIES NothingStartsAfterCancel RunReturns HookAnswers
CHECK_DEADLOCK FALSE

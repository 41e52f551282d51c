SPECIFICATION MCSpec
CONSTANTS
  N = 2
  MaxRequests = 2
  Retries = 1
  Batches = 1
  File = {f1, f2, ignored}
  Ignored = {ignored}
  MaxChanges = 2
INVARIANTS OutcomeIsTrue CoverageIsHonest ExitIsHonest PassesDoNotOverlap NoChangeForgotten
PROPERTIES AsksNothingAfterAbort ScanReports ChangesAnalyzed
CHECK_DEADLOCK FALSE

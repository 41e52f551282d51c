SPECIFICATION ScanSpec
CONSTANTS
  N = 1
  MaxRequests = 8
  Retries = 1
  Batches = 1
INVARIANTS NothingOutlivesScan
CHECK_DEADLOCK FALSE

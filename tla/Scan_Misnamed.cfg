SPECIFICATION LookupSpec
CONSTANTS
  N = 1
  MaxRequests = 8
  Retries = 0
INVARIANTS MisnamedFailsClosed
CHECK_DEADLOCK FALSE

SPECIFICATION HistSpec
CONSTANTS
  c1 = c1
  c2 = c2
  c3 = c3
  e1 = e1
  e2 = e2
  e3 = e3
  i1 = i1
  Call = {c1, c2, c3}
  Entry = {e1, e2, e3}
  EntryOf <- MCEntryOf
  Clearing = {c3}
  Earlier <- MCEarlier
  MaxEntries = 0
  Inode = {i1}
  Retries = 1
  CleanupLimit = 3
  CanCrash = {c2}
  ChecksFail = TRUE
  Stalls = FALSE
  RacyTakeover = FALSE
INVARIANTS Exclusive Retained
PROPERTIES AppendsAndClearsAreSerial
CHECK_DEADLOCK FALSE

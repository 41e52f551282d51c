SPECIFICATION HistSpec
CONSTANTS
  c1 = c1
  c2 = c2
  c3 = c3
  e1 = e1
  e2 = e2
  e3 = e3
  i1 = i1
  i2 = i2
  Call = {c1, c2}
  Entry = {e1, e2, e3}
  EntryOf <- MCDistinctEntryOf
  Clearing = {}
  Earlier <- MCOlder
  MaxEntries = 500
  Inode = {i1, i2}
  Retries = 1
  CleanupLimit = 3
  CanCrash = {}
  ChecksFail = FALSE
  Stalls = TRUE
  RacyTakeover = FALSE
PROPERTIES ReplacesCurrent
CHECK_DEADLOCK FALSE

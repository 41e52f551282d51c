SPECIFICATION FairHistSpec
CONSTANTS
  c1 = c1
  c2 = c2
  c3 = c3
  e1 = e1
  e2 = e2
  e3 = e3
  i1 = i1
  Call = {c1, c2}
  Entry = {e1, e2, e3}
  EntryOf <- MCEntryOf
  Clearing = {}
  Earlier <- MCEarlier
  MaxEntries = 2
  Inode = {i1}
  Retries = 1
  CleanupLimit = 3
  CanCrash = {c1}
  ChecksFail = FALSE
  Stalls = TRUE
  RacyTakeover = TRUE
INVARIANTS NoDuplicates
PROPERTIES SweptNeverCommits EveryCallEnds
CHECK_DEADLOCK FALSE

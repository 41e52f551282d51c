SPECIFICATION VaultSpec
CONSTANTS
  c1 = c1
  c2 = c2
  c3 = c3
  c4 = c4
  pA = pA
  pB = pB
  s1 = s1
  s2 = s2
  v1 = v1
  v2 = v2
  i1 = i1
  Call = {c1, c2, c3, c4}
  Password = {pA, pB}
  Secret = {s1, s2}
  Value = {v1, v2}
  Request <- EveryKind
  Earlier <- OneSecret
  Inode = {i1}
  Retries = 0
  CleanupLimit = 3
  CanCrash = {}
  ChecksFail = FALSE
  Stalls = FALSE
  RacyTakeover = FALSE
INVARIANTS LeaseNotStranded
PROPERTIES VaultMutationsAreSerial KeepsPasswordUntilDestroyed
CHECK_DEADLOCK FALSE

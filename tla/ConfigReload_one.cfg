CONSTANTS
  c1 = c1
  c2 = c2
  v1 = v1
  v2 = v2
  Ids = {c1}
  Versions = {v1, v2}
  Slots = {s1, s2}
  FailedAfterCrashes = 1
  Faults = {"crash", "reject"}
  Candidates <- MCOneCollector
  ReadyProbes = TRUE
SPECIFICATION FairSpec
CHECK_DEADLOCK FALSE
INVARIANT ReadyMeansPolling
PROPERTY ReloadsEnd

CONSTANTS
  Ids = {c1}
  Versions = {v1, v2}
  Slots = {s1, s2}
  FailedAfterCrashes = 2
  Faults = {"crash", "reject"}
SPECIFICATION FairLifecycleSpec
CHECK_DEADLOCK FALSE
INVARIANTS
  OnePollerPerCollector
  RegistryTruthful
PROPERTY LifecycleProgress

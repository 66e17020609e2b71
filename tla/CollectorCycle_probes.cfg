CONSTANTS
  Targets = {t1}
  NProbes = 2
  MaxConcurrent = 1
  MaxCalls = 2
  Interval = 5
  MaxBackoff = 8
  FailureCap = 3
  Gaps <- MCGaps
SPECIFICATION FairSpec
INVARIANTS
  CallsTracked
  SeriesTruthful
  FailuresCounted
PROPERTY CyclesGoOn

CONSTANTS
  Rows <- MCTwoRows
  MaxTime = 3
  Lag = 1
  InitialLookback = 1
  BatchLimit = 2
  MaxBatches = 2
  Minute = 2
  Window = 0
  MaxCrashes = 1
SPECIFICATION FairSpec
CHECK_DEADLOCK FALSE
PROPERTY TimelyRowsDelivered


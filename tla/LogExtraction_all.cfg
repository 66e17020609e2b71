SPECIFICATION MCSpec
CONSTANTS
    Rows <- MCRows
    MaxTime = 3
    Lag = 1
    InitialLookback = 1
    BatchLimit = 2
    MaxBatches = 2
    Minute = 2
    Window = 1
    MaxCrashes = 1
    LogTypes = {"screen", "timer"}
    MaxBatchBytes = 2
    MaxHeldBytes = 2
    MinBatchBytes = 1
    Overshoot = 1
    Limits = {3}
    DefaultLimit = 5
    HistogramSeries = 2
    Applications = {"a", "?"}
    Garbled = "?"
    Other = "other"
    MaxApplications = 1
    Unset = Unset
    Callers = {c1, c2}
    Closer = closer
    Targets = {t1}
    Credentials = {old, new}
    Logins = {user}
    Ids = {1, 2, 3}
    None = None
CHECK_DEADLOCK FALSE
INVARIANTS NoRowPassed NoRowTwice RecountTruthful HeldBytesExact SeriesWithinBudget HandlesTracked
PROPERTY WaitsEnd

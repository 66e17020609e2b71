SPECIFICATION MCSpec
CONSTANTS
    Files <- MCFiles
    KeepJournals = 1
    MaxRuns = 2
    MaxPolls = 2
    MaxSignals = 2
    None = None
    Requests = {1, 2, 3}
    MaxInFlight = 1
    Every = 2
    PerSecond = 2
    Delay = 2
    PruneEvery = 2
    Retention = 3
    Reach = 3
    MaxTime = 5
    Never = Never
CHECK_DEADLOCK FALSE
INVARIANTS JournalFaithful ChecksInWindow CountsAddUp LedgerExact
PROPERTIES RunsEnd 

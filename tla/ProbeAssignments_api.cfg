CONSTANTS
    NumTargets = 2
    Builtins = {"waits", "sizes"}
    Overrides <- MCOverrides
    Hosts = {"h1", "h2"}
    Credentials = {"c1"}
    Intervals = {30, 60}
    DefTimeout <- MCDefTimeout
    Callers = {p1, p2}
    Replicas = {r1}
    Files <- MCFiles
    Stocks <- MCStocks
    MaxChanges = 4
    None = None
CHECK_DEADLOCK FALSE
SPECIFICATION FairSpec
INVARIANTS RenderIsApproved ApiAppliedWasRun
PROPERTY ApprovedIsApplied

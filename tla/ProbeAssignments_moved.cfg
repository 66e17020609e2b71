CONSTANTS
    NumTargets = 1
    Builtins = {"waits"}
    Overrides <- MCOverrides
    Hosts = {"h1", "h2"}
    Credentials = {"c1"}
    Intervals = {30}
    DefTimeout <- MCDefTimeout
    Callers = {p1}
    Replicas = {r1}
    Files <- MCMoves
    Stocks <- MCStocks
    MaxChanges = 3
    None = None
CHECK_DEADLOCK FALSE
SPECIFICATION Spec
INVARIANT AppliedWasRun

SPECIFICATION MCSpec
CONSTANTS
    NumApps = 2
    AppNames = {"shop", "crm"}
    CompNames = {1, 2}
    Modes = {"push"}
    SourceNames = {"web"}
    Callers = {c1, c2}
    Replicas = {r1, r2}
    Files <- MCFiles
    PageLimit = 1
    MaxChanges = 3
    None = None
CHECK_DEADLOCK FALSE
INVARIANTS NameHasOneOwner PagingComplete
 

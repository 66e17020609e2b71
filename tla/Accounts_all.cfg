SPECIFICATION MCSpec
CONSTANTS
    Users = {u1, u2}
    Ops = {o1, o2}
    Sessions = {s1}
    MaxEndings = 1
    NoOp = NoOp
    NoUser = NoUser
    NoSession = NoSession
    Accounts = {ann}
    Addresses = {ip}
    Attempts = {a1, a2, a3}
    AccountFailures = 1
    AddressFailures = 2
    MaxCount = 4
    NoKey = NoKey
SYMMETRY Symmetry
CHECK_DEADLOCK FALSE
INVARIANTS SessionsEndWithAccess AdminRemains NoLockCycle LimitsExact

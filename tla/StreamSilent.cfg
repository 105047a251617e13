SPECIFICATION Spec
CONSTANTS
    r1 = r1
    r2 = r2
    r3 = r3
    r4 = r4
    k1 = k1
    k2 = k2
    k3 = k3
    NoKey = NoKey
    Requests = {r1, r2}
    Priority <- Two
    Keys = {k1}
    KeyOf <- SameKey
    Allowlist <- AllAllowed
    TokenBudget <- BudgetOfOne
    CfgOf <- AllQuick
    RateMax = 0
    Counts = {1}
    Reports = {}
    Failures = {"dead_socket"}
    MaxResets = 0
    MaxLeaves = 0
    MayShutdown = FALSE
INVARIANTS
    NoSilentEnd

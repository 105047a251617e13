SPECIFICATION Spec
CONSTANTS
    r1 = r1
    r2 = r2
    r3 = r3
    r4 = r4
    k1 = k1
    k2 = k2
    k3 = k3
    NoKey = NoKey
    Requests = {r1, r2, r3, r4}
    Priority <- Two
    Keys = {k1, k2, k3}
    KeyOf <- MixedKeys
    Allowlist <- Restricted
    TokenBudget <- BudgetOfTwo
    CfgOf <- AllQuick
    RateMax = 0
    Counts = {2}
    Reports = {1}
    Failures = {"dead_socket"}
    MaxResets = 1
    MaxLeaves = 0
    MayShutdown = FALSE
INVARIANTS
    BooksAgree
    AttemptsFollowPriority

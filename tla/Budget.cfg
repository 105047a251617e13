SPECIFICATION FairSpec
CONSTANTS
    Handlers = {h1, h2, h3}
    TokenBudget = 2
    Chunks <- MCChunks
    MaxInt = 4
    Period = 1
    MaxResets = 1
INVARIANTS
    UsedWithinBudget
    UsedIsOutstanding
PROPERTIES
    ImplementsAtomic
    SomeCallReturns

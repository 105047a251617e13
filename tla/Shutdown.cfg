SPECIFICATION Spec
CONSTANTS
    Requests = {r1, r2, r3}
INVARIANTS
    ForceReachesAll
    CloseOnlyCutsLateSessions
PROPERTIES
    ShutdownEnds

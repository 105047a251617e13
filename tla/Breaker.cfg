SPECIFICATION FairSpec
CONSTANTS
    Requests = {r1, r2, r3, r4, r5}
    Cfg <- OneSuccess
INVARIANTS
    CircuitConsistent
    ProbeAttributable
    OneProbePerPhase
PROPERTIES
    NoLockout

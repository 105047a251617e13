SPECIFICATION ChaosSpec
CONSTANTS
    Streams = {s1, s2}
    Runs = 2
    MaxCuts = 2
INVARIANTS
    MismatchIsMisfire
    
    PercentileIsNearestRank
PROPERTIES
    HarnessEnds

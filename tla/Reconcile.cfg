SPECIFICATION Spec
CONSTANTS
    Keys = {k1}
    Providers = {p1, p2}
    Configured = {p1, p2}
    LastPeriod = 2
    Counts = {1}
    Reports = {0, 1}
    Threshold = 50
    MaxRecords = 3
    MaxRuns = 2
INVARIANTS
    SummaryCountsEverything
    FlagIsVerdict
    CompleteRunsCoverAll
PROPERTIES
    JobStops

SPECIFICATION BackgroundSpec
CONSTANTS
    s1 = s1
    s2 = s2
    r1 = r1
    r2 = r2
    AlertJob = {1, 2}
    AiJob = {3, 4, 5, 6}
    Search = {s1, s2}
    Request = {r1, r2}
    Job <- AllJobs
    Scenario <- Parts
    Attempts = 2
    MaxStalls = 1
    FreeLimit = 1
    ProLimit = 2
SYMMETRY BackgroundSymmetry
INVARIANTS BackgroundTypeOK AlertsDelivered WithinDailyLimit AnalysisAnswered
CHECK_DEADLOCK FALSE

CONSTANTS
    Threads = {1, 2, 3, 4}
    Addresses = {"x", "y"}
    Values = {0, 1, 2}
    Scenarios <- MCScenarios
    MaxAttempts = 2
    None = None
SPECIFICATION CheckSpec
CHECK_DEADLOCK FALSE
INVARIANT HistoryIsTruth
INVARIANT LifetimesKeptApart
INVARIANT VerdictSound
INVARIANT OrderIsWitness
INVARIANT CorrectBackendAccepted

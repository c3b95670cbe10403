SPECIFICATION FairSpec
CONSTANTS
    Tasks <- PairTasks
    Deps <- PairDeps
    FanIn <- PairFanIn
    MinSuccess <- PairMinSuccess
    MaxAttempts <- PairMaxAttempts
    Auditor = {}
    Publisher = {"publish"}
    Gate = {"gate"}
    MaxRetries = 0
    MaxRelays = 1
    Faults = {"crash", "duplicate", "budget", "late", "deadline"}
PROPERTIES
    RunEnds
    CancelEnds
    ReportSurfaces
CHECK_DEADLOCK FALSE

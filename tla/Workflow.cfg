SPECIFICATION Spec
CONSTANTS
    Tasks <- MCTasks
    Deps <- MCDeps
    FanIn <- MCFanIn
    MinSuccess <- MCMinSuccess
    MaxAttempts <- MCMaxAttempts
    Auditor = {"audit"}
    Publisher = {"publish"}
    Gate = {"gate"}
    MaxRetries = 1
    MaxRelays = 1
    Faults = {"budget", "late", "deadline", "abort"}
INVARIANTS
    DependenciesHold
    HasWorkUntilRetried
    EndsInOrder
PROPERTIES
    CancelIsFinal
    KeepsPromise
CHECK_DEADLOCK FALSE

SPECIFICATION Spec
CONSTANTS
    Tasks <- StageTasks
    Deps <- StageDeps
    FanIn <- StageFanIn
    MinSuccess <- StageMinSuccess
    MaxAttempts <- StageMaxAttempts
    Auditor = {"audit"}
    Publisher = {"publish"}
    Gate = {}
    MaxRetries = 0
    MaxRelays = 2
    Faults = {"crash", "duplicate", "budget", "late", "lease", "softlimit"}
INVARIANTS
    TypeOK
    OneAcceptedResult
    OneLiveAttempt
    NoLostDispatch
CHECK_DEADLOCK FALSE

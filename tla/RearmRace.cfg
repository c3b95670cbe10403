SPECIFICATION Spec
CONSTANTS
    Tasks <- StageTasks
    Deps <- StageDeps
    FanIn <- StageFanIn
    MinSuccess <- StageMinSuccess
    MaxAttempts <- StageMaxAttempts
    Auditor = {"audit"}
    Publisher = {"publish"}
    Gate = {}
    MaxRetries = 1
    MaxRelays = 1
    Faults = {"budget"}
INVARIANT NoLostDispatch
CHECK_DEADLOCK FALSE

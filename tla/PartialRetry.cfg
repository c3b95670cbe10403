SPECIFICATION Spec
CONSTANTS
    Tasks <- FanTasks
    Deps <- FanDeps
    FanIn <- FanFanIn
    MinSuccess <- FanMinSuccess
    MaxAttempts <- FanMaxAttempts
    Auditor = {"audit"}
    Publisher = {}
    Gate = {}
    MaxRetries = 1
    MaxRelays = 1
    Faults = {}
INVARIANT LiveRunHasWork
CHECK_DEADLOCK FALSE

SPECIFICATION Spec
CONSTANTS
    Requests <- MCRequests
    SessionOf <- MCSessionOf
    AddressOf <- MCAddressOf
    MayAsk <- MCMayAsk
    PerHour = 2
    PerDay = 2
    Concurrent = 1
    QueueCapacity = 1
    Hour = 1
    Day = 2
    MaxTime = 2
    MaxFaults = 1
    Faults = {"crash", "disconnect", "outage", "loss", "retry"}
INVARIANTS
    AdmissionWindow
    RunsWithinLimits
    NoLeak
    RetryAtIsEnough
CHECK_DEADLOCK FALSE

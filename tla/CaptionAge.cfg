SPECIFICATION Spec
CONSTANTS
    Slots = {"s1", "s2"}
    Videos = {"v1"}
    QueueOf <- OneVideo
    Routes = {"direct"}
    TTL = 2
    Lookups = 8
    MaxTries = 1
    MaxTime = 3
    Faults = {}
INVARIANT AgeKept
CHECK_DEADLOCK FALSE

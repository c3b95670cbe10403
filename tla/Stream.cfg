SPECIFICATION MCFairSpec
CONSTANTS
    Relays = {"r1", "r2"}
    Browsers = {"b1"}
    PageLimit = 2
    StreamMax = 2
    MaxEvents = 3
    MaxFaults = 2
    Faults = {"lease", "crash", "outage", "rollback", "disconnect"}
INVARIANTS
    NoGap
    ClosedIsComplete
    MirrorInOrder
PROPERTIES
    FollowedStreamCloses
    EventsPublished
CHECK_DEADLOCK FALSE

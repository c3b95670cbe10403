SPECIFICATION FairSpec
CONSTANTS
    Attempts = {"a1", "a2"}
    Calls = {"search", "other"}
    AttemptOf <- CallOfAttempt
    SlotOf <- OneSlot
    KeyOf <- OwnKey
    Requests <- TwoRequests
    BucketOf <- OneBucket
    Buckets = {"search"}
    MaxConcurrency = 1
    Fragile = {"a1"}
    MaxTries = 2
    Limit = 2
    Days = 2
INVARIANTS
    QuotaAccounted
    ResultsRecorded
PROPERTY CallsEnd
CHECK_DEADLOCK FALSE

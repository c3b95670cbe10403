SPECIFICATION FairSpec
CONSTANTS
    Runs = {"run"}
    PublicRuns = {"run"}
    EvalRuns = {}
    Calls = {"c1", "c2"}
    RunOf <- OneRun
    Caps = {"agent"}
    CapOf <- AgentCap
    Resources = {"cost"}
    Cost = "cost"
    Estimate <- MCEstimate
    Usages <- PublicUsages
    RunMax <- WideMax
    CapMax <- ThreeEach
    EvalMax <- AnyMax
    DailyCap <- ThreePerDay
    MaxAttempts = 1
    Days = 2
    ManagementKey = FALSE
    Faults = {"crash", "slow", "midnight"}
INVARIANTS
    CapsHold
    DayWithinCap
PROPERTIES
    EverySettled
CHECK_DEADLOCK FALSE

SPECIFICATION Spec
INVARIANTS
    WorkflowHolds
    CoverageKept
    KnowledgeHolds
    ConfigurationHolds
    BudgetHolds
    ReportHolds
    RevocationHolds
    QueuesShareOut
    CallsFollowUp
    PlatformHolds
PROPERTIES
    HistoryKept
    SessionsSound
    ValidatedByNewest
CHECK_DEADLOCK FALSE

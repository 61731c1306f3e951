SPECIFICATION Spec
CONSTANTS
    None = None
    MaxRepairAttempts = 2
    RecursionLimit = 25
    MaxInvocations = 3
INVARIANTS
    RepairBudget
    RoutedOnFreshDiagnostics
    HonestReport
    AuditLogAgrees
    RepairHistoryReplays
    RecursionOnlyWhenExhausted
PROPERTY FreshThreadReports
CHECK_DEADLOCK FALSE

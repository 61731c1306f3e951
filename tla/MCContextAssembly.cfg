SPECIFICATION Spec
CONSTANTS
    Items <- MCItems
    Tokens <- MCTokens
    MaxSubmitted = 5
    MaxTokens = 4
    MaxAge = 10
    StalePriority = 60
    MaxItems = 3
    LongContext = 2
    SystemPriority = 100
    NoReport = NoReport
CHECK_DEADLOCK FALSE
INVARIANTS
    BudgetByPriority
    ReportAddsUp
    SystemInstructionsStay
    CrowdingCutsTheLowest

SPECIFICATION ApiSpec
CONSTANTS
    CallIds = {c1, c2}
    ToolNames = {known, unknown}
    Registered = {known}
    None = None
    MaxSteps = 2
    MaxToolRetries = 2
    MaxCalls = 2
    Pollers = {p1}
CHECK_DEADLOCK FALSE
INVARIANTS
    AnsweredInTurn
    FailureEndsRun
    TrajectoryAgrees
    RetryBudget
    TraceReplays
    PollsAgree
PROPERTY RunSettles

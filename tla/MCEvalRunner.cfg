SPECIFICATION Spec
CONSTANTS
    MaxSteps = 2
    BaselineSkills <- MCBaselineSkills
    Suites = {s1, s2}
    Tasks = {"backtest"}
    NumTrials = 2
    SkillTasks <- MCSkillTasks
    InitialConcurrency = 2
    Outcomes <- MCOutcomes
    NoResult = NoResult
CHECK_DEADLOCK FALSE
INVARIANTS
    SlotsAccounted
    BackoffCounts
    StreamTellsAll
    VerdictsAgree
PROPERTIES
    NewTrialsRespectTheLimit
    SuitesEnd

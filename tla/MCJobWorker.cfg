SPECIFICATION Spec
CONSTANTS
    Keys = {"k1", "k2"}
    NoKey = NoKey
    Requests <- MCRequests
    MaxAttempts = 2
    MaxRecords = 3
    MaxCancels = 1
    MaxStarts = 2
INVARIANTS
    OneTaskPerSubmission
    OutcomeMatchesPayload
    KeyRepeatsOnlyAfterLoss
PROPERTIES
    ImplementsContract
    EveryJobSettles
CHECK_DEADLOCK FALSE

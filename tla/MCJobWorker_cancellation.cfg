SPECIFICATION Spec
CONSTANTS
    Keys = {"k1", "k2"}
    NoKey = NoKey
    Requests <- MCRequests
    MaxAttempts = 2
    MaxRecords = 2
    MaxCancels = 2
    MaxStarts = 2
PROPERTY CancelledIsFinal
CHECK_DEADLOCK FALSE

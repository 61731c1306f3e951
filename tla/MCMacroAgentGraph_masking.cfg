SPECIFICATION Spec
CONSTANTS
    None = None
    MaxRepairAttempts = 2
    RecursionLimit = 25
    MaxInvocations = 3
INVARIANT ExecutionPassedValidation
CHECK_DEADLOCK FALSE

SPECIFICATION Spec
CONSTANTS
    Operations = {op}
    None = None
    MaxConcurrency = 2
    PoolSize = 2
    MaxCalls = 3
    MaxBatches = 2
    MaxBatchSize = 2
CHECK_DEADLOCK FALSE
INVARIANT CommittedOnce

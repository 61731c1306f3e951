SPECIFICATION Spec
CONSTANTS
    Callers = {c1, c2}
    MaxRequests = 2
    MaxStarts = 2
    MaxFrames = 2
CHECK_DEADLOCK FALSE
INVARIANT CallersAreReleased

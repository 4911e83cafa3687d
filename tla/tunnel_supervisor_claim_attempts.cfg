SPECIFICATION Spec
CONSTANTS
    Streams = {stdout, stderr}
    PipeBound = 1
    AttemptBound = 7
    InitialBackoff = 1
    MaxBackoff = 30
    StartMayFail = TRUE
    Cancellable = FALSE
INVARIANTS
    AttemptsLimited

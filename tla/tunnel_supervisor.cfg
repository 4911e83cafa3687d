SPECIFICATION FairSpec
CONSTANTS
    Streams = {stdout, stderr}
    PipeBound = 2
    AttemptBound = 7
    InitialBackoff = 1
    MaxBackoff = 30
    StartMayFail = TRUE
    Cancellable = TRUE
INVARIANTS
    TypeOK
    AttemptsDoNotOverlap
    ReadyIsTrue
    BackoffLaw
PROPERTIES
    ReadyReported
    NoAttemptHangs
    ImplementsContract

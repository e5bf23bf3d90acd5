SPECIFICATION Spec
CONSTANTS
    Events = {e1, e2}
    NoEvent = NoEvent
    Gone = Gone
    FailureThreshold = 2
    RecoveryTimeout = 1
    CallTimeout = 1
    RetryCount = 2
    UseGrpc = TRUE
    StubDefined = FALSE
    Convertible = {e1}
    Unfit = {e1}
    HttpReliable = {}
INVARIANTS
    OpensAfterFailures
CHECK_DEADLOCK FALSE

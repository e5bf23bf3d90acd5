SPECIFICATION FairSpec
CONSTANTS
    Events = {e1, e2}
    NoEvent = NoEvent
    Gone = Gone
    FailureThreshold = 2
    RecoveryTimeout = 1
    CallTimeout = 1
    RetryCount = 2
    UseGrpc = TRUE
    StubDefined = TRUE
    Convertible = {e1, e2}
    Unfit = {e1, e2}
    HttpReliable = {e1}
INVARIANTS
    OwnReply
    OkIsTruthful
    DeliveriesBounded
PROPERTIES
    NoRequestLoss
CHECK_DEADLOCK FALSE

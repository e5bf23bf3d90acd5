SPECIFICATION FairSpec
CONSTANTS
    Events = {e1, e2, e3}
    BatchSize = 2
    QueueSize = 2
INVARIANTS
    TypeOK
    Conservation
    AtMostOneRow
    CloseHandsOver
PROPERTIES
    DeliversAsPromised
    QueuedIsHandedOver
    CloseTerminates
CHECK_DEADLOCK FALSE

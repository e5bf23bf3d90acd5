SPECIFICATION Spec
CONSTANTS
    e1 = e1  e2 = e2  e3 = e3
    single = single  several = several  nothing = nothing
    Events <- MCEvents
    Requests <- MCRequests
    Batched = {several}
    Batch <- MCBatch
    Unfit = {e1, e3}
    BatchSize = 2
    QueueSize = 1
    Environments <- MCEnvironments
    Unset = Unset
    Identifiers = {"events"}
    DefaultTable = "event_analytics"
    DefaultBatch = 2
    DefaultQueue = 1
    DefaultFlush = 2
    MinBatch = 1
    MinQueue = 1
    MinFlush = 1
    Milli = 10
    MaxInteger = 127
    MaxCapacity = 10
INVARIANTS
    ExitClosesSink
CHECK_DEADLOCK FALSE

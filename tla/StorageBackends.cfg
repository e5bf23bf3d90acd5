SPECIFICATION Spec
CONSTANTS
    Nodes = {n1}
    Events = {e1, e2}
    Encodable = {e1, e2}
    MaxEvents = 2
    HistoryTtl = 1
INVARIANTS
    BackendsAgree

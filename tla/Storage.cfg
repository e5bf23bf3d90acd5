SPECIFICATION FairSpec
CONSTANTS
    Nodes = {n1, n2}
    Events = {e1, e2}
    Encodable = {e1, e2}
    MaxEvents = 1
    HistoryTtl = 1
INVARIANTS
    HistoryIsWindow
    StoredIsKept
PROPERTIES
    HistoryExpires
    KeepsHistory

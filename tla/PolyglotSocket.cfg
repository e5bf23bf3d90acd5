SPECIFICATION FairSpec
CONSTANTS
    Joins = {j1, j2, j3}
    MaxWire = 2
INVARIANTS
    OneConnection
    JoinedAfterAccepted
    PendingListens
PROPERTIES
    Reconnects
CHECK_DEADLOCK FALSE

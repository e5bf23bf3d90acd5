SPECIFICATION Spec
CONSTANTS
    Clients = {c1}
    Numbers = {1, 2}
    SendSize = 2
INVARIANTS
    PollsToLastSeen
CHECK_DEADLOCK FALSE

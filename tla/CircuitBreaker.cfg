SPECIFICATION FairSpec
CONSTANTS
    Callers = {c1, c2}
    Gone = Gone
    NoOne = NoOne
    FailureThreshold = 2
    RecoveryTimeout = 2
    CallTimeout = 1
    MailboxBound = 3
INVARIANTS
    CallsAnsweredTruly
    OpensOnFailures
    ProbeAfterQuietPeriod
PROPERTIES
    EveryCallEnds

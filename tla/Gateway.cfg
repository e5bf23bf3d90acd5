SPECIFICATION FairSpec
CONSTANTS
    n1 = n1  n2 = n2  s1 = s1  s2 = s2
    Nodes = {n1, n2}
    Subscribers = {s1, s2}
    NodeOf <- TwoNodes
    HttpEvents = {h1, h2}
    Admissible = {h1}
    SocketEvents = {w1}
    Http = Http
    Redis = Redis
    Readers = {s1}
INVARIANTS
    SentOnce
    AnsweredOrder
    MembersReached
    NoGap
PROPERTIES
    PublishAnswered
    KeepsTopic
CHECK_DEADLOCK FALSE

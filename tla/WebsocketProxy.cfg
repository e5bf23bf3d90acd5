SPECIFICATION FairSpec
CONSTANTS
    Clients = {c1}
    Numbers = {1, 2, 3}
    SendSize = 1
INVARIANTS
    TypeOK
    HeldWhileServed
    NeverBackwards
PROPERTIES
    EventArrives
    ClientForgotten
CHECK_DEADLOCK FALSE

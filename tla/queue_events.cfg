SPECIFICATION FairSpec
CONSTANTS
    Emitters = {e1}
    Pollers = {p1, p2, p3}
    MaxQueue = 3
    MaxEvents = 6
INVARIANTS
    TypeOK
    NoLostWakeup
PROPERTIES
    ImplementsStream
    WaiterIsServed

SPECIFICATION FairSpec
CONSTANTS
    Callers = {c1, c2}
    Worker = w
    NoThread = nobody
    MaxFrames = 2
INVARIANTS
    TypeOK
    RoundTripInv
PROPERTIES
    CallReturns

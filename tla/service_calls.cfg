SPECIFICATION FairSpec
CONSTANTS
    Worker = w
    Callers = {c1, c2}
    MaxStarts = 2
INVARIANTS
    TypeOK
    SoleCleaner
    ServiceInv
PROPERTIES
    LifecycleAlternates
    StopDetaches

SPECIFICATION Spec
CONSTANTS
    Worker = w
    Callers = {c1}
    MaxStarts = 1
INVARIANTS
    EnsureStopped

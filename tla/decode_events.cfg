SPECIFICATION Spec
CONSTANTS
    Ticks = {t1, t2}
    NoTick = none
    MaxFrames = 4
SYMMETRY TickSymmetry
INVARIANTS
    TypeOK
    InfoAnnounced
    SnapshotCatchesUp

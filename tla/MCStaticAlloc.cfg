SPECIFICATION Spec
CONSTANTS
    Task = {t1, t2, t3, t4}
    Caller = {c1, c2}
    None = None
    Base = 6
    Length = 14
    TaskCap = 2
    Layouts <- TaskLayouts
SYMMETRY Symmetry
INVARIANTS
    TypeOK
    BlocksDisjoint
    AlignedIfBaseIs
    SpawnedIsListed
CHECK_DEADLOCK FALSE

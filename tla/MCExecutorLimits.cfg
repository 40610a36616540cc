SPECIFICATION Spec
CONSTANTS
    Task = {t1, t2, t3, t4}
    Runner = {r1}
    Main = Main
    None = None
    TaskCap = 2
    ReadyCap = 1
    HeapCap = 3
    MaxAwaits = 1
    Endless = {}
    Drops = TRUE
    LateWakes = TRUE
    LongNames = TRUE
    Ordered = FALSE
SYMMETRY Symmetry
INVARIANTS
    TypeOK
CHECK_DEADLOCK FALSE

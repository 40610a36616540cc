SPECIFICATION Spec
CONSTANTS
    Task = {t1, t2, t3}
    Runner = {r1}
    Main = Main
    None = None
    TaskCap = 3
    ReadyCap = 2
    HeapCap = 3
    MaxAwaits = 1
    Endless = {}
    Drops = FALSE
    LateWakes = FALSE
    LongNames = FALSE
    Ordered = TRUE
INVARIANT SnapshotFits
CHECK_DEADLOCK FALSE

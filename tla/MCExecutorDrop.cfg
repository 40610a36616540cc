SPECIFICATION Spec
CONSTANTS
    Task = {t1, t2, t3}
    Runner = {r1}
    Main = Main
    None = None
    TaskCap = 3
    ReadyCap = 3
    HeapCap = 3
    MaxAwaits = 1
    Endless = {}
    Drops = TRUE
    LateWakes = FALSE
    LongNames = FALSE
    Ordered = TRUE
PROPERTY TerminatedIsFinal
CHECK_DEADLOCK FALSE

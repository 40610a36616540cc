SPECIFICATION Spec
CONSTANTS
    Task = {t1, t2}
    Runner = {r1, r2}
    Main = Main
    None = None
    TaskCap = 2
    ReadyCap = 2
    HeapCap = 2
    MaxAwaits = 1
    Endless = {}
    Drops = FALSE
    LateWakes = FALSE
    LongNames = FALSE
    Ordered = TRUE
INVARIANT PollIsExclusive
CHECK_DEADLOCK FALSE

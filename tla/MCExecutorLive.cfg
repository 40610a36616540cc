SPECIFICATION FairSpec
CONSTANTS
    Task = {t1, t2, t3}
    Runner = {r1}
    Main = Main
    None = None
    TaskCap = 3
    ReadyCap = 3
    HeapCap = 3
    MaxAwaits = 2
    Endless = {t1}
    Drops = FALSE
    LateWakes = FALSE
    LongNames = FALSE
    Ordered = TRUE
PROPERTIES
    EveryTaskTerminates
    JoinReturns
    
    ReadyIsPolled
CHECK_DEADLOCK FALSE

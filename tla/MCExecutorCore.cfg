SPECIFICATION Spec
CONSTANTS
    Task = {t1, t2, t3}
    Runner = {r1}
    Main = Main
    None = None
    TaskCap = 3
    ReadyCap = 3
    HeapCap = 3
    MaxAwaits = 2
    Endless = {}
    Drops = FALSE
    LateWakes = FALSE
    LongNames = FALSE
    Ordered = TRUE
SYMMETRY Symmetry
INVARIANTS
    NoLostWakeup
    ExitBeforeFlag
    SnapshotStaysReady
    NoPanic
    Inv
PROPERTIES
    TerminatedIsFinal
    ContractSpec
    EventProtocol
CHECK_DEADLOCK FALSE

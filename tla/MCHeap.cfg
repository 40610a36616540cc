SPECIFICATION FairSpec
CONSTANTS
    Word = 2
    Bottom = 3
    Length = 29
    Layouts <- MixedLayouts
    DoubleFrees = TRUE
INVARIANTS
    TypeOK
    ListSorted
    Tiled
    FreedHeapIsWhole
    NoAssertFails
PROPERTIES
    DoubleFreeCaught
    RefusedOnlyIfNoneFits
    ContractSpec
    CallsEnd
CHECK_DEADLOCK FALSE

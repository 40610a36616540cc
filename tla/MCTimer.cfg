SPECIFICATION FairSpec
CONSTANTS
    Clock = 100
    Scale = 12
    Half = 8
    Durations = {0, 1, 2, 3, 4, 5, 6, 7, 12, 13}
INVARIANTS
    TypeOK
    FiresOnTime
PROPERTIES
    InterruptAtEndOnly
    StartedFires
CHECK_DEADLOCK FALSE

SPECIFICATION FairSpec
CONSTANTS
    Task = {t1, t2, t3}
    None = None
    Slots = 2
    Durations = {0, 1, 2, 5}
    Longest = 3
    Timed = {}
    Prompt = FALSE
INVARIANTS
    TypeOK
    InterruptToCome
    SlotsOwned
PROPERTIES
    EventsSpec
    DelaysExpire
    EveryDelayEnds
CHECK_DEADLOCK FALSE

SPECIFICATION Spec
CONSTANTS
    Task = {ld1, ld2}
    None = None
    Slots = 2
    Durations = {2, 3}
    Longest = 3
    Timed = {ld1, ld2}
    Prompt = TRUE
INVARIANT NeverEarly
CHECK_DEADLOCK FALSE

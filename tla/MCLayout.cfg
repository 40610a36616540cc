SPECIFICATION Spec
CONSTANTS
    Width = 4
    Counts = {0, 1, 2, 3}
INVARIANTS
    RoundedUpFits
    NoPanic
    ErrIffTooLarge
    PartsInPlace

SPECIFICATION Spec
CONSTANTS
    Horizon = 4
    StaleAfter = 3
INVARIANTS
    BlockTimesAreIntervals

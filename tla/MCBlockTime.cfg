SPECIFICATION FairSpec
CONSTANTS
    Horizon = 4
    StaleAfter = 3
INVARIANTS
    TypeOK
    IntervalsUnlessPolled
    NoFalseAlarm
PROPERTIES
    StaleChainShown

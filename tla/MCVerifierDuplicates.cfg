SPECIFICATION Spec
CONSTANTS
    Workers = {w1, w2}
    Deliveries <- DuplicateDeliveries
    TxHeights = {1}
    Attempts = 2
    w1 = w1
    w2 = w2
SYMMETRY Symmetry
INVARIANTS
    MissingHasJob
    InflightIsExact
    CountedOncePerRound

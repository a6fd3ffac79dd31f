SPECIFICATION FairSpec
CONSTANTS
    Workers = {w1}
    Deliveries <- ThreeBlocks
    TxHeights = {}
    Attempts = 1
    w1 = w1
INVARIANTS
    DaHeightIsHighest
PROPERTIES
    EverythingSettles
    WorkersStop

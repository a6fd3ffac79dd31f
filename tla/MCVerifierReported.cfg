SPECIFICATION Spec
CONSTANTS
    Workers = {w1}
    Deliveries <- OneBlock
    TxHeights = {1}
    Attempts = 2
    w1 = w1
INVARIANT
    VerifiedNotReportedMissing

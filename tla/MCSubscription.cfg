SPECIFICATION FairSpec
CONSTANTS
    MaxHead = 4
    MaxDrops = 2
    MaxReorgs = 1
    HeaderCap = 1
    QueueCap = 1
    MaxBackfill = 1
    MaxBackoff = 1
INVARIANTS
    TypeOK
    GapLedger
    NoLeakedSubscription
PROPERTIES
    QuietAfterReturn
    DropNoticed
    GapsClose
    ShutdownReturns

SPECIFICATION PipelineSpec
CONSTANTS
    MaxHead = 3
    MaxDrops = 1
    MaxReorgs = 0
    HeaderCap = 1
    QueueCap = 2
    MaxBackfill = 1
    MaxBackoff = 1
    Workers = {w1}
    TxHeights = {}
    Attempts = 1
    Copies = 1
    w1 = w1
INVARIANTS
    NothingForgotten
PROPERTIES
    SilentAfterReturn

SPECIFICATION FairSpec
CONSTANTS
    Blocks <- MCBlocks
    Height <- MCHeight
    Prev <- MCPrev
    Confs <- MCUploadConfs
    Depth = 2
    ChanCap = 1
    MaxChanges = 1
    Ring = 4
    Ids = {1, 2, 3}
    Uploaders = 1
    MaxBatch = 2
    QueueLen = 2
    u1 = u1
    u2 = u2
    None = None
CHECK_DEADLOCK FALSE
INVARIANTS
    OnePlace
    BatchHeights
PROPERTIES
    UploadersEnd

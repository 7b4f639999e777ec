SPECIFICATION FairSpec
CONSTANTS
    Blocks <- MCBlocks
    Height <- MCHeight
    Prev <- MCPrev
    Confs <- MCConfs
    Depth = 2
    ChanCap = 1
    MaxChanges = 3
    Ring = 4
    Ids = {}
    Uploaders = 1
    MaxBatch = 2
    QueueLen = 1
    u1 = u1
    u2 = u2
    None = None
CHECK_DEADLOCK FALSE
INVARIANTS
    TypeOK
    InSync
    JobAtHeight
PROPERTIES
    Settles

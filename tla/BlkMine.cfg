SPECIFICATION BlkSpec
CONSTANTS
    Threads = {t1}
    Trees = {0, 1}
    Bufs = {b1, b2}
    HW <- OneHW
    StoreHW <- hwStore
    Blocks = {4, 5}
    SZ = 1
    MaxBatch = 1
    None = None
    Updater = updater
    Stats = stats
    Workers = {v1}
    Heights = {5, 6}
    MaxMining = 3
    MaxTarget = 36
SYMMETRY Symmetry
INVARIANTS
    MineTypeOK
    HeaderFitsIndex
    LastTreeIntact
PROPERTIES
    ImplementsStore

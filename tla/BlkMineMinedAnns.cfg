SPECIFICATION BlkSpec
CONSTANTS
    Threads = {t1}
    Trees = {0, 1}
    Bufs = {b1, b2, b3, b4}
    HW <- MCHW
    StoreHW <- hwStore
    Blocks = {4}
    SZ = 1
    MaxBatch = 1
    None = None
    Updater = updater
    Stats = stats
    Workers = {v1}
    Heights = {5}
    MaxMining = 2
    MaxTarget = 64
SYMMETRY Symmetry
INVARIANTS
    MinedAnnsIntact

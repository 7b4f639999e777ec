SPECIFICATION Spec
CONSTANTS
    Threads = {t1, t2}
    Trees = {k1}
    Bufs = {b1, b2}
    HW <- MCHW
    StoreHW <- hwStore
    Blocks = {5}
    SZ = 1
    MaxBatch = 2
    None = None
SYMMETRY Symmetry
INVARIANTS
    TypeOK
    BufOwnership
    ClaimsDisjoint
    SealedBufsPure
    AssertsHold
    ClassInUseIsLive
    LastTreeIntact

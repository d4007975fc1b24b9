\* The CFI configuration of vme_config.h: four pages compete for two frames.
SPECIFICATION Spec
CONSTANTS
    COLD_PAGES = 5
    WARM_PAGES = 2
    WARM_FETCH = TRUE
    WARM_CACHE = TRUE
    COLD_HASH = TRUE
    zeros = 0
    Data <- MCData
    AESCtr <- MCAESCtr
    XXH64 <- MCXXH64
INVARIANTS
    TypeOK
    QueueConsistent
    StuckInFront
    RefusedOnlyWhenAllStuck
    FramesConsistent
    ColdIntact
    NoHashMismatch
PROPERTIES
    ImplementsBlockStore
    StuckPagesStayPut
\* A spinning or crashed enclave takes no further step.
CHECK_DEADLOCK FALSE

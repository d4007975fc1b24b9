\* A sort spills to a temporary file.
SPECIFICATION SorterSpec
CONSTANTS
    COLD_PAGES = 4
    WARM_PAGES = 2
    WARM_FETCH = TRUE
    WARM_CACHE = TRUE
    COLD_HASH = TRUE
    zeros = 0
    Data <- MCData
    AESCtr <- MCAESCtr
    XXH64 <- MCXXH64
    Handles = {h1, h2}
    Modified = {1, 2}
    SHARED = FALSE
INVARIANT EngineNeverHalts
SYMMETRY Symmetry
\* A halted enclave takes no further step.
CHECK_DEADLOCK FALSE

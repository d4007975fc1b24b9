\* Pages of 2 or 8 KiB: the size of the buffer overflows to one that fits an int.
SPECIFICATION VfsSpec
CONSTANTS
    PoolPages <- MCOnePage
    Data <- MCOneData
    zeros = 0
    MAIN = "db"
    TempFiles = {"journal"}
    junk = junk
    hole = hole
    INT_LIMIT = 16
    MaxBlocks = 13
INVARIANT BufferCoversFile
\* A halted enclave takes no further step.
CHECK_DEADLOCK FALSE

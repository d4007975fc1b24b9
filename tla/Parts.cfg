\* A database of two pages and a journal whose buffer grows once; the queue as a
\* list and without mappings; the programs that open databases.
SPECIFICATION MCSpec
CONSTANTS
    PoolPages <- MCPages
    Data <- MCData
    zeros = 0
    MAIN = "db"
    TempFiles = {"journal"}
    junk = junk
    hole = hole
    INT_LIMIT = 32
    MaxBlocks = 3
    \* Five pages compete for four nodes, so that front, middle and rear differ.
    COLD_PAGES = 5
    WARM_PAGES = 4
    WARM_FETCH = FALSE
    MAPPING = TRUE
    Builds <- MCBuilds
    Rounds = 3
    Buffers = {1, 2, 3, 4}
    \* One SELECT besides the statement that writes; two savepoints, so that one
    \* of them may have begun the transaction; two rows per statement, so that
    \* one may stop half-way.
    Readers = {s}
    Names = {a, b}
    Parents = {p}
    Immediate = {i}
    Deferred = {d}
    Parent <- MCParent
    MaxSavepoints = 2
    MaxRows = 2
    FailOnViolation = FALSE
SYMMETRY Symmetry
INVARIANTS
    VfsTypeOK
    BufferCoversFile
    ListTypeOK
    DoublyLinked
    ArrayLeadsToNodes
    KeepsMostRecent
    BuffersFreedOnce
    OpenDatabaseUsable
    CountersAgree
    DeferredCountExact
    ReferencesHold
PROPERTIES
    ImplementsSqliteFiles
    ImplementsPageQueue
    ImplementsTransactions
\* A halted enclave takes no further step.
CHECK_DEADLOCK FALSE

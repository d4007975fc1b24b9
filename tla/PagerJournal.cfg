\* Transactions on three pages, and on two pages with nested savepoints.
SPECIFICATION PagerJournalSpec
CONSTANTS
    z = z
    a = a
    Data <- MCData
    zeros = z
    junk = junk
    hole = hole
    Bounds <- MCBounds
INVARIANTS JournalTypeOK ReadsAsWritten WriteAhead DbFileSizeExact
PROPERTIES ImplementsPageTransactions
\* An enclave that reports an intrusion spins.
CHECK_DEADLOCK FALSE

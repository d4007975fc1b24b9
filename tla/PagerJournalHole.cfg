\* The report of an intrusion where there was none.
SPECIFICATION PagerJournalSpec
CONSTANTS
    z = z
    a = a
    Data <- MCData
    zeros = z
    junk = junk
    hole = hole
    Bounds <- MCHoleBounds
INVARIANTS NoFalseIntrusion
\* An enclave that reports an intrusion spins.
CHECK_DEADLOCK FALSE
